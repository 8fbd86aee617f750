------------------------------ MODULE StoreProofs ------------------------------
(***************************************************************************)
(* Proofs about the shop's services, for any catalogue, any customers and  *)
(* users, and any values of the bounds.                                    *)
(*                                                                         *)
(* The second part shows that they implement the stock ledger: it keeps    *)
(* its audit trail, what is on file is kept, and the receipts explain the  *)
(* movements.                                                              *)
(***************************************************************************)
EXTENDS StoreProperties, FiniteSetTheorems, SequenceTheorems, TLAPS

\* The bounds are natural numbers.
LEMMA Bounds ==
    /\ MaxQuantity \in Nat /\ MaxLines \in Nat /\ MaxMoney \in Nat /\ MaxSales \in Nat
    /\ MaxExchanges \in Nat /\ MaxPurchases \in Nat /\ MaxMovements \in Nat
BY StoreAssumption

\* The lines of an exchange are a sequence of trades (ExchangeLine rows,
\* exchange_service.py).
LEMMA TradesAreLines ==
    ASSUME NEW lines \in Trades
    PROVE  lines \in Seq(Trade)
BY DEF Trades

\* What the lines of an exchange return and issue are quantities of products.
LEMMA LineQuantities ==
    ASSUME NEW lines \in Trades
    PROVE  /\ ReturnedBy(lines) \in [Products -> Nat]
           /\ IssuedBy(lines) \in [Products -> Nat]
<1>1. lines \in Seq(Trade)
  BY TradesAreLines
<1>2. \A t \in Trade : t.originalQuantity \in Nat /\ t.replacementQuantity \in Nat
  BY Bounds DEF Trade
<1>3. \A i \in 1 .. Len(lines) : lines[i] \in Trade
  BY <1>1
<1> QED
  BY <1>2, <1>3 DEF ReturnedBy, IssuedBy

\* The rows that an exchange books for a product are movements, when none of
\* them takes the product below zero.
LEMMA ExchangeRowsAreMovements ==
    ASSUME TypeOK,
           NEW lines \in Trades, NEW p \in Products, NEW e \in Nat,
           \A i \in 1 .. Len(ExchangeRows(lines, p, e)) : ExchangeRows(lines, p, e)[i].new >= 0
    PROVE  ExchangeRows(lines, p, e) \in Seq(Movement)
<1> DEFINE returned == ReturnedBy(lines)[p]
           issued   == IssuedBy(lines)[p]
           Back(q)  == IF returned = 0 THEN <<>> ELSE <<Row(q, returned, "EXCHANGE", e)>>
           Out(q)   == IF issued = 0 THEN <<>> ELSE <<Row(q, -issued, "EXCHANGE", e)>>
<1>1. returned \in Nat /\ issued \in Nat /\ quantity[p] \in Nat
  BY LineQuantities DEF TypeOK
<1>2. \A q \in Nat : \A change \in Int :
         q + change >= 0 => Row(q, change, "EXCHANGE", e) \in Movement
  BY DEF Row, Movement, Labels, ReferenceTypes
<1>3. CASE ReturnsFirst(lines, p)
  <2>1. ExchangeRows(lines, p, e) = Back(quantity[p]) \o Out(quantity[p] + returned)
    BY <1>3 DEF ExchangeRows
  <2> QED
    BY <1>1, <1>2, <2>1 DEF Row
<1>4. CASE ~ReturnsFirst(lines, p)
  <2>1. ExchangeRows(lines, p, e) = Out(quantity[p]) \o Back(quantity[p] - issued)
    BY <1>4 DEF ExchangeRows
  <2> QED
    BY <1>1, <1>2, <2>1 DEF Row
<1> QED
  BY <1>3, <1>4

\* Two rows in sequence.
LEMMA TwoRows ==
    ASSUME NEW a, NEW b
    PROVE  /\ Len(<<a>> \o <<b>>) = 2
           /\ (<<a>> \o <<b>>)[1] = a /\ (<<a>> \o <<b>>)[2] = b
OBVIOUS

\* ... and they leave it with what was there, plus what came back, minus what
\* went out: never less than nothing.
LEMMA ExchangeStaysOnShelf ==
    ASSUME TypeOK,
           NEW lines \in Trades, NEW p \in Products, NEW e \in Nat,
           \A i \in 1 .. Len(ExchangeRows(lines, p, e)) : ExchangeRows(lines, p, e)[i].new >= 0
    PROVE  quantity[p] + (ReturnedBy(lines)[p] - IssuedBy(lines)[p]) >= 0
<1> DEFINE returned == ReturnedBy(lines)[p]
           issued   == IssuedBy(lines)[p]
           q        == quantity[p]
           rows     == ExchangeRows(lines, p, e)
<1>1. returned \in Nat /\ issued \in Nat /\ q \in Nat
  BY LineQuantities DEF TypeOK
<1>2. CASE issued = 0
  BY <1>1, <1>2
<1>3. CASE issued # 0 /\ returned = 0
  <2>1. rows = <<Row(q, -issued, "EXCHANGE", e)>>
    BY <1>1, <1>3 DEF ExchangeRows
  <2> QED BY <1>1, <1>3, <2>1 DEF Row
<1>4. CASE issued # 0 /\ returned # 0 /\ ReturnsFirst(lines, p)
  <2> DEFINE a == Row(q, returned, "EXCHANGE", e)
             b == Row(q + returned, -issued, "EXCHANGE", e)
  <2>1. rows = <<a>> \o <<b>>
    BY <1>4 DEF ExchangeRows
  <2>2. b.new = q + returned - issued
    BY <1>1 DEF Row
  <2> HIDE DEF a, b, rows
  <2>3. rows[2] = b /\ 2 \in 1 .. Len(rows)
    BY <2>1, TwoRows
  <2>4. rows[2].new >= 0
    BY <2>3 DEF rows
  <2> QED BY <1>1, <2>2, <2>3, <2>4
<1>5. CASE issued # 0 /\ returned # 0 /\ ~ReturnsFirst(lines, p)
  <2> DEFINE a == Row(q, -issued, "EXCHANGE", e)
             b == Row(q - issued, returned, "EXCHANGE", e)
  <2>1. rows = <<a>> \o <<b>>
    BY <1>5 DEF ExchangeRows
  <2>2. b.new = q - issued + returned
    BY <1>1 DEF Row
  <2> HIDE DEF a, b, rows
  <2>3. rows[2] = b /\ 2 \in 1 .. Len(rows)
    BY <2>1, TwoRows
  <2>4. rows[2].new >= 0
    BY <2>3 DEF rows
  <2> QED BY <1>1, <2>2, <2>3, <2>4
<1> QED
  BY <1>2, <1>3, <1>4, <1>5

\* Movements booked by change_stock leave quantities and rows well typed.
LEMMA ChangeStockTypes ==
    ASSUME TypeOK,
           NEW STATE moved, NEW STATE change, NEW type \in ReferenceTypes, NEW ref \in Nat,
           change \in [Products -> Int],
           ChangeStock(moved, change, type, ref)
    PROVE  /\ quantity' \in [Products -> Nat]
           /\ log' \in [Products -> Seq(Movement)]
<1>1. \A p \in moved \cap Products :
         Row(quantity[p], change[p], type, ref) \in Movement
  BY DEF Row, Movement, Labels, ChangeStock, InStock, TypeOK
<1>2. log' \in [Products -> Seq(Movement)]
  BY <1>1 DEF ChangeStock, TypeOK
<1>3. quantity' \in [Products -> Nat]
  BY DEF ChangeStock, InStock, TypeOK
<1> QED
  BY <1>2, <1>3

\* Adding up quantities gives quantities.
LEMMA PlusType ==
    ASSUME NEW STATE a, NEW STATE b
    PROVE  /\ a \in [Products -> Int] /\ b \in [Products -> Int] => Plus(a, b) \in [Products -> Int]
           /\ a \in [Products -> Nat] /\ b \in [Products -> Nat] => Plus(a, b) \in [Products -> Nat]
BY DEF Plus

\* A new product keeps the types.
LEMMA CreateProductType ==
    ASSUME TypeOK, NEW user \in Users, NEW p \in Products, NEW selling \in Prices,
           NEW costing \in Costs, NEW opening \in 0 .. MaxQuantity,
           CreateProduct(user, p, selling, costing, opening)
    PROVE  TypeOK'
<1>1. selling \in Nat /\ costing \in Nat /\ opening \in Nat
  BY StoreAssumption, Bounds
<1>2. queued' \in Queued
  <2>1. [queued.stock EXCEPT ![p] = @ + opening] \in [Products -> Int]
    BY <1>1 DEF TypeOK, Queued
  <2>2. [queued.product EXCEPT ![p] = [selling |-> selling, cost |-> costing, isActive |-> TRUE]]
            \in [Products -> [selling: Nat, cost: Nat, isActive: BOOLEAN]]
    BY <1>1 DEF TypeOK, Queued
  <2>3. queued' = [queued EXCEPT
            !.stock = [queued.stock EXCEPT ![p] = @ + opening],
            !.product = [queued.product EXCEPT
                ![p] = [selling |-> selling, cost |-> costing, isActive |-> TRUE]]]
    BY DEF CreateProduct, TypeOK, Queued
  <2> QED BY <2>1, <2>2, <2>3 DEF TypeOK, Queued
<1> QED
  BY <1>1, <1>2 DEF CreateProduct, TypeOK, creditVars

\* A changed product keeps the types.
LEMMA UpdateProductType ==
    ASSUME TypeOK, NEW user \in Users, NEW p \in Products, NEW selling \in Prices,
           NEW costing \in Costs, NEW new \in {quantity[p]} \cup (0 .. MaxQuantity),
           NEW nowActive \in BOOLEAN,
           UpdateProduct(user, p, selling, costing, new, nowActive)
    PROVE  TypeOK'
<1>1. selling \in Nat /\ costing \in Nat /\ new \in Nat
  BY StoreAssumption, Bounds DEF TypeOK
<1>2. queued' \in Queued
  BY <1>1 DEF UpdateProduct, TypeOK, Queued
<1>3. active' \subseteq stocked'
  BY DEF UpdateProduct, TypeOK
<1> QED
  BY <1>1, <1>2, <1>3 DEF UpdateProduct, TypeOK, creditVars

\* A restock keeps the types.
LEMMA StockInType ==
    ASSUME TypeOK, NEW user \in Users, NEW p \in Products, NEW added \in 1 .. MaxQuantity,
           StockIn(user, p, added)
    PROVE  TypeOK'
<1> DEFINE change == [NoStock EXCEPT ![p] = added]
<1>1. change \in [Products -> Int] /\ added \in Int
  BY Bounds DEF NoStock
<1>2. ChangeStock({p}, change, "STOCK_IN", 0)
  BY DEF StockIn
<1>3. quantity' \in [Products -> Nat] /\ log' \in [Products -> Seq(Movement)]
  <2> HIDE DEF change
  <2> QED BY <1>1, <1>2, ChangeStockTypes DEF ReferenceTypes
<1>4. queued' \in Queued
  <2>1. queued' = [queued EXCEPT !.stock = Plus(queued.stock, change)]
    BY DEF StockIn, QueuedStock
  <2> HIDE DEF change
  <2>2. Plus(queued.stock, change) \in [Products -> Int]
    BY <1>1, PlusType DEF TypeOK, Queued
  <2> QED BY <2>1, <2>2 DEF TypeOK, Queued
<1> QED
  BY <1>3, <1>4 DEF StockIn, TypeOK, catalogueVars, creditVars

\* A stock adjustment keeps the types.
LEMMA AdjustType ==
    ASSUME TypeOK, NEW user \in Users, NEW p \in Products, NEW new \in 0 .. MaxQuantity,
           Adjust(user, p, new)
    PROVE  TypeOK'
<1> DEFINE change == [NoStock EXCEPT ![p] = new - quantity[p]]
<1>1. change \in [Products -> Int]
  BY Bounds DEF NoStock, TypeOK
<1>2. /\ ChangeStock({p}, change, "STOCK_ADJUSTMENT", 0)
      /\ queued' = [queued EXCEPT !.stock = Plus(@, change)]
  BY DEF Adjust, QueuedStock
<1>3. /\ quantity' \in [Products -> Nat] /\ log' \in [Products -> Seq(Movement)]
      /\ queued' \in Queued
  <2> HIDE DEF change
  <2>1. Plus(queued.stock, change) \in [Products -> Int]
    BY <1>1, PlusType DEF TypeOK, Queued
  <2>2. queued' \in Queued
    BY <1>2, <2>1 DEF TypeOK, Queued
  <2> QED BY <1>1, <1>2, <2>2, ChangeStockTypes DEF ReferenceTypes
<1> QED
  BY <1>3 DEF Adjust, TypeOK, catalogueVars, creditVars

\* A purchase keeps the types.
LEMMA CompletePurchaseType ==
    ASSUME TypeOK, NEW user \in Users, NEW items \in Lines, NEW unitCost \in [Products -> Costs],
           CompletePurchase(user, items, unitCost)
    PROVE  TypeOK'
<1>1. items \in [Products -> Int] /\ unitCost \in [Products -> Nat]
  <2>1. \A p \in Products : items[p] \in Int
    BY Bounds DEF Lines
  <2>2. \A p \in Products : unitCost[p] \in Nat
    BY StoreAssumption
  <2> QED BY <2>1, <2>2 DEF Lines
<1>2. purchases' \in Nat
  BY DEF CompletePurchase, TypeOK
<1>3. quantity' \in [Products -> Nat] /\ log' \in [Products -> Seq(Movement)]
  <2>1. ChangeStock(Named(items), items, "STOCK_IN", purchases + 1)
    BY DEF CompletePurchase
  <2>2. purchases + 1 \in Nat
    BY DEF TypeOK
  <2> QED BY <1>1, <2>1, <2>2, ChangeStockTypes DEF ReferenceTypes
<1>4. Plus(queued.stock, items) \in [Products -> Int]
  BY <1>1, PlusType DEF TypeOK, Queued
<1>5. queued' \in Queued
  BY <1>4 DEF CompletePurchase, QueuedStock, TypeOK, Queued
<1>6. cost' \in [Products -> Nat]
  BY <1>1 DEF CompletePurchase, TypeOK
<1> QED
  BY <1>2, <1>3, <1>5, <1>6 DEF CompletePurchase, TypeOK, creditVars

\* What a sale, a cancellation or an exchange queues is well typed.
LEMMA QueuedType ==
    ASSUME TypeOK, NEW STATE stock, NEW STATE credit, NEW STATE status,
           stock \in [Products -> Int], credit \in [Customers -> Int],
           status \in Seq({"COMPLETED", "CANCELLED"})
    PROVE  [queued EXCEPT !.stock = stock, !.credit = credit, !.status = status] \in Queued
BY DEF TypeOK, Queued

\* A document's lines are quantities.
LEMMA LinesType ==
    ASSUME NEW items \in Lines
    PROVE  /\ items \in [Products -> Nat] /\ items \in [Products -> Int]
           /\ [p \in Products |-> -items[p]] \in [Products -> Int]
<1>1. \A p \in Products : items[p] \in Nat
  BY Bounds DEF Lines
<1> QED
  BY <1>1 DEF Lines

\* A sequence stays one of its kind when an element is replaced.
LEMMA SeqExcept ==
    ASSUME NEW S, NEW q \in Seq(S), NEW i, NEW v \in S
    PROVE  /\ [q EXCEPT ![i] = v] \in Seq(S)
           /\ Len([q EXCEPT ![i] = v]) = Len(q)
<1> DEFINE r == [q EXCEPT ![i] = v]
<1>1. q \in [1 .. Len(q) -> S]
  OBVIOUS
<1>2. r \in [1 .. Len(q) -> S]
  BY <1>1, Zenon
<1> QED
  BY <1>2

\* The parts of a receipt on file.
LEMMA SaleParts ==
    ASSUME TypeOK, NEW s \in 1 .. Len(sales)
    PROVE  /\ sales[s] \in Sale /\ sales[s].customer \in Customers
           /\ sales[s].items \in Lines /\ sales[s].total \in Nat
           /\ sales[s].returned \in [Products -> Nat]
           /\ sales[s].status \in {"COMPLETED", "CANCELLED"}
           /\ s \in Nat
<1>1. sales \in Seq(Sale)
  BY DEF TypeOK
<1>2. sales[s] \in Sale
  BY <1>1
<1> QED
  BY <1>2 DEF Sale

\* A sale keeps the types.
LEMMA CompleteSaleType ==
    ASSUME TypeOK, NEW user \in Users, NEW c \in Customers, NEW items \in Lines,
           NEW method \in PaymentMethods, NEW discount \in 0 .. MaxMoney,
           CompleteSale(user, c, items, method, discount)
    PROVE  TypeOK'
<1> DEFINE receipt == Len(sales) + 1
           total   == Subtotal(items) - discount
           sale    == [customer |-> c, items |-> items, method |-> method, total |-> total,
                       unit |-> [p \in Products |-> IF items[p] > 0 THEN price[p] ELSE 0],
                       status |-> "COMPLETED", returned |-> NoLines]
           sold    == [p \in Products |-> -items[p]]
           paid    == CreditPaid(sale)
           credit  == [queued.credit EXCEPT ![c] = @ - paid]
           stock   == Plus(queued.stock, sold)
           status  == Append(queued.status, "COMPLETED")
<1>1. /\ total \in Nat
      /\ sales' = Append(sales, sale)
      /\ spent' = [spent EXCEPT ![c] = @ + paid]
      /\ ChangeStock(Named(items), sold, "SALE", receipt)
      /\ queued' = [queued EXCEPT !.stock = stock, !.credit = credit, !.status = status]
  BY Bounds DEF CompleteSale, QueuedStock, TypeOK, Queued
<1>2. sold \in [Products -> Int] /\ receipt \in Nat
  BY LinesType DEF TypeOK
<1>3. sale \in Sale
  <2>1. [p \in Products |-> IF items[p] > 0 THEN price[p] ELSE 0] \in [Products -> Nat]
    BY DEF TypeOK
  <2>2. NoLines \in [Products -> Nat]
    BY DEF NoLines
  <2> QED BY <1>1, <2>1, <2>2 DEF Sale
<1>4. paid \in Nat
  BY <1>1 DEF CreditPaid
<1>5. credit \in [Customers -> Int] /\ spent' \in [Customers -> Nat]
  <2> HIDE DEF paid
  <2> QED BY <1>1, <1>4 DEF TypeOK, Queued
<1>6. /\ quantity' \in [Products -> Nat] /\ log' \in [Products -> Seq(Movement)]
      /\ sales' \in Seq(Sale)
      /\ queued' \in Queued
  <2>1. status \in Seq({"COMPLETED", "CANCELLED"})
    BY DEF TypeOK, Queued
  <2> HIDE DEF sold, receipt, sale, total, paid, credit, status
  <2>2. stock \in [Products -> Int]
    BY <1>2, PlusType DEF TypeOK, Queued
  <2>3. quantity' \in [Products -> Nat] /\ log' \in [Products -> Seq(Movement)]
    BY <1>1, <1>2, ChangeStockTypes DEF ReferenceTypes
  <2>4. sales' \in Seq(Sale)
    BY <1>1, <1>3 DEF TypeOK
  <2> HIDE DEF stock
  <2> QED BY <1>1, <1>5, <2>1, <2>2, <2>3, <2>4, QueuedType
<1> QED
  BY <1>5, <1>6 DEF CompleteSale, TypeOK, catalogueVars

\* A cancellation keeps the types.
LEMMA CancelSaleType ==
    ASSUME TypeOK, NEW user \in Users, NEW s \in 1 .. Len(sales), CancelSale(user, s)
    PROVE  TypeOK'
<1> DEFINE sale   == sales[s]
           items  == sale.items
           stock  == Plus(queued.stock, items)
           refund == Refund(sale)
           credit == [queued.credit EXCEPT ![sale.customer] = @ + refund]
           status == [queued.status EXCEPT ![s] = "CANCELLED"]
<1>1. /\ sale \in Sale /\ sale.customer \in Customers /\ items \in Lines /\ sale.total \in Nat
      /\ s \in Nat
  BY SaleParts
<1>2. /\ sales' = [sales EXCEPT ![s].status = "CANCELLED"]
      /\ ChangeStock(Named(items), items, "SALE_CANCELLED", s)
      /\ granted' = [granted EXCEPT ![sale.customer] = @ + refund]
      /\ queued' = [queued EXCEPT !.stock = stock, !.credit = credit, !.status = status]
  BY DEF CancelSale, QueuedStock, QueuedStatus, TypeOK, Queued
<1>3. sales' \in Seq(Sale)
  <2>1. [sale EXCEPT !.status = "CANCELLED"] \in Sale
    BY <1>1 DEF Sale
  <2> QED BY <1>2, <2>1 DEF TypeOK
<1>4. refund \in Nat
  BY <1>1 DEF Refund, CreditPaid
<1>5. credit \in [Customers -> Int] /\ granted' \in [Customers -> Nat]
  <2>1. queued.credit \in [Customers -> Int] /\ granted \in [Customers -> Nat]
    BY DEF TypeOK, Queued
  <2> HIDE DEF refund
  <2> QED BY <1>1, <1>2, <1>4, <2>1
<1>6. status \in Seq({"COMPLETED", "CANCELLED"})
  BY SeqExcept DEF TypeOK, Queued
<1>7. /\ quantity' \in [Products -> Nat] /\ log' \in [Products -> Seq(Movement)]
      /\ queued' \in Queued
  <2> HIDE DEF items, refund, credit, status
  <2>1. items \in [Products -> Int]
    BY <1>1, Bounds DEF Lines
  <2>2. stock \in [Products -> Int]
    BY <2>1, PlusType DEF TypeOK, Queued
  <2>3. quantity' \in [Products -> Nat] /\ log' \in [Products -> Seq(Movement)]
    BY <1>1, <1>2, <2>1, ChangeStockTypes DEF ReferenceTypes
  <2> HIDE DEF stock
  <2> QED BY <1>2, <1>5, <1>6, <2>2, <2>3, QueuedType
<1> QED
  BY <1>3, <1>5, <1>7 DEF CancelSale, TypeOK, catalogueVars

\* An exchange keeps the types.
LEMMA CompleteExchangeType ==
    ASSUME TypeOK, NEW user \in Users, NEW s \in 1 .. Len(sales), NEW lines \in Trades,
           NEW late \in BOOLEAN, NEW override \in BOOLEAN,
           CompleteExchange(user, s, lines, late, override)
    PROVE  TypeOK'
<1> DEFINE e          == Len(exchanges) + 1
           sale       == sales[s]
           returned   == ReturnedBy(lines)
           net        == [p \in Products |-> returned[p] - IssuedBy(lines)[p]]
           difference == Difference(sale, lines)
           stock      == Plus(queued.stock, net)
           owed       == CreditOwed(difference)
           credit     == [queued.credit EXCEPT ![sale.customer] = @ + owed]
<1>1. /\ sale \in Sale /\ sale.customer \in Customers /\ sale.returned \in [Products -> Nat]
      /\ e \in Nat /\ s \in Nat
  BY SaleParts DEF TypeOK
<1>2. difference \in Int /\ owed \in Nat
  BY Bounds DEF CompleteExchange, CreditOwed
<1>3. returned \in [Products -> Nat] /\ net \in [Products -> Int]
  BY LineQuantities
<1>4. sales' \in Seq(Sale)
  <2>1. Plus(sale.returned, returned) \in [Products -> Nat]
    BY <1>1, <1>3 DEF Plus
  <2>2. [sale EXCEPT !.returned = Plus(sale.returned, returned)] \in Sale
    BY <1>1, <2>1 DEF Sale
  <2>3. sales' = [sales EXCEPT ![s] = [sale EXCEPT !.returned = Plus(sale.returned, returned)]]
    BY DEF CompleteExchange, TypeOK
  <2> QED BY <2>2, <2>3 DEF TypeOK
<1>5. exchanges' \in Seq(Exchange)
  <2>1. exchanges' = Append(exchanges, [sale |-> s, difference |-> difference,
                                        override |-> override])
    BY DEF CompleteExchange
  <2> QED BY <1>1, <1>2, <2>1 DEF Exchange, TypeOK
<1>6. granted' \in [Customers -> Nat]
  <2>1. granted' = [granted EXCEPT ![sale.customer] = @ + owed]
    BY DEF CompleteExchange
  <2> HIDE DEF owed, sale
  <2> QED BY <1>1, <1>2, <2>1 DEF TypeOK
<1>7. log' \in [Products -> Seq(Movement)]
  <2>1. \A p \in Products : ExchangeRows(lines, p, e) \in Seq(Movement)
    BY <1>1, ExchangeRowsAreMovements DEF CompleteExchange
  <2>2. log' = [p \in Products |-> log[p] \o ExchangeRows(lines, p, e)]
    BY DEF CompleteExchange
  <2> QED BY <2>1, <2>2 DEF TypeOK
<1>8. quantity' \in [Products -> Nat]
  <2>1. \A p \in Products : quantity[p] + net[p] \in Nat
    <3> SUFFICES ASSUME NEW p \in Products PROVE quantity[p] + net[p] >= 0
      BY <1>3 DEF TypeOK
    <3> DEFINE back == returned[p]
               out  == IssuedBy(lines)[p]
               rows == ExchangeRows(lines, p, e)
    <3>1. back \in Nat /\ out \in Nat /\ quantity[p] \in Nat
      BY LineQuantities DEF TypeOK
    <3>2. \A i \in 1 .. Len(rows) : rows[i].new >= 0
      BY DEF CompleteExchange
    <3> QED BY <3>1, <3>2, <1>1, ExchangeStaysOnShelf
  <2>2. quantity' = Plus(quantity, net)
    BY DEF CompleteExchange
  <2> QED BY <2>1, <2>2 DEF Plus
<1>9. queued' \in Queued
  <2>1. queued' = [queued EXCEPT !.stock = stock, !.credit = credit, !.status = queued.status]
    BY DEF CompleteExchange, QueuedStock, TypeOK, Queued
  <2> HIDE DEF net
  <2>2. stock \in [Products -> Int]
    BY <1>3, PlusType DEF TypeOK, Queued
  <2> HIDE DEF owed, sale
  <2>3. credit \in [Customers -> Int]
    BY <1>1, <1>2 DEF TypeOK, Queued
  <2>4. queued.status \in Seq({"COMPLETED", "CANCELLED"})
    BY DEF TypeOK, Queued
  <2> HIDE DEF stock, credit
  <2> QED BY <2>1, <2>2, <2>3, <2>4, QueuedType
<1> QED
  BY <1>4, <1>5, <1>6, <1>7, <1>8, <1>9 DEF CompleteExchange, TypeOK, catalogueVars

-------------------------------------------------------------------------------

\* Whatever the services are called with, every table keeps its type: no
\* quantity goes below zero, no document is worth a negative amount, and only
\* registered products are for sale.
THEOREM TypeCorrect == Spec => []TypeOK
<1>1. Init => TypeOK
  BY DEF Init, TypeOK, Queued
<1>2. TypeOK /\ [Next]_vars => TypeOK'
  <2> SUFFICES ASSUME TypeOK, [Next]_vars PROVE TypeOK'
    OBVIOUS
  <2>1. CASE UNCHANGED vars
    BY <2>1 DEF vars, catalogueVars, stockVars, creditVars, TypeOK
  <2>2. ASSUME NEW user \in Users, CatalogueStep(user) PROVE TypeOK'
    <3>1. ASSUME NEW p \in Products, DeactivateProduct(user, p) \/ ActivateProduct(user, p)
          PROVE  TypeOK'
      BY <3>1 DEF DeactivateProduct, ActivateProduct, TypeOK, stockVars, creditVars
    <3> QED BY <2>2, <3>1, CreateProductType, UpdateProductType DEF CatalogueStep
  <2>3. ASSUME NEW user \in Users, StockStep(user) PROVE TypeOK'
    BY <2>3, StockInType, AdjustType, CompletePurchaseType DEF StockStep
  <2>4. ASSUME NEW user \in Users, SaleStep(user) PROVE TypeOK'
    BY <2>4, CompleteSaleType, CancelSaleType DEF SaleStep
  <2>5. ASSUME NEW user \in Users, ExchangeStep(user) PROVE TypeOK'
    BY <2>5, CompleteExchangeType DEF ExchangeStep
  <2> QED BY <2>1, <2>2, <2>3, <2>4, <2>5 DEF Next
<1> QED
  BY <1>1, <1>2, PTL DEF Spec

-------------------------------------------------------------------------------

\* Work on the catalogue leaves documents, movements and credit alone.
LEMMA CatalogueLeaves ==
    ASSUME NEW user \in Users, CatalogueStep(user)
    PROVE  UNCHANGED <<log, sales, exchanges, purchases, granted, spent>>
<1>1. ASSUME NEW p, NEW selling, NEW costing, NEW opening, CreateProduct(user, p, selling, costing, opening)
      PROVE  UNCHANGED <<log, sales, exchanges, purchases, granted, spent>>
  BY <1>1 DEF CreateProduct, creditVars
<1>2. ASSUME NEW p, NEW selling, NEW costing, NEW new, NEW nowActive,
             UpdateProduct(user, p, selling, costing, new, nowActive)
      PROVE  UNCHANGED <<log, sales, exchanges, purchases, granted, spent>>
  BY <1>2 DEF UpdateProduct, creditVars
<1>3. ASSUME NEW p, DeactivateProduct(user, p) \/ ActivateProduct(user, p)
      PROVE  UNCHANGED <<log, sales, exchanges, purchases, granted, spent>>
  BY <1>3 DEF DeactivateProduct, ActivateProduct, stockVars, creditVars
<1> QED
  BY <1>1, <1>2, <1>3 DEF CatalogueStep

\* Work on the catalogue queues products and their stock, never a receipt's status.
LEMMA CatalogueKeepsStatus ==
    ASSUME TypeOK, NEW user \in Users, CatalogueStep(user)
    PROVE  queued'.status = queued.status
<1>1. queued \in Queued
  BY DEF TypeOK
<1>2. ASSUME NEW p, NEW selling, NEW costing, NEW opening, CreateProduct(user, p, selling, costing, opening)
      PROVE  queued'.status = queued.status
  BY <1>1, <1>2 DEF CreateProduct, Queued
<1>3. ASSUME NEW p, NEW selling, NEW costing, NEW new, NEW nowActive,
             UpdateProduct(user, p, selling, costing, new, nowActive)
      PROVE  queued'.status = queued.status
  BY <1>1, <1>3 DEF UpdateProduct, Queued
<1>4. ASSUME NEW p, DeactivateProduct(user, p) \/ ActivateProduct(user, p)
      PROVE  queued'.status = queued.status
  BY <1>4 DEF DeactivateProduct, ActivateProduct
<1> QED
  BY <1>2, <1>3, <1>4 DEF CatalogueStep

\* Work on the stock leaves documents, credit and the register of products alone.
LEMMA StockLeaves ==
    ASSUME NEW user \in Users, StockStep(user)
    PROVE  /\ UNCHANGED <<stocked, sales, exchanges, granted, spent>>
           /\ \E stock : queued' = [queued EXCEPT !.stock = stock]
<1>1. ASSUME NEW p, NEW added, StockIn(user, p, added)
      PROVE  /\ UNCHANGED <<stocked, sales, exchanges, granted, spent>>
             /\ \E stock : queued' = [queued EXCEPT !.stock = stock]
  BY <1>1 DEF StockIn, catalogueVars, creditVars
<1>2. ASSUME NEW p, NEW new, Adjust(user, p, new)
      PROVE  /\ UNCHANGED <<stocked, sales, exchanges, granted, spent>>
             /\ \E stock : queued' = [queued EXCEPT !.stock = stock]
  BY <1>2 DEF Adjust, catalogueVars, creditVars
<1>3. ASSUME NEW items, NEW unitCost, CompletePurchase(user, items, unitCost)
      PROVE  /\ UNCHANGED <<stocked, sales, exchanges, granted, spent>>
             /\ \E stock : queued' = [queued EXCEPT !.stock = stock]
  BY <1>3 DEF CompletePurchase, creditVars
<1> QED
  BY <1>1, <1>2, <1>3 DEF StockStep

\* A sale spends, and queues, one amount of credit, which the customer has.
LEMMA SaleSpends ==
    ASSUME TypeOK, NEW user \in Users, NEW c \in Customers, NEW items \in Lines,
           NEW method \in PaymentMethods, NEW discount \in 0 .. MaxMoney,
           CompleteSale(user, c, items, method, discount)
    PROVE  \E paid \in Nat :
              /\ Affordable(c, paid)
              /\ granted' = granted /\ spent' = [spent EXCEPT ![c] = @ + paid]
              /\ queued'.credit = [queued.credit EXCEPT ![c] = @ - paid]
<1> DEFINE total == Subtotal(items) - discount
           sale  == [customer |-> c, items |-> items, method |-> method, total |-> total,
                     unit |-> [p \in Products |-> IF items[p] > 0 THEN price[p] ELSE 0],
                     status |-> "COMPLETED", returned |-> NoLines]
           paid  == CreditPaid(sale)
<1>1. paid \in Nat
  BY Bounds DEF CompleteSale, CreditPaid
<1>2. /\ Affordable(c, paid)
      /\ granted' = granted /\ spent' = [spent EXCEPT ![c] = @ + paid]
      /\ queued' = [queued EXCEPT !.stock = QueuedStock([p \in Products |-> -items[p]]),
                                  !.credit[c] = @ - paid,
                                  !.status = Append(@, "COMPLETED")]
  BY DEF CompleteSale
<1> HIDE DEF paid
<1>3. queued'.credit = [queued.credit EXCEPT ![c] = @ - paid]
  BY <1>2 DEF TypeOK, Queued
<1> QED
  BY <1>1, <1>2, <1>3

\* A cancellation grants, and queues, one amount of credit.
LEMMA CancellationGrants ==
    ASSUME TypeOK, NEW user \in Users, NEW s \in 1 .. Len(sales), CancelSale(user, s)
    PROVE  \E d \in Customers : \E refund \in Nat :
              /\ spent' = spent /\ granted' = [granted EXCEPT ![d] = @ + refund]
              /\ queued'.credit = [queued.credit EXCEPT ![d] = @ + refund]
<1> DEFINE d == sales[s].customer
           refund == Refund(sales[s])
<1>1. d \in Customers /\ refund \in Nat
  BY SaleParts DEF Refund, CreditPaid
<1>2. /\ spent' = spent /\ granted' = [granted EXCEPT ![d] = @ + refund]
      /\ queued'.credit = [queued.credit EXCEPT ![d] = @ + refund]
  BY DEF CancelSale, TypeOK, Queued
<1> QED
  BY <1>1, <1>2

\* So does an exchange.
LEMMA ExchangeGrants ==
    ASSUME TypeOK, NEW user \in Users, NEW s \in 1 .. Len(sales), NEW lines \in Trades,
           NEW late \in BOOLEAN, NEW override \in BOOLEAN,
           CompleteExchange(user, s, lines, late, override)
    PROVE  \E d \in Customers : \E owed \in Nat :
              /\ spent' = spent /\ granted' = [granted EXCEPT ![d] = @ + owed]
              /\ queued'.credit = [queued.credit EXCEPT ![d] = @ + owed]
<1> DEFINE d == sales[s].customer
           owed == CreditOwed(Difference(sales[s], lines))
<1>1. d \in Customers /\ owed \in Nat
  BY SaleParts, Bounds DEF CompleteExchange, CreditOwed
<1>2. /\ spent' = spent /\ granted' = [granted EXCEPT ![d] = @ + owed]
      /\ queued'.credit = [queued.credit EXCEPT ![d] = @ + owed]
  BY DEF CompleteExchange, TypeOK, Queued
<1> QED
  BY <1>1, <1>2

\* No interleaving of sales, cancellations and exchanges takes a customer's
\* store credit below zero: consume checks the balance in the transaction
\* that spends it, and the other services only add.
THEOREM CreditIsNeverNegative == Spec => []CreditNeverNegative
<1>1. Init => CreditNeverNegative
  BY DEF Init, CreditNeverNegative, Balance
<1>2. TypeOK /\ CreditNeverNegative /\ [Next]_vars => CreditNeverNegative'
  <2> SUFFICES ASSUME TypeOK, CreditNeverNegative, [Next]_vars,
                      NEW c \in Customers
               PROVE  granted'[c] - spent'[c] >= 0
    BY DEF CreditNeverNegative, Balance
  <2>1. granted[c] \in Nat /\ spent[c] \in Nat /\ granted[c] - spent[c] >= 0
    BY DEF TypeOK, CreditNeverNegative, Balance
  <2>2. CASE UNCHANGED creditVars
    BY <2>1, <2>2 DEF creditVars
  <2>3. ASSUME NEW user \in Users, NEW d \in Customers, NEW items \in Lines,
               NEW method \in PaymentMethods, NEW discount \in 0 .. MaxMoney,
               CompleteSale(user, d, items, method, discount)
        PROVE  granted'[c] - spent'[c] >= 0
    <3>1. PICK paid \in Nat : /\ granted' = granted /\ Affordable(d, paid)
                              /\ spent' = [spent EXCEPT ![d] = @ + paid]
      BY <2>3, SaleSpends
    <3>2. CASE c = d
      BY <2>1, <3>1, <3>2 DEF Affordable, Balance, TypeOK
    <3>3. CASE c # d
      BY <2>1, <3>1, <3>3 DEF TypeOK
    <3> QED BY <3>2, <3>3
  <2>4. ASSUME NEW user \in Users, NEW s \in 1 .. Len(sales), CancelSale(user, s)
        PROVE  granted'[c] - spent'[c] >= 0
    <3>1. PICK d \in Customers, refund \in Nat :
             spent' = spent /\ granted' = [granted EXCEPT ![d] = @ + refund]
      BY <2>4, CancellationGrants
    <3> QED BY <2>1, <3>1 DEF TypeOK
  <2>5. ASSUME NEW user \in Users, NEW s \in 1 .. Len(sales), NEW lines \in Trades,
               NEW late \in BOOLEAN, NEW override \in BOOLEAN,
               CompleteExchange(user, s, lines, late, override)
        PROVE  granted'[c] - spent'[c] >= 0
    <3>1. PICK d \in Customers, owed \in Nat :
             spent' = spent /\ granted' = [granted EXCEPT ![d] = @ + owed]
      BY <2>5, ExchangeGrants
    <3> QED BY <2>1, <3>1 DEF TypeOK
  <2>6. ASSUME NEW user \in Users, CatalogueStep(user) \/ StockStep(user)
        PROVE  UNCHANGED creditVars
    BY <2>6, CatalogueLeaves, StockLeaves DEF creditVars
  <2>7. UNCHANGED vars => UNCHANGED creditVars
    BY DEF vars
  <2> QED BY <2>2, <2>3, <2>4, <2>5, <2>6, <2>7 DEF Next, SaleStep, ExchangeStep
<1> QED
  BY <1>1, <1>2, TypeCorrect, PTL DEF Spec

-------------------------------------------------------------------------------

\* No product comes back more often than it was sold on the receipt, however
\* many exchanges, of however many lines, the receipt goes through.
THEOREM ReturnsAreWithinSales == Spec => []ReturnedWithinSold
<1>1. Init => ReturnedWithinSold
  BY DEF Init, ReturnedWithinSold
<1>2. TypeOK /\ ReturnedWithinSold /\ [Next]_vars => ReturnedWithinSold'
  <2> SUFFICES ASSUME TypeOK, ReturnedWithinSold, [Next]_vars
               PROVE  ReturnedWithinSold'
    OBVIOUS
  <2>1. sales \in Seq(Sale)
    BY DEF TypeOK
  <2>2. CASE UNCHANGED sales
    BY <2>2 DEF ReturnedWithinSold
  <2>3. ASSUME NEW user \in Users, NEW c \in Customers, NEW items \in Lines,
               NEW method \in PaymentMethods, NEW discount \in 0 .. MaxMoney,
               CompleteSale(user, c, items, method, discount)
        PROVE  ReturnedWithinSold'
    <3>1. PICK sale : /\ sales' = Append(sales, sale)
                      /\ sale.items = items /\ sale.returned = NoLines
      BY <2>3 DEF CompleteSale
    <3>2. \A p \in Products : sale.returned[p] <= sale.items[p]
      BY <3>1, LinesType DEF NoLines
    <3> QED BY <2>1, <3>1, <3>2 DEF ReturnedWithinSold
  <2>4. ASSUME NEW user \in Users, NEW s \in 1 .. Len(sales), CancelSale(user, s)
        PROVE  ReturnedWithinSold'
    <3>1. /\ sales' = [sales EXCEPT ![s] = [sales[s] EXCEPT !.status = "CANCELLED"]]
          /\ sales[s] \in Sale
      BY <2>4, SaleParts DEF CancelSale
    <3>2. \A p \in Products : sales[s].returned[p] <= sales[s].items[p]
      BY DEF ReturnedWithinSold
    <3>3. \A i \in 1 .. Len(sales') : i \in 1 .. Len(sales)
                                     /\ sales'[i].items = sales[i].items
                                     /\ sales'[i].returned = sales[i].returned
      BY <2>1, <3>1 DEF Sale
    <3> QED BY <3>3 DEF ReturnedWithinSold
  <2>5. ASSUME NEW user \in Users, NEW s \in 1 .. Len(sales), NEW lines \in Trades,
               NEW late \in BOOLEAN, NEW override \in BOOLEAN,
               CompleteExchange(user, s, lines, late, override)
        PROVE  ReturnedWithinSold'
    <3> DEFINE returned == ReturnedBy(lines)
               sale     == sales[s]
               after    == Plus(sale.returned, returned)
    <3>1. sales' = [sales EXCEPT ![s] = [sale EXCEPT !.returned = after]]
      BY <2>5 DEF CompleteExchange
    <3>2. /\ returned \in [Products -> Nat]
          /\ sale \in Sale /\ sale.items \in [Products -> Nat]
          /\ sale.returned \in [Products -> Nat]
      BY LineQuantities, SaleParts, LinesType
    <3>3. ASSUME NEW p \in Products PROVE after[p] <= sale.items[p]
      <4>1. after[p] = sale.returned[p] + returned[p]
        BY DEF Plus
      <4>2. CASE returned[p] = 0
        BY <3>2, <4>1, <4>2 DEF ReturnedWithinSold
      <4>3. CASE returned[p] > 0
        <5>1. returned[p] <= sale.items[p] - sale.returned[p]
          BY <2>5, <4>3 DEF CompleteExchange, Returnable, Named
        <5> QED BY <3>2, <4>1, <5>1
      <4> QED BY <3>2, <4>2, <4>3
    <3> HIDE DEF returned, sale, after
    <3>4. \A t \in 1 .. Len(sales) : t # s => sales'[t] = sales[t]
      BY <2>1, <3>1
    <3>5. /\ sales'[s].items = sale.items /\ sales'[s].returned = after
          /\ Len(sales') = Len(sales)
      BY <2>1, <3>1, <3>2 DEF Sale
    <3> QED BY <3>3, <3>4, <3>5 DEF ReturnedWithinSold
  <2>6. ASSUME NEW user \in Users, CatalogueStep(user) \/ StockStep(user)
        PROVE  UNCHANGED sales
    BY <2>6, CatalogueLeaves, StockLeaves DEF creditVars
  <2>7. UNCHANGED vars => UNCHANGED sales
    BY DEF vars
  <2> QED BY <2>2, <2>3, <2>4, <2>5, <2>6, <2>7 DEF Next, SaleStep, ExchangeStep
<1> QED
  BY <1>1, <1>2, TypeCorrect, PTL DEF Spec

-------------------------------------------------------------------------------

\* A product has no stock, no movements and no sales before it is registered.
\* This is what makes the ledgers inductive: registering a product sets its
\* quantity, and queues the quantity on top of what was queued before.
NothingBeforeRegistration ==
    /\ \A p \in Products \ stocked : quantity[p] = 0 /\ log[p] = <<>>
    /\ \A s \in 1 .. Len(sales) : Named(sales[s].items) \subseteq stocked

\* What an exchange returns was sold, and what it issues is for sale.
LEMMA ExchangedIsStocked ==
    ASSUME TypeOK, NothingBeforeRegistration,
           NEW user, NEW s \in 1 .. Len(sales), NEW lines \in Trades, NEW late, NEW override,
           CompleteExchange(user, s, lines, late, override),
           NEW p \in Products, p \notin stocked
    PROVE  ReturnedBy(lines)[p] = 0 /\ IssuedBy(lines)[p] = 0
<1> DEFINE returned == ReturnedBy(lines)
           issued   == IssuedBy(lines)
<1>1. returned[p] \in Nat /\ issued[p] \in Nat
  BY LineQuantities
<1>2. /\ Named(issued) \subseteq active
      /\ \A q \in Named(returned) : returned[q] <= sales[s].items[q] - sales[s].returned[q]
  BY DEF CompleteExchange, Returnable
<1>3. sales[s].items[p] = 0 /\ sales[s].returned[p] \in Nat
  BY SaleParts, LinesType DEF NothingBeforeRegistration, Named
<1> HIDE DEF returned, issued
<1>4. ~(returned[p] > 0)
  BY <1>1, <1>2, <1>3 DEF Named
<1>5. ~(issued[p] > 0)
  BY <1>1, <1>2 DEF Named, TypeOK
<1> QED
  BY <1>1, <1>4, <1>5 DEF returned, issued

\* Nothing is ever put on record of a product before its registration.
LEMMA RegistrationComesFirst == Spec => []NothingBeforeRegistration
<1>1. Init => NothingBeforeRegistration
  BY DEF Init, NothingBeforeRegistration
<1>2. TypeOK /\ NothingBeforeRegistration /\ [Next]_vars => NothingBeforeRegistration'
  <2> SUFFICES ASSUME TypeOK, NothingBeforeRegistration, [Next]_vars
               PROVE  NothingBeforeRegistration'
    OBVIOUS
  <2>1. /\ quantity \in [Products -> Nat] /\ active \subseteq stocked
        /\ sales \in Seq(Sale)
        /\ \A p \in Products \ stocked : quantity[p] = 0 /\ log[p] = <<>>
        /\ \A s \in 1 .. Len(sales) : Named(sales[s].items) \subseteq stocked
    BY DEF TypeOK, NothingBeforeRegistration
  <2>2. ASSUME NEW STATE moved, NEW STATE change, NEW type, NEW STATE ref,
               stocked' = stocked, ChangeStock(moved, change, type, ref)
        PROVE  \A p \in Products \ stocked' : quantity'[p] = 0 /\ log'[p] = <<>>
    BY <2>1, <2>2 DEF ChangeStock
  <2>3. CASE UNCHANGED vars
    BY <2>1, <2>3 DEF vars, stockVars, catalogueVars, NothingBeforeRegistration
  <2>4. ASSUME NEW user \in Users, CatalogueStep(user) PROVE NothingBeforeRegistration'
    <3>1. sales' = sales /\ log' = log
      BY <2>4, CatalogueLeaves
    <3>2. /\ stocked \subseteq stocked'
          /\ \A q \in Products \ stocked' : quantity'[q] = quantity[q]
      <4>1. ASSUME NEW p, NEW selling, NEW costing, NEW opening,
                   CreateProduct(user, p, selling, costing, opening)
            PROVE  /\ stocked \subseteq stocked'
                   /\ \A q \in Products \ stocked' : quantity'[q] = quantity[q]
        BY <2>1, <4>1 DEF CreateProduct
      <4>2. ASSUME NEW p, NEW selling, NEW costing, NEW new, NEW nowActive,
                   UpdateProduct(user, p, selling, costing, new, nowActive)
            PROVE  /\ stocked \subseteq stocked'
                   /\ \A q \in Products \ stocked' : quantity'[q] = quantity[q]
        BY <2>1, <4>2 DEF UpdateProduct
      <4>3. ASSUME NEW p, DeactivateProduct(user, p) \/ ActivateProduct(user, p)
            PROVE  /\ stocked \subseteq stocked'
                   /\ \A q \in Products \ stocked' : quantity'[q] = quantity[q]
        BY <4>3 DEF DeactivateProduct, ActivateProduct, stockVars
      <4> QED BY <2>4, <4>1, <4>2, <4>3 DEF CatalogueStep
    <3> QED BY <2>1, <3>1, <3>2 DEF NothingBeforeRegistration
  <2>5. ASSUME NEW user \in Users, StockStep(user) PROVE NothingBeforeRegistration'
    <3>1. sales' = sales /\ stocked' = stocked
      BY <2>5, StockLeaves
    <3>2. ASSUME NEW p \in Products, NEW added \in 1 .. MaxQuantity, StockIn(user, p, added)
          PROVE  NothingBeforeRegistration'
      BY <2>1, <2>2, <3>1, <3>2 DEF StockIn, NothingBeforeRegistration
    <3>3. ASSUME NEW p \in Products, NEW new \in 0 .. MaxQuantity, Adjust(user, p, new)
          PROVE  NothingBeforeRegistration'
      BY <2>1, <2>2, <3>1, <3>3 DEF Adjust, NothingBeforeRegistration
    <3>4. ASSUME NEW items \in Lines, NEW unitCost \in [Products -> Costs],
                 CompletePurchase(user, items, unitCost)
          PROVE  NothingBeforeRegistration'
      BY <2>1, <2>2, <3>1, <3>4 DEF CompletePurchase, NothingBeforeRegistration
    <3> QED BY <2>5, <3>2, <3>3, <3>4 DEF StockStep
  <2>6. ASSUME NEW user \in Users, NEW c \in Customers, NEW items \in Lines,
               NEW method \in PaymentMethods, NEW discount \in 0 .. MaxMoney,
               CompleteSale(user, c, items, method, discount)
        PROVE  NothingBeforeRegistration'
    <3>1. PICK sale : /\ sales' = Append(sales, sale)
                      /\ sale.items = items
      BY <2>6 DEF CompleteSale
    <3>2. Named(items) \subseteq stocked /\ stocked' = stocked
      BY <2>1, <2>6 DEF CompleteSale, catalogueVars
    <3>3. \A p \in Products \ stocked' : quantity'[p] = 0 /\ log'[p] = <<>>
      BY <2>2, <2>6, <3>2 DEF CompleteSale
    <3> QED BY <2>1, <3>1, <3>2, <3>3 DEF NothingBeforeRegistration
  <2>7. ASSUME NEW user \in Users, NEW s \in 1 .. Len(sales), CancelSale(user, s)
        PROVE  NothingBeforeRegistration'
    <3>1. /\ sales' = [sales EXCEPT ![s] = [sales[s] EXCEPT !.status = "CANCELLED"]]
          /\ sales[s] \in Sale /\ stocked' = stocked
      BY <2>7, SaleParts DEF CancelSale, catalogueVars
    <3>2. \A p \in Products \ stocked' : quantity'[p] = 0 /\ log'[p] = <<>>
      BY <2>2, <2>7, <3>1 DEF CancelSale
    <3>3. \A t \in 1 .. Len(sales') : t \in 1 .. Len(sales) /\ sales'[t].items = sales[t].items
      BY <2>1, <3>1 DEF Sale
    <3> QED BY <2>1, <3>1, <3>2, <3>3 DEF NothingBeforeRegistration
  <2>8. ASSUME NEW user \in Users, NEW s \in 1 .. Len(sales), NEW lines \in Trades,
               NEW late \in BOOLEAN, NEW override \in BOOLEAN,
               CompleteExchange(user, s, lines, late, override)
        PROVE  NothingBeforeRegistration'
    <3>1. PICK returned :
            sales' = [sales EXCEPT ![s] = [sales[s] EXCEPT !.returned = returned]]
      BY <2>8 DEF CompleteExchange
    <3>2. sales[s] \in Sale /\ stocked' = stocked
      BY <2>8, SaleParts DEF CompleteExchange, catalogueVars
    <3>3. \A t \in 1 .. Len(sales') : t \in 1 .. Len(sales) /\ sales'[t].items = sales[t].items
      BY <2>1, <3>1, <3>2 DEF Sale
    <3>4. ASSUME NEW p \in Products \ stocked PROVE quantity'[p] = 0 /\ log'[p] = <<>>
      <4>1. ReturnedBy(lines)[p] = 0 /\ IssuedBy(lines)[p] = 0
        BY <2>8, ExchangedIsStocked
      <4>2. ExchangeRows(lines, p, Len(exchanges) + 1) = <<>>
        BY <4>1 DEF ExchangeRows
      <4>3. log'[p] = log[p] \o ExchangeRows(lines, p, Len(exchanges) + 1)
        BY <2>8 DEF CompleteExchange
      <4>4. quantity'[p] = quantity[p] + (ReturnedBy(lines)[p] - IssuedBy(lines)[p])
        BY <2>8 DEF CompleteExchange, Plus
      <4> QED BY <2>1, <4>1, <4>2, <4>3, <4>4
    <3> QED BY <2>1, <3>2, <3>3, <3>4 DEF NothingBeforeRegistration
  <2> QED BY <2>3, <2>4, <2>5, <2>6, <2>7, <2>8 DEF Next, SaleStep, ExchangeStep
<1> QED
  BY <1>1, <1>2, TypeCorrect, PTL DEF Spec

\* What change_stock does to the shelf is what the service queues.
LEMMA ChangeStockQueued ==
    ASSUME TypeOK, NEW STATE change, NEW STATE moved, NEW type, NEW STATE ref,
           ChangeStock(moved, change, type, ref),
           change \in [Products -> Int],
           \A p \in Products : p \notin moved => change[p] = 0,
           queued'.stock = Plus(queued.stock, change),
           NEW p \in Products
    PROVE  queued.stock[p] = quantity[p] => queued'.stock[p] = quantity'[p]
BY DEF ChangeStock, Plus, TypeOK

\* Replaying what the shop queued reproduces its audited stock and its credit
\* balances: no service forgets to queue a movement or a credit row, or queues
\* one that it did not book.
THEOREM QueueReplaysLedgers == Spec => []OutboxReplaysLedgers
<1> DEFINE StockReplayed  == \A p \in Products \ FormEdits : queued.stock[p] = quantity[p]
           CreditReplayed == \A c \in Customers : queued.credit[c] = Balance(c)
<1>1. Init => OutboxReplaysLedgers
  BY DEF Init, OutboxReplaysLedgers, Balance
<1>2. TypeOK /\ NothingBeforeRegistration /\ OutboxReplaysLedgers /\ [Next]_vars
         => OutboxReplaysLedgers'
  <2> SUFFICES ASSUME TypeOK, NothingBeforeRegistration, OutboxReplaysLedgers, [Next]_vars
               PROVE  StockReplayed' /\ CreditReplayed'
    BY DEF OutboxReplaysLedgers
  <2>1. /\ \A p \in Products \ FormEdits : queued.stock[p] = quantity[p]
        /\ \A c \in Customers : queued.credit[c] = granted[c] - spent[c]
        /\ queued.stock \in [Products -> Int] /\ queued.credit \in [Customers -> Int]
        /\ granted \in [Customers -> Nat] /\ spent \in [Customers -> Nat]
        /\ quantity \in [Products -> Nat]
        /\ queued \in Queued
    BY DEF OutboxReplaysLedgers, Balance, TypeOK, Queued
  <2>2. ASSUME queued'.credit = queued.credit, UNCHANGED creditVars
        PROVE  CreditReplayed'
    BY <2>1, <2>2 DEF Balance, creditVars
  <2>3. CASE UNCHANGED vars
    BY <2>1, <2>3 DEF vars, stockVars, creditVars, Balance
  <2>4. ASSUME NEW user \in Users, CatalogueStep(user)
        PROVE  StockReplayed' /\ CreditReplayed'
    <3>1. ASSUME NEW p \in Products, NEW selling \in Prices, NEW costing \in Costs,
                 NEW opening \in 0 .. MaxQuantity,
                 CreateProduct(user, p, selling, costing, opening)
          PROVE  StockReplayed' /\ CreditReplayed'
      <4>1. /\ UNCHANGED creditVars /\ queued'.credit = queued.credit
            /\ quantity' = [quantity EXCEPT ![p] = opening]
            /\ queued'.stock = [queued.stock EXCEPT ![p] = @ + opening]
            /\ quantity[p] = 0 /\ opening \in Nat
        BY <3>1, <2>1, Bounds DEF CreateProduct, Queued, NothingBeforeRegistration
      <4>2. StockReplayed'
        BY <2>1, <4>1
      <4> QED BY <2>2, <4>1, <4>2
    <3>2. ASSUME NEW p \in Products, NEW selling \in Prices, NEW costing \in Costs,
                 NEW new \in {quantity[p]} \cup (0 .. MaxQuantity), NEW nowActive \in BOOLEAN,
                 UpdateProduct(user, p, selling, costing, new, nowActive)
          PROVE  StockReplayed' /\ CreditReplayed'
      <4>1. /\ UNCHANGED creditVars /\ queued'.credit = queued.credit
            /\ queued'.stock = queued.stock
            /\ quantity' = [quantity EXCEPT ![p] = new]
            /\ new # quantity[p] => p \in FormEdits
        BY <3>2, <2>1 DEF UpdateProduct, Queued
      <4>2. StockReplayed'
        BY <2>1, <4>1
      <4> QED BY <2>2, <4>1, <4>2
    <3>3. ASSUME NEW p \in Products, DeactivateProduct(user, p) \/ ActivateProduct(user, p)
          PROVE  StockReplayed' /\ CreditReplayed'
      BY <3>3, <2>1 DEF DeactivateProduct, ActivateProduct, stockVars, creditVars, Balance
    <3> QED BY <2>4, <3>1, <3>2, <3>3 DEF CatalogueStep
  <2>5. ASSUME NEW STATE moved, NEW STATE change, NEW type, NEW STATE ref,
               ChangeStock(moved, change, type, ref),
               change \in [Products -> Int],
               \A p \in Products : p \notin moved => change[p] = 0,
               queued'.stock = Plus(queued.stock, change)
        PROVE  StockReplayed'
    BY <2>1, <2>5, ChangeStockQueued
  <2>6. ASSUME NEW items \in Lines
        PROVE  \A p \in Products : p \notin Named(items) => items[p] = 0 /\ -items[p] = 0
    BY LinesType DEF Named
  <2>7. ASSUME NEW user \in Users, StockStep(user)
        PROVE  StockReplayed' /\ CreditReplayed'
    <3>1. ASSUME NEW p \in Products, NEW added \in 1 .. MaxQuantity, StockIn(user, p, added)
          PROVE  StockReplayed' /\ CreditReplayed'
      <4> DEFINE change == [NoStock EXCEPT ![p] = added]
      <4>1. /\ UNCHANGED creditVars /\ queued'.credit = queued.credit
            /\ ChangeStock({p}, change, "STOCK_IN", 0)
            /\ queued'.stock = Plus(queued.stock, change)
        BY <3>1, <2>1 DEF StockIn, QueuedStock, Queued
      <4>2. /\ change \in [Products -> Int]
            /\ \A q \in Products : q \notin {p} => change[q] = 0
        BY Bounds DEF NoStock
      <4> HIDE DEF change
      <4>3. StockReplayed'
        BY <2>5, <4>1, <4>2
      <4> QED BY <2>2, <4>1, <4>3
    <3>2. ASSUME NEW p \in Products, NEW new \in 0 .. MaxQuantity, Adjust(user, p, new)
          PROVE  StockReplayed' /\ CreditReplayed'
      <4> DEFINE change == [NoStock EXCEPT ![p] = new - quantity[p]]
      <4>1. /\ UNCHANGED creditVars /\ queued'.credit = queued.credit
            /\ ChangeStock({p}, change, "STOCK_ADJUSTMENT", 0)
            /\ queued'.stock = Plus(queued.stock, change)
        BY <3>2, <2>1 DEF Adjust, QueuedStock, Queued
      <4>2. /\ change \in [Products -> Int]
            /\ \A q \in Products : q \notin {p} => change[q] = 0
        BY <2>1, Bounds DEF NoStock
      <4> HIDE DEF change
      <4>3. StockReplayed'
        BY <2>5, <4>1, <4>2
      <4> QED BY <2>2, <4>1, <4>3
    <3>3. ASSUME NEW items \in Lines, NEW unitCost \in [Products -> Costs],
                 CompletePurchase(user, items, unitCost)
          PROVE  StockReplayed' /\ CreditReplayed'
      <4>1. /\ UNCHANGED creditVars /\ queued'.credit = queued.credit
            /\ ChangeStock(Named(items), items, "STOCK_IN", purchases + 1)
            /\ queued'.stock = Plus(queued.stock, items)
        BY <3>3, <2>1 DEF CompletePurchase, QueuedStock, Queued
      <4>2. StockReplayed'
        BY <2>5, <2>6, <4>1, LinesType
      <4> QED BY <2>2, <4>1, <4>2
    <3> QED BY <2>7, <3>1, <3>2, <3>3 DEF StockStep
  <2>8. ASSUME NEW user \in Users, NEW c \in Customers, NEW items \in Lines,
               NEW method \in PaymentMethods, NEW discount \in 0 .. MaxMoney,
               CompleteSale(user, c, items, method, discount)
        PROVE  StockReplayed' /\ CreditReplayed'
    <3> DEFINE sold == [p \in Products |-> -items[p]]
    <3>1. /\ ChangeStock(Named(items), sold, "SALE", Len(sales) + 1)
          /\ queued'.stock = Plus(queued.stock, sold)
      BY <2>1, <2>8 DEF CompleteSale, QueuedStock, Queued
    <3>2. /\ sold \in [Products -> Int]
          /\ \A p \in Products : p \notin Named(items) => sold[p] = 0
      BY <2>6, LinesType
    <3> HIDE DEF sold
    <3>3. StockReplayed'
      BY <2>5, <3>1, <3>2
    <3>4. PICK paid \in Nat :
             /\ granted' = granted /\ spent' = [spent EXCEPT ![c] = @ + paid]
             /\ queued'.credit = [queued.credit EXCEPT ![c] = @ - paid]
      BY <2>8, SaleSpends
    <3>5. CreditReplayed'
      BY <2>1, <3>4 DEF Balance
    <3> QED BY <3>3, <3>5
  <2>9. ASSUME NEW user \in Users, NEW s \in 1 .. Len(sales), CancelSale(user, s)
        PROVE  StockReplayed' /\ CreditReplayed'
    <3> DEFINE items == sales[s].items
    <3>1. /\ ChangeStock(Named(items), items, "SALE_CANCELLED", s)
          /\ queued'.stock = Plus(queued.stock, items)
      BY <2>1, <2>9 DEF CancelSale, QueuedStock, Queued
    <3>2. /\ items \in [Products -> Int]
          /\ \A p \in Products : p \notin Named(items) => items[p] = 0
      BY <2>6, SaleParts, LinesType
    <3> HIDE DEF items
    <3>3. StockReplayed'
      BY <2>5, <3>1, <3>2
    <3>4. PICK d \in Customers, refund \in Nat :
             /\ spent' = spent /\ granted' = [granted EXCEPT ![d] = @ + refund]
             /\ queued'.credit = [queued.credit EXCEPT ![d] = @ + refund]
      BY <2>9, CancellationGrants
    <3>5. CreditReplayed'
      BY <2>1, <3>4 DEF Balance
    <3> QED BY <3>3, <3>5
  <2>10. ASSUME NEW user \in Users, NEW s \in 1 .. Len(sales), NEW lines \in Trades,
                NEW late \in BOOLEAN, NEW override \in BOOLEAN,
                CompleteExchange(user, s, lines, late, override)
         PROVE  StockReplayed' /\ CreditReplayed'
    <3> DEFINE net == [p \in Products |-> ReturnedBy(lines)[p] - IssuedBy(lines)[p]]
    <3>1. /\ queued'.stock = Plus(queued.stock, net)
          /\ quantity' = Plus(quantity, net)
          /\ net \in [Products -> Int]
      BY <2>1, <2>10, LineQuantities DEF CompleteExchange, QueuedStock, Queued
    <3> HIDE DEF net
    <3>2. StockReplayed'
      BY <2>1, <3>1 DEF Plus
    <3>3. PICK d \in Customers, owed \in Nat :
             /\ spent' = spent /\ granted' = [granted EXCEPT ![d] = @ + owed]
             /\ queued'.credit = [queued.credit EXCEPT ![d] = @ + owed]
      BY <2>10, ExchangeGrants
    <3>4. CreditReplayed'
      BY <2>1, <3>3 DEF Balance
    <3> QED BY <3>2, <3>4
  <2> QED
    BY <2>3, <2>4, <2>7, <2>8, <2>9, <2>10 DEF Next, SaleStep, ExchangeStep
<1> QED
  BY <1>1, <1>2, TypeCorrect, RegistrationComesFirst, PTL DEF Spec

-------------------------------------------------------------------------------

\* The parts of a sequence that one element is appended to.
LEMMA AppendParts ==
    ASSUME NEW S, NEW q \in Seq(S), NEW x \in S
    PROVE  /\ Append(q, x) \in Seq(S) /\ Len(Append(q, x)) = Len(q) + 1
           /\ Append(q, x)[Len(q) + 1] = x
           /\ \A i \in 1 .. Len(q) : Append(q, x)[i] = q[i]
OBVIOUS

\* What a sale does to the receipts: it files one, and pays for it.
LEMMA SaleFiled ==
    ASSUME TypeOK, NEW user \in Users, NEW c \in Customers, NEW items \in Lines,
           NEW method \in PaymentMethods, NEW discount \in 0 .. MaxMoney,
           CompleteSale(user, c, items, method, discount)
    PROVE  \E sale \in Sale :
              /\ sale.customer = c /\ sale.items = items /\ sale.method = method
              /\ sale.status = "COMPLETED" /\ sale.returned = NoLines
              /\ spent' = [spent EXCEPT ![c] = @ + CreditPaid(sale)]
              /\ Len(sales') = Len(sales) + 1 /\ sales'[Len(sales) + 1] = sale
              /\ \A s \in 1 .. Len(sales) : sales'[s] = sales[s]
              /\ queued'.status = Append(queued.status, "COMPLETED")
<1> DEFINE total == Subtotal(items) - discount
           sale  == [customer |-> c, items |-> items, method |-> method, total |-> total,
                     unit |-> [p \in Products |-> IF items[p] > 0 THEN price[p] ELSE 0],
                     status |-> "COMPLETED", returned |-> NoLines]
<1>1. total \in Nat
  BY Bounds DEF CompleteSale
<1>2. sale \in Sale
  <2>1. [p \in Products |-> IF items[p] > 0 THEN price[p] ELSE 0] \in [Products -> Nat]
    BY DEF TypeOK
  <2>2. NoLines \in [Products -> Nat]
    BY DEF NoLines
  <2> QED BY <1>1, <2>1, <2>2 DEF Sale
<1>3. /\ sales' = Append(sales, sale)
      /\ spent' = [spent EXCEPT ![c] = @ + CreditPaid(sale)]
      /\ queued' = [queued EXCEPT !.stock = QueuedStock([p \in Products |-> -items[p]]),
                                  !.credit[c] = @ - CreditPaid(sale),
                                  !.status = Append(@, "COMPLETED")]
  BY DEF CompleteSale
<1>4. queued'.status = Append(queued.status, "COMPLETED")
  BY <1>3 DEF TypeOK, Queued
<1>5. sales \in Seq(Sale)
  BY DEF TypeOK
<1>6. /\ sale.customer = c /\ sale.items = items /\ sale.method = method
      /\ sale.status = "COMPLETED" /\ sale.returned = NoLines
  OBVIOUS
<1> HIDE DEF sale
<1>7. /\ Len(sales') = Len(sales) + 1 /\ sales'[Len(sales) + 1] = sale
      /\ \A s \in 1 .. Len(sales) : sales'[s] = sales[s]
  BY <1>2, <1>3, <1>5, AppendParts
<1> QED
  BY <1>2, <1>3, <1>4, <1>6, <1>7

\* What a cancellation does: it voids the receipt and gives back what was paid by
\* credit.
LEMMA SaleCancelled ==
    ASSUME TypeOK, NEW user \in Users, NEW s \in 1 .. Len(sales), CancelSale(user, s)
    PROVE  /\ Len(sales') = Len(sales)
           /\ \A t \in 1 .. Len(sales) \ {s} : sales'[t] = sales[t]
           /\ sales[s].status = "COMPLETED" /\ ExchangesOf(s) = {}
           /\ sales'[s] = [sales[s] EXCEPT !.status = "CANCELLED"]
           /\ queued'.status = [queued.status EXCEPT ![s] = "CANCELLED"]
           /\ granted' = [granted EXCEPT ![sales[s].customer] = @ + CreditPaid(sales[s])]
<1>1. /\ sales' = [sales EXCEPT ![s] = [sales[s] EXCEPT !.status = "CANCELLED"]]
      /\ sales[s].status # "CANCELLED" /\ ExchangesOf(s) = {}
      /\ granted' = [granted EXCEPT ![sales[s].customer] = @ + CreditPaid(sales[s])]
  BY DEF CancelSale, Cancellable, Refund
<1>2. queued'.status = [queued.status EXCEPT ![s] = "CANCELLED"]
  BY DEF CancelSale, QueuedStatus, TypeOK, Queued
<1>3. sales \in Seq(Sale) /\ sales[s].status \in {"COMPLETED", "CANCELLED"}
  BY SaleParts DEF TypeOK
<1> QED
  BY <1>1, <1>2, <1>3

\* What an exchange does: it records the returns on the receipt.
LEMMA ReturnsFiled ==
    ASSUME TypeOK, NEW user \in Users, NEW s \in 1 .. Len(sales), NEW lines \in Trades,
           NEW late \in BOOLEAN, NEW override \in BOOLEAN,
           CompleteExchange(user, s, lines, late, override)
    PROVE  /\ Len(sales') = Len(sales)
           /\ \A t \in 1 .. Len(sales) \ {s} : sales'[t] = sales[t]
           /\ sales'[s] = [sales[s] EXCEPT !.returned = Plus(sales[s].returned, ReturnedBy(lines))]
           /\ queued'.status = queued.status
<1>1. /\ sales' = [sales EXCEPT ![s] = [sales[s] EXCEPT !.returned = Plus(sales[s].returned, ReturnedBy(lines))]]
  BY DEF CompleteExchange
<1>2. queued'.status = queued.status
  BY DEF CompleteExchange, TypeOK, Queued
<1>3. sales \in Seq(Sale)
  BY DEF TypeOK
<1> DEFINE after == [sales[s] EXCEPT !.returned = Plus(sales[s].returned, ReturnedBy(lines))]
<1>4. sales' = [sales EXCEPT ![s] = after]
  BY <1>1
<1> HIDE DEF after
<1>5. /\ Len(sales') = Len(sales)
      /\ \A t \in 1 .. Len(sales) \ {s} : sales'[t] = sales[t]
      /\ sales'[s] = after
  BY <1>3, <1>4
<1> QED
  BY <1>2, <1>5 DEF after

\* The last queued payload of every receipt carries its status, for ever.
THEOREM QueueKnowsReceipts == Spec => []OutboxKnowsReceipts
<1> DEFINE Known == /\ Len(queued.status) = Len(sales)
                    /\ \A s \in 1 .. Len(sales) : queued.status[s] = sales[s].status
<1>1. Init => OutboxKnowsReceipts
  BY DEF Init, OutboxKnowsReceipts
<1>2. TypeOK => (OutboxKnowsReceipts <=> Known)
  <2> SUFFICES ASSUME TypeOK PROVE OutboxKnowsReceipts <=> Known
    OBVIOUS
  <2>1. queued.status \in Seq({"COMPLETED", "CANCELLED"}) /\ Len(sales) \in Nat
    BY DEF TypeOK, Queued
  <2> QED BY <2>1 DEF OutboxKnowsReceipts
<1>3. TypeOK /\ TypeOK' /\ Known /\ [Next]_vars => Known'
  <2> SUFFICES ASSUME TypeOK, TypeOK', Known, [Next]_vars PROVE Known'
    OBVIOUS
  <2>1. queued.status \in Seq({"COMPLETED", "CANCELLED"}) /\ Len(sales) \in Nat /\ queued \in Queued
    BY DEF TypeOK, Queued
  <2>2. ASSUME UNCHANGED sales, queued'.status = queued.status PROVE Known'
    BY <2>2
  <2>3. CASE UNCHANGED vars
    BY <2>2, <2>3 DEF vars
  <2>4. ASSUME NEW user \in Users, CatalogueStep(user) \/ StockStep(user) PROVE Known'
    <3>1. UNCHANGED sales
      BY <2>4, CatalogueLeaves, StockLeaves
    <3>2. CatalogueStep(user) => queued'.status = queued.status
      BY CatalogueKeepsStatus
    <3>3. StockStep(user) => \E stock : queued' = [queued EXCEPT !.stock = stock]
      BY StockLeaves
    <3>4. queued'.status = queued.status
      BY <2>1, <2>4, <3>2, <3>3 DEF Queued
    <3> QED BY <2>2, <3>1, <3>4
  <2>5. ASSUME NEW user \in Users, NEW c \in Customers, NEW items \in Lines,
               NEW method \in PaymentMethods, NEW discount \in 0 .. MaxMoney,
               CompleteSale(user, c, items, method, discount)
        PROVE  Known'
    <3>1. PICK sale \in Sale :
             /\ sale.status = "COMPLETED"
             /\ Len(sales') = Len(sales) + 1 /\ sales'[Len(sales) + 1] = sale
             /\ \A s \in 1 .. Len(sales) : sales'[s] = sales[s]
             /\ queued'.status = Append(queued.status, "COMPLETED")
      BY <2>5, SaleFiled
    <3>2. /\ Len(queued'.status) = Len(queued.status) + 1
          /\ queued'.status[Len(queued.status) + 1] = "COMPLETED"
          /\ \A s \in 1 .. Len(queued.status) : queued'.status[s] = queued.status[s]
      BY <2>1, <3>1, AppendParts
    <3>3. \A s \in 1 .. Len(sales') : s \in 1 .. Len(sales) \/ s = Len(sales) + 1
      BY <2>1, <3>1
    <3> QED BY <3>1, <3>2, <3>3
  <2>6. ASSUME NEW user \in Users, NEW s \in 1 .. Len(sales), CancelSale(user, s) PROVE Known'
    <3>1. /\ Len(sales') = Len(sales)
          /\ \A t \in 1 .. Len(sales) \ {s} : sales'[t] = sales[t]
          /\ sales'[s] = [sales[s] EXCEPT !.status = "CANCELLED"]
          /\ queued'.status = [queued.status EXCEPT ![s] = "CANCELLED"]
          /\ sales[s] \in Sale
      BY <2>6, SaleCancelled, SaleParts
    <3>2. sales'[s].status = "CANCELLED"
      BY <3>1 DEF Sale
    <3>3. /\ Len(queued'.status) = Len(queued.status) /\ queued'.status[s] = "CANCELLED"
          /\ \A t \in 1 .. Len(sales) \ {s} : queued'.status[t] = queued.status[t]
      BY <2>1, <3>1
    <3> QED BY <3>1, <3>2, <3>3
  <2>7. ASSUME NEW user \in Users, NEW s \in 1 .. Len(sales), NEW lines \in Trades,
               NEW late \in BOOLEAN, NEW override \in BOOLEAN,
               CompleteExchange(user, s, lines, late, override)
        PROVE  Known'
    <3>1. /\ Len(sales') = Len(sales)
          /\ \A t \in 1 .. Len(sales) \ {s} : sales'[t] = sales[t]
          /\ sales'[s] = [sales[s] EXCEPT !.returned = Plus(sales[s].returned, ReturnedBy(lines))]
          /\ queued'.status = queued.status
      BY <2>7, ReturnsFiled
    <3>2. sales'[s].status = sales[s].status
      BY <3>1, SaleParts DEF Sale
    <3> QED BY <3>1, <3>2
  <2> QED BY <2>3, <2>4, <2>5, <2>6, <2>7 DEF Next, SaleStep, ExchangeStep
<1> QED
  BY <1>1, <1>2, <1>3, TypeCorrect, PTL DEF Spec

-------------------------------------------------------------------------------

\* The units of finitely many documents are finitely many.
LEMMA UnitsAreFinite ==
    ASSUME NEW n \in Nat, NEW f \in [1 .. n -> Nat]
    PROVE  IsFiniteSet(Units(f)) /\ Total(f) \in Nat
<1>1. IsFiniteSet(1 .. n)
  BY FS_Interval
<1>2. ASSUME NEW d \in 1 .. n PROVE IsFiniteSet({d} \X (1 .. f[d]))
  <2>1. f[d] \in Int /\ 1 \in Int
    OBVIOUS
  <2>2. IsFiniteSet({d}) /\ IsFiniteSet(1 .. f[d])
    BY <2>1, FS_Interval, FS_Singleton
  <2> QED BY <2>2, FS_Product
<1> DEFINE parts == {{d} \X (1 .. f[d]) : d \in 1 .. n}
           part  == [d \in 1 .. n |-> {d} \X (1 .. f[d])]
<1>3. IsFiniteSet(parts)
  <2>1. part \in Surjection(1 .. n, parts)
    BY DEF Surjection
  <2> QED BY <1>1, <2>1, FS_Surjection
<1>4. \A p \in parts : IsFiniteSet(p)
  BY <1>2
<1>5. IsFiniteSet(UNION parts)
  <2> HIDE DEF parts
  <2> QED BY <1>3, <1>4, FS_UNION
<1>6. Units(f) = UNION parts
  BY DEF Units
<1> QED
  BY <1>5, <1>6, FS_CardinalityType DEF Total

\* Those of one document are as many as it is worth.
LEMMA UnitsWithout ==
    ASSUME NEW n \in Nat, NEW f \in [1 .. n -> Nat], NEW d \in 1 .. n
    PROVE  /\ IsFiniteSet({u \in Units(f) : u[1] # d})
           /\ Total(f) = Cardinality({u \in Units(f) : u[1] # d}) + f[d]
<1> DEFINE rest == {u \in Units(f) : u[1] # d}
           own  == {d} \X (1 .. f[d])
<1>1. f[d] \in Nat /\ f[d] \in Int /\ 1 \in Int
  OBVIOUS
<1>2. IsFiniteSet(own) /\ Cardinality(own) = f[d]
  <2>1. /\ IsFiniteSet({d}) /\ Cardinality({d}) = 1
        /\ IsFiniteSet(1 .. f[d]) /\ Cardinality(1 .. f[d]) = IF 1 > f[d] THEN 0 ELSE f[d] - 1 + 1
    BY <1>1, FS_Singleton, FS_Interval
  <2>2. IsFiniteSet(own) /\ Cardinality(own) = 1 * Cardinality(1 .. f[d])
    BY <2>1, FS_Product
  <2> QED BY <1>1, <2>1, <2>2
<1>3. IsFiniteSet(Units(f))
  BY UnitsAreFinite
<1>4. IsFiniteSet(rest)
  BY <1>3, FS_Subset
<1>5. Units(f) = rest \cup own /\ rest \cap own = {}
  BY DEF Units
<1> HIDE DEF rest, own
<1>6. Cardinality(Units(f)) = Cardinality(rest) + Cardinality(own) - Cardinality(rest \cap own)
  BY <1>2, <1>4, <1>5, FS_Union
<1>7. Cardinality(rest \cap own) = 0 /\ Cardinality(rest) \in Nat
  BY <1>4, <1>5, FS_EmptySet, FS_CardinalityType
<1>8. Total(f) = Cardinality(rest) + f[d]
  BY <1>1, <1>2, <1>6, <1>7 DEF Total
<1> QED
  BY <1>4, <1>8 DEF rest

\* One document more.
LEMMA TotalAppended ==
    ASSUME NEW n \in Nat, NEW f \in [1 .. n -> Nat], NEW g \in [1 .. n + 1 -> Nat],
           \A d \in 1 .. n : g[d] = f[d]
    PROVE  Total(g) = Total(f) + g[n + 1]
<1>1. n + 1 \in 1 .. n + 1 /\ n + 1 \in Nat
  OBVIOUS
<1>2. Total(g) = Cardinality({u \in Units(g) : u[1] # n + 1}) + g[n + 1]
  BY <1>1, UnitsWithout
<1>3. {u \in Units(g) : u[1] # n + 1} = Units(f)
  <2>1. Units(g) = UNION {{d} \X (1 .. g[d]) : d \in 1 .. n + 1}
    BY DEF Units
  <2>2. Units(f) = UNION {{d} \X (1 .. f[d]) : d \in 1 .. n}
    BY DEF Units
  <2>3. \A u : u \in Units(f) <=> \E d \in 1 .. n : u \in {d} \X (1 .. f[d])
    BY <2>2
  <2>4. \A u : u \in Units(g) <=> \E d \in 1 .. n + 1 : u \in {d} \X (1 .. g[d])
    BY <2>1
  <2>5. \A d : d \in 1 .. n <=> d \in 1 .. n + 1 /\ d # n + 1
    OBVIOUS
  <2>6. ASSUME NEW u, u \in Units(f) PROVE u \in Units(g) /\ u[1] # n + 1
    <3>1. PICK d \in 1 .. n : u \in {d} \X (1 .. f[d])
      BY <2>3, <2>6
    <3>2. g[d] = f[d] /\ u[1] = d /\ d # n + 1 /\ d \in 1 .. n + 1
      BY <2>5, <3>1
    <3> QED BY <2>4, <3>1, <3>2
  <2>7. ASSUME NEW u, u \in Units(g), u[1] # n + 1 PROVE u \in Units(f)
    <3>1. PICK d \in 1 .. n + 1 : u \in {d} \X (1 .. g[d])
      BY <2>4, <2>7
    <3>2. u[1] = d
      BY <3>1
    <3>3. d \in 1 .. n /\ g[d] = f[d]
      BY <2>5, <2>7, <3>2
    <3> QED BY <2>3, <3>1, <3>3
  <2> QED BY <2>6, <2>7
<1> QED
  BY <1>2, <1>3 DEF Total

\* One document that is worth something else.
LEMMA TotalChanged ==
    ASSUME NEW n \in Nat, NEW f \in [1 .. n -> Nat], NEW g \in [1 .. n -> Nat], NEW d \in 1 .. n,
           \A i \in 1 .. n : i # d => g[i] = f[i]
    PROVE  Total(g) = Total(f) - f[d] + g[d]
<1> DEFINE others == {u \in Units(f) : u[1] # d}
           same   == {u \in Units(g) : u[1] # d}
<1>1. same = others
  <2>1. \A u : u \in Units(f) <=> \E i \in 1 .. n : u \in {i} \X (1 .. f[i])
    BY DEF Units
  <2>2. \A u : u \in Units(g) <=> \E i \in 1 .. n : u \in {i} \X (1 .. g[i])
    BY DEF Units
  <2>3. ASSUME NEW u, NEW i \in 1 .. n, u[1] # d
        PROVE  u \in {i} \X (1 .. f[i]) <=> u \in {i} \X (1 .. g[i])
    <3>1. CASE i = d
      BY <2>3, <3>1
    <3>2. CASE i # d
      BY <3>2
    <3> QED BY <3>1, <3>2
  <2>4. \A u : u[1] # d => (u \in Units(g) <=> u \in Units(f))
    BY <2>1, <2>2, <2>3
  <2> QED BY <2>4
<1>2. /\ IsFiniteSet(others) /\ Total(f) = Cardinality(others) + f[d]
      /\ Total(g) = Cardinality(same) + g[d]
  BY UnitsWithout
<1>3. f[d] \in Nat /\ g[d] \in Nat
  OBVIOUS
<1> HIDE DEF others, same
<1>4. Cardinality(others) \in Nat
  BY <1>2, FS_CardinalityType
<1> QED
  BY <1>1, <1>2, <1>3, <1>4

\* The ledger of a customer is a list of natural numbers.
LEMMA LedgerTypes ==
    ASSUME TypeOK, NEW c \in Customers
    PROVE  /\ Len(exchanges) \in Nat /\ Grants(c) \in [1 .. Len(exchanges) -> Nat]
           /\ Len(sales) \in Nat /\ Debits(c) \in [1 .. Len(sales) -> Nat]
<1>1. exchanges \in Seq(Exchange) /\ sales \in Seq(Sale)
  BY DEF TypeOK
<1>2. \A e \in 1 .. Len(exchanges) : exchanges[e].difference \in Int
  <2>1. \A e \in 1 .. Len(exchanges) : exchanges[e] \in Exchange
    BY <1>1
  <2> QED BY <2>1 DEF Exchange
<1>3. \A s \in 1 .. Len(sales) : sales[s].total \in Nat
  BY SaleParts
<1> QED
  BY <1>1, <1>2, <1>3 DEF Grants, Debits

\* Every exchange on file is of a receipt on file.
ExchangesHaveReceipts ==
    \A e \in 1 .. Len(exchanges) : exchanges[e].sale \in 1 .. Len(sales)

\* The balance of every customer is what exchanges granted minus what live CREDIT
\* sales cost, whatever is sold, cancelled and exchanged in between.
THEOREM CreditIsExplained == Spec => []CreditExplained
<1> DEFINE Explained == CreditExplained /\ ExchangesHaveReceipts
<1>1. Init => Explained
  <2> SUFFICES ASSUME Init, NEW c \in Customers PROVE Balance(c) = Total(Grants(c)) - Total(Debits(c))
    BY DEF Init, CreditExplained, ExchangesHaveReceipts
  <2>1. Units(Grants(c)) = {} /\ Units(Debits(c)) = {}
    BY DEF Init, Units, Grants, Debits
  <2>2. Balance(c) = 0
    BY DEF Init, Balance
  <2> QED BY <2>1, <2>2, FS_EmptySet DEF Total
<1>2. TypeOK /\ TypeOK' /\ Explained /\ [Next]_vars => Explained'
  <2> SUFFICES ASSUME TypeOK, TypeOK', CreditExplained, ExchangesHaveReceipts, [Next]_vars
               PROVE  Explained'
    OBVIOUS
  <2>1. /\ sales \in Seq(Sale) /\ Len(sales) \in Nat
        /\ exchanges \in Seq(Exchange) /\ Len(exchanges) \in Nat
        /\ granted \in [Customers -> Nat] /\ spent \in [Customers -> Nat]
        /\ \A c \in Customers : granted[c] \in Nat /\ spent[c] \in Nat
    BY DEF TypeOK
  <2>2. \A c \in Customers : granted[c] - spent[c] = Total(Grants(c)) - Total(Debits(c))
    BY DEF CreditExplained, Balance
  <2>3. \A c \in Customers : /\ Total(Grants(c)) \in Nat /\ Total(Debits(c)) \in Nat
                             /\ Grants(c) \in [1 .. Len(exchanges) -> Nat]
                             /\ Debits(c) \in [1 .. Len(sales) -> Nat]
    BY LedgerTypes, UnitsAreFinite
  <2>4. \A c \in Customers : /\ Grants(c)' \in [1 .. Len(exchanges') -> Nat]
                             /\ Debits(c)' \in [1 .. Len(sales') -> Nat]
    <3>1. exchanges' \in Seq(Exchange) /\ sales' \in Seq(Sale)
      BY DEF TypeOK
    <3>2. \A e \in 1 .. Len(exchanges') : exchanges'[e].difference \in Int
      <4>1. \A e \in 1 .. Len(exchanges') : exchanges'[e] \in Exchange
        BY <3>1
      <4> QED BY <4>1 DEF Exchange
    <3>3. \A s \in 1 .. Len(sales') : sales'[s].total \in Nat
      <4>1. \A s \in 1 .. Len(sales') : sales'[s] \in Sale
        BY <3>1
      <4> QED BY <4>1 DEF Sale
    <3> QED BY <3>1, <3>2, <3>3 DEF Grants, Debits
  <2>5. ASSUME UNCHANGED <<sales, exchanges, granted, spent>> PROVE Explained'
    BY <2>5 DEF CreditExplained, ExchangesHaveReceipts, Balance, Grants, Debits, Total, Units
  <2>6. CASE UNCHANGED vars
    BY <2>5, <2>6 DEF vars, creditVars
  <2>7. ASSUME NEW user \in Users, CatalogueStep(user) \/ StockStep(user) PROVE Explained'
    <3>1. UNCHANGED <<sales, exchanges, granted, spent>>
      BY <2>7, CatalogueLeaves, StockLeaves
    <3> QED BY <2>5, <3>1
  <2>8. ASSUME NEW user \in Users, NEW d \in Customers, NEW items \in Lines,
               NEW method \in PaymentMethods, NEW discount \in 0 .. MaxMoney,
               CompleteSale(user, d, items, method, discount)
        PROVE  Explained'
    <3> DEFINE receipt == Len(sales) + 1
    <3>1. exchanges' = exchanges /\ granted' = granted
      BY <2>8 DEF CompleteSale
    <3>2. PICK sale \in Sale :
             /\ sale.customer = d /\ sale.status = "COMPLETED"
             /\ spent' = [spent EXCEPT ![d] = @ + CreditPaid(sale)]
             /\ Len(sales') = receipt /\ sales'[receipt] = sale
             /\ \A s \in 1 .. Len(sales) : sales'[s] = sales[s]
      BY <2>8, SaleFiled
    <3>3. CreditPaid(sale) \in Nat
      BY DEF CreditPaid, Sale
    <3>4. ASSUME NEW c \in Customers PROVE Balance(c)' = Total(Grants(c))' - Total(Debits(c))'
      <4>1. Grants(c)' = Grants(c)
        BY <2>1, <3>1, <3>2 DEF Grants, ExchangesHaveReceipts
      <4>2. /\ \A s \in 1 .. Len(sales) : Debits(c)'[s] = Debits(c)[s]
            /\ Debits(c)'[receipt] = IF c = d THEN CreditPaid(sale) ELSE 0
        BY <2>1, <3>2 DEF Debits, CreditPaid
      <4>3. Total(Debits(c)') = Total(Debits(c)) + Debits(c)'[receipt]
        <5> DEFINE f == Debits(c)
                   g == Debits(c)'
                   n == Len(sales)
        <5>1. f \in [1 .. n -> Nat] /\ g \in [1 .. n + 1 -> Nat] /\ n \in Nat
              /\ \A s \in 1 .. n : g[s] = f[s]
          BY <2>1, <2>3, <2>4, <3>2, <4>2
        <5> HIDE DEF f, g, n
        <5>2. Total(g) = Total(f) + g[n + 1]
          BY <5>1, TotalAppended
        <5> QED BY <5>2 DEF f, g, n
      <4>4. Total(Grants(c))' = Total(Grants(c)) /\ Total(Debits(c))' = Total(Debits(c)')
        BY <4>1 DEF Total, Units
      <4>5. spent'[c] = IF c = d THEN spent[c] + CreditPaid(sale) ELSE spent[c]
        BY <2>1, <3>2
      <4> HIDE DEF receipt
      <4>6. /\ granted[c] - spent[c] = Total(Grants(c)) - Total(Debits(c))
            /\ granted[c] \in Nat /\ spent[c] \in Nat
            /\ Total(Grants(c)) \in Nat /\ Total(Debits(c)) \in Nat
        BY <2>1, <2>2, <2>3
      <4>7. Balance(c)' = granted[c] - spent'[c]
        BY <3>1 DEF Balance
      <4>8. Debits(c)'[receipt] = IF c = d THEN CreditPaid(sale) ELSE 0
        BY <4>2
      <4> DEFINE more == IF c = d THEN CreditPaid(sale) ELSE 0
      <4>9. Total(Debits(c))' = Total(Debits(c)) + more
        BY <4>3, <4>4, <4>8
      <4>10. spent'[c] = spent[c] + more /\ more \in Nat
        BY <3>3, <4>5, <4>6
      <4> HIDE DEF more
      <4> QED BY <4>4, <4>6, <4>7, <4>9, <4>10
    <3>5. ExchangesHaveReceipts'
      BY <2>1, <3>1, <3>2 DEF ExchangesHaveReceipts
    <3> QED BY <3>4, <3>5 DEF CreditExplained
  <2>9. ASSUME NEW user \in Users, NEW s \in 1 .. Len(sales), CancelSale(user, s)
        PROVE  Explained'
    <3> DEFINE d    == sales[s].customer
               paid == CreditPaid(sales[s])
    <3>1. exchanges' = exchanges /\ spent' = spent
      BY <2>9 DEF CancelSale
    <3>2. /\ Len(sales') = Len(sales)
          /\ \A t \in 1 .. Len(sales) \ {s} : sales'[t] = sales[t]
          /\ sales[s].status = "COMPLETED"
          /\ sales'[s] = [sales[s] EXCEPT !.status = "CANCELLED"]
          /\ granted' = [granted EXCEPT ![d] = @ + paid]
      BY <2>9, SaleCancelled
    <3>3. paid \in Nat /\ sales[s] \in Sale /\ d \in Customers
      BY SaleParts DEF CreditPaid
    <3>4. sales'[s].customer = d /\ sales'[s].status = "CANCELLED"
      BY <3>2, <3>3 DEF Sale
    <3>5. \A t \in 1 .. Len(sales) : sales'[t].customer = sales[t].customer
      BY <3>2, <3>4
    <3>6. ASSUME NEW c \in Customers PROVE Balance(c)' = Total(Grants(c))' - Total(Debits(c))'
      <4>1. Grants(c)' = Grants(c)
        BY <2>1, <3>1, <3>5 DEF Grants, ExchangesHaveReceipts
      <4>2. /\ \A t \in 1 .. Len(sales) : t # s => Debits(c)'[t] = Debits(c)[t]
            /\ Debits(c)'[s] = 0 /\ Debits(c)[s] = IF c = d THEN paid ELSE 0
        BY <2>1, <3>2, <3>4 DEF Debits, CreditPaid
      <4>3. Total(Debits(c)') = Total(Debits(c)) - Debits(c)[s] + Debits(c)'[s]
        <5> DEFINE f == Debits(c)
                   g == Debits(c)'
                   n == Len(sales)
        <5>1. /\ f \in [1 .. n -> Nat] /\ g \in [1 .. n -> Nat] /\ n \in Nat /\ s \in 1 .. n
              /\ \A t \in 1 .. n : t # s => g[t] = f[t]
          BY <2>1, <2>3, <2>4, <3>2, <4>2
        <5> HIDE DEF f, g, n
        <5>2. Total(g) = Total(f) - f[s] + g[s]
          BY <5>1, TotalChanged
        <5> QED BY <5>2 DEF f, g, n
      <4>4. Total(Grants(c))' = Total(Grants(c)) /\ Total(Debits(c))' = Total(Debits(c)')
        BY <4>1 DEF Total, Units
      <4> HIDE DEF d, paid
      <4>5. granted'[c] = IF c = d THEN granted[c] + paid ELSE granted[c]
        BY <2>1, <3>2
      <4>6. Balance(c)' = granted'[c] - spent'[c]
        BY DEF Balance
      <4>7. Debits(c)'[s] = 0 /\ Debits(c)[s] = IF c = d THEN paid ELSE 0
        BY <4>2
      <4>8. /\ granted[c] - spent[c] = Total(Grants(c)) - Total(Debits(c)) /\ spent'[c] = spent[c]
            /\ granted[c] \in Nat /\ spent[c] \in Nat /\ paid \in Nat
            /\ Total(Grants(c)) \in Nat /\ Total(Debits(c)) \in Nat
        BY <2>1, <2>2, <2>3, <3>1, <3>3
      <4> DEFINE more == IF c = d THEN paid ELSE 0
      <4>9. Total(Debits(c))' = Total(Debits(c)) - more
        BY <4>3, <4>4, <4>7, <4>8
      <4>10. granted'[c] = granted[c] + more /\ more \in Nat
        BY <4>5, <4>8
      <4> HIDE DEF more
      <4>11. Total(Grants(c))' = Total(Grants(c))
        BY <4>4
      <4>12. Balance(c)' = (granted[c] - spent[c]) + more
        BY <4>6, <4>8, <4>10
      <4> QED BY <4>8, <4>9, <4>10, <4>11, <4>12
    <3>7. ExchangesHaveReceipts'
      BY <3>1, <3>2 DEF ExchangesHaveReceipts
    <3> QED BY <3>6, <3>7 DEF CreditExplained
  <2>10. ASSUME NEW user \in Users, NEW s \in 1 .. Len(sales), NEW lines \in Trades,
                NEW late \in BOOLEAN, NEW override \in BOOLEAN,
                CompleteExchange(user, s, lines, late, override)
         PROVE  Explained'
    <3> DEFINE e          == Len(exchanges) + 1
               d          == sales[s].customer
               difference == Difference(sales[s], lines)
               owed       == CreditOwed(difference)
               filed      == [sale |-> s, difference |-> difference, override |-> override]
    <3>1. /\ spent' = spent /\ granted' = [granted EXCEPT ![d] = @ + owed]
          /\ exchanges' = Append(exchanges, filed) /\ difference \in Int
      BY <2>10, Bounds DEF CompleteExchange
    <3>2. /\ filed \in Exchange /\ filed.sale = s /\ filed.difference = difference
          /\ d \in Customers /\ owed \in Nat
          /\ owed = IF difference < 0 THEN -difference ELSE 0
      BY <2>1, <3>1, SaleParts DEF Exchange, CreditOwed
    <3>3. /\ Len(sales') = Len(sales)
          /\ \A t \in 1 .. Len(sales) \ {s} : sales'[t] = sales[t]
          /\ sales'[s] = [sales[s] EXCEPT !.returned = Plus(sales[s].returned, ReturnedBy(lines))]
          /\ queued'.status = queued.status
      BY <2>10, ReturnsFiled
    <3>4. \A t \in 1 .. Len(sales) :
             /\ sales'[t].customer = sales[t].customer /\ sales'[t].method = sales[t].method
             /\ sales'[t].status = sales[t].status /\ sales'[t].total = sales[t].total
      <4>1. ASSUME NEW t \in 1 .. Len(sales), t = s
            PROVE  /\ sales'[t].customer = sales[t].customer /\ sales'[t].method = sales[t].method
                   /\ sales'[t].status = sales[t].status /\ sales'[t].total = sales[t].total
        BY <3>3, <4>1, SaleParts DEF Sale
      <4>2. \A t \in 1 .. Len(sales) : t # s => sales'[t] = sales[t]
        BY <3>3
      <4> QED BY <4>1, <4>2
    <3> HIDE DEF filed
    <3>5. /\ Len(exchanges') = e /\ exchanges'[e] = filed
          /\ \A i \in 1 .. Len(exchanges) : exchanges'[i] = exchanges[i]
      BY <2>1, <3>1, <3>2, AppendParts
    <3>6. ASSUME NEW c \in Customers PROVE Balance(c)' = Total(Grants(c))' - Total(Debits(c))'
      <4>1. Debits(c)' = Debits(c)
        BY <2>1, <3>3, <3>4 DEF Debits
      <4>2. /\ \A i \in 1 .. Len(exchanges) : Grants(c)'[i] = Grants(c)[i]
            /\ Grants(c)'[e] = IF c = d THEN owed ELSE 0
        <5>1. \A i \in 1 .. e : Grants(c)'[i] =
                 IF sales'[exchanges'[i].sale].customer = c /\ exchanges'[i].difference < 0
                 THEN -exchanges'[i].difference ELSE 0
          BY <3>5 DEF Grants
        <5>2. e \in 1 .. e /\ \A i \in 1 .. Len(exchanges) : i \in 1 .. e
          BY <2>1
        <5>3. sales'[s].customer = d
          BY <3>4
        <5> HIDE DEF e, d, difference, owed
        <5>4. Grants(c)'[e] = IF c = d THEN owed ELSE 0
          BY <3>2, <3>5, <5>1, <5>2, <5>3
        <5>5. \A i \in 1 .. Len(exchanges) : Grants(c)'[i] = Grants(c)[i]
          BY <3>4, <3>5, <5>1, <5>2 DEF ExchangesHaveReceipts, Grants
        <5> QED BY <5>4, <5>5
      <4>3. Total(Grants(c)') = Total(Grants(c)) + Grants(c)'[e]
        <5> DEFINE f == Grants(c)
                   g == Grants(c)'
                   n == Len(exchanges)
        <5>1. f \in [1 .. n -> Nat] /\ g \in [1 .. n + 1 -> Nat] /\ n \in Nat
              /\ \A i \in 1 .. n : g[i] = f[i]
          BY <2>1, <2>3, <2>4, <3>5, <4>2
        <5> HIDE DEF f, g, n
        <5>2. Total(g) = Total(f) + g[n + 1]
          BY <5>1, TotalAppended
        <5> QED BY <5>2 DEF f, g, n
      <4>4. Total(Debits(c))' = Total(Debits(c)) /\ Total(Grants(c))' = Total(Grants(c)')
        BY <4>1 DEF Total, Units
      <4> HIDE DEF e, d, difference, owed
      <4>5. granted'[c] = IF c = d THEN granted[c] + owed ELSE granted[c]
        BY <2>1, <3>1
      <4>6. Balance(c)' = granted'[c] - spent'[c] /\ owed \in Nat
        BY <3>2 DEF Balance
      <4>7. Grants(c)'[e] = IF c = d THEN owed ELSE 0
        BY <4>2
      <4>8. /\ granted[c] - spent[c] = Total(Grants(c)) - Total(Debits(c)) /\ spent'[c] = spent[c]
            /\ granted[c] \in Nat /\ spent[c] \in Nat /\ owed \in Nat
            /\ Total(Grants(c)) \in Nat /\ Total(Debits(c)) \in Nat
        BY <2>1, <2>2, <2>3, <3>1, <4>6
      <4> DEFINE more == IF c = d THEN owed ELSE 0
      <4>9. Total(Grants(c))' = Total(Grants(c)) + more
        BY <4>3, <4>4, <4>7, <4>8
      <4>10. granted'[c] = granted[c] + more /\ more \in Nat
        BY <4>5, <4>8
      <4> HIDE DEF more
      <4>11. Total(Debits(c))' = Total(Debits(c))
        BY <4>4
      <4>12. Balance(c)' = (granted[c] - spent[c]) + more
        BY <4>6, <4>8, <4>10
      <4> QED BY <4>8, <4>9, <4>10, <4>11, <4>12
    <3>7. ExchangesHaveReceipts'
      <4>1. \A i \in 1 .. e : i \in 1 .. Len(exchanges) \/ i = e
        BY <2>1
      <4> HIDE DEF e
      <4> QED BY <3>2, <3>3, <3>5, <4>1 DEF ExchangesHaveReceipts
    <3> QED BY <3>6, <3>7 DEF CreditExplained
  <2> QED BY <2>6, <2>7, <2>8, <2>9, <2>10 DEF Next, SaleStep, ExchangeStep
<1> QED
  BY <1>1, <1>2, TypeCorrect, PTL DEF Spec

-------------------------------------------------------------------------------
\* The stock ledger

\* Rows appended for a product account for its new quantity when they start at
\* the old one, end at the new one, add up and chain.
LEMMA AppendedRowsAccount ==
    ASSUME TypeOK, NEW p \in stocked, NEW rows \in Seq(Movement), rows # <<>>,
           log'[p] = log[p] \o rows,
           rows[1].previous = quantity[p],
           \A i \in 1 .. Len(rows) : rows[i].new = rows[i].previous + rows[i].change,
           \A i \in 1 .. Len(rows) - 1 : rows[i].new = rows[i + 1].previous,
           rows[Len(rows)].new = quantity'[p]
    PROVE  Ledger!Accounted(p)
<1> DEFINE old == Len(log[p])
           n   == Len(rows)
<1>1. log[p] \in Seq(Movement) /\ old \in Nat /\ n \in Nat /\ n >= 1
  BY DEF TypeOK
<1>2. log'[p] \in Seq(Movement) /\ Len(log'[p]) = old + n
  BY <1>1
<1>3. \A i \in 1 .. old : log'[p][i] = log[p][i]
  BY <1>1
<1>4. \A i \in 1 .. n : log'[p][old + i] = rows[i]
  BY <1>1
<1>5. /\ \A i \in 1 .. n : rows[i].new = rows[i].previous + rows[i].change
      /\ \A i \in 1 .. n - 1 : rows[i].new = rows[i + 1].previous
      /\ rows[1].previous = quantity[p] /\ rows[n].new = quantity'[p]
  OBVIOUS
<1> HIDE DEF old, n
<1>6. ASSUME NEW i \in old + 1 .. old + n
      PROVE  i - old \in 1 .. n /\ log'[p][i] = rows[i - old]
  <2>1. i - old \in 1 .. n /\ old + (i - old) = i
    BY <1>1
  <2> QED BY <1>4, <2>1
<1>7. /\ log'[p][old + 1].previous = quantity[p]
      /\ log'[p][old + n].new = quantity'[p]
  <2>1. 1 \in 1 .. n /\ n \in 1 .. n
    BY <1>1
  <2> QED BY <1>4, <1>5, <2>1
<1>8. \A i \in old + 1 .. old + n : log'[p][i].new = log'[p][i].previous + log'[p][i].change
  BY <1>5, <1>6
<1>9. ASSUME NEW i \in old + 1 .. (old + n) - 1
      PROVE  log'[p][i].new = log'[p][i + 1].previous
  <2>1. i \in old + 1 .. old + n
    BY <1>1
  <2>2. i + 1 \in old + 1 .. old + n
    BY <1>1
  <2>3. i - old \in 1 .. n - 1 /\ (i + 1) - old = (i - old) + 1
    BY <1>1
  <2>4. log'[p][i] = rows[i - old]
    BY <1>6, <2>1
  <2>5. log'[p][i + 1] = rows[(i + 1) - old]
    BY <1>6, <2>2
  <2>6. rows[i - old].new = rows[(i - old) + 1].previous
    BY <1>5, <2>3
  <2> QED BY <2>3, <2>4, <2>5, <2>6
<1>10. log'[p] \in Seq(Ledger!Movement)
  BY <1>2 DEF Ledger!Movement, Movement
<1>11. old + 1 <= old + n
  BY <1>1
<1> DEFINE first == old + 1
           last  == old + n
<1>12. /\ first = Len(log[p]) + 1 /\ last = Len(log'[p]) /\ first <= last
       /\ log'[p][first].previous = quantity[p] /\ log'[p][last].new = quantity'[p]
       /\ \A i \in first .. last : log'[p][i].new = log'[p][i].previous + log'[p][i].change
       /\ \A i \in first .. last - 1 : log'[p][i].new = log'[p][i + 1].previous
       /\ \A i \in 1 .. Len(log[p]) : log'[p][i] = log[p][i]
  <2>1. first = Len(log[p]) + 1 /\ last = Len(log'[p]) /\ first <= last
    BY <1>2, <1>11 DEF old
  <2>2. log'[p][first].previous = quantity[p] /\ log'[p][last].new = quantity'[p]
    BY <1>7
  <2>3. \A i \in first .. last : log'[p][i].new = log'[p][i].previous + log'[p][i].change
    BY <1>8
  <2>4. \A i \in first .. last - 1 : log'[p][i].new = log'[p][i + 1].previous
    BY <1>9
  <2>5. \A i \in 1 .. Len(log[p]) : log'[p][i] = log[p][i]
    BY <1>3 DEF old
  <2> QED BY <2>1, <2>2, <2>3, <2>4, <2>5
<1> HIDE DEF first, last
<1> QED
  BY <1>10, <1>12 DEF Ledger!Accounted

\* change_stock posts: what it moves it accounts for, the rest stands still.
LEMMA ChangeStockPosts ==
    ASSUME TypeOK, UNCHANGED stocked,
           NEW STATE moved, NEW STATE change, NEW type \in ReferenceTypes, NEW ref \in Nat,
           change \in [Products -> Int],
           ChangeStock(moved, change, type, ref)
    PROVE  Ledger!Post
<1>1. quantity' \in [Products -> Nat] /\ log' \in [Products -> Seq(Movement)]
  BY ChangeStockTypes
<1>2. ASSUME NEW p \in Products, p \notin moved PROVE Ledger!Still(p)
  BY <1>2 DEF ChangeStock, Ledger!Still
<1>3. ASSUME NEW p \in Products, p \in moved PROVE Ledger!Accounted(p)
  <2> DEFINE row  == Row(quantity[p], change[p], type, ref)
             rows == <<row>>
  <2>1. p \in stocked /\ quantity[p] + change[p] >= 0 /\ quantity[p] \in Nat /\ change[p] \in Int
    BY <1>3 DEF ChangeStock, InStock, TypeOK
  <2>2. /\ row \in Movement
        /\ row.previous = quantity[p] /\ row.change = change[p]
        /\ row.new = quantity[p] + change[p]
    BY <2>1 DEF Row, Movement, Labels
  <2>3. quantity'[p] = quantity[p] + change[p]
    BY <1>3 DEF ChangeStock
  <2>4. log[p] \in Seq(Movement)
    BY DEF TypeOK
  <2>5. log'[p] = Append(log[p], row)
    BY <1>3 DEF ChangeStock
  <2> HIDE DEF row
  <2>6. log'[p] = log[p] \o rows
    BY <2>2, <2>4, <2>5
  <2>7. /\ rows \in Seq(Movement) /\ rows # <<>>
        /\ Len(rows) = 1 /\ rows[1] = row
    BY <2>2
  <2> HIDE DEF rows
  <2>8. /\ \A i \in 1 .. Len(rows) : rows[i].new = rows[i].previous + rows[i].change
        /\ \A i \in 1 .. Len(rows) - 1 : rows[i].new = rows[i + 1].previous
        /\ rows[1].previous = quantity[p] /\ rows[Len(rows)].new = quantity'[p]
    BY <2>2, <2>3, <2>7
  <2> QED BY <2>1, <2>6, <2>7, <2>8, AppendedRowsAccount
<1> QED
  BY <1>1, <1>2, <1>3 DEF Ledger!Post

\* An exchange books for each product it names one row or two, which start at
\* the quantity on the shelf, chain, and end where the exchange leaves it.
LEMMA ExchangeRowsAccount ==
    ASSUME TypeOK, NEW lines \in Trades, NEW p \in Products, NEW e \in Nat
    PROVE  LET rows == ExchangeRows(lines, p, e)
               last == quantity[p] + (ReturnedBy(lines)[p] - IssuedBy(lines)[p])
           IN  \/ rows = <<>> /\ last = quantity[p]
               \/ /\ rows # <<>> /\ rows[1].previous = quantity[p]
                  /\ \A i \in 1 .. Len(rows) : rows[i].new = rows[i].previous + rows[i].change
                  /\ \A i \in 1 .. Len(rows) - 1 : rows[i].new = rows[i + 1].previous
                  /\ rows[Len(rows)].new = last
<1> DEFINE returned == ReturnedBy(lines)[p]
           issued   == IssuedBy(lines)[p]
           q        == quantity[p]
           rows     == ExchangeRows(lines, p, e)
           Good(r)  == /\ r # <<>> /\ r[1].previous = q
                       /\ \A i \in 1 .. Len(r) : r[i].new = r[i].previous + r[i].change
                       /\ \A i \in 1 .. Len(r) - 1 : r[i].new = r[i + 1].previous
                       /\ r[Len(r)].new = q + (returned - issued)
<1>1. returned \in Nat /\ issued \in Nat /\ q \in Nat
  BY LineQuantities DEF TypeOK
<1>2. ASSUME NEW a, a.previous = q, a.new = a.previous + a.change, a.new = q + (returned - issued)
      PROVE  Good(<<a>>)
  BY <1>2
<1>3. ASSUME NEW a, NEW b,
             a.previous = q, a.new = a.previous + a.change, b.previous = a.new,
             b.new = b.previous + b.change, b.new = q + (returned - issued)
      PROVE  Good(<<a>> \o <<b>>)
  <2> DEFINE r == <<a>> \o <<b>>
  <2>1. Len(r) = 2 /\ r[1] = a /\ r[2] = b /\ r # <<>>
    BY TwoRows
  <2> HIDE DEF r
  <2>2. Good(r)
    BY <1>3, <2>1
  <2> QED BY <2>2 DEF r
<1>4. CASE returned = 0 /\ issued = 0
  BY <1>1, <1>4 DEF ExchangeRows
<1>5. CASE returned # 0 /\ issued = 0
  <2> DEFINE a == Row(q, returned, "EXCHANGE", e)
  <2>1. rows = <<a>>
    BY <1>1, <1>5 DEF ExchangeRows
  <2>2. a.previous = q /\ a.new = a.previous + a.change /\ a.new = q + (returned - issued)
    BY <1>1, <1>5 DEF Row
  <2> HIDE DEF a
  <2>3. Good(<<a>>)
    BY <1>2, <2>2
  <2> QED BY <2>1, <2>3
<1>6. CASE returned = 0 /\ issued # 0
  <2> DEFINE a == Row(q, -issued, "EXCHANGE", e)
  <2>1. rows = <<a>>
    BY <1>1, <1>6 DEF ExchangeRows
  <2>2. a.previous = q /\ a.new = a.previous + a.change /\ a.new = q + (returned - issued)
    BY <1>1, <1>6 DEF Row
  <2> HIDE DEF a
  <2>3. Good(<<a>>)
    BY <1>2, <2>2
  <2> QED BY <2>1, <2>3
<1>7. CASE returned # 0 /\ issued # 0 /\ ReturnsFirst(lines, p)
  <2> DEFINE a == Row(q, returned, "EXCHANGE", e)
             b == Row(q + returned, -issued, "EXCHANGE", e)
  <2>1. rows = <<a>> \o <<b>>
    BY <1>7 DEF ExchangeRows
  <2>2. /\ a.previous = q /\ a.new = a.previous + a.change /\ b.previous = a.new
        /\ b.new = b.previous + b.change /\ b.new = q + (returned - issued)
    BY <1>1 DEF Row
  <2> HIDE DEF a, b
  <2>3. Good(<<a>> \o <<b>>)
    BY <1>3, <2>2
  <2> QED BY <2>1, <2>3
<1>8. CASE returned # 0 /\ issued # 0 /\ ~ReturnsFirst(lines, p)
  <2> DEFINE a == Row(q, -issued, "EXCHANGE", e)
             b == Row(q - issued, returned, "EXCHANGE", e)
  <2>1. rows = <<a>> \o <<b>>
    BY <1>8 DEF ExchangeRows
  <2>2. /\ a.previous = q /\ a.new = a.previous + a.change /\ b.previous = a.new
        /\ b.new = b.previous + b.change /\ b.new = q + (returned - issued)
    BY <1>1 DEF Row
  <2> HIDE DEF a, b
  <2>3. Good(<<a>> \o <<b>>)
    BY <1>3, <2>2
  <2> QED BY <2>1, <2>3
<1> QED
  BY <1>4, <1>5, <1>6, <1>7, <1>8

\* An exchange posts what it takes back and what it hands out.
LEMMA ExchangePosts ==
    ASSUME TypeOK, TypeOK', NothingBeforeRegistration,
           NEW user \in Users, NEW s \in 1 .. Len(sales), NEW lines \in Trades,
           NEW late \in BOOLEAN, NEW override \in BOOLEAN,
           CompleteExchange(user, s, lines, late, override)
    PROVE  Ledger!Post
<1> DEFINE e == Len(exchanges) + 1
           Rows(p) == ExchangeRows(lines, p, e)
<1>1. /\ quantity' \in [Products -> Nat] /\ log' \in [Products -> Seq(Movement)]
      /\ e \in Nat /\ stocked' = stocked
  <2>1. quantity' \in [Products -> Nat] /\ log' \in [Products -> Seq(Movement)] /\ e \in Nat
    BY DEF TypeOK
  <2>2. stocked' = stocked
    BY DEF CompleteExchange, catalogueVars
  <2> QED BY <2>1, <2>2
<1>2. ASSUME NEW p \in Products PROVE Ledger!Still(p) \/ Ledger!Accounted(p)
  <2>1. /\ quantity'[p] = quantity[p] + (ReturnedBy(lines)[p] - IssuedBy(lines)[p])
        /\ log'[p] = log[p] \o Rows(p)
        /\ \A i \in 1 .. Len(Rows(p)) : Rows(p)[i].new >= 0
    BY DEF CompleteExchange, Plus
  <2>2. Rows(p) \in Seq(Movement)
    BY <1>1, <2>1, ExchangeRowsAreMovements
  <2>3. CASE Rows(p) = <<>> /\ quantity'[p] = quantity[p]
    <3>1. log[p] \in Seq(Movement)
      BY DEF TypeOK
    <3> HIDE DEF Rows
    <3> QED BY <2>1, <2>3, <3>1 DEF Ledger!Still
  <2>4. CASE /\ Rows(p) # <<>> /\ Rows(p)[1].previous = quantity[p]
             /\ \A i \in 1 .. Len(Rows(p)) : Rows(p)[i].new = Rows(p)[i].previous + Rows(p)[i].change
             /\ \A i \in 1 .. Len(Rows(p)) - 1 : Rows(p)[i].new = Rows(p)[i + 1].previous
             /\ Rows(p)[Len(Rows(p))].new = quantity'[p]
    <3>1. ASSUME p \notin stocked PROVE FALSE
      <4>1. ReturnedBy(lines)[p] = 0 /\ IssuedBy(lines)[p] = 0
        BY <3>1, ExchangedIsStocked
      <4>2. Rows(p) = <<>>
        BY <4>1 DEF ExchangeRows
      <4> HIDE DEF Rows
      <4> QED BY <2>4, <4>2
    <3> HIDE DEF Rows
    <3> QED BY <2>1, <2>2, <2>4, <3>1, AppendedRowsAccount
  <2> QED
    BY <1>1, <2>1, <2>3, <2>4, ExchangeRowsAccount
<1>3. log' = [p \in Products |-> log'[p]]
  BY <1>1
<1> QED
  BY <1>1, <1>2, <1>3 DEF Ledger!Post

\* Every step of the shop is a step of the ledger, or none.
LEMMA StoreStepsLedger ==
    TypeOK /\ TypeOK' /\ NothingBeforeRegistration /\ [Next]_vars => [Ledger!Next]_Ledger!ledgerVars
<1> SUFFICES ASSUME TypeOK, TypeOK', NothingBeforeRegistration, [Next]_vars
             PROVE  [Ledger!Next]_Ledger!ledgerVars
  OBVIOUS
<1>1. CASE UNCHANGED vars
  BY <1>1 DEF vars, catalogueVars, stockVars, Ledger!ledgerVars
<1>2. ASSUME NEW user \in Users, CatalogueStep(user) PROVE [Ledger!Next]_Ledger!ledgerVars
  <2>1. ASSUME NEW p \in Products, NEW selling \in Prices, NEW costing \in Costs,
               NEW opening \in 0 .. MaxQuantity,
               CreateProduct(user, p, selling, costing, opening)
        PROVE  Ledger!Register(p)
    <3>1. /\ quantity' = [quantity EXCEPT ![p] = opening] /\ quantity \in [Products -> Nat]
          /\ quantity'[p] = opening /\ opening \in Nat
      BY <2>1, Bounds DEF CreateProduct, TypeOK
    <3> QED BY <2>1, <3>1 DEF CreateProduct, Ledger!Register
  <2>2. ASSUME NEW p \in Products, NEW selling \in Prices, NEW costing \in Costs,
               NEW new \in {quantity[p]} \cup (0 .. MaxQuantity), NEW nowActive \in BOOLEAN,
               UpdateProduct(user, p, selling, costing, new, nowActive)
        PROVE  Ledger!Overwrite(p) \/ UNCHANGED Ledger!ledgerVars
    <3>1. /\ quantity' = [quantity EXCEPT ![p] = new] /\ quantity \in [Products -> Nat]
          /\ quantity'[p] = new /\ new \in Nat /\ UNCHANGED <<stocked, log>>
          /\ p \in stocked /\ (new # quantity[p] => p \in FormEdits)
      BY <2>2, Bounds DEF UpdateProduct, TypeOK
    <3>2. CASE new = quantity[p]
      BY <3>1, <3>2 DEF Ledger!ledgerVars
    <3>3. CASE new # quantity[p]
      BY <3>1, <3>3 DEF Ledger!Overwrite
    <3> QED BY <3>2, <3>3
  <2>3. ASSUME NEW p \in Products, DeactivateProduct(user, p) \/ ActivateProduct(user, p)
        PROVE  UNCHANGED Ledger!ledgerVars
    BY <2>3 DEF DeactivateProduct, ActivateProduct, stockVars, Ledger!ledgerVars
  <2> QED
    BY <1>2, <2>1, <2>2, <2>3 DEF CatalogueStep, Ledger!Next
<1>3. ASSUME NEW user \in Users, StockStep(user) PROVE Ledger!Post
  <2>1. UNCHANGED stocked
    BY <1>3, StockLeaves
  <2>2. ASSUME NEW p \in Products, NEW added \in 1 .. MaxQuantity, StockIn(user, p, added)
        PROVE  Ledger!Post
    <3> DEFINE change == [NoStock EXCEPT ![p] = added]
    <3>1. ChangeStock({p}, change, "STOCK_IN", 0) /\ change \in [Products -> Int]
      BY <2>2, Bounds DEF StockIn, NoStock
    <3> HIDE DEF change
    <3> QED BY <2>1, <3>1, ChangeStockPosts DEF ReferenceTypes
  <2>3. ASSUME NEW p \in Products, NEW new \in 0 .. MaxQuantity, Adjust(user, p, new)
        PROVE  Ledger!Post
    <3> DEFINE change == [NoStock EXCEPT ![p] = new - quantity[p]]
    <3>1. ChangeStock({p}, change, "STOCK_ADJUSTMENT", 0)
      BY <2>3 DEF Adjust
    <3>2. quantity[p] \in Nat /\ new \in Nat
      BY Bounds DEF TypeOK
    <3>3. change \in [Products -> Int]
      BY <3>2 DEF NoStock
    <3> HIDE DEF change
    <3> QED BY <2>1, <3>1, <3>3, ChangeStockPosts DEF ReferenceTypes
  <2>4. ASSUME NEW items \in Lines, NEW unitCost \in [Products -> Costs],
               CompletePurchase(user, items, unitCost)
        PROVE  Ledger!Post
    <3>1. ChangeStock(Named(items), items, "STOCK_IN", purchases + 1) /\ purchases + 1 \in Nat
      BY <2>4 DEF CompletePurchase, TypeOK
    <3> QED BY <2>1, <3>1, LinesType, ChangeStockPosts DEF ReferenceTypes
  <2> QED BY <1>3, <2>2, <2>3, <2>4 DEF StockStep
<1>4. ASSUME NEW user \in Users, SaleStep(user) PROVE Ledger!Post
  <2>1. UNCHANGED stocked
    <3>1. ASSUME NEW c, NEW items, NEW method, NEW discount,
                 CompleteSale(user, c, items, method, discount)
          PROVE  UNCHANGED catalogueVars
      BY <3>1 DEF CompleteSale
    <3>2. ASSUME NEW s, CancelSale(user, s) PROVE UNCHANGED catalogueVars
      BY <3>2 DEF CancelSale
    <3> QED BY <1>4, <3>1, <3>2 DEF SaleStep, catalogueVars
  <2>2. ASSUME NEW c \in Customers, NEW items \in Lines, NEW method \in PaymentMethods,
               NEW discount \in 0 .. MaxMoney, CompleteSale(user, c, items, method, discount)
        PROVE  Ledger!Post
    <3> DEFINE sold == [p \in Products |-> -items[p]]
    <3>1. ChangeStock(Named(items), sold, "SALE", Len(sales) + 1) /\ Len(sales) + 1 \in Nat
      BY <2>2 DEF CompleteSale, TypeOK
    <3>2. sold \in [Products -> Int]
      BY LinesType
    <3> HIDE DEF sold
    <3> QED BY <2>1, <3>1, <3>2, ChangeStockPosts DEF ReferenceTypes
  <2>3. ASSUME NEW s \in 1 .. Len(sales), CancelSale(user, s) PROVE Ledger!Post
    <3> DEFINE items == sales[s].items
    <3>1. ChangeStock(Named(items), items, "SALE_CANCELLED", s) /\ s \in Nat
      BY <2>3, SaleParts DEF CancelSale
    <3>2. items \in [Products -> Int]
      BY SaleParts, LinesType
    <3> HIDE DEF items
    <3> QED BY <2>1, <3>1, <3>2, ChangeStockPosts DEF ReferenceTypes
  <2> QED BY <1>4, <2>2, <2>3 DEF SaleStep
<1>5. ASSUME NEW user \in Users, ExchangeStep(user) PROVE Ledger!Post
  BY <1>5, ExchangePosts DEF ExchangeStep
<1> QED
  BY <1>1, <1>2, <1>3, <1>4, <1>5 DEF Next, Ledger!Next

\* The services implement the stock ledger: sales, cancellations, exchanges of any
\* number of lines, purchases and adjustments move quantity and rows together.
THEOREM StoreImplementsLedger == Spec => ImplementsStockLedger
<1>1. Init => Ledger!Init
  BY DEF Init, Ledger!Init
<1> QED
  BY <1>1, StoreStepsLedger, TypeCorrect, RegistrationComesFirst, PTL
     DEF Spec, ImplementsStockLedger, Ledger!Spec

-------------------------------------------------------------------------------

\* What a posting leaves in the rows of a product it accounts for.
LEMMA AccountedTrail ==
    ASSUME NEW p \in Products, log[p] \in Seq(Movement),
           Ledger!Accounted(p),
           \A i \in 1 .. Len(log[p]) : log[p][i].new = log[p][i].previous + log[p][i].change
    PROVE  /\ \A i \in 1 .. Len(log'[p]) : log'[p][i].new = log'[p][i].previous + log'[p][i].change
           /\ Len(log'[p]) > 0 /\ log'[p][Len(log'[p])].new = quantity'[p]
           /\ (/\ \A i \in 1 .. Len(log[p]) - 1 : log[p][i].new = log[p][i + 1].previous
               /\ Len(log[p]) > 0 => log[p][Len(log[p])].new = quantity[p])
              => \A i \in 1 .. Len(log'[p]) - 1 : log'[p][i].new = log'[p][i + 1].previous
<1> DEFINE old == Len(log[p])
           now == Len(log'[p])
<1>1. /\ old \in Nat /\ now \in Nat /\ old + 1 <= now
      /\ \A i \in 1 .. old : log'[p][i] = log[p][i]
      /\ log'[p][old + 1].previous = quantity[p]
      /\ \A i \in old + 1 .. now : log'[p][i].new = log'[p][i].previous + log'[p][i].change
      /\ \A i \in old + 1 .. now - 1 : log'[p][i].new = log'[p][i + 1].previous
      /\ log'[p][now].new = quantity'[p]
  BY DEF Ledger!Accounted
<1> HIDE DEF old, now
<1>2. \A i \in 1 .. now : i \in 1 .. old \/ i \in old + 1 .. now
  BY <1>1
<1>3. \A i \in 1 .. now : log'[p][i].new = log'[p][i].previous + log'[p][i].change
  BY <1>1, <1>2 DEF old
<1>4. ASSUME \A i \in 1 .. old - 1 : log[p][i].new = log[p][i + 1].previous,
             old > 0 => log[p][old].new = quantity[p],
             NEW i \in 1 .. now - 1
      PROVE  log'[p][i].new = log'[p][i + 1].previous
  <2>1. CASE i \in 1 .. old - 1
    <3>1. i \in 1 .. old /\ i + 1 \in 1 .. old
      BY <1>1, <2>1
    <3> QED BY <1>1, <1>4, <2>1, <3>1
  <2>2. CASE i = old /\ old > 0
    <3>1. old \in 1 .. old
      BY <1>1, <2>2
    <3> QED BY <1>1, <1>4, <2>2, <3>1
  <2>3. CASE i \in old + 1 .. now - 1
    BY <1>1, <2>3
  <2> QED BY <1>1, <2>1, <2>2, <2>3
<1> QED
  BY <1>1, <1>3, <1>4 DEF old, now

\* The audit trail of inventory_logs: every row adds up, and the rows of a product
\* that nobody types over chain to the quantity on the shelf.
THEOREM AuditTrailHolds == Spec => []AuditTrail
<1>1. Init => AuditTrail
  BY DEF Init, AuditTrail, Ledger!AuditTrail, Ledger!RowsAddUp, Ledger!RowsChain
<1>2. TypeOK /\ NothingBeforeRegistration /\ AuditTrail /\ [Ledger!Next]_Ledger!ledgerVars
         => AuditTrail'
  <2> SUFFICES ASSUME TypeOK, NothingBeforeRegistration, AuditTrail, [Ledger!Next]_Ledger!ledgerVars
               PROVE  AuditTrail'
    OBVIOUS
  <2>1. /\ \A p \in Products : \A i \in 1 .. Len(log[p]) :
                log[p][i].new = log[p][i].previous + log[p][i].change
        /\ \A p \in Products \ FormEdits :
                /\ \A i \in 1 .. Len(log[p]) - 1 : log[p][i].new = log[p][i + 1].previous
                /\ Len(log[p]) > 0 => log[p][Len(log[p])].new = quantity[p]
    BY DEF AuditTrail, Ledger!AuditTrail, Ledger!RowsAddUp, Ledger!RowsChain
  <2>2. \A p \in Products : log[p] \in Seq(Movement)
    BY DEF TypeOK
  <2>3. CASE UNCHANGED Ledger!ledgerVars
    BY <2>1, <2>3 DEF Ledger!ledgerVars, AuditTrail, Ledger!AuditTrail, Ledger!RowsAddUp, Ledger!RowsChain
  <2>4. ASSUME NEW p \in Products, Ledger!Register(p)
        PROVE  AuditTrail'
    <3>1. /\ log' = log /\ Len(log[p]) = 0
          /\ \A q \in Products : q # p => quantity'[q] = quantity[q]
      BY <2>4 DEF Ledger!Register, NothingBeforeRegistration, TypeOK
    <3> QED
      BY <2>1, <3>1 DEF AuditTrail, Ledger!AuditTrail, Ledger!RowsAddUp, Ledger!RowsChain
  <2>5. ASSUME NEW p \in Products, Ledger!Overwrite(p)
        PROVE  AuditTrail'
    <3>1. /\ log' = log /\ p \in FormEdits
          /\ \A q \in Products : q # p => quantity'[q] = quantity[q]
      BY <2>5 DEF Ledger!Overwrite, TypeOK
    <3> QED
      BY <2>1, <3>1 DEF AuditTrail, Ledger!AuditTrail, Ledger!RowsAddUp, Ledger!RowsChain
  <2>6. CASE Ledger!Post
    <3>1. \A p \in Products : Ledger!Still(p) \/ Ledger!Accounted(p)
      BY <2>6 DEF Ledger!Post
    <3>2. ASSUME NEW p \in Products
          PROVE  \A i \in 1 .. Len(log'[p]) : log'[p][i].new = log'[p][i].previous + log'[p][i].change
      <4>1. CASE Ledger!Still(p)
        BY <2>1, <4>1 DEF Ledger!Still
      <4>2. CASE Ledger!Accounted(p)
        BY <2>1, <2>2, <4>2, AccountedTrail
      <4> QED BY <3>1, <4>1, <4>2
    <3>3. ASSUME NEW p \in Products \ FormEdits
          PROVE  /\ \A i \in 1 .. Len(log'[p]) - 1 : log'[p][i].new = log'[p][i + 1].previous
                 /\ Len(log'[p]) > 0 => log'[p][Len(log'[p])].new = quantity'[p]
      <4>1. p \in Products /\ log[p] \in Seq(Movement)
        BY <2>2
      <4>2. /\ \A i \in 1 .. Len(log[p]) - 1 : log[p][i].new = log[p][i + 1].previous
            /\ Len(log[p]) > 0 => log[p][Len(log[p])].new = quantity[p]
        BY <2>1
      <4>3. CASE Ledger!Still(p)
        BY <4>2, <4>3 DEF Ledger!Still
      <4>4. CASE Ledger!Accounted(p)
        BY <2>1, <4>1, <4>2, <4>4, AccountedTrail
      <4> QED BY <3>1, <4>3, <4>4
    <3> QED BY <3>2, <3>3 DEF AuditTrail, Ledger!AuditTrail, Ledger!RowsAddUp, Ledger!RowsChain
  <2> QED BY <2>3, <2>4, <2>5, <2>6 DEF Ledger!Next
<1> QED
  BY <1>1, <1>2, StoreStepsLedger, TypeCorrect, RegistrationComesFirst, PTL DEF Spec

-------------------------------------------------------------------------------

\* What is appended leaves the beginning of a sequence as it was.
LEMMA BeginningIsKept ==
    ASSUME NEW S, NEW old \in Seq(S), NEW more \in Seq(S)
    PROVE  SubSeq(old \o more, 1, Len(old)) = old
<1> DEFINE n   == Len(old)
           all == old \o more
<1>1. n \in Nat /\ \A i \in 1 .. n : all[i] = old[i] /\ all[i] \in S
  OBVIOUS
<1> HIDE DEF n, all
<1>2. /\ SubSeq(all, 1, n) \in Seq(S)
      /\ Len(SubSeq(all, 1, n)) = IF 1 <= n THEN n - 1 + 1 ELSE 0
      /\ \A i \in 1 .. n - 1 + 1 : SubSeq(all, 1, n)[i] = all[1 + i - 1]
  BY <1>1, SubSeqProperties
<1>3. Len(SubSeq(all, 1, n)) = n /\ \A i \in 1 .. n : SubSeq(all, 1, n)[i] = old[i]
  BY <1>1, <1>2
<1> HIDE DEF n
<1>4. old \in Seq(S) /\ n = Len(old)
  BY DEF n
<1>5. SubSeq(all, 1, n) = old
  BY <1>2, <1>3, <1>4, SeqEqual
<1> QED
  BY <1>5 DEF n, all

\* change_stock appends.
LEMMA ChangeStockAppends ==
    ASSUME TypeOK, NEW STATE moved, NEW STATE change, NEW type \in ReferenceTypes, NEW STATE ref,
           ref \in Nat, change \in [Products -> Int],
           ChangeStock(moved, change, type, ref)
    PROVE  \A p \in Products : SubSeq(log'[p], 1, Len(log[p])) = log[p]
<1> SUFFICES ASSUME NEW p \in Products PROVE SubSeq(log'[p], 1, Len(log[p])) = log[p]
  OBVIOUS
<1>1. log[p] \in Seq(Movement)
  BY DEF TypeOK
<1>2. CASE p \in moved
  <2> DEFINE row == Row(quantity[p], change[p], type, ref)
  <2>1. log'[p] = Append(log[p], row)
    BY <1>2 DEF ChangeStock
  <2>2. row \in Movement
    BY <1>2 DEF Row, Movement, Labels, ChangeStock, InStock, TypeOK
  <2> HIDE DEF row
  <2>3. log'[p] = log[p] \o <<row>> /\ <<row>> \in Seq(Movement)
    BY <1>1, <2>1, <2>2
  <2> QED BY <1>1, <2>3, BeginningIsKept
<1>3. CASE p \notin moved
  <2>1. log'[p] = log[p]
    BY <1>3 DEF ChangeStock
  <2> QED BY <1>1, <2>1, SubSeqFull
<1> QED BY <1>2, <1>3

\* History is kept by every call: a completed sale without exchanges may be voided,
\* a sale may have returns recorded by the exchange that is filed, and nothing that
\* is on file changes otherwise.
THEOREM HistoryKept == Spec => HistoryIsKept
<1>1. TypeOK /\ TypeOK' /\ [Next]_vars => [KeepsHistory]_vars
  <2> SUFFICES ASSUME TypeOK, TypeOK', Next PROVE KeepsHistory
    OBVIOUS
  <2>1. /\ sales \in Seq(Sale) /\ exchanges \in Seq(Exchange)
        /\ \A p \in Products : log[p] \in Seq(Movement)
    BY DEF TypeOK
  <2>2. SubSeq(exchanges, 1, Len(exchanges)) = exchanges
    BY <2>1, SubSeqFull
  <2>3. log' = log => \A p \in Products : SubSeq(log'[p], 1, Len(log[p])) = log[p]
    BY <2>1, SubSeqFull
  <2>4. ASSUME NEW user \in Users, CatalogueStep(user) PROVE KeepsHistory
    <3>1. UNCHANGED <<sales, exchanges, log>>
      BY <2>4, CatalogueLeaves
    <3> QED BY <2>2, <2>3, <3>1 DEF KeepsHistory
  <2>5. ASSUME NEW user \in Users, StockStep(user) PROVE KeepsHistory
    <3>1. UNCHANGED <<sales, exchanges>>
      BY <2>5, StockLeaves
    <3>2. ASSUME NEW p \in Products, NEW added \in 1 .. MaxQuantity, StockIn(user, p, added)
          PROVE  \A q \in Products : SubSeq(log'[q], 1, Len(log[q])) = log[q]
      <4> DEFINE change == [NoStock EXCEPT ![p] = added]
      <4>1. ChangeStock({p}, change, "STOCK_IN", 0) /\ change \in [Products -> Int]
        BY <3>2, Bounds DEF StockIn, NoStock
      <4> HIDE DEF change
      <4> QED BY <4>1, ChangeStockAppends DEF ReferenceTypes
    <3>3. ASSUME NEW p \in Products, NEW new \in 0 .. MaxQuantity, Adjust(user, p, new)
          PROVE  \A q \in Products : SubSeq(log'[q], 1, Len(log[q])) = log[q]
      <4> DEFINE change == [NoStock EXCEPT ![p] = new - quantity[p]]
      <4>1. ChangeStock({p}, change, "STOCK_ADJUSTMENT", 0)
        BY <3>3 DEF Adjust
      <4>2. change \in [Products -> Int]
        BY Bounds DEF NoStock, TypeOK
      <4> HIDE DEF change
      <4> QED BY <4>1, <4>2, ChangeStockAppends DEF ReferenceTypes
    <3>4. ASSUME NEW items \in Lines, NEW unitCost \in [Products -> Costs],
                 CompletePurchase(user, items, unitCost)
          PROVE  \A q \in Products : SubSeq(log'[q], 1, Len(log[q])) = log[q]
      <4>1. ChangeStock(Named(items), items, "STOCK_IN", purchases + 1) /\ purchases + 1 \in Nat
        BY <3>4 DEF CompletePurchase, TypeOK
      <4> QED BY <4>1, LinesType, ChangeStockAppends DEF ReferenceTypes
    <3> QED BY <2>2, <2>5, <3>1, <3>2, <3>3, <3>4 DEF StockStep, KeepsHistory
  <2>6. ASSUME NEW user \in Users, NEW c \in Customers, NEW items \in Lines,
               NEW method \in PaymentMethods, NEW discount \in 0 .. MaxMoney,
               CompleteSale(user, c, items, method, discount)
        PROVE  KeepsHistory
    <3> DEFINE sold == [p \in Products |-> -items[p]]
    <3>1. exchanges' = exchanges /\ ChangeStock(Named(items), sold, "SALE", Len(sales) + 1)
      BY <2>6 DEF CompleteSale
    <3>2. sold \in [Products -> Int] /\ Len(sales) + 1 \in Nat
      BY <2>1, LinesType
    <3> HIDE DEF sold
    <3>3. \A q \in Products : SubSeq(log'[q], 1, Len(log[q])) = log[q]
      BY <3>1, <3>2, ChangeStockAppends DEF ReferenceTypes
    <3>4. \A s \in 1 .. Len(sales) : sales'[s] = sales[s]
      BY <2>6, SaleFiled
    <3> QED BY <2>2, <3>1, <3>3, <3>4 DEF KeepsHistory
  <2>7. ASSUME NEW user \in Users, NEW s \in 1 .. Len(sales), CancelSale(user, s)
        PROVE  KeepsHistory
    <3> DEFINE items == sales[s].items
    <3>1. exchanges' = exchanges /\ ChangeStock(Named(items), items, "SALE_CANCELLED", s)
      BY <2>7 DEF CancelSale
    <3>2. items \in [Products -> Int] /\ s \in Nat
      BY SaleParts, LinesType
    <3> HIDE DEF items
    <3>3. \A q \in Products : SubSeq(log'[q], 1, Len(log[q])) = log[q]
      BY <3>1, <3>2, ChangeStockAppends DEF ReferenceTypes
    <3>4. Voided(s) /\ \A t \in 1 .. Len(sales) \ {s} : sales'[t] = sales[t]
      BY <2>7, SaleCancelled DEF Voided
    <3> QED BY <2>2, <3>1, <3>3, <3>4 DEF KeepsHistory
  <2>8. ASSUME NEW user \in Users, NEW s \in 1 .. Len(sales), NEW lines \in Trades,
               NEW late \in BOOLEAN, NEW override \in BOOLEAN,
               CompleteExchange(user, s, lines, late, override)
        PROVE  KeepsHistory
    <3> DEFINE e      == Len(exchanges) + 1
               filed  == [sale |-> s, difference |-> Difference(sales[s], lines),
                          override |-> override]
    <3>1. /\ exchanges' = Append(exchanges, filed) /\ filed.sale = s
          /\ Difference(sales[s], lines) \in Int /\ s \in Nat /\ e \in Nat
      <4>1. exchanges' = Append(exchanges, filed)
        BY <2>8 DEF CompleteExchange
      <4>2. Difference(sales[s], lines) \in -MaxMoney .. MaxMoney
        BY <2>8 DEF CompleteExchange
      <4> QED BY <2>1, <4>1, <4>2, Bounds
    <3>2. filed \in Exchange
      BY <3>1 DEF Exchange
    <3> HIDE DEF filed
    <3>3. exchanges' = exchanges \o <<filed>> /\ <<filed>> \in Seq(Exchange)
      BY <2>1, <3>1, <3>2
    <3>4. SubSeq(exchanges', 1, Len(exchanges)) = exchanges
      BY <2>1, <3>3, BeginningIsKept
    <3>5. ASSUME NEW p \in Products PROVE SubSeq(log'[p], 1, Len(log[p])) = log[p]
      <4> DEFINE rows == ExchangeRows(lines, p, e)
      <4>1. log'[p] = log[p] \o rows /\ \A i \in 1 .. Len(rows) : rows[i].new >= 0
        BY <2>8 DEF CompleteExchange
      <4>2. rows \in Seq(Movement)
        BY <3>1, <4>1, ExchangeRowsAreMovements
      <4> HIDE DEF rows
      <4> QED BY <2>1, <4>1, <4>2, BeginningIsKept
    <3>6. ExchangesOf(s)' # ExchangesOf(s)
      <4>1. e \in 1 .. Len(exchanges') /\ exchanges'[e].sale = s /\ e \notin 1 .. Len(exchanges)
        BY <2>1, <3>1, <3>2, AppendParts
      <4> QED BY <4>1 DEF ExchangesOf
    <3>7. /\ Len(sales') = Len(sales)
          /\ \A t \in 1 .. Len(sales) \ {s} : sales'[t] = sales[t]
          /\ sales'[s] = [sales[s] EXCEPT !.returned = Plus(sales[s].returned, ReturnedBy(lines))]
          /\ queued'.status = queued.status
      BY <2>8, ReturnsFiled
    <3>8. ReturnsRecorded(s)
      <4> DEFINE after == Plus(sales[s].returned, ReturnedBy(lines))
      <4>1. sales'[s] = [sales[s] EXCEPT !.returned = after] /\ sales[s] \in Sale
        BY <3>7, SaleParts
      <4>2. sales'[s].returned = after
        BY <4>1 DEF Sale
      <4>3. \A p \in Products : after[p] >= sales[s].returned[p]
        BY SaleParts, LineQuantities DEF Plus
      <4> HIDE DEF after
      <4> QED BY <3>6, <4>1, <4>2, <4>3 DEF ReturnsRecorded
    <3> QED BY <3>4, <3>5, <3>7, <3>8 DEF KeepsHistory
  <2> QED BY <2>4, <2>5, <2>6, <2>7, <2>8 DEF Next, SaleStep, ExchangeStep
<1> QED
  BY <1>1, TypeCorrect, PTL DEF Spec, HistoryIsKept

-------------------------------------------------------------------------------

\* No movement is labelled with a receipt that does not exist yet: with
\* ReceiptsExplainStock, what the next sale and the first cancellation need to find
\* no movement of theirs.
NoReceiptAhead ==
    \A p \in Products : \A i \in 1 .. Len(log[p]) :
        log[p][i].label.type \in {"SALE", "SALE_CANCELLED"} => log[p][i].label.ref \in 1 .. Len(sales)

\* Rows under other labels do not touch the movements of a document.
LEMMA OtherRows ==
    ASSUME NEW p \in Products, log[p] \in Seq(Movement), NEW rows \in Seq(Movement),
           log'[p] = log[p] \o rows,
           NEW type, NEW ref, \A i \in 1 .. Len(rows) : rows[i].label # [type |-> type, ref |-> ref],
           NEW change
    PROVE  MovedOnce(p, type, ref, change) => MovedOnce(p, type, ref, change)'
<1> DEFINE n == Len(log[p])
<1>1. /\ n \in Nat /\ Len(log'[p]) = n + Len(rows) /\ Len(rows) \in Nat
      /\ \A i \in 1 .. n : log'[p][i] = log[p][i]
      /\ \A i \in n + 1 .. n + Len(rows) : log'[p][i] = rows[i - n]
  OBVIOUS
<1>2. \A i \in n + 1 .. n + Len(rows) : i - n \in 1 .. Len(rows)
  BY <1>1
<1>3. \A i \in 1 .. n + Len(rows) : i \in 1 .. n \/ i \in n + 1 .. n + Len(rows)
  BY <1>1
<1>4. \A i \in 1 .. n : i \in 1 .. n + Len(rows)
  BY <1>1
<1>5. MovesOf(p, type, ref)' = MovesOf(p, type, ref)
  <2> HIDE DEF n
  <2>1. n = Len(log[p])
    BY DEF n
  <2> QED BY <1>1, <1>2, <1>3, <1>4, <2>1 DEF MovesOf
<1>6. MovesOf(p, type, ref) \subseteq 1 .. n
  BY DEF MovesOf
<1> QED
  BY <1>1, <1>4, <1>5 DEF MovedOnce

\* The first row of a document is its movement.
LEMMA FirstRow ==
    ASSUME NEW p \in Products, log[p] \in Seq(Movement), NEW row \in Movement,
           log'[p] = Append(log[p], row),
           NEW type, NEW ref, row.label = [type |-> type, ref |-> ref],
           MovesOf(p, type, ref) = {},
           row.change # 0
    PROVE  MovedOnce(p, type, ref, row.change)'
<1> DEFINE n == Len(log[p])
<1>1. /\ n \in Nat /\ Len(log'[p]) = n + 1 /\ log'[p][n + 1] = row
      /\ \A i \in 1 .. n : log'[p][i] = log[p][i]
  OBVIOUS
<1>2. n + 1 \in 1 .. n + 1 /\ \A i \in 1 .. n + 1 : i \in 1 .. n \/ i = n + 1
  BY <1>1
<1>3. MovesOf(p, type, ref)' = {n + 1}
  BY <1>1, <1>2 DEF MovesOf
<1> QED
  BY <1>1, <1>2, <1>3 DEF MovedOnce

\* A step that books change[p] for p under one label, and nothing else for p.
Books(p, type, ref, change) ==
    /\ \A t, r, c : /\ [type |-> t, ref |-> r] # [type |-> type, ref |-> ref]
                    /\ MovedOnce(p, t, r, c)
                    => MovedOnce(p, t, r, c)'
    /\ \A r, c : r = ref /\ c = change[p] /\ MovesOf(p, type, r) = {}
                 => MovedOnce(p, type, r, c)'
    /\ \A i \in 1 .. Len(log'[p]) : \/ i \in 1 .. Len(log[p]) /\ log'[p][i] = log[p][i]
                                    \/ log'[p][i].label = [type |-> type, ref |-> ref]

\* What change_stock does to the movements of the documents.
LEMMA ChangeStockMoves ==
    ASSUME TypeOK, NEW STATE moved, NEW STATE change, NEW type \in ReferenceTypes, NEW STATE ref,
           ref \in Nat, change \in [Products -> Int],
           ChangeStock(moved, change, type, ref),
           \A q \in Products : q \in moved <=> change[q] # 0,
           NEW p \in Products
    PROVE  Books(p, type, ref, change)
<1>1. log[p] \in Seq(Movement)
  BY DEF TypeOK
<1>2. CASE p \notin moved
  <2>1. log'[p] = log[p] /\ change[p] = 0
    BY <1>2 DEF ChangeStock
  <2>2. \A t, r, c : MovedOnce(p, t, r, c) => MovedOnce(p, t, r, c)'
    BY <2>1 DEF MovedOnce, MovesOf
  <2>3. \A r : MovesOf(p, type, r) = {} => MovedOnce(p, type, r, 0)'
    BY <2>1 DEF MovedOnce, MovesOf
  <2> QED BY <2>1, <2>2, <2>3 DEF Books
<1>3. CASE p \in moved
  <2> DEFINE row == Row(quantity[p], change[p], type, ref)
  <2>1. log'[p] = Append(log[p], row)
    BY <1>3 DEF ChangeStock
  <2>2. row \in Movement
    BY <1>3 DEF Row, Movement, Labels, ChangeStock, InStock, TypeOK
  <2>3. row.label = [type |-> type, ref |-> ref] /\ row.change = change[p] /\ change[p] # 0
    BY <1>3 DEF Row
  <2> HIDE DEF row
  <2>4. log'[p] = log[p] \o <<row>> /\ <<row>> \in Seq(Movement)
        /\ Len(<<row>>) = 1 /\ <<row>>[1] = row
    BY <1>1, <2>1, <2>2
  <2>5. ASSUME NEW t, NEW r, NEW c, [type |-> t, ref |-> r] # [type |-> type, ref |-> ref],
               MovedOnce(p, t, r, c)
        PROVE  MovedOnce(p, t, r, c)'
    <3> DEFINE rows == <<row>>
    <3>1. \A i \in 1 .. Len(rows) : rows[i].label # [type |-> t, ref |-> r]
      BY <2>3, <2>4, <2>5
    <3> HIDE DEF rows
    <3>2. log'[p] = log[p] \o rows /\ rows \in Seq(Movement)
      BY <2>4 DEF rows
    <3> QED BY <1>1, <2>5, <3>1, <3>2, OtherRows
  <2>6. ASSUME NEW r, NEW c, r = ref, c = change[p], MovesOf(p, type, r) = {}
        PROVE  MovedOnce(p, type, r, c)'
    <3>1. row.label = [type |-> type, ref |-> r] /\ c = row.change /\ c # 0
      BY <2>3, <2>6
    <3> QED BY <1>1, <2>1, <2>2, <2>6, <3>1, FirstRow
  <2>7. \A i \in 1 .. Len(log'[p]) : \/ i \in 1 .. Len(log[p]) /\ log'[p][i] = log[p][i]
                                     \/ log'[p][i].label = [type |-> type, ref |-> ref]
    BY <1>1, <2>1, <2>2, <2>3, AppendParts
  <2> QED BY <2>5, <2>6, <2>7 DEF Books
<1> QED BY <1>2, <1>3

\* Calls that label their movements with something else than a receipt.
Others ==
    \A p \in Products : \E rows \in Seq(Movement) :
        /\ log'[p] = log[p] \o rows
        /\ \A i \in 1 .. Len(rows) : rows[i].label.type \notin {"SALE", "SALE_CANCELLED"}

\* They leave what the receipts explain.
LEMMA OthersKeepReceipts ==
    ASSUME TypeOK, ReceiptsExplainStock, NoReceiptAhead, Others,
           Len(sales') = Len(sales),
           \A s \in 1 .. Len(sales) : sales'[s].items = sales[s].items
                                      /\ sales'[s].status = sales[s].status
    PROVE  ReceiptsExplainStock' /\ NoReceiptAhead'
<1>1. ASSUME NEW p \in Products
      PROVE  /\ \A t \in {"SALE", "SALE_CANCELLED"} : \A r, c :
                  MovedOnce(p, t, r, c) => MovedOnce(p, t, r, c)'
             /\ \A i \in 1 .. Len(log'[p]) :
                  log'[p][i].label.type \in {"SALE", "SALE_CANCELLED"} =>
                      log'[p][i].label.ref \in 1 .. Len(sales)
  <2>1. log[p] \in Seq(Movement)
    BY DEF TypeOK
  <2>2. PICK rows \in Seq(Movement) :
           /\ log'[p] = log[p] \o rows
           /\ \A i \in 1 .. Len(rows) : rows[i].label.type \notin {"SALE", "SALE_CANCELLED"}
    BY DEF Others
  <2>3. ASSUME NEW t \in {"SALE", "SALE_CANCELLED"}, NEW r, NEW c, MovedOnce(p, t, r, c)
        PROVE  MovedOnce(p, t, r, c)'
    <3>1. \A i \in 1 .. Len(rows) : rows[i].label # [type |-> t, ref |-> r]
      BY <2>2
    <3> QED BY <2>1, <2>2, <2>3, <3>1, OtherRows
  <2>4. ASSUME NEW i \in 1 .. Len(log'[p]), log'[p][i].label.type \in {"SALE", "SALE_CANCELLED"}
        PROVE  log'[p][i].label.ref \in 1 .. Len(sales)
    <3>1. \/ i \in 1 .. Len(log[p]) /\ log'[p][i] = log[p][i]
          \/ i - Len(log[p]) \in 1 .. Len(rows) /\ log'[p][i] = rows[i - Len(log[p])]
      BY <2>1, <2>2
    <3> QED BY <2>2, <2>4, <3>1 DEF NoReceiptAhead
  <2> QED BY <2>3, <2>4
<1>2. NoReceiptAhead'
  BY <1>1 DEF NoReceiptAhead
<1>3. ASSUME NEW s \in 1 .. Len(sales), NEW p \in Products
      PROVE  /\ MovedOnce(p, "SALE", s, -sales[s].items[p])'
             /\ MovedOnce(p, "SALE_CANCELLED", s,
                          IF sales[s].status = "CANCELLED" THEN sales[s].items[p] ELSE 0)'
  <2> DEFINE sold == -sales[s].items[p]
             back == IF sales[s].status = "CANCELLED" THEN sales[s].items[p] ELSE 0
  <2>1. MovedOnce(p, "SALE", s, sold) /\ MovedOnce(p, "SALE_CANCELLED", s, back)
    BY DEF ReceiptsExplainStock
  <2>2. sold' = sold /\ back' = back
    OBVIOUS
  <2>3. PICK a, b : a = sold /\ b = back
    OBVIOUS
  <2> HIDE DEF sold, back
  <2>4. MovedOnce(p, "SALE", s, a)' /\ MovedOnce(p, "SALE_CANCELLED", s, b)'
    BY <1>1, <2>1, <2>3
  <2>5. MovedOnce(p, "SALE", s, sold)' /\ MovedOnce(p, "SALE_CANCELLED", s, back)'
    BY <2>2, <2>3, <2>4 DEF MovedOnce, MovesOf
  <2> QED BY <2>5 DEF sold, back
<1> QED
  BY <1>2, <1>3 DEF ReceiptsExplainStock

\* The movements of an exchange are labelled as its own.
LEMMA ExchangeRowsLabels ==
    ASSUME NEW lines, NEW STATE p, NEW STATE e
    PROVE  \A i \in 1 .. Len(ExchangeRows(lines, p, e)) :
               ExchangeRows(lines, p, e)[i].label.type = "EXCHANGE"
<1> DEFINE One(r) == r = <<>> \/ \E q, c : r = <<Row(q, c, "EXCHANGE", e)>>
           Good(r) == \A i \in 1 .. Len(r) : r[i].label.type = "EXCHANGE"
<1>1. \A q, c : Row(q, c, "EXCHANGE", e).label.type = "EXCHANGE"
  BY DEF Row
<1>2. ASSUME NEW r1, NEW r2, One(r1), One(r2) PROVE Good(r1 \o r2)
  <2>1. CASE r1 = <<>>
    BY <1>1, <1>2, <2>1
  <2>2. CASE r2 = <<>>
    BY <1>1, <1>2, <2>2
  <2>3. ASSUME r1 # <<>>, r2 # <<>> PROVE Good(r1 \o r2)
    <3>1. PICK q1, c1, q2, c2 : r1 = <<Row(q1, c1, "EXCHANGE", e)>> /\ r2 = <<Row(q2, c2, "EXCHANGE", e)>>
      BY <1>2, <2>3
    <3> QED BY <1>1, <3>1, TwoRows
  <2> QED BY <2>1, <2>2, <2>3
<1>3. PICK r1, r2 : One(r1) /\ One(r2) /\ ExchangeRows(lines, p, e) = r1 \o r2
  BY DEF ExchangeRows
<1> QED BY <1>2, <1>3

\* What is on the receipts explains the movements: whatever is sold, cancelled and
\* exchanged, each receipt has moved each of its products once, and back once if it
\* is cancelled.
THEOREM ReceiptsAreExplained == Spec => []ReceiptsExplainStock
<1> DEFINE Explained == ReceiptsExplainStock /\ NoReceiptAhead
<1>1. Init => Explained
  BY DEF Init, ReceiptsExplainStock, NoReceiptAhead
<1>2. TypeOK /\ TypeOK' /\ Explained /\ [Next]_vars => Explained'
  <2> SUFFICES ASSUME TypeOK, TypeOK', ReceiptsExplainStock, NoReceiptAhead, [Next]_vars
               PROVE  Explained'
    OBVIOUS
  <2>1. /\ sales \in Seq(Sale) /\ Len(sales) \in Nat /\ exchanges \in Seq(Exchange)
        /\ \A p \in Products : log[p] \in Seq(Movement)
    BY DEF TypeOK
  <2>2. log' = log => Others
    <3> SUFFICES ASSUME log' = log, NEW p \in Products
                 PROVE  \E rows \in Seq(Movement) :
                            /\ log'[p] = log[p] \o rows
                            /\ \A i \in 1 .. Len(rows) : rows[i].label.type \notin {"SALE", "SALE_CANCELLED"}
      BY DEF Others
    <3> DEFINE rows == <<>>
    <3>1. log'[p] = log[p] \o rows /\ rows \in Seq(Movement) /\ \A i \in 1 .. Len(rows) : FALSE
      BY <2>1
    <3> HIDE DEF rows
    <3> QED BY <3>1
  <2>3. ASSUME NEW STATE moved, NEW STATE change, NEW type \in ReferenceTypes, NEW STATE ref,
               type \notin {"SALE", "SALE_CANCELLED"}, ref \in Nat, change \in [Products -> Int],
               ChangeStock(moved, change, type, ref)
        PROVE  Others
    <3> SUFFICES ASSUME NEW p \in Products
                 PROVE  \E rows \in Seq(Movement) :
                            /\ log'[p] = log[p] \o rows
                            /\ \A i \in 1 .. Len(rows) : rows[i].label.type \notin {"SALE", "SALE_CANCELLED"}
      BY DEF Others
    <3>1. CASE p \notin moved
      <4> DEFINE rows == <<>>
      <4>1. log'[p] = log[p] \o rows /\ rows \in Seq(Movement) /\ \A i \in 1 .. Len(rows) : FALSE
        BY <2>1, <2>3, <3>1 DEF ChangeStock
      <4> HIDE DEF rows
      <4> QED BY <4>1
    <3>2. CASE p \in moved
      <4> DEFINE row == Row(quantity[p], change[p], type, ref)
      <4>1. log'[p] = Append(log[p], row)
        BY <2>3, <3>2 DEF ChangeStock
      <4>2. row \in Movement
        BY <2>3, <3>2 DEF Row, Movement, Labels, ChangeStock, InStock, TypeOK
      <4>3. row.label.type = type
        BY DEF Row
      <4> HIDE DEF row
      <4> DEFINE rows == <<row>>
      <4>4. /\ log'[p] = log[p] \o rows /\ rows \in Seq(Movement)
            /\ \A i \in 1 .. Len(rows) : rows[i] = row
        BY <2>1, <4>1, <4>2
      <4> HIDE DEF rows
      <4> QED BY <2>3, <4>3, <4>4
    <3> QED BY <3>1, <3>2
  <2>4. ASSUME Others, UNCHANGED sales PROVE Explained'
    BY <2>4, OthersKeepReceipts
  <2>5. CASE UNCHANGED vars
    BY <2>2, <2>4, <2>5 DEF vars, stockVars
  <2>6. ASSUME NEW user \in Users, CatalogueStep(user) PROVE Explained'
    <3>1. UNCHANGED <<sales, log>>
      BY <2>6, CatalogueLeaves
    <3> QED BY <2>2, <2>4, <3>1
  <2>7. ASSUME NEW user \in Users, StockStep(user) PROVE Explained'
    <3>1. UNCHANGED sales
      BY <2>7, StockLeaves
    <3>2. ASSUME NEW p \in Products, NEW added \in 1 .. MaxQuantity, StockIn(user, p, added)
          PROVE  Others
      <4> DEFINE change == [NoStock EXCEPT ![p] = added]
      <4>1. ChangeStock({p}, change, "STOCK_IN", 0) /\ change \in [Products -> Int]
        BY <3>2, Bounds DEF StockIn, NoStock
      <4> HIDE DEF change
      <4> QED BY <4>1, <2>3 DEF ReferenceTypes
    <3>3. ASSUME NEW p \in Products, NEW new \in 0 .. MaxQuantity, Adjust(user, p, new)
          PROVE  Others
      <4> DEFINE change == [NoStock EXCEPT ![p] = new - quantity[p]]
      <4>1. ChangeStock({p}, change, "STOCK_ADJUSTMENT", 0)
        BY <3>3 DEF Adjust
      <4>2. change \in [Products -> Int]
        BY Bounds DEF NoStock, TypeOK
      <4> HIDE DEF change
      <4> QED BY <4>1, <4>2, <2>3 DEF ReferenceTypes
    <3>4. ASSUME NEW items \in Lines, NEW unitCost \in [Products -> Costs],
                 CompletePurchase(user, items, unitCost)
          PROVE  Others
      <4>1. ChangeStock(Named(items), items, "STOCK_IN", purchases + 1) /\ purchases + 1 \in Nat
        BY <3>4 DEF CompletePurchase, TypeOK
      <4> QED BY <4>1, LinesType, <2>3 DEF ReferenceTypes
    <3> QED BY <2>4, <2>7, <3>1, <3>2, <3>3, <3>4 DEF StockStep
  <2>8. ASSUME NEW user \in Users, NEW c \in Customers, NEW items \in Lines,
               NEW method \in PaymentMethods, NEW discount \in 0 .. MaxMoney,
               CompleteSale(user, c, items, method, discount)
        PROVE  Explained'
    <3> DEFINE sold == [p \in Products |-> -items[p]]
               receipt == Len(sales) + 1
    <3>1. ChangeStock(Named(items), sold, "SALE", receipt) /\ receipt \in Nat
      BY <2>1, <2>8 DEF CompleteSale
    <3>2. /\ items \in [Products -> Nat] /\ sold \in [Products -> Int]
          /\ \A p \in Products : sold[p] = -items[p]
          /\ \A q \in Products : q \in Named(items) <=> sold[q] # 0
      BY LinesType DEF Named
    <3>3. PICK sale \in Sale :
             /\ sale.items = items /\ sale.status = "COMPLETED"
             /\ Len(sales') = receipt /\ sales'[receipt] = sale
             /\ \A s \in 1 .. Len(sales) : sales'[s] = sales[s]
      BY <2>8, SaleFiled
    <3> HIDE DEF sold
    <3>4. ASSUME NEW p \in Products PROVE Books(p, "SALE", receipt, sold)
      <4> HIDE DEF receipt
      <4>1. "SALE" \in ReferenceTypes
        BY DEF ReferenceTypes
      <4> QED BY <3>1, <3>2, <4>1, ChangeStockMoves
    <3>5. NoReceiptAhead'
      <4> SUFFICES ASSUME NEW p \in Products, NEW i \in 1 .. Len(log'[p]),
                          log'[p][i].label.type \in {"SALE", "SALE_CANCELLED"}
                   PROVE  log'[p][i].label.ref \in 1 .. Len(sales')
        BY DEF NoReceiptAhead
      <4>1. CASE i \in 1 .. Len(log[p]) /\ log'[p][i] = log[p][i]
        BY <2>1, <3>3, <4>1 DEF NoReceiptAhead
      <4>2. CASE log'[p][i].label = [type |-> "SALE", ref |-> receipt]
        BY <2>1, <3>3, <4>2
      <4> QED BY <3>4, <4>1, <4>2 DEF Books
    <3>6. ASSUME NEW p \in Products
          PROVE  MovesOf(p, "SALE", receipt) = {} /\ MovesOf(p, "SALE_CANCELLED", receipt) = {}
      <4>1. receipt \notin 1 .. Len(sales)
        BY <2>1
      <4> HIDE DEF receipt
      <4> QED BY <4>1 DEF MovesOf, NoReceiptAhead
    <3>7. ASSUME NEW s \in 1 .. Len(sales), NEW p \in Products
          PROVE  /\ MovedOnce(p, "SALE", s, -sales[s].items[p])'
                 /\ MovedOnce(p, "SALE_CANCELLED", s,
                              IF sales[s].status = "CANCELLED" THEN sales[s].items[p] ELSE 0)'
      <4>1. PICK a, b : /\ a = -sales[s].items[p] /\ a = -sales'[s].items[p]
                        /\ b = (IF sales[s].status = "CANCELLED" THEN sales[s].items[p] ELSE 0)
                        /\ b = (IF sales'[s].status = "CANCELLED" THEN sales'[s].items[p] ELSE 0)
        BY <3>3
      <4>2. MovedOnce(p, "SALE", s, a) /\ MovedOnce(p, "SALE_CANCELLED", s, b)
        BY <4>1 DEF ReceiptsExplainStock
      <4>3. s # receipt
        BY <2>1
      <4> HIDE DEF receipt
      <4>4. MovedOnce(p, "SALE", s, a)' /\ MovedOnce(p, "SALE_CANCELLED", s, b)'
        BY <3>4, <4>2, <4>3 DEF Books
      <4> QED BY <4>1, <4>4 DEF MovedOnce, MovesOf
    <3>8. ASSUME NEW s, s = receipt, NEW p \in Products
          PROVE  /\ MovedOnce(p, "SALE", s, -sales[s].items[p])'
                 /\ MovedOnce(p, "SALE_CANCELLED", s,
                              IF sales[s].status = "CANCELLED" THEN sales[s].items[p] ELSE 0)'
      <4>1. PICK a : a = sold[p] /\ a = -sales'[s].items[p]
        BY <3>2, <3>3, <3>8
      <4>2. sales'[s].status # "CANCELLED"
        BY <3>3, <3>8
      <4>3. MovedOnce(p, "SALE_CANCELLED", s, 0)
        BY <3>6, <3>8 DEF MovedOnce
      <4> HIDE DEF receipt
      <4>4. MovedOnce(p, "SALE", s, a)' /\ MovedOnce(p, "SALE_CANCELLED", s, 0)'
        BY <3>4, <3>6, <3>8, <4>1, <4>3 DEF Books
      <4> QED BY <4>1, <4>2, <4>4 DEF MovedOnce, MovesOf
    <3>9. \A s \in 1 .. Len(sales') : s \in 1 .. Len(sales) \/ s = receipt
      BY <2>1, <3>3
    <3> HIDE DEF receipt
    <3>10. ReceiptsExplainStock'
      BY <3>7, <3>8, <3>9 DEF ReceiptsExplainStock
    <3> QED BY <3>5, <3>10
  <2>9. ASSUME NEW user \in Users, NEW s \in 1 .. Len(sales), CancelSale(user, s)
        PROVE  Explained'
    <3> DEFINE items == sales[s].items
    <3>1. ChangeStock(Named(items), items, "SALE_CANCELLED", s) /\ s \in Nat
      BY <2>1, <2>9 DEF CancelSale
    <3>2. /\ items \in [Products -> Nat] /\ items \in [Products -> Int]
          /\ \A q \in Products : q \in Named(items) <=> items[q] # 0
      BY SaleParts, LinesType DEF Named
    <3>3. /\ Len(sales') = Len(sales)
          /\ \A t \in 1 .. Len(sales) \ {s} : sales'[t] = sales[t]
          /\ sales[s].status = "COMPLETED"
          /\ sales'[s] = [sales[s] EXCEPT !.status = "CANCELLED"]
      BY <2>9, SaleCancelled
    <3>4. sales'[s].items = items /\ sales'[s].status = "CANCELLED"
      BY <3>3, SaleParts DEF Sale
    <3> HIDE DEF items
    <3>5. ASSUME NEW p \in Products PROVE Books(p, "SALE_CANCELLED", s, items)
      <4>1. "SALE_CANCELLED" \in ReferenceTypes
        BY DEF ReferenceTypes
      <4> QED BY <3>1, <3>2, <4>1, ChangeStockMoves
    <3>6. NoReceiptAhead'
      <4> SUFFICES ASSUME NEW p \in Products, NEW i \in 1 .. Len(log'[p]),
                          log'[p][i].label.type \in {"SALE", "SALE_CANCELLED"}
                   PROVE  log'[p][i].label.ref \in 1 .. Len(sales')
        BY DEF NoReceiptAhead
      <4>1. CASE i \in 1 .. Len(log[p]) /\ log'[p][i] = log[p][i]
        BY <3>3, <4>1 DEF NoReceiptAhead
      <4>2. CASE log'[p][i].label = [type |-> "SALE_CANCELLED", ref |-> s]
        BY <3>3, <4>2
      <4> QED BY <3>5, <4>1, <4>2 DEF Books
    <3>7. ASSUME NEW p \in Products PROVE MovesOf(p, "SALE_CANCELLED", s) = {}
      BY <3>3 DEF ReceiptsExplainStock, MovedOnce
    <3>8. ASSUME NEW t \in 1 .. Len(sales), NEW p \in Products
          PROVE  MovedOnce(p, "SALE", t, -sales[t].items[p])'
      <4>1. PICK a : a = -sales[t].items[p] /\ a = -sales'[t].items[p]
        BY <3>3, <3>4 DEF items
      <4>2. MovedOnce(p, "SALE", t, a)
        BY <4>1 DEF ReceiptsExplainStock
      <4>3. MovedOnce(p, "SALE", t, a)'
        BY <3>5, <4>2 DEF Books
      <4> QED BY <4>1, <4>3 DEF MovedOnce, MovesOf
    <3>9. ASSUME NEW t \in 1 .. Len(sales), NEW p \in Products
          PROVE  MovedOnce(p, "SALE_CANCELLED", t,
                           IF sales[t].status = "CANCELLED" THEN sales[t].items[p] ELSE 0)'
      <4>1. PICK b : b = (IF sales'[t].status = "CANCELLED" THEN sales'[t].items[p] ELSE 0)
        OBVIOUS
      <4>2. CASE t = s
        <5>1. b = items[p]
          BY <3>4, <4>1, <4>2
        <5>2. MovedOnce(p, "SALE_CANCELLED", t, b)'
          BY <3>5, <3>7, <4>2, <5>1 DEF Books
        <5> QED BY <4>1, <5>2 DEF MovedOnce, MovesOf
      <4>3. CASE t # s
        <5>1. MovedOnce(p, "SALE_CANCELLED", t, b)
          BY <3>3, <4>1, <4>3 DEF ReceiptsExplainStock
        <5>2. MovedOnce(p, "SALE_CANCELLED", t, b)'
          BY <3>5, <4>3, <5>1 DEF Books
        <5> QED BY <4>1, <5>2 DEF MovedOnce, MovesOf
      <4> QED BY <4>2, <4>3
    <3> QED BY <3>3, <3>6, <3>8, <3>9 DEF ReceiptsExplainStock
  <2>10. ASSUME NEW user \in Users, NEW s \in 1 .. Len(sales), NEW lines \in Trades,
                NEW late \in BOOLEAN, NEW override \in BOOLEAN,
                CompleteExchange(user, s, lines, late, override)
         PROVE  Explained'
    <3> DEFINE e == Len(exchanges) + 1
    <3>1. Others
      <4> SUFFICES ASSUME NEW p \in Products
                   PROVE  \E rows \in Seq(Movement) :
                              /\ log'[p] = log[p] \o rows
                              /\ \A i \in 1 .. Len(rows) : rows[i].label.type \notin {"SALE", "SALE_CANCELLED"}
        BY DEF Others
      <4> DEFINE rows == ExchangeRows(lines, p, e)
      <4>1. log'[p] = log[p] \o rows /\ \A i \in 1 .. Len(rows) : rows[i].new >= 0
        BY <2>10 DEF CompleteExchange
      <4>2. rows \in Seq(Movement)
        BY <2>1, <4>1, ExchangeRowsAreMovements
      <4>3. \A i \in 1 .. Len(rows) : rows[i].label.type = "EXCHANGE"
        BY ExchangeRowsLabels
      <4> HIDE DEF rows
      <4> QED BY <4>1, <4>2, <4>3
    <3>2. /\ Len(sales') = Len(sales)
          /\ \A t \in 1 .. Len(sales) \ {s} : sales'[t] = sales[t]
          /\ sales'[s] = [sales[s] EXCEPT !.returned = Plus(sales[s].returned, ReturnedBy(lines))]
          /\ queued'.status = queued.status
      BY <2>10, ReturnsFiled
    <3>3. sales'[s].items = sales[s].items /\ sales'[s].status = sales[s].status
      BY <3>2, SaleParts DEF Sale
    <3> QED BY <3>1, <3>2, <3>3, OthersKeepReceipts
  <2> QED BY <2>5, <2>6, <2>7, <2>8, <2>9, <2>10 DEF Next, SaleStep, ExchangeStep
<1> QED
  BY <1>1, <1>2, TypeCorrect, PTL DEF Spec

===============================================================================
