--------------------------------- MODULE Store ---------------------------------
(***************************************************************************)
(* The business services of one shop PC: products, stock movements,        *)
(* purchases, sales, cancellations, exchanges and the store-credit ledger, *)
(* over the tables of its SQLite file.                                     *)
(*                                                                         *)
(* Every service call runs inside session_scope (app/data/db.py:54-69),    *)
(* which commits all of its writes or none, so one call is one action: a   *)
(* call that raises leaves the state alone and is a disabled action here.  *)
(* What can happen between the reads and the writes of a call, when the    *)
(* sync worker writes the same file, is the subject of other modules.      *)
(*                                                                         *)
(* Abstractions.  A receipt is the index of its row in sales.  Bank POS    *)
(* and Bank Transfer are treated alike everywhere, "BANK" stands for both. *)
(* The lines of a document are functions from products to quantities,      *)
(* because every service refuses a product named twice.  PERCENT and FIXED *)
(* discounts are the amount they come to.  Money is in whole units.        *)
(***************************************************************************)
EXTENDS Integers, Sequences, Functions

CONSTANTS
    Products,     \* product ids
    Customers,    \* customer ids, all registered
    Users,        \* signed-in users
    Admins,       \* those of them with the Admin role
    Prices,       \* selling prices an Admin may enter
    Costs,        \* cost prices an Admin may enter
    FormEdits,    \* products whose quantity an Admin also types in the product form
    MaxQuantity,  \* largest quantity entered in a line or a form
    MaxLines,     \* bound: lines of an exchange
    MaxMoney,     \* bound: no document is worth more
    MaxSales,     \* bound: receipts
    MaxExchanges, \* bound: exchanges
    MaxPurchases, \* bound: purchases
    MaxMovements  \* bound: inventory_logs rows of a product

ASSUME StoreAssumption ==
    /\ Admins \subseteq Users
    /\ Prices \subseteq Nat /\ Costs \subseteq Nat
    /\ FormEdits \subseteq Products
    /\ {MaxQuantity, MaxLines, MaxMoney, MaxSales, MaxExchanges, MaxPurchases,
         MaxMovements} \subseteq Nat

VARIABLES
    stocked,    \* products registered
    active,     \* products with is_active
    price,      \* products.selling_price
    cost,       \* products.cost_price
    quantity,   \* products.quantity
    log,        \* inventory_logs of each product, oldest first
    sales,      \* sales with their items and payments, by receipt
    exchanges,  \* exchanges, oldest first
    purchases,  \* number of purchases recorded
    granted,    \* customer_credits: SUM(amount) of the EXCHANGE rows
    spent,      \* customer_credits: SUM(amount) of the SALE_PAYMENT rows
    queued      \* sync_queue: what its payloads come to when replayed in order

catalogueVars == <<stocked, active, price, cost>>
stockVars     == <<quantity, log>>
creditVars    == <<granted, spent>>
vars == <<catalogueVars, stockVars, sales, exchanges, purchases, creditVars, queued>>

-------------------------------------------------------------------------------
\* Types

Lines == [Products -> 0 .. MaxQuantity]  \* a document's quantity of each product
NoLines == [p \in Products |-> 0]
Named(lines) == {p \in Products : lines[p] > 0}

PaymentMethods == {"BANK", "CREDIT"}
ReferenceTypes == {"STOCK_IN", "STOCK_ADJUSTMENT", "SALE", "SALE_CANCELLED", "EXCHANGE"}
Labels == [type: ReferenceTypes, ref: Nat]
Movement == [change: Int, previous: Nat, new: Nat, label: Labels]

Sale == [customer: Customers, items: Lines, unit: [Products -> Nat], method: PaymentMethods,
         total: Nat, status: {"COMPLETED", "CANCELLED"}, returned: [Products -> Nat]]

Exchange == [sale: Nat, difference: Int, override: BOOLEAN]

\* The payloads enqueued so far, as one replay of them in order: opening
\* quantities and movements add up, credit rows add up, and of a product or a
\* receipt the last payload counts.  The quantity in the payload of a product
\* UPDATE is not replayed: the receiver skips an update of an unchanged version.
Queued == [stock: [Products -> Int], credit: [Customers -> Int],
           product: [Products -> [selling: Nat, cost: Nat, isActive: BOOLEAN]],
           status: Seq({"COMPLETED", "CANCELLED"})]

\* Types; the stock of a product is never negative (inventory_service.py:180).
TypeOK ==
    /\ stocked \subseteq Products
    /\ active \subseteq stocked
    /\ price \in [Products -> Nat]
    /\ cost \in [Products -> Nat]
    /\ quantity \in [Products -> Nat]
    /\ log \in [Products -> Seq(Movement)]
    /\ sales \in Seq(Sale)
    /\ exchanges \in Seq(Exchange)
    /\ purchases \in Nat
    /\ granted \in [Customers -> Nat]
    /\ spent \in [Customers -> Nat]
    /\ queued \in Queued

Init ==
    /\ stocked = {}
    /\ active = {}
    /\ price = [p \in Products |-> 0]
    /\ cost = [p \in Products |-> 0]
    /\ quantity = [p \in Products |-> 0]
    /\ log = [p \in Products |-> <<>>]
    /\ sales = <<>>
    /\ exchanges = <<>>
    /\ purchases = 0
    /\ granted = [c \in Customers |-> 0]
    /\ spent = [c \in Customers |-> 0]
    /\ queued = [stock |-> [p \in Products |-> 0], credit |-> [c \in Customers |-> 0],
                 product |-> [p \in Products |-> [selling |-> 0, cost |-> 0, isActive |-> FALSE]],
                 status |-> <<>>]

-------------------------------------------------------------------------------
\* Permissions

SharedCapabilities == {"make_sale", "process_payment"}
AdminCapabilities == {"create_product", "edit_product", "discount", "cancel_sale", "exchange",
                      "stock_in", "stock_adjustment", "manage_purchases_suppliers"}

Can(user, capability) ==
    \/ capability \in SharedCapabilities
    \/ user \in Admins /\ capability \in AdminCapabilities

-------------------------------------------------------------------------------
\* Stock movements

\* Fault: a row records the size of its change and loses the sign.
Row_Unsigned(previous, change, type, ref) ==
    [change |-> IF change < 0 THEN -change ELSE change, previous |-> previous,
     new |-> previous + change, label |-> [type |-> type, ref |-> ref]]

Row(previous, change, type, ref) ==
    [change |-> change, previous |-> previous, new |-> previous + change,
     label |-> [type |-> type, ref |-> ref]]

NoStock == [p \in Products |-> 0]
Plus(stock, change) == [p \in Products |-> stock[p] + change[p]]

\* Fault: the check against negative stock only looks at what is there now.
InStock_Now(moved, change) == \A p \in moved : quantity[p] >= 0

InStock(moved, change) == \A p \in moved : quantity[p] + change[p] >= 0

\* One movement of change[p] for every p of moved, none refused.
ChangeStock(moved, change, type, ref) ==
    /\ moved \subseteq stocked
    /\ InStock(moved, change)
    /\ \A p \in moved : Len(log[p]) < MaxMovements
    /\ quantity' = [p \in Products |->
                      IF p \in moved THEN quantity[p] + change[p] ELSE quantity[p]]
    /\ log' = [p \in Products |->
                 IF p \in moved THEN Append(log[p], Row(quantity[p], change[p], type, ref))
                                ELSE log[p]]

\* Fault: movements out of the shop are not enqueued.
QueuedStock_In(change) ==
    [p \in Products |-> queued.stock[p] + IF change[p] > 0 THEN change[p] ELSE 0]

\* The movement is enqueued with its signed change.
QueuedStock(change) == Plus(queued.stock, change)

StockIn(user, p, added) ==
    LET change == [NoStock EXCEPT ![p] = added]
    IN  /\ Can(user, "stock_in")
        /\ ChangeStock({p}, change, "STOCK_IN", 0)
        /\ queued' = [queued EXCEPT !.stock = QueuedStock(change)]
        /\ UNCHANGED <<catalogueVars, sales, exchanges, purchases, creditVars>>

Adjust(user, p, new) ==
    LET change == [NoStock EXCEPT ![p] = new - quantity[p]]
    IN  /\ Can(user, "stock_adjustment")
        /\ ChangeStock({p}, change, "STOCK_ADJUSTMENT", 0)
        /\ queued' = [queued EXCEPT !.stock = QueuedStock(change)]
        /\ UNCHANGED <<catalogueVars, sales, exchanges, purchases, creditVars>>

\* The purchased unit cost becomes the product's cost price.  The product is not
\* enqueued.  Supplier, amount paid and balance are left out.
CompletePurchase(user, items, unitCost) ==
    LET purchase == purchases + 1
    IN  /\ Can(user, "manage_purchases_suppliers")
        /\ purchases < MaxPurchases
        /\ items # NoLines
        /\ Named(items) \subseteq active
        /\ ChangeStock(Named(items), items, "STOCK_IN", purchase)
        /\ purchases' = purchase
        /\ cost' = [p \in Products |-> IF items[p] > 0 THEN unitCost[p] ELSE cost[p]]
        /\ queued' = [queued EXCEPT !.stock = QueuedStock(items)]
        /\ UNCHANGED <<stocked, active, price, sales, exchanges, creditVars>>

-------------------------------------------------------------------------------
\* Catalogue

CreateProduct(user, p, selling, costing, opening) ==
    /\ Can(user, "create_product")
    /\ p \notin stocked
    /\ stocked' = stocked \cup {p}
    /\ active' = active \cup {p}
    /\ price' = [price EXCEPT ![p] = selling]
    /\ cost' = [cost EXCEPT ![p] = costing]
    /\ quantity' = [quantity EXCEPT ![p] = opening]
    /\ queued' = [queued EXCEPT !.stock[p] = @ + opening,
                                !.product[p] = [selling |-> selling, cost |-> costing,
                                                isActive |-> TRUE]]
    /\ UNCHANGED <<log, sales, exchanges, purchases, creditVars>>

\* The form passes the quantity along with the other fields; update writes it
\* straight into the row.  version is left as it was.
UpdateProduct(user, p, selling, costing, new, nowActive) ==
    /\ Can(user, "edit_product")
    /\ p \in stocked
    /\ new # quantity[p] => p \in FormEdits
    /\ price' = [price EXCEPT ![p] = selling]
    /\ cost' = [cost EXCEPT ![p] = costing]
    /\ quantity' = [quantity EXCEPT ![p] = new]
    /\ active' = IF nowActive THEN active \cup {p} ELSE active \ {p}
    /\ queued' = [queued EXCEPT !.product[p] = [selling |-> selling, cost |-> costing,
                                                isActive |-> nowActive]]
    /\ UNCHANGED <<stocked, log, sales, exchanges, purchases, creditVars>>

\* activate and deactivate write the flag and enqueue nothing.
DeactivateProduct(user, p) ==
    /\ Can(user, "edit_product")
    /\ p \in stocked
    /\ active' = active \ {p}
    /\ UNCHANGED <<stocked, price, cost, stockVars, sales, exchanges, purchases, creditVars, queued>>

ActivateProduct(user, p) ==
    /\ Can(user, "edit_product")
    /\ p \in stocked
    /\ active' = active \cup {p}
    /\ UNCHANGED <<stocked, price, cost, stockVars, sales, exchanges, purchases, creditVars, queued>>

-------------------------------------------------------------------------------
\* Sales

Balance(c) == granted[c] - spent[c]

\* Fault: any credit at all pays for the whole sale.
Affordable_Any(c, amount) == amount > 0 => Balance(c) > 0

Affordable(c, amount) == amount > 0 => Balance(c) >= amount

Subtotal(items) == SumFunction([p \in Products |-> price[p] * items[p]])

\* What the CREDIT payment rows of a sale come to: a sale worth nothing has none.
CreditPaid(sale) == IF sale.method = "CREDIT" THEN sale.total ELSE 0

CompleteSale(user, c, items, method, discount) ==
    LET receipt == Len(sales) + 1
        total   == Subtotal(items) - discount
        sale    == [customer |-> c, items |-> items, method |-> method, total |-> total,
                    unit |-> [p \in Products |-> IF items[p] > 0 THEN price[p] ELSE 0],
                    status |-> "COMPLETED", returned |-> NoLines]
        sold    == [p \in Products |-> -items[p]]
    IN  /\ Can(user, "make_sale") /\ Can(user, "process_payment")
        /\ receipt <= MaxSales
        /\ items # NoLines
        /\ Named(items) \subseteq active
        /\ discount > 0 => Can(user, "discount")
        /\ total \in 0 .. MaxMoney
        /\ Affordable(c, CreditPaid(sale))
        /\ sales' = Append(sales, sale)
        /\ spent' = [spent EXCEPT ![c] = @ + CreditPaid(sale)]
        /\ ChangeStock(Named(items), sold, "SALE", receipt)
        /\ queued' = [queued EXCEPT !.stock = QueuedStock(sold),
                                    !.credit[c] = @ - CreditPaid(sale),
                                    !.status = Append(@, "COMPLETED")]
        /\ UNCHANGED <<catalogueVars, exchanges, purchases, granted>>

ExchangesOf(s) == {e \in 1 .. Len(exchanges) : exchanges[e].sale = s}

\* Fault: a cancelled sale is cancelled again.
Cancellable_Again(s) == ExchangesOf(s) = {}

\* Fault: a sale is cancelled in spite of its exchanges.
Cancellable_Exchanged(s) == sales[s].status # "CANCELLED"

Cancellable(s) == sales[s].status # "CANCELLED" /\ ExchangesOf(s) = {}

\* Fault: cancelling credits every payment, those by bank too.
Refund_All(sale) == sale.total

\* What was paid by credit is credited again, whatever else was paid is not.
Refund(sale) == CreditPaid(sale)

\* Fault: the cancellation is not enqueued.
QueuedStatus_Kept(s) == queued.status

QueuedStatus(s) == [queued.status EXCEPT ![s] = "CANCELLED"]

CancelSale(user, s) ==
    LET sale == sales[s]
    IN  /\ Can(user, "cancel_sale")
        /\ s \in 1 .. Len(sales)
        /\ Cancellable(s)
        /\ sales' = [sales EXCEPT ![s].status = "CANCELLED"]
        /\ ChangeStock(Named(sale.items), sale.items, "SALE_CANCELLED", s)
        /\ granted' = [granted EXCEPT ![sale.customer] = @ + Refund(sale)]
        /\ queued' = [queued EXCEPT !.stock = QueuedStock(sale.items),
                                    !.credit[sale.customer] = @ + Refund(sale),
                                    !.status = QueuedStatus(s)]
        /\ UNCHANGED <<catalogueVars, exchanges, purchases, spent>>

-------------------------------------------------------------------------------
\* Exchanges

\* One line of the exchange screen.
Trade == [original: Products, originalQuantity: 1 .. MaxQuantity,
          replacement: Products, replacementQuantity: 1 .. MaxQuantity]

Trades == UNION {[1 .. n -> Trade] : n \in 1 .. MaxLines}

\* No product is returned by two lines or issued by two lines.
NoneTwice(lines) ==
    \A i, j \in 1 .. Len(lines) :
        i # j => /\ lines[i].original # lines[j].original
                 /\ lines[i].replacement # lines[j].replacement

ReturnedBy(lines) ==
    [p \in Products |->
        IF \E i \in 1 .. Len(lines) : lines[i].original = p
        THEN lines[CHOOSE i \in 1 .. Len(lines) : lines[i].original = p].originalQuantity
        ELSE 0]

IssuedBy(lines) ==
    [p \in Products |->
        IF \E i \in 1 .. Len(lines) : lines[i].replacement = p
        THEN lines[CHOOSE i \in 1 .. Len(lines) : lines[i].replacement = p].replacementQuantity
        ELSE 0]

\* The service books line by line, the return before the replacement: p comes
\* back before it goes out unless a later line returns it.
ReturnsFirst(lines, p) ==
    \A i, j \in 1 .. Len(lines) :
        lines[i].original = p /\ lines[j].replacement = p => i <= j

\* Fault: the replacement leaves the shop without a row.
ExchangeRows_Returned(lines, p, e) ==
    IF ReturnedBy(lines)[p] = 0 THEN <<>>
    ELSE <<Row(quantity[p], ReturnedBy(lines)[p], "EXCHANGE", e)>>

\* The movements of p, in the order they are booked.
ExchangeRows(lines, p, e) ==
    LET returned     == ReturnedBy(lines)[p]
        issued       == IssuedBy(lines)[p]
        BackFrom(q)  == IF returned = 0 THEN <<>> ELSE <<Row(q, returned, "EXCHANGE", e)>>
        OutFrom(q)   == IF issued = 0 THEN <<>> ELSE <<Row(q, -issued, "EXCHANGE", e)>>
    IN  IF ReturnsFirst(lines, p)
        THEN BackFrom(quantity[p]) \o OutFrom(quantity[p] + returned)
        ELSE OutFrom(quantity[p]) \o BackFrom(quantity[p] - issued)

\* Fault: what came back in earlier exchanges is not counted.
Returnable_Sold(s, p) == sales[s].items[p]

\* How many of p the receipt can still give back.
Returnable(s, p) == sales[s].items[p] - sales[s].returned[p]

\* At the prices of the receipt and today's prices, discounts disregarded.
Difference(sale, lines) ==
    SumFunction([p \in Products |-> price[p] * IssuedBy(lines)[p]
                                    - sale.unit[p] * ReturnedBy(lines)[p]])

\* Money owed to the customer becomes store credit.
CreditOwed(difference) == IF difference < 0 THEN -difference ELSE 0

\* The receipt is looked up by number only: a cancelled one is found too.  A
\* positive difference is paid by BANK.
CompleteExchange(user, s, lines, late, override) ==
    LET e          == Len(exchanges) + 1
        sale       == sales[s]
        returned   == ReturnedBy(lines)
        net        == [p \in Products |-> returned[p] - IssuedBy(lines)[p]]
        difference == Difference(sale, lines)
        Rows(p)    == ExchangeRows(lines, p, e)
    IN  /\ Can(user, "exchange")
        /\ e <= MaxExchanges
        /\ s \in 1 .. Len(sales)
        /\ late => override
        /\ Len(lines) > 0 /\ NoneTwice(lines)
        /\ Named(IssuedBy(lines)) \subseteq active
        /\ \A p \in Named(returned) : returned[p] <= Returnable(s, p)
        /\ difference \in -MaxMoney .. MaxMoney
        /\ \A p \in Products : \A i \in 1 .. Len(Rows(p)) : Rows(p)[i].new >= 0
        /\ \A p \in Products : Len(log[p]) + Len(Rows(p)) <= MaxMovements
        /\ sales' = [sales EXCEPT ![s].returned = Plus(@, returned)]
        /\ exchanges' = Append(exchanges, [sale |-> s, difference |-> difference,
                                           override |-> override])
        /\ granted' = [granted EXCEPT ![sale.customer] = @ + CreditOwed(difference)]
        /\ quantity' = Plus(quantity, net)
        /\ log' = [p \in Products |-> log[p] \o Rows(p)]
        /\ queued' = [queued EXCEPT !.stock = QueuedStock(net),
                                    !.credit[sale.customer] = @ + CreditOwed(difference)]
        /\ UNCHANGED <<catalogueVars, purchases, spent>>

-------------------------------------------------------------------------------
\* The calls the screens make

CatalogueStep(user) ==
    \E p \in Products :
        \/ \E selling \in Prices, costing \in Costs, opening \in 0 .. MaxQuantity :
              CreateProduct(user, p, selling, costing, opening)
        \/ \E selling \in Prices, costing \in Costs,
              new \in {quantity[p]} \cup (0 .. MaxQuantity), nowActive \in BOOLEAN :
              UpdateProduct(user, p, selling, costing, new, nowActive)
        \/ DeactivateProduct(user, p)
        \/ ActivateProduct(user, p)

StockStep(user) ==
    \/ \E p \in Products, added \in 1 .. MaxQuantity : StockIn(user, p, added)
    \/ \E p \in Products, new \in 0 .. MaxQuantity : Adjust(user, p, new)
    \/ \E items \in Lines, unitCost \in [Products -> Costs] :
          CompletePurchase(user, items, unitCost)

SaleStep(user) ==
    \/ \E c \in Customers, items \in Lines, method \in PaymentMethods,
          discount \in 0 .. MaxMoney : CompleteSale(user, c, items, method, discount)
    \/ \E s \in 1 .. Len(sales) : CancelSale(user, s)

ExchangeStep(user) ==
    \E s \in 1 .. Len(sales), lines \in Trades, late, override \in BOOLEAN :
        CompleteExchange(user, s, lines, late, override)

Next == \E user \in Users :
            CatalogueStep(user) \/ StockStep(user) \/ SaleStep(user) \/ ExchangeStep(user)

Spec == Init /\ [][Next]_vars

===============================================================================
