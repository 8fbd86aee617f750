--------------------------------- MODULE Till ----------------------------------
(***************************************************************************)
(* The two screens that sell: the point of sale with its cart, its popups  *)
(* and the receipt printer, and the exchange form the Admin opens from it. *)
(*                                                                         *)
(* Both copy prices and quantities when a product is chosen and hand ids   *)
(* and quantities to a service later, which reads everything again.  In    *)
(* between the worker commits pulled rows, and another page of the same    *)
(* window may have been used: the cart survives a change of page.  While a *)
(* popup is open only the worker goes on.                                  *)
(*                                                                         *)
(* Abstractions.  The services book as they do in Store, here with what a  *)
(* screen can tell apart: total, difference, payment and lines.  A receipt *)
(* number is the place in sales, a number nobody has is one beyond.  Print *)
(* layout, labels and the text of errors are left out.                     *)
(***************************************************************************)
EXTENDS Integers, SequencesExt

CONSTANTS
    Products, Customers,
    Prices,        \* selling prices
    Opening,       \* quantity the products begin with
    MaxStock,      \* bound: quantity of a product
    Discounts,     \* fixed discounts that may be typed
    MaxSales,      \* bound: receipts
    MaxExchanges,  \* bound: exchanges
    MaxEvents,     \* bound: changes made behind the screens' back
    None           \* nothing chosen

ASSUME TillAssumption ==
    /\ Prices \subseteq Nat \ {0} /\ Prices # {}
    /\ Discounts \subseteq Nat \ {0}
    /\ Opening \in 0 .. MaxStock
    /\ {MaxStock, MaxSales, MaxExchanges, MaxEvents} \subseteq Nat
    /\ None \notin Nat /\ None \notin Products
    /\ None \notin {"POS", "open", "start", "short", "write", "close"}

VARIABLES
    role,       \* role of the signed-in user
    shop,       \* products: selling_price, quantity, is_active
    events,     \* changes behind the screens' back so far
    sales, exchanges,
    cart, found,          \* POSPage._cart and _search_results
    customer, discount,   \* customer_combo, discount_value_input
    carts,      \* carts begun so far: sales of one cart have the same number
    popup,      \* the modal dialog in front, with what it shows
    form,       \* the exchange form: _sale, _return_*, _replacement_*
    printer,    \* printer.state, and whether there is a printer at all
    paper       \* what came out of the printer last, and the sale's status then

screen == <<cart, found, customer, discount, carts>>
books  == <<sales, exchanges>>
vars   == <<role, shop, events, books, screen, popup, form, printer, paper>>

-------------------------------------------------------------------------------
\* Types

Quantities == 0 .. MaxStock

Product == [price: Prices, quantity: Quantities, active: BOOLEAN]
Line == [product: Products, price: Prices, quantity: Nat, max: Quantities]

Sale == [items: [Products -> Nat], prices: [Products -> Prices], total: Nat, discount: Nat,
         cart: Nat, again: BOOLEAN, status: {"COMPLETED", "CANCELLED"}]

Exchange == [sale: Nat, returned: Products, out: Nat, issued: Products, in: Nat,
             difference: Int, payment: {"POS", None}, shown: Int, stale: BOOLEAN]

PrinterStates == {"NOT_CONFIGURED", "AVAILABLE", "UNAVAILABLE", "FAILED"}

NoPopup == [kind |-> "none", sale |-> None, printed |-> FALSE, state |-> None]
Popups == [kind: {"none", "insufficient", "complete", "exchange", "confirm", "override", "done"},
           sale: Nat \cup {None}, printed: BOOLEAN, state: PrinterStates \cup {None}]

\* The form before a receipt was found.
NoForm == [sale |-> None, returned |-> None, out |-> 1, issued |-> None, price |-> 0, in |-> 1]

\* Types; a cart has no empty line and no two lines of one product, which the sale
\* would refuse (pos_page.py:521-545, sale_service.py:403).
TypeOK ==
    /\ role \in {"ADMIN", "CASHIER"}
    /\ shop \in [Products -> Product]
    /\ events \in 0 .. MaxEvents
    /\ sales \in Seq(Sale)
    /\ exchanges \in Seq(Exchange)
    /\ cart \in Seq(Line)
    /\ \A i \in DOMAIN cart : cart[i].quantity > 0
    /\ \A i, j \in DOMAIN cart : cart[i].product = cart[j].product => i = j
    /\ \A p \in DOMAIN found : p \in Products /\ found[p] \in Product
    /\ customer \in Customers \cup {None}
    /\ discount \in Discounts \cup {0}
    /\ carts \in Nat
    /\ popup \in Popups
    /\ printer \in [state: PrinterStates, there: BOOLEAN]
    /\ paper \in [sale: Nat, whole: BOOLEAN, status: {"COMPLETED", "CANCELLED"}]

Init ==
    /\ role \in {"ADMIN", "CASHIER"}
    /\ shop \in [Products -> [price: {Min(Prices)}, quantity: {Opening}, active: {TRUE}]]
    /\ events = 0
    /\ sales = <<>>
    /\ exchanges = <<>>
    /\ cart = <<>>
    /\ found = <<>>
    /\ customer = None
    /\ discount = 0
    /\ carts = 0
    /\ popup = NoPopup
    /\ form = NoForm
    /\ printer \in [state: {"NOT_CONFIGURED"}, there: BOOLEAN]
    /\ paper = [sale |-> 0, whole |-> FALSE, status |-> "COMPLETED"]

Free == popup = NoPopup        \* no dialog in front of the point of sale
Showing(kind) == popup.kind = kind
Say(kind) == [NoPopup EXCEPT !.kind = kind]

-------------------------------------------------------------------------------
\* Behind the screens' back: rows the worker pulled, and the other pages

Behind == events < MaxEvents /\ events' = events + 1

Elsewhere ==
    /\ Behind
    /\ \E p \in Products :
         \/ \E price \in Prices \ {shop[p].price} : shop' = [shop EXCEPT ![p].price = price]
         \/ \E q \in {shop[p].quantity - 1, shop[p].quantity + 1} \cap Quantities :
                shop' = [shop EXCEPT ![p].quantity = q]
         \/ shop' = [shop EXCEPT ![p].active = ~ @]
    /\ UNCHANGED <<role, books, screen, popup, form, printer, paper>>

\* Another PC has cancelled a sale of this one: its row is pulled with the goods'
\* movements, or a page of the pull ends in between.
PullCancel(s) ==
    /\ Behind
    /\ sales[s].status = "COMPLETED"
    /\ sales' = [sales EXCEPT ![s].status = "CANCELLED"]
    /\ LET back == [p \in Products |-> [shop[p] EXCEPT !.quantity = @ + sales[s].items[p]]]
       IN  /\ \A p \in Products : back[p].quantity <= MaxStock
           /\ shop' \in {shop, back}
    /\ UNCHANGED <<role, exchanges, screen, popup, form, printer, paper>>

-------------------------------------------------------------------------------
\* The cart

Of(p) == {i \in DOMAIN cart : cart[i].product = p}

\* Fault: a product that is in the cart gets a second line.
Added_Anew(p, seen) == Append(cart, [product |-> p, price |-> seen.price, quantity |-> 1,
                                     max |-> seen.quantity])

\* The line of the product keeps its price, and may outgrow the stock.
Added(p, seen) ==
    IF Of(p) = {}
    THEN Append(cart, [product |-> p, price |-> seen.price, quantity |-> 1,
                       max |-> seen.quantity])
    ELSE [i \in DOMAIN cart |->
            IF i \in Of(p)
            THEN [cart[i] EXCEPT !.quantity = @ + 1, !.max = IF seen.quantity > @ THEN seen.quantity
                                                                                  ELSE @]
            ELSE cart[i]]

AddProduct(p, seen) ==
    cart' = IF seen.active /\ seen.quantity > 0 THEN Added(p, seen) ELSE cart

\* Bound: a line holds at most one more than the stock can be.
Room(p) == \A i \in Of(p) : cart[i].quantity <= MaxStock

Scan(p) ==
    /\ Free /\ Room(p)
    /\ AddProduct(p, shop[p])
    /\ UNCHANGED <<role, shop, events, books, found, customer, discount, carts, popup, form,
                   printer, paper>>

Search ==
    /\ Free
    /\ found' = [p \in {p \in Products : shop[p].active} |-> shop[p]]
    /\ UNCHANGED <<role, shop, events, books, cart, customer, discount, carts, popup, form,
                   printer, paper>>

PickFound(p) ==
    /\ Free /\ Room(p)
    /\ p \in DOMAIN found
    /\ AddProduct(p, found[p])
    /\ found' = <<>>
    /\ UNCHANGED <<role, shop, events, books, customer, discount, carts, popup, form, printer, paper>>

\* The stepper of a row: within one and the stock the line was last told of.
Step(i, delta) ==
    /\ Free /\ cart[i].max > 1
    /\ cart' = [cart EXCEPT ![i].quantity =
                  Min({Max({@ + delta, 1}), cart[i].max})]
    /\ UNCHANGED <<role, shop, events, books, found, customer, discount, carts, popup, form,
                   printer, paper>>

RemoveRow(i) ==
    /\ Free
    /\ cart' = RemoveAt(cart, i)
    /\ UNCHANGED <<role, shop, events, books, found, customer, discount, carts, popup, form,
                   printer, paper>>

\* The customer is chosen in the combo box or made by the quick dialog; only who
\* may discount has the field.
Choose ==
    /\ Free
    /\ \/ customer' \in Customers /\ UNCHANGED discount
       \/ role = "ADMIN" /\ discount' \in Discounts \cup {0} /\ UNCHANGED customer
    /\ UNCHANGED <<role, shop, events, books, cart, found, carts, popup, form, printer, paper>>

-------------------------------------------------------------------------------
\* Completing a sale

\* The sum of the first n.
SumTo(f, n) == LET sum[i \in 0 .. n] == IF i = 0 THEN 0 ELSE sum[i - 1] + f[i] IN sum[n]

Amount(lines, price) ==
    SumTo([i \in DOMAIN lines |-> price[i] * lines[i].quantity], Len(lines))

\* TOTAL as _refresh_summary shows it: never below zero.
Shown == LET due == Amount(cart, [i \in DOMAIN cart |-> cart[i].price]) - discount
         IN  IF due < 0 THEN 0 ELSE due

\* Fault: the discount on the screen does not reach the service.
Reduction_None == 0

Reduction == discount

\* The total complete_sale computes from the products' present prices.
Due == Amount(cart, [i \in DOMAIN cart |-> shop[cart[i].product].price]) - Reduction

\* The service takes one line of a product.
Sold(lines) ==
    [p \in Products |-> LET of == {i \in DOMAIN lines : lines[i].product = p}
                       IN  IF of = {} THEN 0 ELSE lines[Min(of)].quantity]

InStock(lines) == \A i \in DOMAIN lines : lines[i].quantity <= shop[lines[i].product].quantity

\* What the service refuses other than for the stock: a message, and nothing else.
Sellable ==
    /\ \A i \in DOMAIN cart : shop[cart[i].product].active
    /\ \A i, j \in DOMAIN cart : cart[i].product = cart[j].product => i = j
    /\ Due >= 0

\* A print job of the spooler ends at one of these, or does not fail.
Troubles == {"open", "start", "short", "write", "close"}

\* Fault: a short write passes for a whole one.
Failed_Short(trouble) == trouble \notin {None, "short"}

Failed(trouble) == trouble # None

StateAfter(trouble) ==
    IF ~ printer.there THEN "NOT_CONFIGURED"
    ELSE IF ~ Failed(trouble) THEN "AVAILABLE"
    ELSE IF trouble \in {"open", "start"} THEN "UNAVAILABLE" ELSE "FAILED"

\* print_receipt: closing the job may fail after everything was written.
PrintReceipt(sale, trouble) ==
    /\ ~ printer.there => trouble = None
    /\ printer' = [printer EXCEPT !.state = StateAfter(trouble)]
    /\ paper' = IF printer.there /\ trouble \notin {"open", "start"}
                THEN [sale |-> sale, whole |-> trouble \in {None, "close"},
                      status |-> sales'[sale].status]
                ELSE paper

\* complete_sale, then _finish_sale up to the question what to do next.
CompleteSale ==
    /\ Free
    /\ customer # None
    /\ cart # <<>>
    /\ Sellable /\ InStock(cart)
    /\ Len(sales) < MaxSales
    /\ sales' = Append(sales, [items |-> Sold(cart),
                               prices |-> [p \in Products |-> shop[p].price],
                               total |-> Due, discount |-> discount,
                               cart |-> carts, again |-> FALSE, status |-> "COMPLETED"])
    /\ shop' = [p \in Products |-> [shop[p] EXCEPT !.quantity = @ - Sold(cart)[p]]]
    /\ \E trouble \in Troubles \cup {None} :
         /\ PrintReceipt(Len(sales'), trouble)
         /\ popup' = [kind |-> "complete", sale |-> Len(sales'),
                      printed |-> printer.there /\ ~ Failed(trouble), state |-> printer'.state]
    /\ UNCHANGED <<role, events, exchanges, screen, form>>

\* The popup offers to reduce the quantities only when it is the stock.
Insufficient ==
    /\ Free
    /\ customer # None
    /\ cart # <<>>
    /\ Sellable /\ ~ InStock(cart)
    /\ popup' = Say("insufficient")
    /\ UNCHANGED <<role, shop, events, books, screen, form, printer, paper>>

Clamped(line) == [line EXCEPT !.quantity = Min({@, shop[line.product].quantity}),
                              !.max = shop[line.product].quantity]

\* The lines of which something is left, in their order.
Kept(lines) ==
    LET kept[i \in 0 .. Len(lines)] ==
            IF i = 0 THEN <<>>
            ELSE IF lines[i].quantity > 0 THEN Append(kept[i - 1], lines[i]) ELSE kept[i - 1]
    IN  kept[Len(lines)]

\* _clamp_cart_to_stock
Reduce ==
    /\ Showing("insufficient")
    /\ popup' = NoPopup
    /\ cart' = Kept([i \in DOMAIN cart |-> Clamped(cart[i])])
    /\ UNCHANGED <<role, shop, events, books, found, customer, discount, carts, form, printer, paper>>

Dismiss ==
    /\ popup.kind \in {"insufficient", "done"}
    /\ popup' = NoPopup
    /\ UNCHANGED <<role, shop, events, books, screen, form, printer, paper>>

\* Fault: the cart of the sale stays.
AfterNew_Kept(lines) == lines

AfterNew(lines) == <<>>

\* New Sale: _reset_cart, which leaves customer and discount as they are.
NewSale ==
    /\ Showing("complete")
    /\ popup' = NoPopup
    /\ cart' = AfterNew(cart)
    /\ carts' = IF cart' = <<>> THEN carts + 1 ELSE carts
    /\ UNCHANGED <<role, shop, events, books, found, customer, discount, form, printer, paper>>

\* Print and Reprint print once more and leave the cart filled, ready to be
\* completed again.
PrintAgain ==
    /\ Showing("complete")
    /\ popup' = NoPopup
    /\ sales' = [sales EXCEPT ![popup.sale].again = TRUE]
    /\ \E trouble \in Troubles \cup {None} : PrintReceipt(popup.sale, trouble)
    /\ UNCHANGED <<role, shop, events, exchanges, screen, form>>

-------------------------------------------------------------------------------
\* Reprinting and cancelling by number

\* Fault: a cancelled sale prints too.
Reprintable_Any(s) == TRUE

Reprintable(s) == sales[s].status # "CANCELLED"

Reprint(s) ==
    /\ Free
    /\ Reprintable(s)
    /\ UNCHANGED <<role, shop, events, books, screen, popup, form>>
    /\ \E trouble \in Troubles \cup {None} : PrintReceipt(s, trouble)

CancelSale(s) ==
    /\ Free /\ role = "ADMIN"
    /\ sales[s].status = "COMPLETED"
    /\ \A i \in DOMAIN exchanges : exchanges[i].sale # s
    /\ \A p \in Products : shop[p].quantity + sales[s].items[p] <= MaxStock
    /\ shop' = [p \in Products |-> [shop[p] EXCEPT !.quantity = @ + sales[s].items[p]]]
    /\ sales' = [sales EXCEPT ![s].status = "CANCELLED"]
    /\ popup' = Say("done")
    /\ UNCHANGED <<role, events, exchanges, screen, form, printer, paper>>

-------------------------------------------------------------------------------
\* The exchange form

OpenExchange ==
    /\ Free /\ role = "ADMIN"
    /\ Len(exchanges) < MaxExchanges
    /\ popup' = Say("exchange")
    /\ form' = NoForm
    /\ UNCHANGED <<role, shop, events, books, screen, printer, paper>>

CloseExchange ==
    /\ Showing("exchange")
    /\ popup' = NoPopup
    /\ form' = NoForm
    /\ UNCHANGED <<role, shop, events, books, screen, printer, paper>>

\* find_sale, any status, and the choice of a product of it with its quantity:
\* the form offers what was sold, not what is left of it.
FindSale(s, p) ==
    /\ Showing("exchange")
    /\ sales[s].items[p] > 0
    /\ \E n \in 1 .. sales[s].items[p] :
         form' = [NoForm EXCEPT !.sale = s, !.returned = p, !.out = n]
    /\ UNCHANGED <<role, shop, events, books, screen, popup, printer, paper>>

\* Search and Add: price and stock as the search found them.
ChooseReplacement(p) ==
    /\ Showing("exchange")
    /\ shop[p].active
    /\ \E n \in 1 .. Max({shop[p].quantity, 1}) :
         form' = [form EXCEPT !.issued = p, !.price = shop[p].price, !.in = n]
    /\ UNCHANGED <<role, shop, events, books, screen, popup, printer, paper>>

\* The difference label, from the sale's price and the replacement's copied one.
Preview == form.price * form.in - sales[form.sale].prices[form.returned] * form.out

\* Fault: a payment is chosen although the customer is owed money.
Payment_Always(difference) == "POS"

\* _payment: nobody pays unless the replacement costs more.
Payment(difference) == IF difference > 0 THEN "POS" ELSE None

\* The payment the screen passes.
Passed == IF Preview < 0 THEN None ELSE "POS"

AskConfirmation ==
    /\ Showing("exchange")
    /\ form.sale # None /\ form.issued # None
    /\ popup' = Say("confirm")
    /\ UNCHANGED <<role, shop, events, books, screen, form, printer, paper>>

Difference == shop[form.issued].price * form.in - sales[form.sale].prices[form.returned] * form.out

ReturnedSoFar(s, p) ==
    SumTo([i \in DOMAIN exchanges |->
             IF exchanges[i].sale = s /\ exchanges[i].returned = p THEN exchanges[i].out ELSE 0],
          Len(exchanges))

\* Fault: each exchange is checked against what was sold.
Left_Sold(s, p) == sales[s].items[p]

Left(s, p) == sales[s].items[p] - ReturnedSoFar(s, p)

\* The goods come in before the replacement goes out.
Issuable ==
    LET back == IF form.issued = form.returned THEN form.out ELSE 0
    IN  form.in <= shop[form.issued].quantity + back

Exchangeable ==
    /\ shop[form.issued].active
    /\ form.out <= Left(form.sale, form.returned)
    /\ Difference > 0 => Passed # None
    /\ Issuable

\* complete_exchange.  The form stays as it is behind the message.
Book ==
    LET after == [shop EXCEPT ![form.returned].quantity = @ + form.out]
    IN  /\ Exchangeable
        /\ after[form.returned].quantity <= MaxStock
        /\ Len(exchanges) < MaxExchanges
        /\ exchanges' = Append(exchanges,
                          [sale |-> form.sale, returned |-> form.returned, out |-> form.out,
                           issued |-> form.issued, in |-> form.in, difference |-> Difference,
                           payment |-> Payment(Difference), shown |-> Preview,
                           stale |-> shop[form.issued].price # form.price])
        /\ shop' = [after EXCEPT ![form.issued].quantity = @ - form.in]
        /\ popup' = Say("exchange")
        /\ UNCHANGED <<role, events, sales, screen, form, printer, paper>>

\* Confirm.  Whether the sale is older than the window is not modelled by a
\* clock: a late sale asks the Admin for a reason first.
Confirm ==
    /\ Showing("confirm")
    /\ \/ Book
       \/ /\ popup' = Say("override")
          /\ UNCHANGED <<role, shop, events, books, screen, form, printer, paper>>
       \/ /\ ~ Exchangeable
          /\ popup' = Say("exchange")
          /\ UNCHANGED <<role, shop, events, books, screen, form, printer, paper>>

\* A reason: the call is made again.  No reason: back to the form.
Override ==
    /\ Showing("override")
    /\ \/ Book
       \/ /\ popup' = Say("exchange")
          /\ UNCHANGED <<role, shop, events, books, screen, form, printer, paper>>

-------------------------------------------------------------------------------

Selling ==
    \/ \E p \in Products : Scan(p) \/ PickFound(p)
    \/ Search
    \/ \E i \in DOMAIN cart : RemoveRow(i) \/ Step(i, -1) \/ Step(i, 1)
    \/ Choose
    \/ CompleteSale \/ Insufficient \/ Reduce \/ Dismiss
    \/ NewSale \/ PrintAgain
    \/ \E s \in DOMAIN sales : Reprint(s) \/ CancelSale(s)

Exchanging ==
    \/ OpenExchange \/ CloseExchange
    \/ \E s \in DOMAIN sales, p \in Products : FindSale(s, p)
    \/ \E p \in Products : ChooseReplacement(p)
    \/ AskConfirmation \/ Confirm \/ Override

Next ==
    \/ Elsewhere
    \/ \E s \in DOMAIN sales : PullCancel(s)
    \/ Selling \/ Exchanging

Spec == Init /\ [][Next]_vars

===============================================================================
