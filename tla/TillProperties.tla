---------------------------- MODULE TillProperties -----------------------------
(***************************************************************************)
(* What must hold between what the screens show and what is booked.        *)
(***************************************************************************)
EXTENDS Till

\* A sale charges the TOTAL the cashier read to the customer, unless a price
\* changed after its product was put in the cart (pos_page.py:673, sale_service.py:207).
ChargedAsShown ==
    [][ sales' # sales /\ Len(sales') > Len(sales)
            /\ (\A i \in DOMAIN cart : cart[i].price = shop[cart[i].product].price)
        => Last(sales').total = Shown ]_vars

\* One cart becomes two sales only if the cashier printed again instead of
\* starting a new sale (pos_page.py:816).
OneSalePerCart ==
    \A i, j \in DOMAIN sales :
        i < j /\ sales[i].cart = sales[j].cart => sales[i].again

\* The popup claims a printed receipt only if a whole one came out
\* (popups.py:25-28: "never claims a receipt was printed when printed is False").
NoFalseClaim ==
    popup.kind = "complete" /\ popup.printed =>  paper.sale = popup.sale /\ paper.whole

\* No receipt is printed of a sale that was cancelled by then, here or on another
\* PC, except from the dialog its completion has left open (receipt_service.py:53,
\* pos_page.py:816).
CancelledNeverPrinted ==
    paper.status = "CANCELLED" => sales[paper.sale].again

\* The exchanges of a receipt together never take back more than it sold, though
\* the form offers all of it again after each (exchange_page.py:248, 266).
ReturnedWithinSold ==
    \A s \in DOMAIN sales, p \in Products : ReturnedSoFar(s, p) <= sales[s].items[p]

\* What is booked is what the Admin confirmed unless the replacement's price
\* changed behind the form, and money is taken if and only if it is owed
\* (exchange_page.py:364-408, exchange_service.py:350-385).
BookedAsConfirmed ==
    \A i \in DOMAIN exchanges :
        LET e == exchanges[i]
        IN  /\ ~ e.stale => e.difference = e.shown
            /\ (e.payment # None) = (e.difference > 0)

===============================================================================
