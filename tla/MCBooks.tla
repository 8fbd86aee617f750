-------------------------------- MODULE MCBooks ---------------------------------
(* One shop with two products, the Admin and a cashier for TLC. *)
EXTENDS BooksProperties, TLC

CONSTANTS shirt, cap, admin, clerk

TwoProducts == {shirt, cap}
TwoUsers == {admin, clerk}
TwoCosts == {1, 2}
NoneOrOne == {0, 1}
OneOrTwo == {1, 2}
TwoMethods == {"POS", "CREDIT"}
Dearer == {[cost |-> [p \in TwoProducts |-> 2], discount |-> 0, method |-> "POS"]}

\* A sale without its rows ends a behaviour, and so does a page that was torn: closed,
\* it has changed nothing of the books.  Purchases, expenses and new cost prices are
\* tried one at a time, beside one sale (a purchase then has one line) and with no
\* page open.  Two sales have at most one discount and one payment by store credit,
\* the second is of one product, and none is discounted on an open page.
Changed == Cardinality({x \in {<<"bought", purchases # <<>> \/ form.open>>,
                               <<"spent", expenses # <<>>>>,
                               <<"priced", \E p \in Products : product[p].cost # Min(Costs)>>} : x[2]})

Small ==
    /\ Whole /\ ~ sheet.torn
    /\ Changed <= IF Len(sales) <= 1 /\ ~ sheet.open THEN 1 ELSE 0
    /\ Len(form.lines) = 2 => sales = <<>>
    /\ Len(sales) = 2 => /\ sales[2].discount = 0 /\ sales[1].method = "POS"
                         /\ \E p \in Products : sales[2].items[p] = 0
                         /\ sheet.open => sales[1].discount = 0
    /\ sheet.open => day = MaxDay /\ sales # <<>> /\ sheet.to = MaxDay

Alike == Permutations(TwoProducts)

===============================================================================
