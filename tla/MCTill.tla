-------------------------------- MODULE MCTill ---------------------------------
(* One window with two products for TLC. *)
EXTENDS TillProperties, TLC

CONSTANTS shirt, cap, amina

TwoProducts == {shirt, cap}
OneCustomer == {amina}
TwoPrices == {1, 2}
OneDiscount == {3}

\* The exchange form does not look at the cart behind it; exchanges of the first
\* receipt only.  Search results are looked at before a discount is given.
Small ==
    /\ popup.kind \in {"exchange", "confirm", "override"} =>
          cart = <<>> /\ found = <<>> /\ Len(sales) = 1
    /\ found # <<>> => discount = 0
    /\ Len(sales) = 2 => exchanges = <<>>
    /\ FoldLeft(LAMBDA n, line : n + line.quantity, 0, cart) <= 2

Alike == Permutations(TwoProducts)

===============================================================================
