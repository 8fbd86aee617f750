-------------------------------- MODULE MCStore --------------------------------
(* Small shops for TLC. *)
EXTENDS StoreProperties, TLC

CONSTANTS shirt, gown, ada, admin, cashier

OneProduct == {shirt}
TwoProducts == {shirt, gown}
OneCustomer == {ada}
Staff == {admin, cashier}
Owner == {admin}
Nobody == {}
UnitPrice == {1}
Free == {0}
TwoPrices == {1, 2}

\* shirt and gown differ in nothing but their names.
Interchangeable == Permutations(TwoProducts)

===============================================================================
