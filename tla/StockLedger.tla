------------------------------ MODULE StockLedger ------------------------------
(***************************************************************************)
(* What the shop promises about stock, with no sales, exchanges or         *)
(* purchases in sight: products.quantity only ever moves together with the *)
(* inventory_logs rows that account for the move, and those rows are never *)
(* rewritten.  Store.tla is shown to implement this specification.         *)
(*                                                                         *)
(* Unaudited is the set of products whose quantity somebody types over     *)
(* outside the ledger (the product form does it, see Store!UpdateProduct). *)
(***************************************************************************)
EXTENDS Integers, Sequences

CONSTANTS
    Products,   \* rows of the products table
    Unaudited,  \* products whose quantity is also overwritten off the ledger
    Labels      \* why a movement happened: reference type and reference id

VARIABLES
    stocked,    \* the products registered so far
    quantity,   \* products.quantity
    log         \* inventory_logs of each product, oldest first

ledgerVars == <<stocked, quantity, log>>

\* One inventory_logs row.
Movement == [change: Int, previous: Nat, new: Nat, label: Labels]

\* Types; a movement never ends below zero.
TypeOK ==
    /\ stocked \subseteq Products
    /\ quantity \in [Products -> Nat]
    /\ log \in [Products -> Seq(Movement)]

Init ==
    /\ stocked = {}
    /\ quantity = [p \in Products |-> 0]
    /\ log = [p \in Products |-> <<>>]

-------------------------------------------------------------------------------

\* A product enters the catalogue with an opening quantity and no movement.
Register(p) ==
    /\ p \notin stocked
    /\ stocked' = stocked \cup {p}
    /\ quantity'[p] \in Nat
    /\ quantity' = [quantity EXCEPT ![p] = quantity'[p]]
    /\ UNCHANGED log

\* The rows from the first new one on account for the new quantity.
Accounted(p) ==
    LET first == Len(log[p]) + 1
        last  == Len(log'[p])
    IN  /\ p \in stocked
        /\ log'[p] \in Seq(Movement)
        /\ first <= last
        /\ \A i \in 1 .. Len(log[p]) : log'[p][i] = log[p][i]
        /\ log'[p][first].previous = quantity[p]
        /\ \A i \in first .. last :
              log'[p][i].new = log'[p][i].previous + log'[p][i].change
        /\ \A i \in first .. last - 1 :
              log'[p][i].new = log'[p][i + 1].previous
        /\ log'[p][last].new = quantity'[p]

Still(p) == quantity'[p] = quantity[p] /\ log'[p] = log[p]

\* One transaction: every product either stands still or is accounted for.
Post ==
    /\ UNCHANGED stocked
    /\ quantity' \in [Products -> Nat]
    /\ log' = [p \in Products |-> log'[p]]
    /\ \A p \in Products : Still(p) \/ Accounted(p)

\* The quantity of an unaudited product is overwritten, with no row to show.
Overwrite(p) ==
    /\ p \in Unaudited \cap stocked
    /\ quantity'[p] \in Nat
    /\ quantity' = [quantity EXCEPT ![p] = quantity'[p]]
    /\ UNCHANGED <<stocked, log>>

Next ==
    \/ \E p \in Products : Register(p) \/ Overwrite(p)
    \/ Post

Spec == Init /\ [][Next]_ledgerVars

-------------------------------------------------------------------------------

\* Every row of inventory_logs adds up.
RowsAddUp ==
    \A p \in Products : \A i \in 1 .. Len(log[p]) :
        log[p][i].new = log[p][i].previous + log[p][i].change

\* For an audited product each row starts where the previous one ended, and
\* the last row ends at the quantity on the shelf: nothing moved in between.
RowsChain ==
    \A p \in Products \ Unaudited :
        /\ \A i \in 1 .. Len(log[p]) - 1 : log[p][i].new = log[p][i + 1].previous
        /\ Len(log[p]) > 0 => log[p][Len(log[p])].new = quantity[p]

\* The audit trail of README.md, Phase 04: change_stock writes the complete
\* row, and the rows explain the quantity.
AuditTrail == RowsAddUp /\ RowsChain

===============================================================================
