-------------------------- MODULE SyncPullProperties ---------------------------
(***************************************************************************)
(* What must hold of the PCs that share a cloud.                           *)
(***************************************************************************)
EXTENDS SyncPull

\* A movement reaches the stock of a PC exactly once: however often it is pushed
\* and pulled again, under however many device ids of its own the PC sees its
\* rows come back, the quantity is what the product's row came with plus the
\* movements in the log, unless a movement was clipped or overwritten (apply.py,
\* _apply_append_only and _after_append_apply).
MovementsExplainStock ==
    \A pc \in PCs \ disturbed :
        quantity[pc] # None => quantity[pc] = base[pc] + Sum(movements[pc])

\* The entity is among the PC's rows.
Has(pc, entity) ==
    IF entity = Item THEN quantity[pc] # None
    ELSE IF entity \in Sales THEN receipts[pc][entity.receipt] # "NONE"
    ELSE entity \in movements[pc]

\* The cursor never passes a row that was not applied, whatever fails between
\* answer and commit, except that it jumps over what an answer was too short for
\* and over what was not committed yet (worker.py:371-378, cloud_api.py:410-423).
NothingBehindTheCursor ==
    \A pc \in PCs \ gap :
        \A i \in 1 .. since[pc] : Foreign(pc, i) => Has(pc, log[i].entity)

\* All that was done is pushed, and all that was pushed is pulled.
Quiet ==
    /\ \A pc \in PCs : outbox[pc] = <<>> /\ pull[pc] = NoPull /\ desk[pc] = NoCall
    /\ \A pc \in PCs : After(pc) = {}

\* The PCs agree once all is quiet, on stock and on receipts, if nobody edited the
\* product before all had it and none was disturbed or cut short.
AgreeWhenQuiet ==
    Quiet /\ gap = {} /\ disturbed = {} =>
        \A a, b \in PCs :
            /\ receipts[a] = receipts[b]
            /\ base[a] = base[b] => quantity[a] = quantity[b]

\* A cancelled sale never becomes a sale again, on no PC and not in the cloud,
\* however old the answer is that is being applied (apply.py:187).
CancelledForGood ==
    [][ \A r \in Receipts :
            /\ ledger[r] = "CANCELLED" => ledger'[r] = "CANCELLED"
            /\ \A pc \in PCs : receipts[pc][r] = "CANCELLED" => receipts'[pc][r] = "CANCELLED" ]_vars

\* Once all is quiet the PCs agree on the stock (apply.py:229-235: "Inventory
\* convergence (Phase 2 / M3)... converges correctly").
Converges ==
    Quiet /\ gap = {} /\ disturbed = {} => \A a, b \in PCs : quantity[a] = quantity[b]

===============================================================================
