------------------------------ MODULE MCSyncPull -------------------------------
(* Two PCs for TLC. *)
EXTENDS SyncPullProperties, TLC

CONSTANTS office, till, r1, r2

TwoPCs == {office, till}
OneReceipt == {r1}
TwoReceipts == {r1, r2}

\* A PC's pull and a PC's call do nothing to the other PC, so those of two PCs need
\* not be under way together.  Edits and new device ids are tried apart.
Small ==
    /\ Cardinality({pc \in PCs : pull[pc] # NoPull}) <= 1
    /\ Cardinality({pc \in PCs : desk[pc] # NoCall}) <= 1
    /\ edits > 0 => \A pc \in PCs : device[pc] <= 1

Alike == Permutations(TwoPCs) \cup Permutations(TwoReceipts)

===============================================================================
