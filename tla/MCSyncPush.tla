------------------------------ MODULE MCSyncPush -------------------------------
(* Small outboxes for TLC. *)
EXTENDS SyncPushProperties, TLC

CONSTANTS receipt, refund, shirt, loop, button

OneSale == {receipt}
TwoSales == {receipt, refund}
OneProduct == {shirt}
None == {}
Loop == {loop}
LoopAndButton == {loop, button}

\* The button differs from the loop in name only, and so does one sale from another.
Alike == Permutations(TwoSales) \cup Permutations(LoopAndButton)

===============================================================================
