-------------------------------- MODULE Mirror ---------------------------------
(***************************************************************************)
(* What the push half of the sync promises about sales, with no queue, no  *)
(* worker and no network in sight: the cloud's copy of a receipt moves     *)
(* forward through the states the shop gave it, never backwards, never     *)
(* ahead of the shop.  SyncPush.tla is shown to implement it.              *)
(***************************************************************************)
EXTENDS Naturals

CONSTANT Sales  \* receipts

VARIABLES
    shop,  \* state of each receipt in the shop's database
    cloud  \* state of each receipt in the cloud's

mirrorVars == <<shop, cloud>>

States == {"NONE", "COMPLETED", "CANCELLED"}

\* The states of a receipt in the order it goes through them.
Rank(state) == IF state = "NONE" THEN 0 ELSE IF state = "COMPLETED" THEN 1 ELSE 2

Init ==
    /\ shop = [s \in Sales |-> "NONE"]
    /\ cloud = [s \in Sales |-> "NONE"]

Sell(s) ==
    /\ shop[s] = "NONE"
    /\ shop' = [shop EXCEPT ![s] = "COMPLETED"]
    /\ UNCHANGED cloud

Cancel(s) ==
    /\ shop[s] = "COMPLETED"
    /\ shop' = [shop EXCEPT ![s] = "CANCELLED"]
    /\ UNCHANGED cloud

\* Any number of receipts catch up, each by as much as it likes.
Copy ==
    /\ cloud' \in [Sales -> States]
    /\ \A s \in Sales : /\ Rank(cloud[s]) <= Rank(cloud'[s])
                        /\ Rank(cloud'[s]) <= Rank(shop[s])
    /\ UNCHANGED shop

Next == (\E s \in Sales : Sell(s) \/ Cancel(s)) \/ Copy

Spec == Init /\ [][Next]_mirrorVars

\* Whatever the shop decided about a receipt reaches the cloud.
CatchesUp ==
    \A s \in Sales :
        /\ shop[s] = "COMPLETED" ~> cloud[s] # "NONE"
        /\ shop[s] = "CANCELLED" ~> cloud[s] = "CANCELLED"

===============================================================================
