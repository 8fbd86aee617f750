-------------------------- MODULE SyncPushProperties ---------------------------
(***************************************************************************)
(* What must hold of the outbox of a PC and of the cloud it is pushed to.  *)
(***************************************************************************)
EXTENDS SyncPush

\* The state of each receipt in the shop, as far as it was ever enqueued.
ShopSale == [s \in Sales |-> IF RowsOf(s, "UPDATE") # {} THEN "CANCELLED"
                             ELSE IF RowsOf(s, "CREATE") # {} THEN "COMPLETED"
                             ELSE "NONE"]

CloudOf == INSTANCE Mirror WITH shop <- ShopSale, cloud <- cloudSale

\* However often rows are sent again, by whichever of two pushers, in whatever
\* order requests arrive and wherever the application is killed: the cloud's
\* copy of a receipt is made from its complete row, is never ahead of the shop
\* and never goes back, a cancelled sale stays cancelled (cloud_api.py:249-267).
ImplementsMirror == CloudOf!Spec

-------------------------------------------------------------------------------
\* Nothing is left behind

\* The cloud knows what row i says.
Delivered(i) ==
    LET e == queue[i].entity
    IN  IF e \in Products THEN cloudItem[e].row # 0
        ELSE IF queue[i].operation = "CREATE" THEN cloudSale[e] # "NONE"
        ELSE cloudSale[e] = "CANCELLED"

\* As long as no cycle is interrupted, a row that is SYNCING without a cycle to
\* care for it has been delivered: no retry is needed, and none will come
\* (worker.py, _do_push and _reset_push_items, with two cycles overlapping).
AbandonedIsDelivered ==
    \A i \in Rows :
        status[i] = "SYNCING" /\ (\A w \in Pushers : i \notin batch[w]) => Delivered(i)

\* A sale made offline reaches the cloud once the network is back, and so does
\* its cancellation (docs/PHASE11_FINAL_REPORT.md:62: "Pending sync operations
\* are queued and retried automatically").
SalesReachTheCloud == CloudOf!CatchesUp

-------------------------------------------------------------------------------
\* What documents and comments say, and the code does not do

\* The rows of an answered cycle end up SYNCED (worker.py:318: "Mark items as
\* synced based on result").
AnsweredIsSynced ==
    [][ \A w \in Pushers :
            pc[w] = "answered" /\ pc'[w] = "idle" /\ mishaps' = mishaps =>
                \A i \in batch[w] : status'[i] = "SYNCED" ]_vars

\* When a push of the newest save of a product was answered, the cloud has that
\* save (docs/PHASE10_ARCHITECTURE.md:108: "Version column, last-write-wins").
NewestSaveWins ==
    \A w \in Pushers, p \in Products :
        pc[w] = "answered" /\ Saves(p) # {} /\ Max(Saves(p)) \in batch[w]
            => cloudItem[p].row = Max(Saves(p))

\* A retry never brings back an older save of a product
\* (docs/PHASE10_ARCHITECTURE.md:125: "Retrying the same sync request is safe").
RetryNeverUndoesSave ==
    [][ \A p \in Products : cloudItem'[p].row >= cloudItem[p].row ]_vars

===============================================================================
