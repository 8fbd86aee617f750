------------------------------- MODULE SyncPush --------------------------------
(***************************************************************************)
(* How one PC's outbox (sync_queue) reaches the cloud: the push cycle of   *)
(* the sync worker and the cloud's push endpoint.                          *)
(*                                                                         *)
(* A push cycle reads the oldest PENDING rows, marks them SYNCING, sends   *)
(* them outside of any transaction and, on an answer, tries to mark them   *)
(* SYNCED; on any failure it makes every SYNCING row PENDING again.  Cycles *)
(* are run by the worker's loop and, concurrently, by the Sync Now button  *)
(* (app/ui/settings/settings_page.py:669), each of them a pusher here.  A  *)
(* request may be lost, its answer may be lost, it may arrive after its    *)
(* sender gave up on it, and the application may be killed at any point.   *)
(*                                                                         *)
(* Abstractions.  A queued row stands for the rows of one document.  Sales *)
(* stand for the append-only entities (the others are never updated), and  *)
(* products for the reference entities, whose payload is always the whole  *)
(* row.  No service ever raises version or enqueues a DELETE, so every     *)
(* comparison is between equal versions.  Row i was enqueued before row    *)
(* i + 1; one clock is assumed for PC and cloud, so that a timestamp of    *)
(* the cloud is the number of rows enqueued by then.                       *)
(***************************************************************************)
EXTENDS Naturals, Sequences, FiniteSetsExt

CONSTANTS
    Sales,       \* receipts of this PC
    Products,    \* products of this PC
    Pushers,     \* the worker's loop, the Sync Now button
    BatchSize,   \* rows of a push
    MaxRows,     \* bound: rows enqueued
    MaxLate,     \* bound: requests that outlive their sender's patience
    MaxMishaps   \* bound: kills of the application and failed resets

ASSUME PushAssumption ==
    /\ BatchSize \in Nat \ {0}
    /\ {MaxRows, MaxLate, MaxMishaps} \subseteq Nat
    /\ Sales \cap Products = {}

VARIABLES
    queue,      \* sync_queue in order of created_at: entity and operation
    status,     \* sync_queue.status of each row
    pc,         \* where each push cycle is
    batch,      \* the rows it read, and sends
    cloudSale,  \* sales table of the cloud
    cloudItem,  \* products table of the cloud: the row it came from, updated_at
    late,       \* requests still under way whose sender gave up
    mishaps     \* kills and failed resets so far

pcVars    == <<queue, status, pc, batch>>
cloudVars == <<cloudSale, cloudItem>>
vars == <<pcVars, cloudVars, late, mishaps>>

-------------------------------------------------------------------------------
\* Types

Row == [entity: Sales \cup Products, operation: {"CREATE", "UPDATE"}]
Statuses == {"PENDING", "SYNCING", "SYNCED"}  \* FAILED is written nowhere
Phases == {"idle", "picked", "sending", "failed", "answered"}
SaleStates == {"NONE", "COMPLETED", "CANCELLED"}

Rows == 1 .. Len(queue)

\* Types; no row is FAILED, no sale of the cloud lacks its columns.
TypeOK ==
    /\ queue \in Seq(Row)
    /\ status \in [Rows -> Statuses]
    /\ pc \in [Pushers -> Phases]
    /\ batch \in [Pushers -> SUBSET Rows]
    /\ cloudSale \in [Sales -> SaleStates]
    /\ cloudItem \in [Products -> [row: Nat, updated: Nat]]
    /\ late \in SUBSET SUBSET Rows
    /\ mishaps \in 0 .. MaxMishaps

Init ==
    /\ queue = <<>>
    /\ status = <<>>
    /\ pc = [w \in Pushers |-> "idle"]
    /\ batch = [w \in Pushers |-> {}]
    /\ cloudSale = [s \in Sales |-> "NONE"]
    /\ cloudItem = [p \in Products |-> [row |-> 0, updated |-> 0]]
    /\ late = {}
    /\ mishaps = 0

RowsOf(entity, operation) ==
    {i \in Rows : queue[i] = [entity |-> entity, operation |-> operation]}

-------------------------------------------------------------------------------
\* The services enqueue

Enqueue(entity, operation) ==
    /\ Len(queue) < MaxRows
    /\ queue' = Append(queue, [entity |-> entity, operation |-> operation])
    /\ status' = Append(status, "PENDING")
    /\ UNCHANGED <<pc, batch, cloudVars, late, mishaps>>

CompleteSale(s) == RowsOf(s, "CREATE") = {} /\ Enqueue(s, "CREATE")

CancelSale(s) ==
    /\ RowsOf(s, "CREATE") # {} /\ RowsOf(s, "UPDATE") = {}
    /\ Enqueue(s, "UPDATE")

SaveProduct(p) == Enqueue(p, IF RowsOf(p, "CREATE") = {} THEN "CREATE" ELSE "UPDATE")

-------------------------------------------------------------------------------
\* A push cycle up to the request

Pending == {i \in Rows : status[i] = "PENDING"}

Oldest(S, n) == {i \in S : Cardinality({j \in S : j < i}) < n}

\* get_pending: an autocommitted SELECT, which locks nothing.
Pick(w) ==
    /\ pc[w] = "idle"
    /\ Pending # {}
    /\ batch' = [batch EXCEPT ![w] = Oldest(Pending, BatchSize)]
    /\ pc' = [pc EXCEPT ![w] = "picked"]
    /\ UNCHANGED <<queue, status, cloudVars, late, mishaps>>

Marked(rows, as) == [i \in Rows |-> IF i \in rows THEN as ELSE status[i]]

\* mark_syncing of every row read, committed together; then the request leaves.
MarkSyncing(w) ==
    /\ pc[w] = "picked"
    /\ status' = Marked(batch[w], "SYNCING")
    /\ pc' = [pc EXCEPT ![w] = "sending"]
    /\ UNCHANGED <<queue, batch, cloudVars, late, mishaps>>

Quit(w) ==
    /\ pc' = [pc EXCEPT ![w] = "idle"]
    /\ batch' = [batch EXCEPT ![w] = {}]

\* The database is locked: the transaction rolls back, the cycle ends.
MarkingFails(w) ==
    /\ pc[w] = "picked"
    /\ Quit(w)
    /\ UNCHANGED <<queue, status, cloudVars, late, mishaps>>

-------------------------------------------------------------------------------
\* The push endpoint of the cloud, one transaction for all rows of a request

\* Fault: a cancellation of a sale the cloud has not seen becomes a sale.
Refused_Never(rows) == FALSE

\* The payload of a cancellation lacks the columns a new sale must have.
Refused(rows) ==
    \E s \in Sales : /\ cloudSale[s] = "NONE"
                     /\ rows \cap RowsOf(s, "UPDATE") # {}
                     /\ rows \cap RowsOf(s, "CREATE") = {}

\* Fault: a sale that is sent again overwrites the one there.
SaleAfter_Overwrite(s, rows) ==
    IF rows \cap RowsOf(s, "UPDATE") # {} THEN "CANCELLED"
    ELSE IF rows \cap RowsOf(s, "CREATE") # {} THEN "COMPLETED"
    ELSE cloudSale[s]

\* A cancellation finds its sale in the cloud or in the same request.  If not, it
\* would make one: no sale is PARTIAL as long as such requests are refused.
CancelledOf(s, rows) ==
    IF cloudSale[s] = "NONE" /\ rows \cap RowsOf(s, "CREATE") = {} THEN "PARTIAL" ELSE "CANCELLED"

\* Append-only: a sale the cloud has is skipped, unless it is cancelled now.
SaleAfter(s, rows) ==
    IF rows \cap RowsOf(s, "UPDATE") # {} THEN CancelledOf(s, rows)
    ELSE IF rows \cap RowsOf(s, "CREATE") # {} /\ cloudSale[s] = "NONE" THEN "COMPLETED"
    ELSE cloudSale[s]

Saves(p) == RowsOf(p, "CREATE") \cup RowsOf(p, "UPDATE")

\* A product the cloud has is overwritten by rows no older than updated_at, which
\* no update moves; of a new product the oldest row makes it, and makes the rest old.
ItemAfter(p, rows) ==
    LET sent  == rows \cap Saves(p)
        newer == {i \in sent : i > cloudItem[p].updated}
    IN  CASE cloudItem[p].row = 0 /\ sent # {} -> [row |-> Min(sent), updated |-> Len(queue)]
          [] cloudItem[p].row # 0 /\ newer # {} -> [cloudItem[p] EXCEPT !.row = Max(newer)]
          [] OTHER -> cloudItem[p]

\* push_mutations: all rows in order, or, on a constraint violation, none.
Receive(rows) ==
    IF Refused(rows) THEN UNCHANGED cloudVars
    ELSE /\ cloudSale' = [s \in Sales |-> SaleAfter(s, rows)]
         /\ cloudItem' = [p \in Products |-> ItemAfter(p, rows)]

\* The request arrives, and its answer too.
Deliver(w) ==
    /\ pc[w] = "sending"
    /\ Receive(batch[w])
    /\ pc' = [pc EXCEPT ![w] = IF Refused(batch[w]) THEN "failed" ELSE "answered"]
    /\ UNCHANGED <<queue, status, batch, late, mishaps>>

\* The request arrives, its answer does not.
LoseAnswer(w) ==
    /\ pc[w] = "sending"
    /\ Receive(batch[w])
    /\ pc' = [pc EXCEPT ![w] = "failed"]
    /\ UNCHANGED <<queue, status, batch, late, mishaps>>

LeaveBehind(request) == Cardinality(late \cup {request}) <= MaxLate /\ late' = late \cup {request}

\* The client times out.  The request is lost, or on its way for a while yet.
TimeOut(w) ==
    /\ pc[w] = "sending"
    /\ pc' = [pc EXCEPT ![w] = "failed"]
    /\ UNCHANGED late \/ LeaveBehind(batch[w])
    /\ UNCHANGED <<queue, status, batch, cloudVars, mishaps>>

ArriveLate ==
    \E rows \in late :
        /\ late' = late \ {rows}
        /\ Receive(rows)
        /\ UNCHANGED <<pcVars, mishaps>>

-------------------------------------------------------------------------------
\* A push cycle after the request

\* Fault: a failed cycle leaves its rows as they are.
AfterFailure_Kept(rows) == status

\* Whatever is SYNCING, in this cycle's batch or not, becomes PENDING.
AfterFailure(rows) == Marked({i \in Rows : status[i] = "SYNCING"}, "PENDING")

\* _reset_push_items
Reset(w) ==
    /\ pc[w] = "failed"
    /\ status' = AfterFailure(batch[w])
    /\ Quit(w)
    /\ UNCHANGED <<queue, cloudVars, late, mishaps>>

\* The database is locked: the reset is logged and given up.
ResetFails(w) ==
    /\ pc[w] = "failed"
    /\ mishaps < MaxMishaps
    /\ mishaps' = mishaps + 1
    /\ Quit(w)
    /\ UNCHANGED <<queue, status, cloudVars, late>>

\* mark_synced is called on objects of the first session, which is closed by then:
\* the second session has nothing to write.
Finish(w) ==
    /\ pc[w] = "answered"
    /\ Quit(w)
    /\ UNCHANGED <<queue, status, cloudVars, late, mishaps>>

\* The application is killed, in the middle of anything.
Kill ==
    /\ mishaps < MaxMishaps
    /\ mishaps' = mishaps + 1
    /\ pc' = [w \in Pushers |-> "idle"]
    /\ batch' = [w \in Pushers |-> {}]
    /\ \/ UNCHANGED late
       \/ \E w \in Pushers : pc[w] = "sending" /\ LeaveBehind(batch[w])
    /\ UNCHANGED <<queue, status, cloudVars>>

-------------------------------------------------------------------------------

Shop == \/ \E s \in Sales : CompleteSale(s) \/ CancelSale(s)
        \/ \E p \in Products : SaveProduct(p)

Push(w) == \/ Pick(w) \/ MarkSyncing(w) \/ MarkingFails(w)
           \/ Deliver(w) \/ LoseAnswer(w) \/ TimeOut(w)
           \/ Reset(w) \/ ResetFails(w) \/ Finish(w)

Next == Shop \/ (\E w \in Pushers : Push(w)) \/ ArriveLate \/ Kill

Spec == Init /\ [][Next]_vars

\* The network is down for as long as it likes, and then up.
NetworkRecovers == <>[][ \A w \in Pushers : ~ LoseAnswer(w) /\ ~ TimeOut(w) ]_vars

\* The loop wakes up every five seconds for as long as the application runs, so a
\* cycle that can go on goes on; the database is not locked every time.
Fairness ==
    /\ NetworkRecovers
    /\ \A w \in Pushers : /\ WF_vars(Pick(w)) /\ SF_vars(MarkSyncing(w))
                          /\ WF_vars(Deliver(w))
                          /\ WF_vars(Reset(w)) /\ WF_vars(Finish(w))

FairSpec == Spec /\ Fairness

===============================================================================
