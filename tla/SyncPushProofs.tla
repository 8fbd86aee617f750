---------------------------- MODULE SyncPushProofs -----------------------------
(***************************************************************************)
(* Proofs about the outbox of a PC and the cloud it is pushed to, for any  *)
(* number of pushers, rows, late requests and mishaps.                     *)
(***************************************************************************)
EXTENDS SyncPushProperties, WellFoundedInduction, TLAPS

\* What else is true of the tables: rows are handled once they are queued, a sale
\* is cancelled after it was made, and the cloud is never ahead of the queue.
CancelsFollowSales ==
    \A s \in Sales : \A i \in RowsOf(s, "UPDATE") : \E j \in RowsOf(s, "CREATE") : j < i

CloudNotAhead ==
    \A s \in Sales :
        /\ cloudSale[s] # "NONE" => RowsOf(s, "CREATE") # {}
        /\ cloudSale[s] = "CANCELLED" => RowsOf(s, "UPDATE") # {}

IInv == TypeOK /\ CancelsFollowSales /\ CloudNotAhead

\* A cycle in this phase answers for the rows of its batch.
Caring(w) == pc[w] \in {"sending", "failed", "answered"}

\* Every SYNCING row is answered for or delivered, and what was answered was
\* delivered.
Abandoned ==
    /\ \A i \in Rows : status[i] = "SYNCING" /\ (\A w \in Pushers : Caring(w) => i \notin batch[w])
                          => Delivered(i)
    /\ \A w \in Pushers : pc[w] = "answered" => \A i \in batch[w] : Delivered(i)

-------------------------------------------------------------------------------

\* Appending a row to the queue adds that row and no other.
LEMMA AppendedRows ==
    ASSUME TypeOK, NEW e \in Sales \cup Products, NEW op \in {"CREATE", "UPDATE"}, Enqueue(e, op)
    PROVE  /\ Rows' = Rows \cup {Len(queue) + 1}
           /\ Len(queue) + 1 \notin Rows
           /\ queue'[Len(queue) + 1] = [entity |-> e, operation |-> op]
           /\ \A i \in Rows : queue'[i] = queue[i]
           /\ \A i \in Rows : status'[i] = status[i]
           /\ status'[Len(queue) + 1] = "PENDING"
           /\ Len(queue) \in Nat
           /\ queue' \in Seq(Row)
           /\ status' \in [Rows' -> Statuses]
<1>1. Len(queue) \in Nat /\ Len(queue') = Len(queue) + 1 /\ queue' \in Seq(Row)
  BY DEF TypeOK, Enqueue, Row
<1>2. Rows' = Rows \cup {Len(queue) + 1} /\ Len(queue) + 1 \notin Rows
  BY <1>1 DEF Rows
<1>3. queue'[Len(queue) + 1] = [entity |-> e, operation |-> op] /\ \A i \in Rows : queue'[i] = queue[i]
  BY <1>1 DEF Rows, Enqueue, TypeOK
<1>4. status \in Seq(Statuses) /\ Len(status) = Len(queue)
  <2>1. status \in [1 .. Len(queue) -> Statuses]
    BY DEF TypeOK, Rows
  <2> QED BY <2>1, <1>1
<1>5. /\ \A i \in Rows : status'[i] = status[i]
      /\ status'[Len(queue) + 1] = "PENDING"
      /\ status' \in Seq(Statuses) /\ Len(status') = Len(queue')
  BY <1>1, <1>4 DEF Rows, Enqueue, Statuses
<1>6. status' \in [Rows' -> Statuses]
  BY <1>5 DEF Rows
<1> QED BY <1>1, <1>2, <1>3, <1>5, <1>6

\* Which rows are about an entity before and after a row is enqueued.
LEMMA AppendedRowsOf ==
    ASSUME TypeOK, NEW e \in Sales \cup Products, NEW op \in {"CREATE", "UPDATE"}, Enqueue(e, op),
           NEW f, NEW o
    PROVE  /\ RowsOf(f, o)' \subseteq RowsOf(f, o) \cup {Len(queue) + 1}
           /\ RowsOf(f, o) \subseteq RowsOf(f, o)'
           /\ Len(queue) + 1 \in RowsOf(f, o)' <=> f = e /\ o = op
           /\ f # e \/ o # op => RowsOf(f, o)' = RowsOf(f, o)
<1>1. /\ Rows' = Rows \cup {Len(queue) + 1}
      /\ Len(queue) + 1 \notin Rows
      /\ queue'[Len(queue) + 1] = [entity |-> e, operation |-> op]
      /\ \A i \in Rows : queue'[i] = queue[i]
  BY AppendedRows
<1>2. /\ RowsOf(f, o)' \subseteq RowsOf(f, o) \cup {Len(queue) + 1}
      /\ RowsOf(f, o) \subseteq RowsOf(f, o)'
      /\ Len(queue) + 1 \in RowsOf(f, o)' <=> f = e /\ o = op
  BY <1>1 DEF RowsOf
<1> QED BY <1>2

\* A nonempty set of naturals has a least element, and a greatest if it is bounded.
LEMMA MinExists ==
    ASSUME NEW S \in SUBSET Nat, S # {}
    PROVE  Min(S) \in S /\ \A y \in S : Min(S) <= y
<1> DEFINE Less == OpToRel(<, Nat)
<1>1. Less = {ss \in Nat \X Nat : ss[1] < ss[2]}
  BY DEF OpToRel
<1>2. IsWellFoundedOn(Less, Nat)
  BY NatLessThanWellFounded
<1> HIDE DEF Less
<1>3. \E x \in S : \A y \in S : ~ (<<y, x>> \in Less)
  BY <1>2, WFMin
<1>4. \A x, y \in Nat : y < x => <<y, x>> \in Less
  BY <1>1
<1>5. \A x, y \in S : <<y, x>> \notin Less => x <= y
  BY <1>4
<1>6. \E x \in S : \A y \in S : x <= y
  BY <1>3, <1>5
<1> QED BY <1>6 DEF Min

\* A set of numbers below a bound has a greatest.
LEMMA MaxExists ==
    ASSUME NEW n \in Nat, NEW S \in SUBSET (1 .. n), S # {}
    PROVE  Max(S) \in S /\ \A y \in S : Max(S) >= y
<1> DEFINE T == {n - x : x \in S}
<1>1. T \in SUBSET Nat
  OBVIOUS
<1>2. T # {}
  OBVIOUS
<1>3. Min(T) \in T /\ \A y \in T : Min(T) <= y
  <2> HIDE DEF T
  <2> QED BY <1>1, <1>2, MinExists
<1>4. PICK x \in S : Min(T) = n - x
  BY <1>3
<1>5. \A y \in S : n - x <= n - y
  BY <1>3, <1>4
<1>6. \A y \in S : x >= y
  BY <1>5
<1> QED BY <1>6 DEF Max

-------------------------------------------------------------------------------

\* Row numbers are naturals from 1 on, and each row is of one of two kinds.
LEMMA RowFacts ==
    ASSUME TypeOK
    PROVE  /\ Len(queue) \in Nat
           /\ Rows \subseteq Nat \ {0}
           /\ \A i \in Rows : /\ queue[i] = [entity |-> queue[i].entity, operation |-> queue[i].operation]
                              /\ queue[i].entity \in Sales \cup Products
                              /\ queue[i].operation \in {"CREATE", "UPDATE"}
                              /\ i \in RowsOf(queue[i].entity, queue[i].operation)
<1>1. Len(queue) \in Nat /\ Rows \subseteq Nat \ {0}
  BY DEF TypeOK, Rows
<1>2. \A i \in Rows : queue[i] \in Row
  BY <1>1 DEF TypeOK, Rows
<1>3. \A i \in Rows : /\ queue[i] = [entity |-> queue[i].entity, operation |-> queue[i].operation]
                      /\ queue[i].entity \in Sales \cup Products
                      /\ queue[i].operation \in {"CREATE", "UPDATE"}
  BY <1>2 DEF Row
<1> QED BY <1>1, <1>3 DEF RowsOf

\* What the saves of a product among the rows of a request make of it.
LEMMA ReceivedItem ==
    ASSUME TypeOK, NEW rows \in SUBSET Rows, NEW p \in Products
    PROVE  /\ ItemAfter(p, rows) \in [row : Nat, updated : Nat]
           /\ cloudItem[p].row # 0 => ItemAfter(p, rows).row # 0
           /\ rows \cap Saves(p) # {} => ItemAfter(p, rows).row # 0
<1> DEFINE sent  == rows \cap Saves(p)
           newer == {i \in sent : i > cloudItem[p].updated}
<1>1. cloudItem[p] \in [row : Nat, updated : Nat]
  BY DEF TypeOK
<1>2. Len(queue) \in Nat /\ Rows \subseteq Nat \ {0}
  BY RowFacts
<1>3. sent \subseteq Nat \ {0} /\ newer \subseteq 1 .. Len(queue) /\ newer \subseteq Nat \ {0}
  BY <1>2 DEF Rows
<1>4. sent # {} => Min(sent) \in Nat \ {0}
  <2> SUFFICES ASSUME sent # {} PROVE Min(sent) \in Nat \ {0}
    OBVIOUS
  <2> HIDE DEF sent
  <2> QED BY <1>3, MinExists
<1>5. newer # {} => Max(newer) \in Nat \ {0}
  <2> SUFFICES ASSUME newer # {} PROVE Max(newer) \in Nat \ {0}
    OBVIOUS
  <2> HIDE DEF newer
  <2> QED BY <1>2, <1>3, MaxExists
<1>6. ItemAfter(p, rows) =
        CASE cloudItem[p].row = 0 /\ sent # {} -> [row |-> Min(sent), updated |-> Len(queue)]
          [] cloudItem[p].row # 0 /\ newer # {} -> [cloudItem[p] EXCEPT !.row = Max(newer)]
          [] OTHER -> cloudItem[p]
  BY DEF ItemAfter
<1>7. CASE cloudItem[p].row = 0 /\ sent # {}
  <2>1. ItemAfter(p, rows) = [row |-> Min(sent), updated |-> Len(queue)]
    BY <1>6, <1>7
  <2> QED BY <2>1, <1>2, <1>4, <1>7
<1>8. CASE cloudItem[p].row # 0 /\ newer # {}
  <2>1. ItemAfter(p, rows) = [cloudItem[p] EXCEPT !.row = Max(newer)]
    BY <1>6, <1>8
  <2> HIDE DEF newer
  <2> QED BY <2>1, <1>1, <1>5, <1>8
<1>9. CASE /\ ~ (cloudItem[p].row = 0 /\ sent # {})
           /\ ~ (cloudItem[p].row # 0 /\ newer # {})
  <2>1. ItemAfter(p, rows) = cloudItem[p]
    BY <1>6, <1>9
  <2> QED BY <2>1, <1>1, <1>9
<1> QED BY <1>7, <1>8, <1>9

\* What the rows of a request that is not refused make of a sale.
LEMMA ReceivedSale ==
    ASSUME TypeOK, CloudNotAhead, CancelsFollowSales,
           NEW rows \in SUBSET Rows, ~ Refused(rows), NEW s \in Sales
    PROVE  /\ SaleAfter(s, rows) \in SaleStates
           /\ cloudSale[s] # "NONE" => SaleAfter(s, rows) # "NONE"
           /\ cloudSale[s] = "CANCELLED" => SaleAfter(s, rows) = "CANCELLED"
           /\ SaleAfter(s, rows) # "NONE" => RowsOf(s, "CREATE") # {}
           /\ SaleAfter(s, rows) = "CANCELLED" => RowsOf(s, "UPDATE") # {}
           /\ rows \cap RowsOf(s, "CREATE") # {} => SaleAfter(s, rows) # "NONE"
           /\ rows \cap RowsOf(s, "UPDATE") # {} => SaleAfter(s, rows) = "CANCELLED"
<1>1. cloudSale[s] \in {"NONE", "COMPLETED", "CANCELLED"}
  BY DEF TypeOK, SaleStates
<1>2. /\ cloudSale[s] # "NONE" => RowsOf(s, "CREATE") # {}
      /\ cloudSale[s] = "CANCELLED" => RowsOf(s, "UPDATE") # {}
      /\ RowsOf(s, "UPDATE") # {} => RowsOf(s, "CREATE") # {}
  BY DEF CloudNotAhead, CancelsFollowSales
<1>3. CASE rows \cap RowsOf(s, "UPDATE") # {}
  <2>1. cloudSale[s] = "NONE" => rows \cap RowsOf(s, "CREATE") # {}
    BY <1>3 DEF Refused
  <2>2. CancelledOf(s, rows) = "CANCELLED"
    BY <2>1 DEF CancelledOf
  <2>3. SaleAfter(s, rows) = "CANCELLED"
    BY <1>3, <2>2 DEF SaleAfter
  <2> QED BY <1>2, <1>3, <2>3 DEF SaleStates
<1>4. CASE rows \cap RowsOf(s, "UPDATE") = {} /\ rows \cap RowsOf(s, "CREATE") # {}
                                              /\ cloudSale[s] = "NONE"
  <2>1. SaleAfter(s, rows) = "COMPLETED"
    BY <1>4 DEF SaleAfter
  <2> QED BY <1>2, <1>4, <2>1 DEF SaleStates
<1>5. CASE rows \cap RowsOf(s, "UPDATE") = {}
           /\ (rows \cap RowsOf(s, "CREATE") = {} \/ cloudSale[s] # "NONE")
  <2>1. SaleAfter(s, rows) = cloudSale[s]
    BY <1>5 DEF SaleAfter
  <2> QED BY <1>1, <1>2, <1>5, <2>1 DEF SaleStates
<1> QED BY <1>3, <1>4, <1>5

\* A request, whenever it arrives, leaves the cloud well formed and not ahead of the
\* queue; no sale goes back, and what was delivered stays delivered.
LEMMA Received ==
    ASSUME IInv, NEW rows \in SUBSET Rows, Receive(rows), UNCHANGED queue
    PROVE  /\ cloudSale' \in [Sales -> SaleStates]
           /\ cloudItem' \in [Products -> [row : Nat, updated : Nat]]
           /\ CloudNotAhead'
           /\ \A s \in Sales : /\ cloudSale[s] # "NONE" => cloudSale'[s] # "NONE"
                               /\ cloudSale[s] = "CANCELLED" => cloudSale'[s] = "CANCELLED"
           /\ \A i \in Rows : Delivered(i) => Delivered(i)'
           /\ ~ Refused(rows) => \A i \in rows : Delivered(i)'
<1> USE DEF IInv
<1>1. CASE Refused(rows)
  <2>1. UNCHANGED cloudVars
    BY <1>1 DEF Receive
  <2> QED BY <1>1, <2>1 DEF cloudVars, CloudNotAhead, Delivered, RowsOf, Rows, TypeOK
<1>2. CASE ~ Refused(rows)
  <2>1. /\ cloudSale' = [s \in Sales |-> SaleAfter(s, rows)]
        /\ cloudItem' = [p \in Products |-> ItemAfter(p, rows)]
    BY <1>2 DEF Receive
  <2>2. \A s \in Sales :
           /\ cloudSale'[s] \in SaleStates
           /\ cloudSale[s] # "NONE" => cloudSale'[s] # "NONE"
           /\ cloudSale[s] = "CANCELLED" => cloudSale'[s] = "CANCELLED"
           /\ cloudSale'[s] # "NONE" => RowsOf(s, "CREATE") # {}
           /\ cloudSale'[s] = "CANCELLED" => RowsOf(s, "UPDATE") # {}
           /\ rows \cap RowsOf(s, "CREATE") # {} => cloudSale'[s] # "NONE"
           /\ rows \cap RowsOf(s, "UPDATE") # {} => cloudSale'[s] = "CANCELLED"
    BY <1>2, <2>1, ReceivedSale
  <2>3. \A p \in Products :
           /\ cloudItem'[p] \in [row : Nat, updated : Nat]
           /\ cloudItem[p].row # 0 => cloudItem'[p].row # 0
           /\ rows \cap Saves(p) # {} => cloudItem'[p].row # 0
    BY <2>1, ReceivedItem
  <2>4. \A e, o : RowsOf(e, o)' = RowsOf(e, o)
    BY DEF RowsOf, Rows
  <2>5. CloudNotAhead'
    BY <2>2, <2>4 DEF CloudNotAhead
  <2>6. \A i \in Rows : /\ queue[i].entity \in Sales \cup Products
                        /\ queue[i].operation \in {"CREATE", "UPDATE"}
                        /\ i \in RowsOf(queue[i].entity, queue[i].operation)
    BY RowFacts
  <2>7. \A i \in Rows : Delivered(i) => Delivered(i)'
    BY <2>2, <2>3, <2>6 DEF Delivered
  <2>8. ASSUME NEW i \in rows PROVE Delivered(i)'
    <3>1. CASE queue[i].entity \in Products
      <4>1. i \in rows \cap Saves(queue[i].entity)
        BY <2>6 DEF Saves
      <4> QED BY <2>3, <3>1, <4>1 DEF Delivered
    <3>2. CASE queue[i].entity \in Sales
      <4>1. queue[i].entity \notin Products
        BY <3>2, PushAssumption
      <4>2. i \in rows \cap RowsOf(queue[i].entity, queue[i].operation)
        BY <2>6
      <4> QED BY <2>2, <2>6, <3>2, <4>1, <4>2 DEF Delivered
    <3> QED BY <2>6, <3>1, <3>2
  <2>9. cloudSale' \in [Sales -> SaleStates] /\ cloudItem' \in [Products -> [row : Nat, updated : Nat]]
    BY <2>1, <2>2, <2>3
  <2> QED BY <2>2, <2>5, <2>7, <2>8, <2>9
<1> QED BY <1>1, <1>2

-------------------------------------------------------------------------------
\* Each kind of step keeps the tables as they should be.

\* The services enqueue a row.
LEMMA EnqueueKeepsIInv ==
    ASSUME IInv, NEW e \in Sales \cup Products, NEW op \in {"CREATE", "UPDATE"}, Enqueue(e, op),
           e \in Sales /\ op = "UPDATE" => RowsOf(e, "CREATE") # {}
    PROVE  IInv'
<1> USE DEF IInv
<1>1. /\ Rows' = Rows \cup {Len(queue) + 1}
      /\ queue' \in Seq(Row)
      /\ status' \in [Rows' -> Statuses]
  BY AppendedRows
<1>2. UNCHANGED <<pc, batch, cloudSale, cloudItem, late, mishaps>>
  BY DEF Enqueue, cloudVars
<1>3. TypeOK'
  <2>1. batch' \in [Pushers -> SUBSET Rows'] /\ late' \in SUBSET SUBSET Rows'
    BY <1>1, <1>2 DEF TypeOK
  <2> QED BY <1>1, <1>2, <2>1 DEF TypeOK
<1>4. \A f, o : /\ RowsOf(f, o)' \subseteq RowsOf(f, o) \cup {Len(queue) + 1}
                /\ RowsOf(f, o) \subseteq RowsOf(f, o)'
                /\ Len(queue) + 1 \in RowsOf(f, o)' <=> f = e /\ o = op
  BY AppendedRowsOf
<1>5. ASSUME NEW s \in Sales, NEW i \in RowsOf(s, "UPDATE")'
      PROVE  \E j \in RowsOf(s, "CREATE")' : j < i
  <2>1. CASE i \in RowsOf(s, "UPDATE")
    BY <1>4, <2>1 DEF CancelsFollowSales
  <2>2. CASE i = Len(queue) + 1
    <3>1. s = e /\ op = "UPDATE"
      BY <1>4, <1>5, <2>2
    <3>2. PICK j \in RowsOf(s, "CREATE") : TRUE
      BY <3>1
    <3>3. j \in 1 .. Len(queue) /\ Len(queue) \in Nat
      BY <3>2, RowFacts DEF RowsOf, Rows
    <3> QED BY <1>4, <2>2, <3>3, <3>2
  <2> QED BY <1>4, <1>5, <2>1, <2>2
<1>6. CancelsFollowSales'
  BY <1>5 DEF CancelsFollowSales
<1>7. CloudNotAhead'
  BY <1>2, <1>4 DEF CloudNotAhead
<1> QED BY <1>3, <1>6, <1>7

\* A step of a push cycle, or a kill, that leaves queue and cloud alone.
LEMMA LocalStepKeepsIInv ==
    ASSUME IInv, UNCHANGED <<queue, cloudSale, cloudItem>>,
           status' \in [Rows -> Statuses],
           pc' \in [Pushers -> Phases], batch' \in [Pushers -> SUBSET Rows],
           late' \in SUBSET SUBSET Rows, mishaps' \in 0 .. MaxMishaps
    PROVE  IInv'
<1>1. Rows' = Rows /\ \A e, o : RowsOf(e, o)' = RowsOf(e, o)
  BY DEF Rows, RowsOf
<1> QED BY <1>1 DEF IInv, TypeOK, CancelsFollowSales, CloudNotAhead

\* A request arrives.
LEMMA ReceiveKeepsIInv ==
    ASSUME IInv, NEW rows \in SUBSET Rows, Receive(rows), UNCHANGED <<queue, status, batch>>,
           pc' \in [Pushers -> Phases], late' \in SUBSET late, mishaps' = mishaps
    PROVE  IInv'
<1>1. Rows' = Rows /\ \A e, o : RowsOf(e, o)' = RowsOf(e, o)
  BY DEF Rows, RowsOf
<1>2. /\ cloudSale' \in [Sales -> SaleStates]
      /\ cloudItem' \in [Products -> [row : Nat, updated : Nat]]
      /\ CloudNotAhead'
  BY Received
<1> QED BY <1>1, <1>2 DEF IInv, TypeOK, CancelsFollowSales

\* The helpers of a push cycle return what the tables expect.
LEMMA CycleTypes ==
    ASSUME TypeOK
    PROVE  /\ \A rows, as : as \in Statuses => Marked(rows, as) \in [Rows -> Statuses]
           /\ \A rows : AfterFailure(rows) \in [Rows -> Statuses]
           /\ \A w \in Pushers : Quit(w) => /\ pc' \in [Pushers -> Phases]
                                            /\ batch' \in [Pushers -> SUBSET Rows]
           /\ \A n : Oldest(Pending, n) \subseteq Pending
           /\ Pending \subseteq Rows
<1>1. \A rows, as : as \in Statuses => Marked(rows, as) \in [Rows -> Statuses]
  BY DEF TypeOK, Marked
<1>2. \A rows : AfterFailure(rows) \in [Rows -> Statuses]
  BY <1>1 DEF AfterFailure, Statuses
<1>3. \A w \in Pushers : Quit(w) => /\ pc' \in [Pushers -> Phases]
                                    /\ batch' \in [Pushers -> SUBSET Rows]
  BY DEF TypeOK, Quit, Phases
<1> QED BY <1>1, <1>2, <1>3 DEF Oldest, Pending

\* Whatever happens, the tables stay as they should be.
LEMMA IInvStep == IInv /\ [Next]_vars => IInv'
<1> SUFFICES ASSUME IInv, [Next]_vars PROVE IInv'
  OBVIOUS
<1>t. TypeOK
  BY DEF IInv
<1>ty. /\ status \in [Rows -> Statuses]
       /\ pc \in [Pushers -> Phases] /\ batch \in [Pushers -> SUBSET Rows]
       /\ late \in SUBSET SUBSET Rows /\ mishaps \in 0 .. MaxMishaps
  BY <1>t DEF TypeOK
<1>mm. MaxMishaps \in Nat
  BY PushAssumption
<1>1. CASE UNCHANGED vars
  BY <1>1, <1>ty, LocalStepKeepsIInv DEF vars, pcVars, cloudVars
<1>2. CASE Shop
  <2>1. ASSUME NEW s \in Sales, CompleteSale(s) PROVE IInv'
    BY <2>1, EnqueueKeepsIInv DEF CompleteSale
  <2>2. ASSUME NEW s \in Sales, CancelSale(s) PROVE IInv'
    BY <2>2, EnqueueKeepsIInv DEF CancelSale
  <2>3. ASSUME NEW p \in Products, SaveProduct(p) PROVE IInv'
    <3>1. p \notin Sales
      BY PushAssumption
    <3>2. CASE RowsOf(p, "CREATE") = {}
      BY <2>3, <3>1, <3>2, EnqueueKeepsIInv DEF SaveProduct
    <3>3. CASE RowsOf(p, "CREATE") # {}
      BY <2>3, <3>1, <3>3, EnqueueKeepsIInv DEF SaveProduct
    <3> QED BY <3>2, <3>3
  <2> QED BY <1>2, <2>1, <2>2, <2>3 DEF Shop
<1>3. ASSUME NEW w \in Pushers, Push(w) PROVE IInv'
  <2>1. CASE Pick(w)
    <3>1. Oldest(Pending, BatchSize) \subseteq Rows
      BY <1>t, CycleTypes
    <3> QED BY <2>1, <3>1, <1>ty, LocalStepKeepsIInv DEF Pick, cloudVars, Phases
  <2>2. CASE MarkSyncing(w)
    <3>1. Marked(batch[w], "SYNCING") \in [Rows -> Statuses]
      BY <1>t, CycleTypes DEF Statuses
    <3> QED BY <2>2, <3>1, <1>ty, LocalStepKeepsIInv DEF MarkSyncing, cloudVars, Phases
  <2>3. CASE MarkingFails(w)
    BY <2>3, <1>t, <1>ty, CycleTypes, LocalStepKeepsIInv DEF MarkingFails, cloudVars
  <2>4. CASE Deliver(w)
    <3>1. pc' \in [Pushers -> Phases]
      BY <2>4, <1>ty DEF Deliver, Phases
    <3> QED BY <2>4, <3>1, <1>ty, ReceiveKeepsIInv DEF Deliver
  <2>5. CASE LoseAnswer(w)
    <3>1. pc' \in [Pushers -> Phases]
      BY <2>5, <1>ty DEF LoseAnswer, Phases
    <3> QED BY <2>5, <3>1, <1>ty, ReceiveKeepsIInv DEF LoseAnswer
  <2>6. CASE TimeOut(w)
    <3>1. late' \in SUBSET SUBSET Rows
      BY <2>6, <1>ty DEF TimeOut, LeaveBehind
    <3> QED BY <2>6, <3>1, <1>ty, LocalStepKeepsIInv DEF TimeOut, cloudVars, Phases
  <2>7. CASE Reset(w)
    BY <2>7, <1>t, <1>ty, CycleTypes, LocalStepKeepsIInv DEF Reset, cloudVars
  <2>8. CASE ResetFails(w)
    <3>1. mishaps' \in 0 .. MaxMishaps
      BY <2>8, <1>ty, <1>mm DEF ResetFails
    <3> QED BY <2>8, <3>1, <1>t, <1>ty, CycleTypes, LocalStepKeepsIInv DEF ResetFails, cloudVars
  <2>9. CASE Finish(w)
    BY <2>9, <1>t, <1>ty, CycleTypes, LocalStepKeepsIInv DEF Finish, cloudVars
  <2> QED BY <1>3, <2>1, <2>2, <2>3, <2>4, <2>5, <2>6, <2>7, <2>8, <2>9 DEF Push
<1>4. CASE ArriveLate
  <2>1. PICK rows \in late : late' = late \ {rows} /\ Receive(rows) /\ UNCHANGED <<pcVars, mishaps>>
    BY <1>4 DEF ArriveLate
  <2>2. rows \in SUBSET Rows
    BY <1>ty, <2>1
  <2> QED BY <1>ty, <2>1, <2>2, ReceiveKeepsIInv DEF pcVars
<1>5. CASE Kill
  <2>1. late' \in SUBSET SUBSET Rows
    <3>1. CASE UNCHANGED late
      BY <1>ty, <3>1
    <3>2. CASE \E w \in Pushers : pc[w] = "sending" /\ LeaveBehind(batch[w])
      BY <1>ty, <3>2 DEF LeaveBehind
    <3> QED BY <1>5, <3>1, <3>2 DEF Kill
  <2>2. mishaps' \in 0 .. MaxMishaps
    BY <1>5, <1>ty, <1>mm DEF Kill
  <2>3. pc' \in [Pushers -> Phases] /\ batch' \in [Pushers -> SUBSET Rows]
    BY <1>5 DEF Kill, Phases
  <2> QED BY <1>5, <1>ty, <2>1, <2>2, <2>3, LocalStepKeepsIInv DEF Kill, cloudVars
<1> QED BY <1>1, <1>2, <1>3, <1>4, <1>5 DEF Next

\* Initially the queue and the cloud are empty.
LEMMA IInvInit == Init => IInv
<1> SUFFICES ASSUME Init PROVE IInv
  OBVIOUS
<1>1. Rows = {} /\ \A e, o : RowsOf(e, o) = {}
  BY DEF Init, Rows, RowsOf
<1>2. TypeOK
  BY <1>1, PushAssumption DEF Init, TypeOK, Phases, SaleStates, Statuses
<1> QED BY <1>1, <1>2 DEF Init, IInv, CancelsFollowSales, CloudNotAhead

\* The tables of the outbox and of the cloud hold what their columns may hold; no row
\* is ever marked FAILED and no cancellation ever makes a sale.
THEOREM PushTypeCorrect == Spec => []TypeOK
<1>1. IInv => TypeOK
  BY DEF IInv
<1> QED BY <1>1, IInvInit, IInvStep, PTL DEF Spec

-------------------------------------------------------------------------------
\* The cloud is a mirror of the shop.

\* What the cloud makes of a request, the mirror calls a copy.
LEMMA ReceiveIsCopy ==
    ASSUME IInv, NEW rows \in SUBSET Rows, Receive(rows), UNCHANGED queue
    PROVE  CloudOf!Copy
<1>1. /\ cloudSale' \in [Sales -> SaleStates]
      /\ CloudNotAhead'
      /\ \A s \in Sales : /\ cloudSale[s] # "NONE" => cloudSale'[s] # "NONE"
                          /\ cloudSale[s] = "CANCELLED" => cloudSale'[s] = "CANCELLED"
  BY Received
<1>2. Rows' = Rows /\ \A e, o : RowsOf(e, o)' = RowsOf(e, o)
  BY DEF Rows, RowsOf
<1>3. ShopSale' = ShopSale
  BY <1>2 DEF ShopSale
<1>4. ASSUME NEW s \in Sales
      PROVE  /\ CloudOf!Rank(cloudSale[s]) <= CloudOf!Rank(cloudSale'[s])
             /\ CloudOf!Rank(cloudSale'[s]) <= CloudOf!Rank(ShopSale[s])
  <2>1. cloudSale[s] \in SaleStates /\ cloudSale'[s] \in SaleStates
    BY <1>1 DEF IInv, TypeOK
  <2>2. CloudOf!Rank(cloudSale[s]) <= CloudOf!Rank(cloudSale'[s])
    BY <1>1, <2>1 DEF CloudOf!Rank, SaleStates
  <2>3. /\ ShopSale[s] = IF RowsOf(s, "UPDATE") # {} THEN "CANCELLED"
                         ELSE IF RowsOf(s, "CREATE") # {} THEN "COMPLETED"
                         ELSE "NONE"
    BY DEF ShopSale
  <2>4. /\ cloudSale'[s] # "NONE" => RowsOf(s, "CREATE") # {}
        /\ cloudSale'[s] = "CANCELLED" => RowsOf(s, "UPDATE") # {}
    BY <1>1, <1>2 DEF CloudNotAhead
  <2>5. CloudOf!Rank(cloudSale'[s]) <= CloudOf!Rank(ShopSale[s])
    BY <2>1, <2>3, <2>4 DEF CloudOf!Rank, SaleStates
  <2> QED BY <2>2, <2>5
<1> QED BY <1>1, <1>3, <1>4 DEF CloudOf!Copy, CloudOf!States, SaleStates

\* Enqueueing a sale or a cancellation is what the mirror calls selling or cancelling;
\* saving a product is none of its business.
LEMMA ShopStepIsMirrored ==
    ASSUME IInv, Shop
    PROVE  CloudOf!Next \/ UNCHANGED <<ShopSale, cloudSale>>
<1> USE DEF IInv
<1>1. ASSUME NEW s \in Sales, CompleteSale(s) PROVE CloudOf!Sell(s)
  <2>1. Enqueue(s, "CREATE") /\ RowsOf(s, "CREATE") = {}
    BY <1>1 DEF CompleteSale
  <2>2. \A f, o : /\ RowsOf(f, o)' \subseteq RowsOf(f, o) \cup {Len(queue) + 1}
                  /\ RowsOf(f, o) \subseteq RowsOf(f, o)'
                  /\ Len(queue) + 1 \in RowsOf(f, o)' <=> f = s /\ o = "CREATE"
                  /\ f # s \/ o # "CREATE" => RowsOf(f, o)' = RowsOf(f, o)
    BY <2>1, AppendedRowsOf
  <2>3. RowsOf(s, "UPDATE") = {}
    BY <2>1 DEF CancelsFollowSales
  <2>4. \A r \in Sales \ {s}, o \in {"CREATE", "UPDATE"} : RowsOf(r, o)' = RowsOf(r, o)
    BY <2>2
  <2>5. RowsOf(s, "CREATE")' # {} /\ RowsOf(s, "UPDATE")' = {}
    BY <2>2, <2>3
  <2>6. ShopSale[s] = "NONE" /\ ShopSale' = [ShopSale EXCEPT ![s] = "COMPLETED"]
    BY <2>1, <2>3, <2>4, <2>5 DEF ShopSale
  <2> QED BY <2>1, <2>6 DEF CloudOf!Sell, Enqueue, cloudVars
<1>2. ASSUME NEW s \in Sales, CancelSale(s) PROVE CloudOf!Cancel(s)
  <2>1. Enqueue(s, "UPDATE") /\ RowsOf(s, "CREATE") # {} /\ RowsOf(s, "UPDATE") = {}
    BY <1>2 DEF CancelSale
  <2>2. \A f, o : /\ RowsOf(f, o)' \subseteq RowsOf(f, o) \cup {Len(queue) + 1}
                  /\ RowsOf(f, o) \subseteq RowsOf(f, o)'
                  /\ Len(queue) + 1 \in RowsOf(f, o)' <=> f = s /\ o = "UPDATE"
                  /\ f # s \/ o # "UPDATE" => RowsOf(f, o)' = RowsOf(f, o)
    BY <2>1, AppendedRowsOf
  <2>3. \A r \in Sales \ {s}, o \in {"CREATE", "UPDATE"} : RowsOf(r, o)' = RowsOf(r, o)
    BY <2>2
  <2>4. RowsOf(s, "UPDATE")' # {}
    BY <2>2
  <2>5. ShopSale[s] = "COMPLETED" /\ ShopSale' = [ShopSale EXCEPT ![s] = "CANCELLED"]
    BY <2>1, <2>3, <2>4 DEF ShopSale
  <2> QED BY <2>1, <2>5 DEF CloudOf!Cancel, Enqueue, cloudVars
<1>3. ASSUME NEW p \in Products, SaveProduct(p) PROVE UNCHANGED <<ShopSale, cloudSale>>
  <2>1. PICK op \in {"CREATE", "UPDATE"} : Enqueue(p, op)
    BY <1>3 DEF SaveProduct
  <2>2. \A f, o : /\ RowsOf(f, o)' \subseteq RowsOf(f, o) \cup {Len(queue) + 1}
                  /\ RowsOf(f, o) \subseteq RowsOf(f, o)'
                  /\ Len(queue) + 1 \in RowsOf(f, o)' <=> f = p /\ o = op
                  /\ f # p \/ o # op => RowsOf(f, o)' = RowsOf(f, o)
    BY <2>1, AppendedRowsOf
  <2>3. \A s \in Sales, o \in {"CREATE", "UPDATE"} : RowsOf(s, o)' = RowsOf(s, o)
    BY <2>2, PushAssumption
  <2> QED BY <2>1, <2>3 DEF ShopSale, Enqueue, cloudVars
<1> QED BY <1>1, <1>2, <1>3 DEF Shop, CloudOf!Next

\* Every step of the outbox and the cloud is a step of the mirror or none.
LEMMA StepIsMirrored == IInv /\ [Next]_vars => [CloudOf!Next]_<<ShopSale, cloudSale>>
<1> SUFFICES ASSUME IInv, [Next]_vars
             PROVE  CloudOf!Next \/ UNCHANGED <<ShopSale, cloudSale>>
  OBVIOUS
<1>1. ASSUME UNCHANGED <<queue, cloudSale>> PROVE UNCHANGED <<ShopSale, cloudSale>>
  BY <1>1 DEF ShopSale, RowsOf, Rows
<1>2. ASSUME NEW rows \in SUBSET Rows, Receive(rows), UNCHANGED queue PROVE CloudOf!Next
  BY <1>2, ReceiveIsCopy DEF CloudOf!Next
<1>3. /\ \A w \in Pushers : batch[w] \in SUBSET Rows
      /\ \A rows \in late : rows \in SUBSET Rows
  BY DEF IInv, TypeOK
<1>4. CASE Shop
  BY <1>4, ShopStepIsMirrored
<1>5. ASSUME NEW w \in Pushers, Push(w) PROVE CloudOf!Next \/ UNCHANGED <<ShopSale, cloudSale>>
  <2>1. CASE Pick(w) \/ MarkSyncing(w) \/ MarkingFails(w)
    BY <1>1, <2>1 DEF Pick, MarkSyncing, MarkingFails, cloudVars
  <2>2. CASE Deliver(w) \/ LoseAnswer(w)
    BY <1>2, <1>3, <2>2 DEF Deliver, LoseAnswer
  <2>3. CASE TimeOut(w) \/ Reset(w) \/ ResetFails(w) \/ Finish(w)
    BY <1>1, <2>3 DEF TimeOut, Reset, ResetFails, Finish, cloudVars
  <2> QED BY <1>5, <2>1, <2>2, <2>3 DEF Push
<1>6. CASE ArriveLate
  BY <1>2, <1>3, <1>6 DEF ArriveLate, pcVars
<1>7. CASE Kill
  BY <1>1, <1>7 DEF Kill, cloudVars
<1>8. CASE UNCHANGED vars
  BY <1>1, <1>8 DEF vars, pcVars, cloudVars
<1> QED BY <1>4, <1>5, <1>6, <1>7, <1>8 DEF Next

\* For any number of pushers, rows and kills: however the requests interleave, the
\* cloud's copy of a receipt only ever moves forward, and never past the shop.
THEOREM CloudMirrorsShop == Spec => ImplementsMirror
<1>1. Init => CloudOf!Init
  <2> SUFFICES ASSUME Init PROVE CloudOf!Init
    OBVIOUS
  <2>1. \A e, o : RowsOf(e, o) = {}
    BY DEF Init, RowsOf, Rows
  <2>2. ShopSale = [s \in Sales |-> "NONE"]
    BY <2>1 DEF ShopSale
  <2> QED BY <2>2 DEF Init, CloudOf!Init
<1>2. IInv /\ [Next]_vars => [CloudOf!Next]_CloudOf!mirrorVars
  BY StepIsMirrored DEF CloudOf!mirrorVars
<1> QED BY <1>1, <1>2, IInvInit, IInvStep, PTL DEF Spec, ImplementsMirror, CloudOf!Spec

-------------------------------------------------------------------------------
\* Rows left SYNCING have been delivered, unless a cycle was interrupted.

\* A step that leaves queue and cloud alone leaves delivered what was delivered.
LEMMA DeliveredStays ==
    ASSUME UNCHANGED <<queue, cloudSale, cloudItem>>
    PROVE  Rows' = Rows /\ \A i \in Rows : Delivered(i)' <=> Delivered(i)
BY DEF Rows, Delivered

\* A row stays in the care of a cycle until it is delivered or PENDING again.
LEMMA AbandonedStep ==
    ASSUME MaxMishaps = 0, IInv, Abandoned, [Next]_vars
    PROVE  Abandoned'
<1>t. TypeOK /\ mishaps = 0
  BY DEF IInv, TypeOK
<1>ty. /\ status \in [Rows -> Statuses]
       /\ pc \in [Pushers -> Phases] /\ batch \in [Pushers -> SUBSET Rows]
       /\ late \in SUBSET SUBSET Rows
  BY <1>t DEF TypeOK
<1>1. CASE UNCHANGED vars
  <2>1. Rows' = Rows /\ \A i \in Rows : Delivered(i)' <=> Delivered(i)
    BY <1>1, DeliveredStays DEF vars, pcVars, cloudVars
  <2>2. UNCHANGED <<status, pc, batch>>
    BY <1>1 DEF vars, pcVars
  <2> QED BY <1>ty, <2>1, <2>2 DEF Abandoned, Caring
<1>2. CASE Shop
  <2>1. PICK e \in Sales \cup Products, op \in {"CREATE", "UPDATE"} : Enqueue(e, op)
    BY <1>2 DEF Shop, CompleteSale, CancelSale, SaveProduct
  <2>2. /\ Rows' = Rows \cup {Len(queue) + 1}
        /\ \A i \in Rows : queue'[i] = queue[i] /\ status'[i] = status[i]
        /\ status'[Len(queue) + 1] = "PENDING"
    BY <1>t, <2>1, AppendedRows
  <2>3. UNCHANGED <<pc, batch, cloudSale, cloudItem>>
    BY <2>1 DEF Enqueue, cloudVars
  <2>4. \A i \in Rows : Delivered(i) => Delivered(i)'
    BY <2>2, <2>3 DEF Delivered
  <2>5. \A w \in Pushers : batch[w] \subseteq Rows
    BY <1>ty
  <2> QED BY <2>2, <2>3, <2>4, <2>5 DEF Abandoned, Caring
<1>3. ASSUME NEW rows \in SUBSET Rows, Receive(rows), UNCHANGED queue
      PROVE  /\ Rows' = Rows
             /\ \A i \in Rows : Delivered(i) => Delivered(i)'
             /\ ~ Refused(rows) => \A i \in rows : Delivered(i)'
  BY <1>3, Received DEF Rows
<1>4. ASSUME NEW w \in Pushers, Push(w) PROVE Abandoned'
  <2>0. \A v \in Pushers : batch[v] \subseteq Rows
    BY <1>ty
  <2>1. CASE Pick(w)
    <3>1. Rows' = Rows /\ \A i \in Rows : Delivered(i)' <=> Delivered(i)
      BY <2>1, DeliveredStays DEF Pick, cloudVars
    <3>2. \A v \in Pushers : /\ Caring(v)' <=> Caring(v)
                             /\ Caring(v) => batch'[v] = batch[v]
                             /\ pc'[v] = "answered" <=> pc[v] = "answered"
      BY <2>1, <1>ty DEF Pick, Caring
    <3>3. \A v \in Pushers : pc[v] = "answered" => Caring(v)
      BY DEF Caring
    <3> QED BY <2>0, <2>1, <3>1, <3>2, <3>3 DEF Abandoned, Pick
  <2>2. CASE MarkSyncing(w)
    <3>1. Rows' = Rows /\ \A i \in Rows : Delivered(i)' <=> Delivered(i)
      BY <2>2, DeliveredStays DEF MarkSyncing, cloudVars
    <3>2. /\ Caring(w)' /\ ~ Caring(w)
          /\ \A v \in Pushers : /\ Caring(v) => Caring(v)'
                                /\ batch'[v] = batch[v]
                                /\ pc'[v] = "answered" <=> pc[v] = "answered"
      BY <2>2, <1>ty DEF MarkSyncing, Caring
    <3>3. \A i \in Rows \ batch[w] : status'[i] = status[i]
      BY <2>2 DEF MarkSyncing, Marked
    <3> QED BY <2>0, <3>1, <3>2, <3>3 DEF Abandoned
  <2>3. CASE MarkingFails(w)
    <3>1. Rows' = Rows /\ \A i \in Rows : Delivered(i)' <=> Delivered(i)
      BY <2>3, DeliveredStays DEF MarkingFails, cloudVars
    <3>2. \A v \in Pushers : /\ Caring(v)' <=> Caring(v)
                             /\ Caring(v) => batch'[v] = batch[v]
                             /\ pc'[v] = "answered" <=> pc[v] = "answered"
      BY <2>3, <1>ty DEF MarkingFails, Quit, Caring
    <3>3. \A v \in Pushers : pc[v] = "answered" => Caring(v)
      BY DEF Caring
    <3> QED BY <2>0, <2>3, <3>1, <3>2, <3>3 DEF Abandoned, MarkingFails
  <2>4. CASE Deliver(w) \/ LoseAnswer(w)
    <3>1. Receive(batch[w]) /\ UNCHANGED <<queue, status, batch>>
      BY <2>4 DEF Deliver, LoseAnswer
    <3>2. /\ Rows' = Rows
          /\ \A i \in Rows : Delivered(i) => Delivered(i)'
          /\ ~ Refused(batch[w]) => \A i \in batch[w] : Delivered(i)'
      BY <1>3, <2>0, <3>1
    <3>3. /\ \A v \in Pushers : Caring(v)' <=> Caring(v)
          /\ \A v \in Pushers \ {w} : pc'[v] = pc[v]
          /\ pc'[w] = "answered" => ~ Refused(batch[w])
      BY <2>4, <1>ty DEF Deliver, LoseAnswer, Caring
    <3> QED BY <2>0, <3>1, <3>2, <3>3 DEF Abandoned
  <2>5. CASE TimeOut(w)
    <3>1. Rows' = Rows /\ \A i \in Rows : Delivered(i)' <=> Delivered(i)
      BY <2>5, DeliveredStays DEF TimeOut, cloudVars
    <3>2. \A v \in Pushers : /\ Caring(v)' <=> Caring(v)
                             /\ pc'[v] = "answered" <=> pc[v] = "answered"
      BY <2>5, <1>ty DEF TimeOut, Caring
    <3> QED BY <2>0, <2>5, <3>1, <3>2 DEF Abandoned, TimeOut
  <2>6. CASE Reset(w)
    <3>1. Rows' = Rows /\ \A i \in Rows : Delivered(i)' <=> Delivered(i)
      BY <2>6, DeliveredStays DEF Reset, cloudVars
    <3>2. \A i \in Rows : status'[i] # "SYNCING"
      BY <2>6 DEF Reset, AfterFailure, Marked
    <3>3. \A v \in Pushers : pc'[v] = "answered" => pc[v] = "answered" /\ batch'[v] = batch[v]
      BY <2>6, <1>ty DEF Reset, Quit
    <3> QED BY <2>0, <3>1, <3>2, <3>3 DEF Abandoned
  <2>7. CASE ResetFails(w)
    BY <2>7, <1>t DEF ResetFails
  <2>8. CASE Finish(w)
    <3>1. Rows' = Rows /\ \A i \in Rows : Delivered(i)' <=> Delivered(i)
      BY <2>8, DeliveredStays DEF Finish, cloudVars
    <3>2. /\ pc[w] = "answered" /\ pc'[w] = "idle" /\ status' = status
          /\ \A v \in Pushers \ {w} : pc'[v] = pc[v] /\ batch'[v] = batch[v]
      BY <2>8, <1>ty DEF Finish, Quit
    <3>3. ASSUME NEW i \in Rows, status[i] = "SYNCING",
                 \A v \in Pushers : Caring(v)' => i \notin batch'[v]
          PROVE  Delivered(i)
      <4>1. CASE i \in batch[w]
        BY <3>2, <4>1 DEF Abandoned
      <4>2. CASE i \notin batch[w]
        <5>1. \A v \in Pushers : Caring(v) => i \notin batch[v]
          BY <3>2, <3>3, <4>2 DEF Caring
        <5> QED BY <3>3, <5>1 DEF Abandoned
      <4> QED BY <4>1, <4>2
    <3> QED BY <2>0, <3>1, <3>2, <3>3 DEF Abandoned
  <2> QED BY <1>4, <2>1, <2>2, <2>3, <2>4, <2>5, <2>6, <2>7, <2>8 DEF Push
<1>5. CASE ArriveLate
  <2>1. PICK rows \in late : Receive(rows) /\ UNCHANGED pcVars
    BY <1>5 DEF ArriveLate
  <2>2. Rows' = Rows /\ \A i \in Rows : Delivered(i) => Delivered(i)'
    BY <1>3, <1>ty, <2>1 DEF pcVars
  <2>3. UNCHANGED <<status, pc, batch>>
    BY <2>1 DEF pcVars
  <2> QED BY <1>ty, <2>2, <2>3 DEF Abandoned, Caring
<1>6. CASE Kill
  BY <1>6, <1>t DEF Kill
<1> QED BY <1>1, <1>2, <1>4, <1>5, <1>6 DEF Next

\* As long as no cycle is interrupted, no row waits for a retry that will not come:
\* what is SYNCING and in no cycle's batch has reached the cloud.  For any number of
\* overlapping cycles, although each of them resets the rows of all others.
THEOREM AbandonedRowsAreDelivered ==
    ASSUME MaxMishaps = 0
    PROVE  Spec => []AbandonedIsDelivered
<1>1. Init => Abandoned
  <2> SUFFICES ASSUME Init PROVE Abandoned
    OBVIOUS
  <2>1. Rows = {} /\ \A w \in Pushers : pc[w] = "idle"
    BY DEF Init, Rows
  <2> QED BY <2>1 DEF Abandoned
<1>2. IInv /\ Abandoned /\ [Next]_vars => Abandoned'
  BY AbandonedStep
<1>3. IInv /\ Abandoned => AbandonedIsDelivered
  BY DEF Abandoned, AbandonedIsDelivered
<1> QED BY <1>1, <1>2, <1>3, IInvInit, IInvStep, PTL DEF Spec

===============================================================================
