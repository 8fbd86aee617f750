----------------------------- MODULE SyncPullProofs -----------------------------
(***************************************************************************)
(* Proofs about the PCs that share a cloud: for any PCs, any receipts, any *)
(* length of an answer, of a request and of the log.                       *)
(*                                                                         *)
(* The second part shows that the PCs agree once everything is pushed and  *)
(* pulled: what a PC has is in the log or still to be sent, and a          *)
(* cancellation that has reached the cloud still comes to every PC that    *)
(* does not know of it.                                                    *)
(***************************************************************************)
EXTENDS SyncPullProperties, FiniteSetTheorems, SequenceTheorems, WellFoundedInduction, TLAPS

\* The call of a screen under way: its movement is not among the movements yet.
Change(call) == IF call = "sale" THEN -1 ELSE 1

Moving(pc) == [receipt |-> desk[pc].receipt, change |-> Change(desk[pc].call), at |-> pc]

DeskKnows(pc) ==
    desk[pc] # NoCall =>
      /\ desk[pc].call \in {"sale", "cancellation"}
      /\ desk[pc].receipt \in Receipts
      /\ desk[pc].seen \in Nat
      /\ desk[pc].call = "sale" => desk[pc].seen >= 1
      /\ quantity[pc] # None
      /\ Moving(pc) \notin movements[pc]

\* A receipt that is being made is nowhere yet.
SaleIsNew(pc) ==
    desk[pc].call = "sale" =>
      \A other \in PCs : /\ receipts[other][desk[pc].receipt] = "NONE"
                         /\ other # pc => desk[other].receipt # desk[pc].receipt

\* Without the product a PC has no movements of it.
Stocked(pc) ==
    /\ quantity[pc] = None <=> base[pc] = None
    /\ quantity[pc] = None => movements[pc] = {}
    /\ pull[pc].seen # None => quantity[pc] # None
    /\ pull[pc].phase = "loaded" => pull[pc].seen # None
    /\ IsFiniteSet(movements[pc])

\* Each movement is on the PC that made it, and of a receipt that is there.
Booked(pc) ==
    \A m \in movements[pc] :
      /\ m \in movements[m.at]
      /\ m.at = pc => /\ receipts[pc][m.receipt] # "NONE"
                      /\ m.change = 1 => receipts[pc][m.receipt] = "CANCELLED"

\* What a PC sends it has.
OutboxKnows(pc) == \A i \in 1 .. Len(outbox[pc]) : Has(pc, outbox[pc][i].entity)

LogKnows ==
    /\ Len(log) <= MaxLog
    /\ \A i \in 1 .. Len(log) : Has(log[i].pc, log[i].entity)

\* What is not committed yet is in the open push.
PushKnows(pc) ==
    /\ pushing[pc] <= Len(outbox[pc])
    /\ \A i \in 1 .. Len(log) :
         log[i].pc = pc /\ ~ log[i].committed =>
           \E k \in 1 .. pushing[pc] : outbox[pc][k].entity = log[i].entity

\* What is committed is in the tables of the cloud.
CloudKnows ==
    \A i \in 1 .. Len(log) : log[i].committed =>
      /\ \A r \in Receipts : log[i].entity = Sale(r) => ledger[r] # "NONE"
      /\ log[i].entity = Item => catalogue.quantity # None

\* An answer has each entity once, and if it is not short every row after the cursor.
PullKnows(pc) ==
    LET rows == pull[pc].rows
    IN  /\ pull[pc].phase = "idle" => pull[pc] = NoPull
        /\ pull[pc].clock = Len(rows) /\ Len(rows) <= Len(log)
        /\ \A i \in 1 .. Len(rows) : rows[i] # None =>
             /\ rows[i].entity = log[i].entity
             /\ rows[i].entity \in Sales => rows[i].status # "NONE"
        /\ \A i, j \in 1 .. Len(rows) :
             rows[i] # None /\ rows[j] # None /\ rows[i].entity = rows[j].entity => i = j
        /\ ~ pull[pc].short =>
             \A i \in 1 .. Len(rows) : i > since[pc] /\ log[i].pc # pc =>
               \E k \in 1 .. Len(rows) : rows[k] # None /\ rows[k].entity = log[i].entity

CursorKnows(pc) ==
    /\ since[pc] <= Len(log)
    /\ pc \notin gap =>
         \A i \in 1 .. since[pc] : log[i].pc # pc => Has(pc, log[i].entity)

Explained(pc) ==
    pc \notin disturbed /\ quantity[pc] # None => quantity[pc] = base[pc] + Sum(movements[pc])

PCKnows(pc) ==
    /\ DeskKnows(pc) /\ Stocked(pc) /\ Booked(pc) /\ OutboxKnows(pc)
    /\ PushKnows(pc) /\ PullKnows(pc) /\ CursorKnows(pc) /\ Explained(pc)

PInv ==
    /\ TypeOK /\ LogKnows /\ CloudKnows
    /\ \A pc \in PCs : SaleIsNew(pc) /\ PCKnows(pc)

-------------------------------------------------------------------------------
\* Numbers, and steps taken one after the other

\* A nonempty set of naturals has a least element.
LEMMA MinExists ==
    ASSUME NEW S \in SUBSET Nat, S # {}
    PROVE  Min(S) \in S /\ \A y \in S : Min(S) <= y
<1> DEFINE Less == OpToRel(<, Nat)
<1>1. Less = {ss \in Nat \X Nat : ss[1] < ss[2]}
  BY DEF OpToRel
<1>2. IsWellFoundedOn(Less, Nat)
  BY NatLessThanWellFounded
<1> HIDE DEF Less
<1>3. \E x \in S : \A y \in S : ~ (<<y, x>> \in Less)
  BY <1>2, WFMin
<1>4. \A x, y \in Nat : y < x => <<y, x>> \in Less
  BY <1>1
<1>5. \A x, y \in S : <<y, x>> \notin Less => x <= y
  BY <1>4
<1>6. \E x \in S : \A y \in S : x <= y
  BY <1>3, <1>5
<1> QED BY <1>6 DEF Min

\* A nonempty set of numbers below a bound has a greatest element.
LEMMA MaxExists ==
    ASSUME NEW n \in Nat, NEW S \in SUBSET (1 .. n), S # {}
    PROVE  Max(S) \in S /\ \A y \in S : Max(S) >= y
<1> DEFINE T == {n - x : x \in S}
<1>0. T \in SUBSET Nat
  OBVIOUS
<1>1. T # {}
  OBVIOUS
<1>2. Min(T) \in T /\ \A y \in T : Min(T) <= y
  <2> HIDE DEF T
  <2> QED BY <1>0, <1>1, MinExists
<1>3. PICK x \in S : Min(T) = n - x
  BY <1>2
<1>4. \A y \in S : n - x <= n - y
  BY <1>2, <1>3
<1>5. \A y \in S : x >= y
  BY <1>4
<1> QED BY <1>5 DEF Max

\* What holds of 0 and with every number of the next one, holds up to any number.
LEMMA AllNumbers ==
    ASSUME NEW n \in Nat, NEW S, 0 \in S, \A i \in 0 .. n : i < n /\ i \in S => i + 1 \in S
    PROVE  \A i \in 0 .. n : i \in S
<1> SUFFICES ASSUME NEW k \in 0 .. n, k \notin S PROVE FALSE
  OBVIOUS
<1> DEFINE T == {i \in 0 .. n : i \notin S}
<1>1. T \in SUBSET Nat /\ k \in T
  OBVIOUS
<1>2. Min(T) \in T /\ \A i \in T : Min(T) <= i
  <2> HIDE DEF T
  <2> QED BY <1>1, MinExists
<1>3. Min(T) \in 1 .. n /\ Min(T) - 1 \notin T
  BY <1>2
<1> QED BY <1>2, <1>3

\* f is what comes of n steps from start.
Steps(f, start, F, n) ==
    f = [i \in 0 .. n |-> IF i = 0 THEN start ELSE F[<<f[i - 1], i>>]]

\* From any start steps can be taken one after the other.
LEMMA Iteration ==
    ASSUME NEW n \in Nat, NEW X, NEW start \in X, NEW F \in [X \X (1 .. n) -> X]
    PROVE  \E f \in [0 .. n -> X] : Steps(f, start, F, n)
<1> DEFINE Upto(f, k) == f[0] = start /\ \A i \in 1 .. k : f[i] = F[<<f[i - 1], i>>]
           S == {k \in 0 .. n : \E f \in [0 .. k -> X] : Upto(f, k)}
<1>1. 0 \in S
  <2> DEFINE f == [i \in 0 .. 0 |-> start]
  <2>1. f \in [0 .. 0 -> X] /\ f[0] = start
    OBVIOUS
  <2>2. Upto(f, 0)
    BY <2>1
  <2> HIDE DEF f, Upto
  <2> QED BY <2>1, <2>2
<1>2. ASSUME NEW k \in 0 .. n, k < n, k \in S PROVE k + 1 \in S
  <2>1. PICK f \in [0 .. k -> X] : f[0] = start /\ \A i \in 1 .. k : f[i] = F[<<f[i - 1], i>>]
    BY <1>2
  <2> DEFINE g == [i \in 0 .. k + 1 |-> IF i <= k THEN f[i] ELSE F[<<f[k], k + 1>>]]
  <2>2. F[<<f[k], k + 1>>] \in X
    BY <1>2
  <2>3. g \in [0 .. k + 1 -> X] /\ g[0] = start
    BY <1>2, <2>1, <2>2
  <2>4. g[k + 1] = F[<<f[k], k + 1>>] /\ \A i \in 0 .. k : g[i] = f[i]
    BY <1>2
  <2> HIDE DEF g
  <2>5. ASSUME NEW i \in 1 .. k + 1 PROVE g[i] = F[<<g[i - 1], i>>]
    <3>1. CASE i <= k
      BY <2>1, <2>4, <3>1
    <3>2. CASE i = k + 1
      <4>1. g[i - 1] = f[k]
        BY <1>2, <2>4, <3>2
      <4> QED BY <2>4, <3>2, <4>1
    <3> QED BY <3>1, <3>2
  <2>6. k + 1 \in 0 .. n
    BY <1>2
  <2> QED BY <2>3, <2>5, <2>6
<1>3. n \in S
  <2> HIDE DEF S
  <2> QED BY <1>1, <1>2, AllNumbers
<1>4. PICK f \in [0 .. n -> X] : f[0] = start /\ \A i \in 1 .. n : f[i] = F[<<f[i - 1], i>>]
  BY <1>3
<1>5. f = [i \in 0 .. n |-> IF i = 0 THEN start ELSE F[<<f[i - 1], i>>]]
  BY <1>4
<1> QED BY <1>5 DEF Steps

-------------------------------------------------------------------------------
\* Facts about the state

\* The product, the sales and the movements are different entities.
LEMMA EntityFacts ==
    /\ None \notin Receipts /\ None \notin Nat /\ None \notin Mutation
    /\ Item \notin Sales /\ Item \notin Movements
    /\ Item \in Entities /\ Sales \subseteq Entities /\ Movements \subseteq Entities
    /\ \A e \in Entities : e = Item \/ e \in Sales \/ e \in Movements
    /\ \A r \in Receipts : Sale(r) \in Sales /\ Sale(r).receipt = r
    /\ \A e \in Sales : e.receipt \in Receipts /\ e = Sale(e.receipt)
    /\ \A m \in Movements : /\ m \notin Sales
                            /\ m.receipt \in Receipts /\ m.change \in {-1, 1} /\ m.at \in PCs
<1>1. None \notin Receipts /\ None \notin Nat /\ None \notin Mutation
  BY PullAssumption
<1>2. Item.receipt = None /\ Item.change = 0 /\ \A r : Sale(r).receipt = r /\ Sale(r).change = 0
  BY DEF Item, Sale
<1>3. \A m \in Movements : m.receipt \in Receipts /\ m.change \in {-1, 1} /\ m.at \in PCs
  BY DEF Movements
<1>4. \A e \in Sales : \E r \in Receipts : e = Sale(r)
  BY DEF Sales
<1>5. \A r \in Receipts : Sale(r) \in Sales
  BY DEF Sales
<1>6. Item \notin Sales /\ Item \notin Movements
  BY <1>1, <1>2, <1>3, <1>4
<1>7. \A m \in Movements : m \notin Sales
  BY <1>2, <1>3, <1>4
<1>8. \A e \in Sales : e.receipt \in Receipts /\ e = Sale(e.receipt)
  BY <1>2, <1>4
<1>9. /\ Item \in Entities /\ Sales \subseteq Entities /\ Movements \subseteq Entities
      /\ \A e \in Entities : e = Item \/ e \in Sales \/ e \in Movements
  BY DEF Entities
<1> QED
  BY <1>1, <1>2, <1>3, <1>5, <1>6, <1>7, <1>8, <1>9

\* Having an entity, by its kind.
LEMMA HasFacts ==
    ASSUME NEW pc \in PCs
    PROVE  /\ Has(pc, Item) <=> quantity[pc] # None
           /\ \A r \in Receipts : Has(pc, Sale(r)) <=> receipts[pc][r] # "NONE"
           /\ \A m \in Movements : Has(pc, m) <=> m \in movements[pc]
  BY EntityFacts DEF Has

\* The types, PC by PC.
PCTypes(pc) ==
    /\ device[pc] \in Nat
    /\ quantity[pc] \in Nat \cup {None} /\ base[pc] \in Nat \cup {None}
    /\ receipts[pc] \in [Receipts -> Statuses] /\ movements[pc] \in SUBSET Movements
    /\ desk[pc] \in [call: Calls, receipt: Receipts \cup {None}, seen: Nat \cup {None}]
    /\ outbox[pc] \in Seq(Row) /\ Len(outbox[pc]) \in Nat
    /\ \A i \in 1 .. Len(outbox[pc]) :
         outbox[pc][i] \in Row /\ outbox[pc][i].entity \in Entities
    /\ pushing[pc] \in 0 .. BatchSize /\ pushing[pc] \in Nat
    /\ since[pc] \in 0 .. MaxLog /\ since[pc] \in Nat
    /\ pull[pc] \in [phase: Phases, rows: Seq(Mutation \cup {None}), clock: 0 .. MaxLog,
                     seen: Nat \cup {None}, short: BOOLEAN]
    /\ pull[pc].rows \in Seq(Mutation \cup {None}) /\ Len(pull[pc].rows) \in Nat
    /\ \A i \in 1 .. Len(pull[pc].rows) : pull[pc].rows[i] # None =>
         /\ pull[pc].rows[i] \in Mutation /\ pull[pc].rows[i].entity \in Entities
         /\ pull[pc].rows[i].status \in Statuses /\ pull[pc].rows[i].quantity \in Nat
    /\ pull[pc].phase \in Phases /\ pull[pc].seen \in Nat \cup {None}

CloudTypes ==
    /\ catalogue \in [quantity: Nat \cup {None}, updated: Nat]
    /\ catalogue.quantity \in Nat \cup {None} /\ catalogue.updated \in Nat
    /\ ledger \in [Receipts -> Statuses]
    /\ log \in Seq(LogRow) /\ Len(log) \in Nat
    /\ \A i \in 1 .. Len(log) : /\ log[i] \in LogRow /\ log[i].entity \in Entities
                                /\ log[i].pc \in PCs /\ log[i].device \in Nat
                                /\ log[i].committed \in BOOLEAN

\* The variables by themselves.
LEMMA TypeFacts ==
    ASSUME TypeOK
    PROVE  /\ CloudTypes
           /\ \A pc \in PCs : PCTypes(pc)
           /\ edits \in Nat /\ gap \subseteq PCs /\ disturbed \subseteq PCs
<1>1. CloudTypes
  <2>1. log \in Seq(LogRow) /\ Len(log) \in Nat
    BY DEF TypeOK
  <2>2. \A i \in 1 .. Len(log) : log[i] \in LogRow
    BY <2>1
  <2>3. catalogue \in [quantity: Nat \cup {None}, updated: Nat] /\ ledger \in [Receipts -> Statuses]
    BY DEF TypeOK
  <2> QED BY <2>1, <2>2, <2>3 DEF CloudTypes, LogRow
<1>2. ASSUME NEW pc \in PCs PROVE PCTypes(pc)
  <2>1. /\ device[pc] \in Nat
        /\ quantity[pc] \in Nat \cup {None} /\ base[pc] \in Nat \cup {None}
        /\ receipts[pc] \in [Receipts -> Statuses] /\ movements[pc] \in SUBSET Movements
        /\ desk[pc] \in [call: Calls, receipt: Receipts \cup {None}, seen: Nat \cup {None}]
        /\ outbox[pc] \in Seq(Row)
        /\ pushing[pc] \in 0 .. BatchSize
        /\ since[pc] \in 0 .. MaxLog
        /\ pull[pc] \in [phase: Phases, rows: Seq(Mutation \cup {None}), clock: 0 .. MaxLog,
                         seen: Nat \cup {None}, short: BOOLEAN]
    BY <1>2 DEF TypeOK
  <2>2. /\ pull[pc].rows \in Seq(Mutation \cup {None})
        /\ pull[pc].phase \in Phases /\ pull[pc].seen \in Nat \cup {None}
    BY <2>1
  <2>3. Len(outbox[pc]) \in Nat /\ Len(pull[pc].rows) \in Nat
    BY <2>1, <2>2, LenProperties
  <2>4. pushing[pc] \in Nat /\ since[pc] \in Nat
    BY <2>1, PullAssumption
  <2>5. \A i \in 1 .. Len(outbox[pc]) : outbox[pc][i] \in Row
    BY <2>1
  <2>6. \A i \in 1 .. Len(pull[pc].rows) : pull[pc].rows[i] \in Mutation \cup {None}
    BY <2>2
  <2>7. /\ \A row \in Row : row.entity \in Entities
        /\ \A m \in Mutation : m.entity \in Entities /\ m.status \in Statuses /\ m.quantity \in Nat
    BY DEF Row, Mutation
  <2> HIDE DEF Row, Mutation
  <2> QED BY <2>1, <2>2, <2>3, <2>4, <2>5, <2>6, <2>7 DEF PCTypes
<1> QED
  BY <1>1, <1>2 DEF TypeOK

\* Nothing a PC has is ever lost.
Grows ==
    \A pc \in PCs : /\ quantity[pc] # None => quantity'[pc] # None
                    /\ movements[pc] \subseteq movements'[pc]
                    /\ \A r \in Receipts : receipts[pc][r] # "NONE" => receipts'[pc][r] # "NONE"

\* What a PC has it keeps.
LEMMA HasStays ==
    ASSUME Grows, NEW pc \in PCs, NEW e \in Entities, Has(pc, e)
    PROVE  Has(pc, e)'
<1>1. Has(pc, e)' = (IF e = Item THEN quantity'[pc] # None
                     ELSE IF e \in Sales THEN receipts'[pc][e.receipt] # "NONE"
                     ELSE e \in movements'[pc])
  BY DEF Has
<1> QED
  BY <1>1, EntityFacts DEF Has, Grows

-------------------------------------------------------------------------------
\* What a step leaves alone stays as it is known

\* The log loses nothing, and says the same of what is in it.
LogGrows ==
    /\ log' \in Seq(LogRow) /\ Len(log') \in Nat /\ Len(log) <= Len(log')
    /\ \A i \in 1 .. Len(log) : log'[i].entity = log[i].entity /\ log'[i].pc = log[i].pc

\* A log that does not change grows by nothing.
LEMMA SameLog ==
    ASSUME TypeOK, log' = log
    PROVE  LogGrows
  BY TypeFacts DEF LogGrows, CloudTypes

\* Of each part of a PC's knowledge: a step that leaves what it is about keeps it.
LEMMA DeskStays ==
    ASSUME NEW pc \in PCs, DeskKnows(pc), desk'[pc] = desk[pc], movements'[pc] = movements[pc],
           quantity[pc] # None => quantity'[pc] # None
    PROVE  DeskKnows(pc)'
  BY DEF DeskKnows, Moving

\* A step that leaves the quantity and the base leaves the stock known.
LEMMA StockedStays ==
    ASSUME NEW pc \in PCs, Stocked(pc), quantity'[pc] = quantity[pc], base'[pc] = base[pc],
           movements'[pc] = movements[pc], pull'[pc] = pull[pc]
    PROVE  Stocked(pc)'
  BY DEF Stocked

\* What is booked stays so while the receipts and the movements stay.
LEMMA BookedStays ==
    ASSUME TypeOK, Grows, NEW pc \in PCs, Booked(pc), movements'[pc] = movements[pc],
           \A r \in Receipts : receipts[pc][r] = "CANCELLED" => receipts'[pc][r] = "CANCELLED"
    PROVE  Booked(pc)'
<1>1. movements[pc] \subseteq Movements
  BY TypeFacts DEF PCTypes
<1>2. ASSUME NEW m \in movements[pc]
      PROVE  /\ m \in movements'[m.at]
             /\ m.at = pc => /\ receipts'[pc][m.receipt] # "NONE"
                             /\ m.change = 1 => receipts'[pc][m.receipt] = "CANCELLED"
  <2>1. m.at \in PCs /\ m.receipt \in Receipts
    BY <1>1, EntityFacts
  <2> QED BY <2>1 DEF Booked, Grows
<1> QED
  BY <1>2 DEF Booked

\* A queue that is not touched keeps what its rows are about.
LEMMA OutboxStays ==
    ASSUME TypeOK, Grows, NEW pc \in PCs, OutboxKnows(pc), outbox'[pc] = outbox[pc]
    PROVE  OutboxKnows(pc)'
<1>1. ASSUME NEW i \in 1 .. Len(outbox[pc]) PROVE Has(pc, outbox[pc][i].entity)'
  <2>1. outbox[pc][i].entity \in Entities
    BY TypeFacts DEF PCTypes
  <2>2. Has(pc, outbox[pc][i].entity)
    BY DEF OutboxKnows
  <2>3. PICK e \in Entities : e = outbox[pc][i].entity
    BY <2>1
  <2>4. Has(pc, e)'
    BY <2>2, <2>3, HasStays
  <2>5. outbox'[pc][i].entity = e
    BY <2>3
  <2> QED BY <2>4, <2>5 DEF Has
<1> QED
  BY <1>1 DEF OutboxKnows, Has

\* A cursor stays inside a log that grows.
LEMMA CursorStays ==
    ASSUME TypeOK, Grows, LogGrows, NEW pc \in PCs, CursorKnows(pc), since'[pc] = since[pc],
           pc \notin gap' => pc \notin gap
    PROVE  CursorKnows(pc)'
<1>1. /\ since[pc] <= Len(log) /\ Len(log) <= Len(log') /\ Len(log) \in Nat /\ Len(log') \in Nat
      /\ since[pc] \in Nat
  BY TypeFacts DEF CursorKnows, LogGrows, CloudTypes, PCTypes
<1>2. ASSUME NEW i \in 1 .. since[pc], pc \notin gap', log'[i].pc # pc PROVE Has(pc, log[i].entity)'
  <2>1. i \in 1 .. Len(log)
    BY <1>1
  <2>2. log'[i].pc = log[i].pc /\ log'[i].entity = log[i].entity /\ log[i].entity \in Entities
    BY <2>1, TypeFacts DEF LogGrows, CloudTypes
  <2>3. Has(pc, log[i].entity)
    BY <1>2, <2>2 DEF CursorKnows
  <2>4. PICK e \in Entities : e = log[i].entity
    BY <2>2
  <2>5. Has(pc, e)
    BY <2>3, <2>4
  <2>6. Has(pc, e)'
    BY <2>5, HasStays
  <2>7. log'[i].entity = e
    BY <2>2, <2>4
  <2> QED BY <2>6, <2>7 DEF Has
<1> QED
  BY <1>1, <1>2 DEF CursorKnows, Has

\* An answer in hand stays true of a log that grows.
LEMMA PullStays ==
    ASSUME TypeOK, LogGrows, NEW pc \in PCs, PullKnows(pc), pull'[pc] = pull[pc],
           since'[pc] = since[pc]
    PROVE  PullKnows(pc)'
<1> DEFINE rows == pull[pc].rows
<1>1. /\ pull[pc].phase = "idle" => pull[pc] = NoPull
      /\ pull[pc].clock = Len(rows) /\ Len(rows) <= Len(log)
      /\ \A i \in 1 .. Len(rows) : rows[i] # None =>
           /\ rows[i].entity = log[i].entity
           /\ rows[i].entity \in Sales => rows[i].status # "NONE"
      /\ \A i, j \in 1 .. Len(rows) :
           rows[i] # None /\ rows[j] # None /\ rows[i].entity = rows[j].entity => i = j
      /\ ~ pull[pc].short =>
           \A i \in 1 .. Len(rows) : i > since[pc] /\ log[i].pc # pc =>
             \E k \in 1 .. Len(rows) : rows[k] # None /\ rows[k].entity = log[i].entity
  BY DEF PullKnows
<1>2. Len(rows) \in Nat /\ Len(log) \in Nat /\ Len(log') \in Nat /\ Len(log) <= Len(log')
  BY TypeFacts DEF CloudTypes, PCTypes, LogGrows
<1>3. \A i \in 1 .. Len(rows) : log'[i].entity = log[i].entity /\ log'[i].pc = log[i].pc
  BY <1>1, <1>2 DEF LogGrows
<1>4. Len(rows) <= Len(log')
  BY <1>1, <1>2
<1>5. pull'[pc].rows = rows
  OBVIOUS
<1> HIDE DEF rows
<1> QED
  BY <1>1, <1>3, <1>4, <1>5 DEF PullKnows

\* A quantity and movements that stay keep adding up.
LEMMA ExplainedStays ==
    ASSUME NEW pc \in PCs, Explained(pc), quantity'[pc] = quantity[pc], base'[pc] = base[pc],
           movements'[pc] = movements[pc], pc \notin disturbed' => pc \notin disturbed
    PROVE  Explained(pc)'
  BY DEF Explained, Sum

\* An open push stays that of its rows while the queue only grows.
LEMMA PushStays ==
    ASSUME TypeOK, NEW pc \in PCs, PushKnows(pc), pushing'[pc] = pushing[pc],
           Len(outbox'[pc]) \in Nat, Len(outbox[pc]) <= Len(outbox'[pc]),
           \A k \in 1 .. Len(outbox[pc]) : outbox'[pc][k] = outbox[pc][k],
           \A i \in 1 .. Len(log') : log'[i].pc = pc /\ ~ log'[i].committed =>
              i \in 1 .. Len(log) /\ log[i].pc = pc /\ ~ log[i].committed /\ log'[i].entity = log[i].entity
    PROVE  PushKnows(pc)'
<1>1. /\ pushing[pc] <= Len(outbox[pc]) /\ pushing[pc] \in Nat /\ Len(outbox[pc]) \in Nat
      /\ \A i \in 1 .. Len(log) : log[i].pc = pc /\ ~ log[i].committed =>
           \E k \in 1 .. pushing[pc] : outbox[pc][k].entity = log[i].entity
  BY TypeFacts DEF PushKnows, PCTypes
<1>2. pushing[pc] <= Len(outbox'[pc])
  BY <1>1
<1>3. \A k \in 1 .. pushing[pc] : outbox'[pc][k] = outbox[pc][k]
  BY <1>1
<1>4. ASSUME NEW i \in 1 .. Len(log'), log'[i].pc = pc, ~ log'[i].committed
      PROVE  \E k \in 1 .. pushing'[pc] : outbox'[pc][k].entity = log'[i].entity
  <2>1. i \in 1 .. Len(log) /\ log[i].pc = pc /\ ~ log[i].committed /\ log'[i].entity = log[i].entity
    BY <1>4
  <2>2. PICK k \in 1 .. pushing[pc] : outbox[pc][k].entity = log[i].entity
    BY <1>1, <2>1
  <2> QED BY <1>3, <2>1, <2>2
<1> QED
  BY <1>1, <1>2, <1>4 DEF PushKnows

\* The rows of the log stay those of what the PCs have.
LEMMA LogStays ==
    ASSUME TypeOK, Grows, LogKnows, log' = log
    PROVE  LogKnows'
<1>1. ASSUME NEW i \in 1 .. Len(log) PROVE Has(log[i].pc, log[i].entity)'
  <2>1. log[i].entity \in Entities /\ log[i].pc \in PCs /\ Has(log[i].pc, log[i].entity)
    BY TypeFacts DEF CloudTypes, LogKnows
  <2>2. PICK e \in Entities, pc \in PCs : e = log[i].entity /\ pc = log[i].pc
    BY <2>1
  <2>3. Has(pc, e)'
    BY <2>1, <2>2, HasStays
  <2>4. log'[i].pc = pc /\ log'[i].entity = e
    BY <2>2
  <2> QED BY <2>3, <2>4 DEF Has
<1> QED
  BY <1>1 DEF LogKnows, Has

\* A receipt that is new on no PC stays so while the receipts stay.
LEMMA SaleStays ==
    ASSUME NEW pc \in PCs, SaleIsNew(pc), receipts' = receipts, desk' = desk
    PROVE  SaleIsNew(pc)'
  BY DEF SaleIsNew

\* The cloud knows what it knew.
LEMMA CloudStays ==
    ASSUME CloudKnows, log' = log, ledger' = ledger, catalogue' = catalogue
    PROVE  CloudKnows'
  BY DEF CloudKnows

\* The step does not touch the PC.
Rests(pc) ==
    /\ quantity'[pc] = quantity[pc] /\ base'[pc] = base[pc] /\ receipts'[pc] = receipts[pc]
    /\ movements'[pc] = movements[pc] /\ desk'[pc] = desk[pc] /\ outbox'[pc] = outbox[pc]
    /\ pushing'[pc] = pushing[pc] /\ since'[pc] = since[pc] /\ pull'[pc] = pull[pc]
    /\ pc \notin gap' => pc \notin gap
    /\ pc \notin disturbed' => pc \notin disturbed

\* No row of the PC becomes one that is not committed.
NothingOpened(pc) ==
    \A i \in 1 .. Len(log') : log'[i].pc = pc /\ ~ log'[i].committed =>
       i \in 1 .. Len(log) /\ log[i].pc = pc /\ ~ log[i].committed /\ log'[i].entity = log[i].entity

\* A PC that rests knows what it knew.
LEMMA RestingKnows ==
    ASSUME TypeOK, Grows, LogGrows, NEW pc \in PCs, PCKnows(pc), Rests(pc), NothingOpened(pc)
    PROVE  PCKnows(pc)'
<1>1. /\ quantity'[pc] = quantity[pc] /\ base'[pc] = base[pc] /\ receipts'[pc] = receipts[pc]
      /\ movements'[pc] = movements[pc] /\ desk'[pc] = desk[pc] /\ outbox'[pc] = outbox[pc]
      /\ pushing'[pc] = pushing[pc] /\ since'[pc] = since[pc] /\ pull'[pc] = pull[pc]
      /\ pc \notin gap' => pc \notin gap
      /\ pc \notin disturbed' => pc \notin disturbed
  BY DEF Rests
<1>2. /\ DeskKnows(pc) /\ Stocked(pc) /\ Booked(pc) /\ OutboxKnows(pc)
      /\ PushKnows(pc) /\ PullKnows(pc) /\ CursorKnows(pc) /\ Explained(pc)
  BY DEF PCKnows
<1>3. DeskKnows(pc)'
  BY <1>1, <1>2, DeskStays
<1>4. Stocked(pc)'
  BY <1>1, <1>2, StockedStays
<1>5. Booked(pc)'
  BY <1>1, <1>2, BookedStays
<1>6. OutboxKnows(pc)'
  BY <1>1, <1>2, OutboxStays
<1>7. PushKnows(pc)'
  <2>1. Len(outbox[pc]) \in Nat
    BY TypeFacts DEF PCTypes
  <2>2. \A i \in 1 .. Len(log') : log'[i].pc = pc /\ ~ log'[i].committed =>
          i \in 1 .. Len(log) /\ log[i].pc = pc /\ ~ log[i].committed /\ log'[i].entity = log[i].entity
    BY DEF NothingOpened
  <2>3. Len(outbox'[pc]) \in Nat /\ Len(outbox[pc]) <= Len(outbox'[pc])
    BY <1>1, <2>1
  <2>4. \A k \in 1 .. Len(outbox[pc]) : outbox'[pc][k] = outbox[pc][k]
    BY <1>1
  <2> QED BY <1>1, <1>2, <2>2, <2>3, <2>4, PushStays
<1>8. PullKnows(pc)'
  BY <1>1, <1>2, PullStays
<1>9. CursorKnows(pc)'
  BY <1>1, <1>2, CursorStays
<1>10. Explained(pc)'
  BY <1>1, <1>2, ExplainedStays
<1> QED
  BY <1>3, <1>4, <1>5, <1>6, <1>7, <1>8, <1>9, <1>10 DEF PCKnows

\* A log that stays the same opens nothing.
LEMMA NothingOpens ==
    ASSUME TypeOK, log' = log, NEW pc \in PCs
    PROVE  NothingOpened(pc)
  BY DEF NothingOpened

-------------------------------------------------------------------------------
\* Steps of the screens

\* Registering a PC keeps the invariant.
LEMMA RegisterStep ==
    ASSUME PInv, NEW pc \in PCs, Register(pc)
    PROVE  PInv'
<1>0. TypeOK /\ LogKnows /\ CloudKnows /\ \A q \in PCs : SaleIsNew(q) /\ PCKnows(q)
  BY DEF PInv
<1>1. TypeOK'
  <2>1. device' \in [PCs -> Nat]
    BY <1>0 DEF Register, TypeOK
  <2> QED BY <1>0, <2>1 DEF Register, TypeOK, cloudVars, history
<1>2. Grows
  BY DEF Register, Grows
<1>3. LogGrows
  BY <1>0, SameLog DEF Register, cloudVars
<1>4. LogKnows'
  BY <1>0, <1>2, LogStays DEF Register, cloudVars
<1>5. CloudKnows'
  BY <1>0, CloudStays DEF Register, cloudVars
<1>6. ASSUME NEW q \in PCs PROVE SaleIsNew(q)'
  BY <1>0, SaleStays DEF Register
<1>7. ASSUME NEW q \in PCs PROVE PCKnows(q)'
  <2>1. Rests(q)
    BY DEF Rests, Register, history
  <2>2. NothingOpened(q)
    BY <1>0, NothingOpens DEF Register, cloudVars
  <2> QED BY <1>0, <1>2, <1>3, <2>1, <2>2, RestingKnows
<1> QED
  BY <1>1, <1>4, <1>5, <1>6, <1>7 DEF PInv

\* The PC queues rows behind those it has.
Queues(pc) ==
    /\ Len(outbox'[pc]) \in Nat /\ Len(outbox[pc]) <= Len(outbox'[pc])
    /\ \A k \in 1 .. Len(outbox[pc]) : outbox'[pc][k] = outbox[pc][k]

\* It has what it queues.
LEMMA OutboxGrows ==
    ASSUME TypeOK, Grows, NEW pc \in PCs, OutboxKnows(pc), Queues(pc),
           \A k \in 1 .. Len(outbox'[pc]) : k > Len(outbox[pc]) => Has(pc, outbox[pc][k].entity)'
    PROVE  OutboxKnows(pc)'
<1>1. Len(outbox[pc]) \in Nat /\ Len(outbox'[pc]) \in Nat /\ Len(outbox[pc]) <= Len(outbox'[pc])
  BY TypeFacts DEF PCTypes, Queues
<1>2. ASSUME NEW k \in 1 .. Len(outbox'[pc]) PROVE Has(pc, outbox[pc][k].entity)'
  <2>1. CASE k <= Len(outbox[pc])
    <3>1. k \in 1 .. Len(outbox[pc])
      BY <1>1, <2>1
    <3>2. outbox[pc][k].entity \in Entities /\ Has(pc, outbox[pc][k].entity)
      BY <3>1, TypeFacts DEF PCTypes, OutboxKnows
    <3>3. PICK e \in Entities : e = outbox[pc][k].entity
      BY <3>2
    <3>4. Has(pc, e)
      BY <3>2, <3>3
    <3>5. Has(pc, e)'
      BY <3>4, HasStays
    <3>6. outbox'[pc][k].entity = e
      BY <3>1, <3>3 DEF Queues
    <3> QED BY <3>5, <3>6 DEF Has
  <2>2. CASE k > Len(outbox[pc])
    BY <2>2
  <2> QED BY <1>1, <2>1, <2>2
<1> QED
  BY <1>2 DEF OutboxKnows, Has

\* Queueing leaves the open push as it is.
LEMMA PushQueues ==
    ASSUME TypeOK, NEW pc \in PCs, PushKnows(pc), pushing'[pc] = pushing[pc], Queues(pc), log' = log
    PROVE  PushKnows(pc)'
<1>1. \A i \in 1 .. Len(log') : log'[i].pc = pc /\ ~ log'[i].committed =>
        i \in 1 .. Len(log) /\ log[i].pc = pc /\ ~ log[i].committed /\ log'[i].entity = log[i].entity
  OBVIOUS
<1>2. /\ Len(outbox'[pc]) \in Nat /\ Len(outbox[pc]) <= Len(outbox'[pc])
      /\ \A k \in 1 .. Len(outbox[pc]) : outbox'[pc][k] = outbox[pc][k]
  BY DEF Queues
<1> QED
  BY <1>1, <1>2, PushStays

\* Without movements there is nothing to add up.
LEMMA SumOfNone == Sum({}) = 0
<1>1. {m \in {} : m.change = 1} = {} /\ {m \in {} : m.change = -1} = {}
  OBVIOUS
<1> QED
  BY <1>1, FS_EmptySet DEF Sum

\* Creating the product keeps the invariant.
LEMMA CreateStep ==
    ASSUME PInv, NEW pc \in PCs, CreateProduct(pc)
    PROVE  PInv'
<1>0. TypeOK /\ LogKnows /\ CloudKnows /\ \A q \in PCs : SaleIsNew(q) /\ PCKnows(q)
  BY DEF PInv
<1> DEFINE row == Saved("CREATE", Opening)
<1>a. /\ \A q \in PCs : quantity[q] = None
      /\ quantity' = [quantity EXCEPT ![pc] = Opening] /\ base' = [base EXCEPT ![pc] = Opening]
      /\ outbox' = [outbox EXCEPT ![pc] = Append(@, row)]
      /\ device' = device /\ receipts' = receipts /\ movements' = movements /\ since' = since
      /\ edits' = edits /\ desk' = desk /\ pushing' = pushing /\ catalogue' = catalogue
      /\ ledger' = ledger /\ log' = log /\ pull' = pull /\ gap' = gap /\ disturbed' = disturbed
  BY DEF CreateProduct, cloudVars, history
<1>b. row \in Row /\ row.entity = Item /\ Opening \in Nat /\ Opening # None
  BY <1>0, TypeFacts, EntityFacts, PullAssumption DEF Saved, Row, CloudTypes
<1> HIDE DEF row
<1>c. /\ quantity'[pc] = Opening /\ base'[pc] = Opening /\ outbox'[pc] = Append(outbox[pc], row)
      /\ quantity[pc] = None /\ movements[pc] = {}
  <2>1. Stocked(pc)
    BY <1>0 DEF PCKnows
  <2> QED BY <1>0, <1>a, <2>1 DEF TypeOK, Stocked
<1>1. TypeOK'
  <2>1. quantity' \in [PCs -> Nat \cup {None}] /\ base' \in [PCs -> Nat \cup {None}]
    BY <1>0, <1>a, <1>b DEF TypeOK
  <2>2. Append(outbox[pc], row) \in Seq(Row)
    BY <1>0, <1>b, TypeFacts DEF PCTypes
  <2>3. outbox' \in [PCs -> Seq(Row)]
    BY <1>0, <1>a, <2>2 DEF TypeOK
  <2> QED BY <1>0, <1>a, <2>1, <2>3 DEF TypeOK
<1>2. Grows
  BY <1>0, <1>a, <1>b DEF Grows, TypeOK
<1>3. LogGrows
  BY <1>0, <1>a, SameLog
<1>4. LogKnows'
  BY <1>0, <1>2, <1>a, LogStays
<1>5. CloudKnows'
  BY <1>0, <1>a, CloudStays
<1>6. ASSUME NEW q \in PCs PROVE SaleIsNew(q)'
  BY <1>0, <1>a, SaleStays
<1>7. ASSUME NEW q \in PCs, q # pc PROVE PCKnows(q)'
  <2>1. Rests(q)
    BY <1>0, <1>7, <1>a DEF Rests, TypeOK
  <2>2. NothingOpened(q)
    BY <1>0, <1>a, NothingOpens
  <2> QED BY <1>0, <1>2, <1>3, <2>1, <2>2, RestingKnows
<1>8. PCKnows(pc)'
  <2>0. /\ DeskKnows(pc) /\ Stocked(pc) /\ Booked(pc) /\ OutboxKnows(pc)
        /\ PushKnows(pc) /\ PullKnows(pc) /\ CursorKnows(pc) /\ Explained(pc)
    BY <1>0 DEF PCKnows
  <2>1. Queues(pc) /\ Len(outbox'[pc]) = Len(outbox[pc]) + 1 /\ outbox'[pc][Len(outbox[pc]) + 1] = row
    BY <1>0, <1>b, <1>c, TypeFacts DEF Queues, PCTypes
  <2>2. DeskKnows(pc)'
    BY <2>0, <1>a, <1>b, <1>c, DeskStays
  <2>3. Stocked(pc)'
    BY <2>0, <1>a, <1>b, <1>c DEF Stocked
  <2>4. Booked(pc)'
    BY <1>0, <1>2, <2>0, <1>a, BookedStays
  <2>5. OutboxKnows(pc)'
    <3>1. Has(pc, Item)'
      BY <1>b, <1>c DEF Has
    <3>2. ASSUME NEW k \in 1 .. Len(outbox'[pc]), k > Len(outbox[pc]) PROVE Has(pc, outbox[pc][k].entity)'
      <4>1. k = Len(outbox[pc]) + 1
        BY <2>1, <3>2 DEF Queues
      <4>2. outbox'[pc][k].entity = Item
        BY <2>1, <4>1, <1>b
      <4> QED BY <3>1, <4>2 DEF Has
    <3> QED BY <1>0, <1>2, <2>0, <2>1, <3>2, OutboxGrows
  <2>6. PushKnows(pc)'
    BY <1>0, <1>a, <2>0, <2>1, PushQueues
  <2>7. PullKnows(pc)'
    BY <1>0, <1>a, <1>3, <2>0, PullStays
  <2>8. CursorKnows(pc)'
    BY <1>0, <1>a, <1>2, <1>3, <2>0, CursorStays
  <2>9. Explained(pc)'
    <3>1. Sum(movements[pc])' = 0
      BY <1>a, <1>c, SumOfNone DEF Sum
    <3> QED BY <3>1, <1>b, <1>c DEF Explained
  <2> QED BY <2>2, <2>3, <2>4, <2>5, <2>6, <2>7, <2>8, <2>9 DEF PCKnows
<1> QED
  BY <1>1, <1>4, <1>5, <1>6, <1>7, <1>8 DEF PInv

\* Editing the product on one PC keeps the invariant: that PC is disturbed.
LEMMA EditStep ==
    ASSUME PInv, NEW pc \in PCs, EditProduct(pc)
    PROVE  PInv'
<1>0. TypeOK /\ LogKnows /\ CloudKnows /\ \A q \in PCs : SaleIsNew(q) /\ PCKnows(q)
  BY DEF PInv
<1> DEFINE row == Saved("UPDATE", quantity[pc])
<1>a. /\ quantity[pc] # None /\ edits' = edits + 1
      /\ outbox' = [outbox EXCEPT ![pc] = Append(@, row)]
      /\ quantity' = quantity /\ base' = base
      /\ device' = device /\ receipts' = receipts /\ movements' = movements /\ since' = since
      /\ desk' = desk /\ pushing' = pushing /\ catalogue' = catalogue
      /\ ledger' = ledger /\ log' = log /\ pull' = pull /\ gap' = gap /\ disturbed' = disturbed
  BY DEF EditProduct, cloudVars, history
<1>b. row \in Row /\ row.entity = Item
  <2>1. quantity[pc] \in Nat /\ Len(log) \in Nat
    BY <1>0, <1>a, TypeFacts DEF PCTypes, CloudTypes
  <2> QED BY <2>1, EntityFacts DEF Saved, Row
<1> HIDE DEF row
<1>c. outbox'[pc] = Append(outbox[pc], row)
  BY <1>0, <1>a DEF TypeOK
<1>1. TypeOK'
  <2>1. edits' \in Nat
    BY <1>0, <1>a DEF TypeOK
  <2>2. Append(outbox[pc], row) \in Seq(Row)
    BY <1>0, <1>b, TypeFacts DEF PCTypes
  <2>3. outbox' \in [PCs -> Seq(Row)]
    BY <1>0, <1>a, <2>2 DEF TypeOK
  <2> QED BY <1>0, <1>a, <2>1, <2>3 DEF TypeOK
<1>2. Grows
  BY <1>a DEF Grows
<1>3. LogGrows
  BY <1>0, <1>a, SameLog
<1>4. LogKnows'
  BY <1>0, <1>2, <1>a, LogStays
<1>5. CloudKnows'
  BY <1>0, <1>a, CloudStays
<1>6. ASSUME NEW q \in PCs PROVE SaleIsNew(q)'
  BY <1>0, <1>a, SaleStays
<1>7. ASSUME NEW q \in PCs, q # pc PROVE PCKnows(q)'
  <2>1. Rests(q)
    BY <1>0, <1>7, <1>a DEF Rests, TypeOK
  <2>2. NothingOpened(q)
    BY <1>0, <1>a, NothingOpens
  <2> QED BY <1>0, <1>2, <1>3, <2>1, <2>2, RestingKnows
<1>8. PCKnows(pc)'
  <2>0. /\ DeskKnows(pc) /\ Stocked(pc) /\ Booked(pc) /\ OutboxKnows(pc)
        /\ PushKnows(pc) /\ PullKnows(pc) /\ CursorKnows(pc) /\ Explained(pc)
    BY <1>0 DEF PCKnows
  <2>1. Queues(pc) /\ Len(outbox'[pc]) = Len(outbox[pc]) + 1 /\ outbox'[pc][Len(outbox[pc]) + 1] = row
    BY <1>0, <1>b, <1>c, TypeFacts DEF Queues, PCTypes
  <2>2. DeskKnows(pc)'
    BY <2>0, <1>a, DeskStays
  <2>3. Stocked(pc)'
    BY <2>0, <1>a, StockedStays
  <2>4. Booked(pc)'
    BY <1>0, <1>2, <2>0, <1>a, BookedStays
  <2>5. OutboxKnows(pc)'
    <3>1. Has(pc, Item)'
      BY <1>a DEF Has
    <3>2. ASSUME NEW k \in 1 .. Len(outbox'[pc]), k > Len(outbox[pc]) PROVE Has(pc, outbox[pc][k].entity)'
      <4>1. k = Len(outbox[pc]) + 1
        BY <2>1, <3>2 DEF Queues
      <4>2. outbox'[pc][k].entity = Item
        BY <2>1, <4>1, <1>b
      <4> QED BY <3>1, <4>2 DEF Has
    <3> QED BY <1>0, <1>2, <2>0, <2>1, <3>2, OutboxGrows
  <2>6. PushKnows(pc)'
    BY <1>0, <1>a, <2>0, <2>1, PushQueues
  <2>7. PullKnows(pc)'
    BY <1>0, <1>a, <1>3, <2>0, PullStays
  <2>8. CursorKnows(pc)'
    BY <1>0, <1>a, <1>2, <1>3, <2>0, CursorStays
  <2>9. Explained(pc)'
    BY <1>a, <2>0, ExplainedStays
  <2> QED BY <2>2, <2>3, <2>4, <2>5, <2>6, <2>7, <2>8, <2>9 DEF PCKnows
<1> QED
  BY <1>1, <1>4, <1>5, <1>6, <1>7, <1>8 DEF PInv

\* Reading the quantity at the desk keeps the invariant.
LEMMA LoadStep ==
    ASSUME PInv, NEW pc \in PCs, NEW call \in {"sale", "cancellation"}, NEW r \in Receipts,
           Load(pc, call, r)
    PROVE  PInv'
<1>0. TypeOK /\ LogKnows /\ CloudKnows /\ \A q \in PCs : SaleIsNew(q) /\ PCKnows(q)
  BY DEF PInv
<1>a. /\ quantity[pc] # None
      /\ \/ /\ call = "sale"
            /\ \A other \in PCs : receipts[other][r] = "NONE" /\ desk[other].receipt # r
            /\ quantity[pc] >= 1
         \/ call = "cancellation" /\ receipts[pc][r] = "COMPLETED"
      /\ desk' = [desk EXCEPT ![pc] = [call |-> call, receipt |-> r, seen |-> quantity[pc]]]
  BY DEF Load
<1>b. /\ quantity' = quantity /\ base' = base /\ outbox' = outbox /\ edits' = edits
      /\ device' = device /\ receipts' = receipts /\ movements' = movements /\ since' = since
      /\ pushing' = pushing /\ catalogue' = catalogue
      /\ ledger' = ledger /\ log' = log /\ pull' = pull /\ gap' = gap /\ disturbed' = disturbed
  BY DEF Load, localVars, cloudVars, history
<1>c. quantity[pc] \in Nat
  BY <1>0, <1>a, TypeFacts DEF PCTypes
<1>d. desk'[pc].call = call /\ desk'[pc].receipt = r /\ desk'[pc].seen = quantity[pc]
  BY <1>0, <1>a DEF TypeOK
<1>1. TypeOK'
  <2>1. desk' \in [PCs -> [call: Calls, receipt: Receipts \cup {None}, seen: Nat \cup {None}]]
    BY <1>0, <1>a, <1>c DEF TypeOK, Calls
  <2> QED BY <1>0, <1>b, <2>1 DEF TypeOK
<1>2. Grows
  BY <1>b DEF Grows
<1>3. LogGrows
  BY <1>0, <1>b, SameLog
<1>4. LogKnows'
  BY <1>0, <1>2, <1>b, LogStays
<1>5. CloudKnows'
  BY <1>0, <1>b, CloudStays
<1>6. ASSUME NEW q \in PCs PROVE SaleIsNew(q)'
  <2>1. \A p \in PCs : p # pc => desk'[p] = desk[p]
    BY <1>0, <1>a DEF TypeOK
  <2> QED BY <1>0, <1>a, <1>b, <1>d, <2>1 DEF SaleIsNew
<1>7. ASSUME NEW q \in PCs, q # pc PROVE PCKnows(q)'
  <2>1. Rests(q)
    BY <1>0, <1>7, <1>a, <1>b DEF Rests, TypeOK
  <2>2. NothingOpened(q)
    BY <1>0, <1>b, NothingOpens
  <2> QED BY <1>0, <1>2, <1>3, <2>1, <2>2, RestingKnows
<1>8. PCKnows(pc)'
  <2>0. /\ DeskKnows(pc) /\ Stocked(pc) /\ Booked(pc) /\ OutboxKnows(pc)
        /\ PushKnows(pc) /\ PullKnows(pc) /\ CursorKnows(pc) /\ Explained(pc)
    BY <1>0 DEF PCKnows
  <2>1. Queues(pc)
    BY <1>0, <1>b, TypeFacts DEF Queues, PCTypes
  <2>2. DeskKnows(pc)'
    <3> DEFINE m == [receipt |-> r, change |-> Change(call), at |-> pc]
    <3>1. m.at = pc /\ m.receipt = r /\ (call = "cancellation" => m.change = 1)
      BY DEF Change
    <3>2. m \notin movements[pc]
      <4> HIDE DEF m
      <4> QED BY <2>0, <3>1, <1>a DEF Booked
    <3>3. Moving(pc)' = m
      BY <1>d DEF Moving
    <3> HIDE DEF m
    <3> QED BY <1>a, <1>b, <1>c, <1>d, <3>2, <3>3 DEF DeskKnows
  <2>3. Stocked(pc)'
    BY <2>0, <1>b, StockedStays
  <2>4. Booked(pc)'
    BY <1>0, <1>2, <2>0, <1>b, BookedStays
  <2>5. OutboxKnows(pc)'
    BY <1>0, <1>2, <2>0, <1>b, OutboxStays
  <2>6. PushKnows(pc)'
    BY <1>0, <1>b, <2>0, <2>1, PushQueues
  <2>7. PullKnows(pc)'
    BY <1>0, <1>b, <1>3, <2>0, PullStays
  <2>8. CursorKnows(pc)'
    BY <1>0, <1>b, <1>2, <1>3, <2>0, CursorStays
  <2>9. Explained(pc)'
    BY <1>b, <2>0, ExplainedStays
  <2> QED BY <2>2, <2>3, <2>4, <2>5, <2>6, <2>7, <2>8, <2>9 DEF PCKnows
<1> QED
  BY <1>1, <1>4, <1>5, <1>6, <1>7, <1>8 DEF PInv

\* A PC that is killed loses its desk, its answer and its open push.
LEMMA KillStep ==
    ASSUME PInv, NEW pc \in PCs, Kill(pc)
    PROVE  PInv'
<1>0. TypeOK /\ LogKnows /\ CloudKnows /\ \A q \in PCs : SaleIsNew(q) /\ PCKnows(q)
  BY DEF PInv
<1>a. desk' = [desk EXCEPT ![pc] = NoCall]
  BY DEF Kill
<1>b. /\ quantity' = quantity /\ base' = base /\ outbox' = outbox /\ edits' = edits
      /\ device' = device /\ receipts' = receipts /\ movements' = movements /\ since' = since
      /\ pushing' = pushing /\ catalogue' = catalogue
      /\ ledger' = ledger /\ log' = log /\ pull' = pull /\ gap' = gap /\ disturbed' = disturbed
  BY DEF Kill, localVars, cloudVars, history
<1>d. desk'[pc] = NoCall /\ NoCall.call = "idle" /\ NoCall.receipt = None
  BY <1>0, <1>a DEF TypeOK, NoCall
<1>1. TypeOK'
  <2>1. desk' \in [PCs -> [call: Calls, receipt: Receipts \cup {None}, seen: Nat \cup {None}]]
    BY <1>0, <1>a DEF TypeOK, Calls, NoCall
  <2> QED BY <1>0, <1>b, <2>1 DEF TypeOK
<1>2. Grows
  BY <1>b DEF Grows
<1>3. LogGrows
  BY <1>0, <1>b, SameLog
<1>4. LogKnows'
  BY <1>0, <1>2, <1>b, LogStays
<1>5. CloudKnows'
  BY <1>0, <1>b, CloudStays
<1>6. ASSUME NEW q \in PCs PROVE SaleIsNew(q)'
  <2>1. \A p \in PCs : p # pc => desk'[p] = desk[p]
    BY <1>0, <1>a DEF TypeOK
  <2>2. ASSUME desk[q].call = "sale" PROVE desk[q].receipt # None
    <3>1. desk[q] # NoCall
      BY <1>d, <2>2
    <3> QED BY <1>0, <3>1, EntityFacts DEF PCKnows, DeskKnows
  <2> QED BY <1>0, <1>b, <1>d, <2>1, <2>2 DEF SaleIsNew
<1>7. ASSUME NEW q \in PCs, q # pc PROVE PCKnows(q)'
  <2>1. Rests(q)
    BY <1>0, <1>7, <1>a, <1>b DEF Rests, TypeOK
  <2>2. NothingOpened(q)
    BY <1>0, <1>b, NothingOpens
  <2> QED BY <1>0, <1>2, <1>3, <2>1, <2>2, RestingKnows
<1>8. PCKnows(pc)'
  <2>0. /\ Stocked(pc) /\ Booked(pc) /\ OutboxKnows(pc)
        /\ PushKnows(pc) /\ PullKnows(pc) /\ CursorKnows(pc) /\ Explained(pc)
    BY <1>0 DEF PCKnows
  <2>1. Queues(pc)
    BY <1>0, <1>b, TypeFacts DEF Queues, PCTypes
  <2>2. DeskKnows(pc)'
    BY <1>d DEF DeskKnows
  <2>3. Stocked(pc)'
    BY <2>0, <1>b, StockedStays
  <2>4. Booked(pc)'
    BY <1>0, <1>2, <2>0, <1>b, BookedStays
  <2>5. OutboxKnows(pc)'
    BY <1>0, <1>2, <2>0, <1>b, OutboxStays
  <2>6. PushKnows(pc)'
    BY <1>0, <1>b, <2>0, <2>1, PushQueues
  <2>7. PullKnows(pc)'
    BY <1>0, <1>b, <1>3, <2>0, PullStays
  <2>8. CursorKnows(pc)'
    BY <1>0, <1>b, <1>2, <1>3, <2>0, CursorStays
  <2>9. Explained(pc)'
    BY <1>b, <2>0, ExplainedStays
  <2> QED BY <2>2, <2>3, <2>4, <2>5, <2>6, <2>7, <2>8, <2>9 DEF PCKnows
<1> QED
  BY <1>1, <1>4, <1>5, <1>6, <1>7, <1>8 DEF PInv

\* A new movement counts once.
LEMMA SumGrows ==
    ASSUME NEW S \in SUBSET Movements, IsFiniteSet(S), NEW m \in Movements, m \notin S
    PROVE  /\ IsFiniteSet(S \cup {m}) /\ Sum(S) \in Int
           /\ Sum(S \cup {m}) = Sum(S) + m.change
<1> DEFINE In(T) == {x \in T : x.change = 1}
           Out(T) == {x \in T : x.change = -1}
<1>1. m.change \in {-1, 1}
  BY EntityFacts
<1>2. IsFiniteSet(In(S)) /\ IsFiniteSet(Out(S))
  BY FS_Subset
<1>3. Cardinality(In(S)) \in Nat /\ Cardinality(Out(S)) \in Nat
  BY <1>2, FS_CardinalityType
<1>4. IsFiniteSet(S \cup {m})
  BY FS_AddElement
<1>5. /\ Cardinality(In(S) \cup {m}) = Cardinality(In(S)) + 1
      /\ Cardinality(Out(S) \cup {m}) = Cardinality(Out(S)) + 1
  <2>1. m \notin In(S) /\ m \notin Out(S)
    OBVIOUS
  <2> HIDE DEF In, Out
  <2> QED BY <1>2, <2>1, FS_AddElement
<1>6. CASE m.change = 1
  <2>1. In(S \cup {m}) = In(S) \cup {m} /\ Out(S \cup {m}) = Out(S)
    BY <1>6
  <2>2. /\ Sum(S) = Cardinality(In(S)) - Cardinality(Out(S))
        /\ Sum(S \cup {m}) = Cardinality(In(S \cup {m})) - Cardinality(Out(S \cup {m}))
    BY DEF Sum
  <2>3. Cardinality(In(S \cup {m})) = Cardinality(In(S)) + 1 /\ Cardinality(Out(S \cup {m})) = Cardinality(Out(S))
    <3> HIDE DEF In, Out
    <3> QED BY <1>5, <2>1
  <2>4. PICK a \in Nat, b \in Nat : a = Cardinality(In(S)) /\ b = Cardinality(Out(S))
    BY <1>3
  <2>5. Sum(S) = a - b /\ Sum(S \cup {m}) = (a - b) + (1)
    <3> HIDE DEF In, Out
    <3> QED BY <2>2, <2>3, <2>4
  <2> HIDE DEF In, Out
  <2> QED BY <1>4, <1>6, <2>4, <2>5
<1>7. CASE m.change = -1
  <2>1. In(S \cup {m}) = In(S) /\ Out(S \cup {m}) = Out(S) \cup {m}
    BY <1>7
  <2>2. /\ Sum(S) = Cardinality(In(S)) - Cardinality(Out(S))
        /\ Sum(S \cup {m}) = Cardinality(In(S \cup {m})) - Cardinality(Out(S \cup {m}))
    BY DEF Sum
  <2>3. Cardinality(In(S \cup {m})) = Cardinality(In(S)) /\ Cardinality(Out(S \cup {m})) = Cardinality(Out(S)) + 1
    <3> HIDE DEF In, Out
    <3> QED BY <1>5, <2>1
  <2>4. PICK a \in Nat, b \in Nat : a = Cardinality(In(S)) /\ b = Cardinality(Out(S))
    BY <1>3
  <2>5. Sum(S) = a - b /\ Sum(S \cup {m}) = (a - b) + (-1)
    <3> HIDE DEF In, Out
    <3> QED BY <2>2, <2>3, <2>4
  <2> HIDE DEF In, Out
  <2> QED BY <1>4, <1>7, <2>4, <2>5
<1> QED
  BY <1>1, <1>6, <1>7

\* Booking a movement keeps the invariant: the quantity and the movements move together.
LEMMA BookStep ==
    ASSUME PInv, NEW pc \in PCs, Book(pc)
    PROVE  PInv'
<1>0. TypeOK /\ LogKnows /\ CloudKnows /\ \A q \in PCs : SaleIsNew(q) /\ PCKnows(q)
  BY DEF PInv
<1>k. /\ DeskKnows(pc) /\ Stocked(pc) /\ Booked(pc) /\ OutboxKnows(pc)
      /\ PushKnows(pc) /\ PullKnows(pc) /\ CursorKnows(pc) /\ Explained(pc)
  BY <1>0 DEF PCKnows
<1>d. /\ desk[pc] # NoCall /\ desk[pc].call \in {"sale", "cancellation"}
      /\ desk[pc].receipt \in Receipts /\ desk[pc].seen \in Nat
      /\ desk[pc].call = "sale" => desk[pc].seen >= 1
      /\ quantity[pc] # None /\ Moving(pc) \notin movements[pc]
  BY <1>k DEF Book, DeskKnows
<1>e. PICK r \in Receipts, seen \in Nat, call \in {"sale", "cancellation"} :
        r = desk[pc].receipt /\ seen = desk[pc].seen /\ call = desk[pc].call
  BY <1>d
<1>f. PICK status \in {"COMPLETED", "CANCELLED"} :
        status = IF call = "sale" THEN "COMPLETED" ELSE "CANCELLED"
  OBVIOUS
<1>g. PICK moved : moved = [receipt |-> r, change |-> Change(call), at |-> pc]
  OBVIOUS
<1>h. /\ moved \in Movements /\ moved.receipt = r /\ moved.change = Change(call) /\ moved.at = pc
      /\ moved = Moving(pc) /\ Change(call) \in {-1, 1}
  BY <1>e, <1>g DEF Movements, Change, Moving
<1>i. PICK rows : rows = <<Plain(moved, "CREATE"), Plain(Sale(r), IF call = "sale" THEN "CREATE" ELSE "UPDATE")>>
  OBVIOUS
<1>a. /\ quantity' = [quantity EXCEPT ![pc] = seen + Change(call)]
      /\ receipts' = [receipts EXCEPT ![pc] = [receipts[pc] EXCEPT ![r] = status]]
      /\ movements' = [movements EXCEPT ![pc] = movements[pc] \cup {moved}]
      /\ outbox' = [outbox EXCEPT ![pc] = outbox[pc] \o rows]
      /\ desk' = [desk EXCEPT ![pc] = NoCall]
      /\ disturbed' = IF seen = quantity[pc] THEN disturbed ELSE disturbed \cup {pc}
  BY <1>e, <1>f, <1>g, <1>i DEF Book, Change
<1>b. /\ base' = base /\ edits' = edits /\ device' = device /\ since' = since /\ pushing' = pushing
      /\ catalogue' = catalogue /\ ledger' = ledger /\ log' = log /\ pull' = pull /\ gap' = gap
  BY DEF Book, cloudVars
<1>j. seen + Change(call) \in Nat
  BY <1>d, <1>e DEF Change
<1>l. /\ rows \in Seq(Row) /\ Len(rows) = 2 /\ rows[1].entity = moved /\ rows[2].entity = Sale(r)
  <2>1. /\ Plain(moved, "CREATE") \in Row /\ Plain(moved, "CREATE").entity = moved
        /\ \A o \in {"CREATE", "UPDATE"} : Plain(Sale(r), o) \in Row /\ Plain(Sale(r), o).entity = Sale(r)
    BY <1>h, EntityFacts DEF Plain, Row
  <2> QED BY <1>i, <2>1
<1>m. outbox[pc] \in Seq(Row) /\ Len(outbox[pc]) \in Nat /\ receipts[pc] \in [Receipts -> Statuses]
      /\ movements[pc] \in SUBSET Movements /\ IsFiniteSet(movements[pc])
  BY <1>0, <1>k, TypeFacts DEF PCTypes, Stocked
<1>n. /\ quantity'[pc] = seen + Change(call)
      /\ receipts'[pc] = [receipts[pc] EXCEPT ![r] = status]
      /\ movements'[pc] = movements[pc] \cup {moved}
      /\ outbox'[pc] = outbox[pc] \o rows
      /\ desk'[pc] = NoCall
  BY <1>0, <1>a DEF TypeOK
<1>o. \A q \in PCs : q # pc => /\ quantity'[q] = quantity[q] /\ receipts'[q] = receipts[q]
                               /\ movements'[q] = movements[q] /\ outbox'[q] = outbox[q]
                               /\ desk'[q] = desk[q]
  BY <1>0, <1>a DEF TypeOK
<1>p. receipts'[pc][r] = status /\ \A x \in Receipts : x # r => receipts'[pc][x] = receipts[pc][x]
  BY <1>m, <1>n
<1>q. /\ IsFiniteSet(movements'[pc]) /\ Sum(movements[pc]) \in Int
      /\ Sum(movements'[pc]) = Sum(movements[pc]) + moved.change
  <2>1. PICK S \in SUBSET Movements : S = movements[pc]
    BY <1>m
  <2>2. IsFiniteSet(S) /\ moved \notin S /\ moved \in Movements
    BY <1>d, <1>h, <1>m, <2>1
  <2>3. /\ IsFiniteSet(S \cup {moved}) /\ Sum(S) \in Int
        /\ Sum(S \cup {moved}) = Sum(S) + moved.change
    BY <2>2, SumGrows
  <2> QED BY <1>n, <2>1, <2>3
<1>1. TypeOK'
  <2>1. quantity' \in [PCs -> Nat \cup {None}]
    BY <1>0, <1>a, <1>j DEF TypeOK
  <2>2. receipts' \in [PCs -> [Receipts -> Statuses]]
    <3>1. [receipts[pc] EXCEPT ![r] = status] \in [Receipts -> Statuses]
      BY <1>m DEF Statuses
    <3> QED BY <1>0, <1>a, <3>1 DEF TypeOK
  <2>3. movements' \in [PCs -> SUBSET Movements]
    BY <1>0, <1>a, <1>h, <1>m DEF TypeOK
  <2>4. outbox' \in [PCs -> Seq(Row)]
    <3>1. outbox[pc] \o rows \in Seq(Row)
      BY <1>l, <1>m, ConcatProperties
    <3> QED BY <1>0, <1>a, <3>1 DEF TypeOK
  <2>5. desk' \in [PCs -> [call: Calls, receipt: Receipts \cup {None}, seen: Nat \cup {None}]]
    BY <1>0, <1>a DEF TypeOK, Calls, NoCall
  <2>6. disturbed' \subseteq PCs
    BY <1>0, <1>a DEF TypeOK
  <2> QED BY <1>0, <1>b, <2>1, <2>2, <2>3, <2>4, <2>5, <2>6 DEF TypeOK
<1>2. Grows
  <2>1. ASSUME NEW q \in PCs
        PROVE  /\ quantity[q] # None => quantity'[q] # None
               /\ movements[q] \subseteq movements'[q]
               /\ \A x \in Receipts : receipts[q][x] # "NONE" => receipts'[q][x] # "NONE"
    <3>1. CASE q # pc
      BY <1>o, <3>1
    <3>2. CASE q = pc
      <4>1. quantity'[pc] # None
        BY <1>j, <1>n, EntityFacts
      <4>2. \A x \in Receipts : receipts[pc][x] # "NONE" => receipts'[pc][x] # "NONE"
        BY <1>f, <1>p
      <4> QED BY <3>2, <4>1, <4>2, <1>n
    <3> QED BY <3>1, <3>2
  <2> QED BY <2>1 DEF Grows
<1>3. LogGrows
  BY <1>0, <1>b, SameLog
<1>4. LogKnows'
  BY <1>0, <1>2, <1>b, LogStays
<1>5. CloudKnows'
  BY <1>0, <1>b, CloudStays
<1>6. ASSUME NEW q \in PCs PROVE SaleIsNew(q)'
  <2>1. CASE q = pc
    BY <1>n, <2>1 DEF SaleIsNew, NoCall
  <2>2. CASE q # pc
    <3> SUFFICES ASSUME desk[q].call = "sale"
                 PROVE \A other \in PCs : /\ receipts'[other][desk[q].receipt] = "NONE"
                                          /\ other # q => desk'[other].receipt # desk[q].receipt
      BY <2>2, <1>o DEF SaleIsNew
    <3>1. \A other \in PCs : /\ receipts[other][desk[q].receipt] = "NONE"
                             /\ other # q => desk[other].receipt # desk[q].receipt
      BY <1>0 DEF SaleIsNew
    <3>2. desk[q].receipt \in Receipts
      <4>1. desk[q] # NoCall
        BY DEF NoCall
      <4> QED BY <1>0, <4>1 DEF PCKnows, DeskKnows
    <3>3. r # desk[q].receipt
      BY <1>e, <2>2, <3>1
    <3>4. receipts'[pc][desk[q].receipt] = "NONE"
      BY <1>p, <3>1, <3>2, <3>3
    <3>5. desk'[pc].receipt # desk[q].receipt
      BY <1>n, <3>2, EntityFacts DEF NoCall
    <3> QED BY <1>o, <3>1, <3>4, <3>5
  <2> QED BY <2>1, <2>2
<1>7. ASSUME NEW q \in PCs, q # pc PROVE PCKnows(q)'
  <2>1. Rests(q)
    <3>1. q \notin disturbed' => q \notin disturbed
      BY <1>a
    <3> QED BY <1>7, <1>o, <1>b, <3>1 DEF Rests
  <2>2. NothingOpened(q)
    BY <1>0, <1>b, NothingOpens
  <2> QED BY <1>0, <1>2, <1>3, <2>1, <2>2, RestingKnows
<1>8. PCKnows(pc)'
  <2>1. /\ Len(outbox'[pc]) = Len(outbox[pc]) + 2
        /\ \A k \in 1 .. Len(outbox[pc]) : outbox'[pc][k] = outbox[pc][k]
        /\ outbox'[pc][Len(outbox[pc]) + 1] = rows[1] /\ outbox'[pc][Len(outbox[pc]) + 2] = rows[2]
    <3>1. PICK s \in Seq(Row) : s = outbox[pc]
      BY <1>m
    <3>2. /\ Len(s) \in Nat /\ Len(s \o rows) = Len(s) + Len(rows)
          /\ \A i \in 1 .. Len(s) + Len(rows) :
               (s \o rows)[i] = IF i <= Len(s) THEN s[i] ELSE rows[i - Len(s)]
      BY <1>l, <1>m, <3>1, ConcatProperties
    <3>3. /\ Len(s) + 1 \in 1 .. Len(s) + 2 /\ Len(s) + 2 \in 1 .. Len(s) + 2
          /\ (Len(s) + 1) - Len(s) = 1 /\ (Len(s) + 2) - Len(s) = 2
      BY <3>2
    <3>4. (s \o rows)[Len(s) + 1] = rows[1] /\ (s \o rows)[Len(s) + 2] = rows[2]
      BY <1>l, <3>2, <3>3
    <3>5. \A i \in 1 .. Len(s) : (s \o rows)[i] = s[i]
      BY <1>l, <3>2
    <3> QED BY <1>l, <1>n, <3>1, <3>2, <3>4, <3>5
  <2>a. Queues(pc)
    BY <1>m, <2>1 DEF Queues
  <2>2. DeskKnows(pc)'
    BY <1>n DEF DeskKnows
  <2>3. Stocked(pc)'
    <3>1. quantity'[pc] # None /\ base'[pc] # None
      BY <1>b, <1>d, <1>j, <1>k, <1>n, EntityFacts DEF Stocked
    <3>2. IsFiniteSet(movements'[pc])
      BY <1>q
    <3> QED BY <1>k, <1>b, <3>1, <3>2 DEF Stocked
  <2>4. Booked(pc)'
    <3>1. ASSUME NEW x \in movements[pc]
          PROVE  /\ x \in movements'[x.at]
                 /\ x.at = pc => /\ receipts'[pc][x.receipt] # "NONE"
                                 /\ x.change = 1 => receipts'[pc][x.receipt] = "CANCELLED"
      <4>1. x.at \in PCs /\ x.receipt \in Receipts
        BY <1>m, EntityFacts
      <4>2. /\ x \in movements[x.at]
            /\ x.at = pc => /\ receipts[pc][x.receipt] # "NONE"
                            /\ x.change = 1 => receipts[pc][x.receipt] = "CANCELLED"
        BY <1>k DEF Booked
      <4>3. x \in movements'[x.at]
        BY <1>2, <4>1, <4>2 DEF Grows
      <4>4. call = "sale" => receipts[pc][r] = "NONE"
        BY <1>0, <1>e DEF SaleIsNew
      <4> QED BY <1>f, <1>p, <4>1, <4>2, <4>3, <4>4
    <3>2. /\ moved \in movements'[moved.at]
          /\ receipts'[pc][moved.receipt] # "NONE"
          /\ moved.change = 1 => receipts'[pc][moved.receipt] = "CANCELLED"
      BY <1>f, <1>h, <1>n, <1>p DEF Change
    <3> QED BY <1>n, <3>1, <3>2 DEF Booked
  <2>5. OutboxKnows(pc)'
    <3>1. Has(pc, moved)' /\ Has(pc, Sale(r))'
      BY <1>f, <1>h, <1>n, <1>p, EntityFacts DEF Has
    <3>2. ASSUME NEW k \in 1 .. Len(outbox'[pc]), k > Len(outbox[pc]) PROVE Has(pc, outbox[pc][k].entity)'
      <4>1. k = Len(outbox[pc]) + 1 \/ k = Len(outbox[pc]) + 2
        BY <1>m, <2>1, <3>2
      <4>2. outbox'[pc][k].entity = moved \/ outbox'[pc][k].entity = Sale(r)
        BY <2>1, <4>1, <1>l
      <4> QED BY <3>1, <4>2 DEF Has
    <3> QED BY <1>0, <1>2, <1>k, <2>a, <3>2, OutboxGrows
  <2>6. PushKnows(pc)'
    BY <1>0, <1>b, <1>k, <2>a, PushQueues
  <2>7. PullKnows(pc)'
    BY <1>0, <1>b, <1>3, <1>k, PullStays
  <2>8. CursorKnows(pc)'
    BY <1>0, <1>b, <1>2, <1>3, <1>k, CursorStays
  <2>9. Explained(pc)'
    <3> SUFFICES ASSUME pc \notin disturbed' PROVE quantity'[pc] = base'[pc] + Sum(movements'[pc])
      BY DEF Explained, Sum
    <3>1. seen = quantity[pc] /\ pc \notin disturbed
      BY <1>a
    <3>2. quantity[pc] = base[pc] + Sum(movements[pc])
      BY <1>d, <1>k, <3>1 DEF Explained
    <3>3. Sum(movements[pc]) \in Int /\ Sum(movements'[pc]) = Sum(movements[pc]) + Change(call)
      BY <1>h, <1>q
    <3>4. base[pc] \in Nat
      BY <1>0, <1>d, <1>k, TypeFacts DEF Stocked, PCTypes
    <3> QED BY <1>b, <1>h, <1>n, <3>1, <3>2, <3>3, <3>4
  <2> QED BY <2>2, <2>3, <2>4, <2>5, <2>6, <2>7, <2>8, <2>9 DEF PCKnows
<1> QED
  BY <1>1, <1>4, <1>5, <1>6, <1>7, <1>8 DEF PInv

-------------------------------------------------------------------------------
\* Steps of the worker that change the pull only

\* What a step that changes nothing but the pull of one PC must show of it.
LEMMA PullingStep ==
    ASSUME PInv, NEW pc \in PCs, localVars' = localVars, desk' = desk, pushing' = pushing,
           cloudVars' = cloudVars, history' = history,
           NEW answer, pull' = [pull EXCEPT ![pc] = answer],
           answer \in [phase: Phases, rows: Seq(Mutation \cup {None}), clock: 0 .. MaxLog,
                       seen: Nat \cup {None}, short: BOOLEAN],
           answer.seen # None => quantity[pc] # None,
           answer.phase = "loaded" => answer.seen # None,
           pull'[pc] = answer => PullKnows(pc)'
    PROVE  PInv'
<1>0. TypeOK /\ LogKnows /\ CloudKnows /\ \A q \in PCs : SaleIsNew(q) /\ PCKnows(q)
  BY DEF PInv
<1>b. /\ quantity' = quantity /\ base' = base /\ outbox' = outbox /\ edits' = edits
      /\ device' = device /\ receipts' = receipts /\ movements' = movements /\ since' = since
      /\ pushing' = pushing /\ catalogue' = catalogue /\ desk' = desk
      /\ ledger' = ledger /\ log' = log /\ gap' = gap /\ disturbed' = disturbed
  BY DEF localVars, cloudVars, history
<1>d. pull'[pc] = answer
  BY <1>0 DEF TypeOK
<1>1. TypeOK'
  <2>1. pull' \in [PCs -> [phase: Phases, rows: Seq(Mutation \cup {None}), clock: 0 .. MaxLog,
                           seen: Nat \cup {None}, short: BOOLEAN]]
    BY <1>0 DEF TypeOK
  <2> QED BY <1>0, <1>b, <2>1 DEF TypeOK
<1>2. Grows
  BY <1>b DEF Grows
<1>3. LogGrows
  BY <1>0, <1>b, SameLog
<1>4. LogKnows'
  BY <1>0, <1>2, <1>b, LogStays
<1>5. CloudKnows'
  BY <1>0, <1>b, CloudStays
<1>6. ASSUME NEW q \in PCs PROVE SaleIsNew(q)'
  BY <1>0, <1>b, SaleStays
<1>7. ASSUME NEW q \in PCs, q # pc PROVE PCKnows(q)'
  <2>1. Rests(q)
    BY <1>0, <1>7, <1>b DEF Rests, TypeOK
  <2>2. NothingOpened(q)
    BY <1>0, <1>b, NothingOpens
  <2> QED BY <1>0, <1>2, <1>3, <2>1, <2>2, RestingKnows
<1>8. PCKnows(pc)'
  <2>0. /\ DeskKnows(pc) /\ Stocked(pc) /\ Booked(pc) /\ OutboxKnows(pc)
        /\ PushKnows(pc) /\ PullKnows(pc) /\ CursorKnows(pc) /\ Explained(pc)
    BY <1>0 DEF PCKnows
  <2>1. Queues(pc)
    BY <1>0, <1>b, TypeFacts DEF Queues, PCTypes
  <2>2. DeskKnows(pc)'
    BY <2>0, <1>b, DeskStays
  <2>3. Stocked(pc)'
    BY <2>0, <1>b, <1>d DEF Stocked
  <2>4. Booked(pc)'
    BY <1>0, <1>2, <2>0, <1>b, BookedStays
  <2>5. OutboxKnows(pc)'
    BY <1>0, <1>2, <2>0, <1>b, OutboxStays
  <2>6. PushKnows(pc)'
    BY <1>0, <1>b, <2>0, <2>1, PushQueues
  <2>7. PullKnows(pc)'
    BY <1>d
  <2>8. CursorKnows(pc)'
    BY <1>0, <1>b, <1>2, <1>3, <2>0, CursorStays
  <2>9. Explained(pc)'
    BY <1>b, <2>0, ExplainedStays
  <2> QED BY <2>2, <2>3, <2>4, <2>5, <2>6, <2>7, <2>8, <2>9 DEF PCKnows
<1> QED
  BY <1>1, <1>4, <1>5, <1>6, <1>7, <1>8 DEF PInv

\* No pull is one that knows.
LEMMA NoPullKnows ==
    ASSUME NEW pc \in PCs, Len(log') \in Nat, pull'[pc] = NoPull
    PROVE  /\ PullKnows(pc)'
           /\ NoPull \in [phase: Phases, rows: Seq(Mutation \cup {None}), clock: 0 .. MaxLog,
                          seen: Nat \cup {None}, short: BOOLEAN]
           /\ NoPull.seen = None /\ NoPull.phase = "idle"
<1>1. /\ NoPull.phase = "idle" /\ NoPull.rows = <<>> /\ NoPull.clock = 0 /\ NoPull.seen = None
  BY DEF NoPull
<1>2. Len(<<>>) = 0 /\ 1 .. 0 = {} /\ <<>> \in Seq(Mutation \cup {None})
  OBVIOUS
<1>3. PullKnows(pc)'
  BY <1>1, <1>2 DEF PullKnows
<1>4. NoPull \in [phase: Phases, rows: Seq(Mutation \cup {None}), clock: 0 .. MaxLog,
                  seen: Nat \cup {None}, short: BOOLEAN]
  <2>1. 0 \in 0 .. MaxLog
    BY PullAssumption
  <2> QED BY <1>2, <2>1 DEF NoPull, Phases
<1> QED BY <1>1, <1>3, <1>4

\* A pull that fails keeps the invariant.
LEMMA FailStep ==
    ASSUME PInv, NEW pc \in PCs, Fail(pc)
    PROVE  PInv'
<1>0. TypeOK
  BY DEF PInv
<1>1. since' = since
  BY <1>0 DEF Fail, CursorAfterFailure, TypeOK
<1>2. /\ localVars' = localVars /\ desk' = desk /\ pushing' = pushing /\ cloudVars' = cloudVars
      /\ history' = history /\ pull' = [pull EXCEPT ![pc] = NoPull] /\ log' = log
  BY <1>1 DEF Fail, localVars, cloudVars
<1>3. pull'[pc] = NoPull /\ Len(log') \in Nat
  BY <1>0, <1>2, TypeFacts DEF TypeOK, CloudTypes
<1>4. /\ PullKnows(pc)'
      /\ NoPull \in [phase: Phases, rows: Seq(Mutation \cup {None}), clock: 0 .. MaxLog,
                     seen: Nat \cup {None}, short: BOOLEAN]
      /\ NoPull.seen = None /\ NoPull.phase = "idle"
  BY <1>3, NoPullKnows
<1> QED BY <1>2, <1>4, PullingStep

\* Reading the rows an answer is applied to keeps the invariant.
LEMMA LoadForApplyStep ==
    ASSUME PInv, NEW pc \in PCs, LoadForApply(pc)
    PROVE  PInv'
<1>0. TypeOK /\ PullKnows(pc) /\ DeskKnows(pc)
  BY DEF PInv, PCKnows
<1>1. PICK answer : answer = [pull[pc] EXCEPT !.phase = "loaded", !.seen = quantity[pc]]
  OBVIOUS
<1>2. /\ localVars' = localVars /\ desk' = desk /\ pushing' = pushing /\ cloudVars' = cloudVars
      /\ history' = history /\ pull' = [pull EXCEPT ![pc] = answer] /\ log' = log /\ since' = since
  BY <1>1 DEF LoadForApply, localVars, cloudVars
<1>3. quantity[pc] # None /\ quantity[pc] \in Nat
  BY <1>0, TypeFacts DEF LoadForApply, DeskKnows, PCTypes
<1>4. /\ answer \in [phase: Phases, rows: Seq(Mutation \cup {None}), clock: 0 .. MaxLog,
                     seen: Nat \cup {None}, short: BOOLEAN]
      /\ answer.seen = quantity[pc] /\ answer.phase = "loaded"
      /\ answer.rows = pull[pc].rows /\ answer.clock = pull[pc].clock /\ answer.short = pull[pc].short
  <2>1. pull[pc] \in [phase: Phases, rows: Seq(Mutation \cup {None}), clock: 0 .. MaxLog,
                      seen: Nat \cup {None}, short: BOOLEAN]
    BY <1>0, TypeFacts DEF PCTypes
  <2> QED BY <1>1, <1>3, <2>1 DEF Phases
<1>5. ASSUME pull'[pc] = answer PROVE PullKnows(pc)'
  BY <1>0, <1>2, <1>4, <1>5 DEF PullKnows
<1> QED BY <1>2, <1>3, <1>4, <1>5, PullingStep

\* Asking the cloud keeps the invariant: the answer is that of the log after the cursor.
LEMMA AskStep ==
    ASSUME PInv, NEW pc \in PCs, Ask(pc)
    PROVE  PInv'
<1>0. TypeOK /\ PullKnows(pc) /\ CloudKnows /\ LogKnows
  BY DEF PInv, PCKnows
<1> DEFINE places == Answered(pc)
           firsts == {i \in places : \A j \in places : log[j].entity = log[i].entity => i <= j}
           rows == [i \in 1 .. Len(log) |-> IF i \in firsts THEN Payload(log[i].entity) ELSE None]
<1>1. PICK answer : answer = [phase |-> "answered", clock |-> Len(log), seen |-> None, rows |-> rows,
                              short |-> After(pc) # places]
  OBVIOUS
<1>2. /\ localVars' = localVars /\ desk' = desk /\ pushing' = pushing /\ cloudVars' = cloudVars
      /\ history' = history /\ pull' = [pull EXCEPT ![pc] = answer] /\ log' = log /\ since' = since
  BY <1>1 DEF Ask, localVars, cloudVars
<1>3. /\ Len(log) \in Nat /\ Len(log) <= MaxLog /\ since[pc] \in Nat
      /\ \A i \in 1 .. Len(log) : log[i].entity \in Entities
  BY <1>0, TypeFacts DEF CloudTypes, PCTypes, LogKnows
<1>4. places \subseteq 1 .. Len(log) /\ \A i \in places : log[i].committed
  BY DEF Answered, After
<1>5. ASSUME NEW i \in places
      PROVE  /\ Payload(log[i].entity) \in Mutation /\ Payload(log[i].entity).entity = log[i].entity
             /\ log[i].entity \in Sales => Payload(log[i].entity).status # "NONE"
  <2>1. PICK e \in Entities : e = log[i].entity
    BY <1>3, <1>4
  <2>2. /\ \A r \in Receipts : e = Sale(r) => ledger[r] # "NONE"
        /\ e = Item => catalogue.quantity # None
    BY <1>0, <1>4, <2>1 DEF CloudKnows
  <2>3. /\ catalogue.quantity \in Nat \cup {None} /\ ledger \in [Receipts -> Statuses]
    BY <1>0, TypeFacts DEF CloudTypes
  <2>4. e \in Sales => ledger[e.receipt] \in Statuses /\ ledger[e.receipt] # "NONE"
    BY <2>2, <2>3, EntityFacts
  <2>5. /\ Payload(e).entity = e
        /\ Payload(e).status = IF e \in Sales THEN ledger[e.receipt] ELSE "NONE"
    BY DEF Payload
  <2>6. Payload(e) \in Mutation
    BY <2>2, <2>3, <2>4 DEF Payload, Mutation, Statuses
  <2> QED BY <2>1, <2>4, <2>5, <2>6
<1>6. firsts \subseteq places
  OBVIOUS
<1>7. /\ rows \in Seq(Mutation \cup {None}) /\ Len(rows) = Len(log)
      /\ \A i \in 1 .. Len(log) : rows[i] = IF i \in firsts THEN Payload(log[i].entity) ELSE None
  <2>1. \A i \in 1 .. Len(log) : (IF i \in firsts THEN Payload(log[i].entity) ELSE None) \in Mutation \cup {None}
    <3> HIDE DEF places, firsts
    <3> QED BY <1>5, <1>6
  <2> HIDE DEF firsts
  <2>2. rows \in [1 .. Len(log) -> Mutation \cup {None}]
    BY <2>1
  <2> QED BY <1>3, <2>2
<1>8. /\ \A i \in 1 .. Len(log) : rows[i] # None => i \in firsts /\ rows[i].entity = log[i].entity
      /\ \A i \in firsts : rows[i] # None /\ rows[i].entity = log[i].entity
      /\ \A i \in firsts : rows[i].entity \in Sales => rows[i].status # "NONE"
  <2> HIDE DEF places, firsts, rows
  <2> QED BY <1>4, <1>5, <1>6, <1>7, EntityFacts
<1>9. ASSUME NEW i \in firsts, NEW j \in firsts, log[i].entity = log[j].entity PROVE i = j
  <2>1. i <= j /\ j <= i /\ i \in Nat /\ j \in Nat
    BY <1>3, <1>4, <1>9
  <2> QED BY <2>1
<1>10. ASSUME NEW i \in places PROVE \E k \in firsts : log[k].entity = log[i].entity
  <2> DEFINE named == {j \in places : log[j].entity = log[i].entity}
  <2>1. named \in SUBSET Nat /\ named # {}
    BY <1>4
  <2>2. Min(named) \in named /\ \A j \in named : Min(named) <= j
    <3> HIDE DEF named
    <3> QED BY <2>1, MinExists
  <2>3. Min(named) \in firsts
    BY <2>2
  <2> QED BY <2>2, <2>3
<1>11. ASSUME After(pc) = places, NEW i \in 1 .. Len(log), i > since[pc], log[i].pc # pc
       PROVE  i \in places
  BY <1>11 DEF After, Foreign
<1>12. /\ answer.phase = "answered" /\ answer.clock = Len(log) /\ answer.seen = None
       /\ answer.rows = rows /\ (~ answer.short => After(pc) = places)
  BY <1>1
<1>13. answer \in [phase: Phases, rows: Seq(Mutation \cup {None}), clock: 0 .. MaxLog,
                   seen: Nat \cup {None}, short: BOOLEAN]
  <2>1. Len(log) \in 0 .. MaxLog
    BY <1>3, PullAssumption
  <2> HIDE DEF rows, places
  <2> QED BY <1>1, <1>7, <2>1 DEF Phases
<1>14. ASSUME pull'[pc] = answer PROVE PullKnows(pc)'
  <2> HIDE DEF rows, places, firsts
  <2>1. \A i \in 1 .. Len(rows) : rows[i] # None =>
          /\ rows[i].entity = log'[i].entity
          /\ rows[i].entity \in Sales => rows[i].status # "NONE"
    BY <1>2, <1>7, <1>8
  <2>2. \A i, j \in 1 .. Len(rows) :
          rows[i] # None /\ rows[j] # None /\ rows[i].entity = rows[j].entity => i = j
    BY <1>7, <1>8, <1>9
  <2>3. ~ answer.short =>
          \A i \in 1 .. Len(rows) : i > since'[pc] /\ log'[i].pc # pc =>
            \E k \in 1 .. Len(rows) : rows[k] # None /\ rows[k].entity = log'[i].entity
    <3> SUFFICES ASSUME ~ answer.short, NEW i \in 1 .. Len(log), i > since[pc], log[i].pc # pc
                 PROVE  \E k \in 1 .. Len(log) : rows[k] # None /\ rows[k].entity = log[i].entity
      BY <1>2, <1>7
    <3>1. i \in places
      BY <1>11, <1>12
    <3>2. PICK k \in firsts : log[k].entity = log[i].entity
      BY <1>10, <3>1
    <3> QED BY <1>4, <1>6, <1>8, <3>2
  <2>4. /\ answer.clock = Len(rows) /\ Len(rows) <= Len(log') /\ answer.phase # "idle"
    BY <1>2, <1>3, <1>7, <1>12
  <2> QED BY <1>12, <1>14, <2>1, <2>2, <2>3, <2>4 DEF PullKnows
<1> QED BY <1>2, <1>12, <1>13, <1>14, PullingStep

-------------------------------------------------------------------------------
\* Pushing

\* The row a request adds to the log for one of its rows.
Logged(pc, row) == [entity |-> row.entity, pc |-> pc, device |-> device[pc], committed |-> FALSE]

\* The log grows row by row.
LEMMA LoggingEquation ==
    ASSUME TypeOK, NEW pc \in PCs, NEW sent \in Seq(Row), NEW first
    PROVE  LET g == Logging(pc, sent, first)
           IN  /\ g[0] = log
               /\ \A i \in 1 .. Len(sent) :
                    g[i] = IF Accepted(sent[i], first) THEN Append(g[i - 1], Logged(pc, sent[i]))
                           ELSE g[i - 1]
<1> DEFINE n == Len(sent)
           X == Seq(LogRow)
           Step(x, i) == IF Accepted(sent[i], first) THEN Append(x, Logged(pc, sent[i])) ELSE x
           G(g) == [i \in 0 .. n |-> IF i = 0 THEN log ELSE Step(g[i - 1], i)]
           F == [p \in X \X (1 .. n) |-> Step(p[1], p[2])]
<1>1. n \in Nat /\ log \in X /\ \A i \in 1 .. n : sent[i] \in Row
  BY TypeFacts DEF CloudTypes
<1>2. \A i \in 1 .. n : Logged(pc, sent[i]) \in LogRow
  <2>1. device[pc] \in Nat
    BY TypeFacts DEF PCTypes
  <2> QED BY <1>1, <2>1 DEF Logged, LogRow, Row
<1>3. \A x \in X, i \in 1 .. n : Step(x, i) \in X
  BY <1>2
<1> HIDE DEF X, Step
<1>4. F \in [X \X (1 .. n) -> X] /\ \A x \in X, i \in 1 .. n : F[<<x, i>>] = Step(x, i)
  BY <1>3
<1> HIDE DEF F
<1>5. PICK f \in [0 .. n -> X] : Steps(f, log, F, n)
  BY <1>1, <1>4, Iteration
<1>6. f = G(f)
  <2>1. f = [i \in 0 .. n |-> IF i = 0 THEN log ELSE F[<<f[i - 1], i>>]]
    BY <1>5 DEF Steps
  <2>2. ASSUME NEW i \in 1 .. n PROVE F[<<f[i - 1], i>>] = Step(f[i - 1], i)
    <3>1. i - 1 \in 0 .. n
      BY <1>1
    <3>2. f[i - 1] \in X
      BY <1>5, <3>1
    <3> QED BY <1>4, <3>2
  <2>3. \A i \in 0 .. n : i # 0 => i \in 1 .. n
    BY <1>1
  <2> QED BY <2>1, <2>2, <2>3
<1>7. Logging(pc, sent, first) = CHOOSE g : g = G(g)
  BY DEF Logging, Step, Logged
<1> HIDE DEF G
<1>8. PICK g : g = Logging(pc, sent, first) /\ g = G(g)
  BY <1>6, <1>7
<1>9. g[0] = log /\ \A i \in 1 .. n : g[i] = Step(g[i - 1], i)
  BY <1>1, <1>8 DEF G
<1> QED BY <1>8, <1>9 DEF Step

\* What a request adds is its own, and of what it sends.
LEMMA LoggingAdds ==
    ASSUME TypeOK, NEW pc \in PCs, NEW sent \in Seq(Row), NEW first,
           NEW grown, grown = Logging(pc, sent, first)[Len(sent)]
    PROVE  /\ grown \in Seq(LogRow) /\ Len(grown) \in Nat /\ Len(log) <= Len(grown)
           /\ \A i \in 1 .. Len(log) : grown[i] = log[i]
           /\ \A i \in 1 .. Len(grown) : i > Len(log) =>
                /\ grown[i].pc = pc /\ ~ grown[i].committed
                /\ \E k \in 1 .. Len(sent) : grown[i].entity = sent[k].entity
<1>1. PICK g : /\ g = Logging(pc, sent, first)
               /\ g[0] = log
               /\ \A i \in 1 .. Len(sent) :
                    g[i] = IF Accepted(sent[i], first) THEN Append(g[i - 1], Logged(pc, sent[i]))
                           ELSE g[i - 1]
  BY LoggingEquation
<1> DEFINE Good(h) ==
             /\ h \in Seq(LogRow) /\ Len(h) \in Nat /\ Len(log) <= Len(h)
             /\ \A i \in 1 .. Len(log) : h[i] = log[i]
             /\ \A i \in 1 .. Len(h) : i > Len(log) =>
                  /\ h[i].pc = pc /\ ~ h[i].committed
                  /\ \E k \in 1 .. Len(sent) : h[i].entity = sent[k].entity
           S == {i \in 0 .. Len(sent) : Good(g[i])}
<1>2. /\ log \in Seq(LogRow) /\ Len(log) \in Nat /\ Len(sent) \in Nat
      /\ \A i \in 1 .. Len(sent) : sent[i] \in Row
  BY TypeFacts DEF CloudTypes
<1>3. 0 \in S
  BY <1>1, <1>2
<1>4. ASSUME NEW i \in 0 .. Len(sent), i < Len(sent), i \in S PROVE i + 1 \in S
  <2>1. /\ i + 1 \in 1 .. Len(sent) /\ i + 1 \in 0 .. Len(sent) /\ (i + 1) - 1 = i
    BY <1>2, <1>4
  <2>2. Good(g[i])
    BY <1>4
  <2>3. g[i + 1] = IF Accepted(sent[i + 1], first) THEN Append(g[i], Logged(pc, sent[i + 1])) ELSE g[i]
    BY <1>1, <2>1
  <2>4. PICK h : h = g[i]
    OBVIOUS
  <2>5. PICK new : new = Logged(pc, sent[i + 1])
    OBVIOUS
  <2>6. new \in LogRow /\ new.pc = pc /\ ~ new.committed /\ new.entity = sent[i + 1].entity
    <3>1. device[pc] \in Nat
      BY TypeFacts DEF PCTypes
    <3>2. sent[i + 1].entity \in Entities
      BY <1>2, <2>1 DEF Row
    <3> QED BY <2>5, <3>1, <3>2 DEF Logged, LogRow
  <2>7. Good(Append(h, new))
    <3>1. h \in Seq(LogRow) /\ Len(h) \in Nat /\ Len(log) <= Len(h)
      BY <2>2, <2>4
    <3>2. /\ Append(h, new) \in Seq(LogRow) /\ Len(Append(h, new)) = Len(h) + 1
          /\ \A k \in 1 .. Len(h) : Append(h, new)[k] = h[k]
          /\ Append(h, new)[Len(h) + 1] = new
      BY <2>6, <3>1, AppendProperties
    <3> DEFINE a == Append(h, new)
    <3> HIDE DEF a
    <3>3. \A k \in 1 .. Len(log) : a[k] = log[k]
      BY <1>2, <2>2, <2>4, <3>1, <3>2 DEF a
    <3>4. ASSUME NEW k \in 1 .. Len(a), k > Len(log)
          PROVE  /\ a[k].pc = pc /\ ~ a[k].committed
                 /\ \E j \in 1 .. Len(sent) : a[k].entity = sent[j].entity
      <4>1. CASE k = Len(h) + 1
        BY <2>1, <2>6, <3>2, <4>1 DEF a
      <4>2. CASE k # Len(h) + 1
        <5>1. k \in 1 .. Len(h)
          BY <3>1, <3>2, <4>2 DEF a
        <5>2. a[k] = h[k]
          BY <3>2, <5>1 DEF a
        <5> QED BY <2>2, <2>4, <3>4, <5>1, <5>2
      <4> QED BY <4>1, <4>2
    <3>5. a \in Seq(LogRow) /\ Len(a) \in Nat /\ Len(log) <= Len(a)
      BY <1>2, <3>1, <3>2 DEF a
    <3> QED BY <3>3, <3>4, <3>5 DEF a
  <2> HIDE DEF Good
  <2>8. Good(g[i + 1])
    BY <2>2, <2>3, <2>4, <2>5, <2>7
  <2> QED BY <2>1, <2>8
<1> HIDE DEF S, Good
<1>5. \A i \in 0 .. Len(sent) : i \in S
  BY <1>2, <1>3, <1>4, AllNumbers
<1>6. Good(grown)
  BY <1>1, <1>2, <1>5 DEF S
<1> QED BY <1>6 DEF Good

\* Opening a push keeps the invariant: the log grows by the rows that were sent.
LEMMA OpenPushStep ==
    ASSUME PInv, NEW pc \in PCs, OpenPush(pc)
    PROVE  PInv'
<1>0. TypeOK /\ LogKnows /\ CloudKnows /\ \A q \in PCs : SaleIsNew(q) /\ PCKnows(q)
  BY DEF PInv
<1>k. /\ DeskKnows(pc) /\ Stocked(pc) /\ Booked(pc) /\ OutboxKnows(pc)
      /\ PushKnows(pc) /\ PullKnows(pc) /\ CursorKnows(pc) /\ Explained(pc)
  BY <1>0 DEF PCKnows
<1>c. outbox[pc] \in Seq(Row) /\ Len(outbox[pc]) \in Nat
  BY <1>0, TypeFacts DEF PCTypes
<1>d. PICK n \in Nat : n = IF Len(outbox[pc]) < BatchSize THEN Len(outbox[pc]) ELSE BatchSize
  BY <1>c, PullAssumption
<1>e. n > 0 /\ n <= Len(outbox[pc]) /\ n \in 0 .. BatchSize
  BY <1>c, <1>d, PullAssumption DEF OpenPush
<1>f. PICK sent : sent = SubSeq(outbox[pc], 1, n)
  OBVIOUS
<1>g. sent \in Seq(Row) /\ Len(sent) = n /\ \A k \in 1 .. n : sent[k] = outbox[pc][k]
  BY <1>c, <1>e, <1>f, SubSeqProperties
<1>h. PICK first : first = (catalogue.quantity = None /\ \E i \in 1 .. n : sent[i].operation = "CREATE"
                                                                      /\ sent[i].entity = Item)
  OBVIOUS
<1>a. /\ pushing[pc] = 0 /\ log' = Logging(pc, sent, first)[n] /\ Len(log') <= MaxLog
      /\ pushing' = [pushing EXCEPT ![pc] = n]
  BY <1>d, <1>f, <1>h DEF OpenPush
<1>b. /\ quantity' = quantity /\ base' = base /\ outbox' = outbox /\ edits' = edits
      /\ device' = device /\ receipts' = receipts /\ movements' = movements /\ since' = since
      /\ desk' = desk /\ catalogue' = catalogue /\ pull' = pull
      /\ ledger' = ledger /\ gap' = gap /\ disturbed' = disturbed
  BY DEF OpenPush, localVars, history
<1>i. /\ log' \in Seq(LogRow) /\ Len(log') \in Nat /\ Len(log) <= Len(log')
      /\ \A i \in 1 .. Len(log) : log'[i] = log[i]
      /\ \A i \in 1 .. Len(log') : i > Len(log) =>
           /\ log'[i].pc = pc /\ ~ log'[i].committed
           /\ \E k \in 1 .. Len(sent) : log'[i].entity = sent[k].entity
  <2>1. PICK grown : grown = log'
    OBVIOUS
  <2>2. grown = Logging(pc, sent, first)[Len(sent)]
    BY <1>a, <1>g, <2>1
  <2> QED BY <1>0, <1>g, <2>1, <2>2, LoggingAdds
<1>j. Len(log) \in Nat /\ \A i \in 1 .. Len(log') : i \in 1 .. Len(log) \/ i > Len(log)
  BY <1>0, <1>i, TypeFacts DEF CloudTypes
<1>1. TypeOK'
  <2>1. pushing' \in [PCs -> 0 .. BatchSize]
    BY <1>0, <1>a, <1>e DEF TypeOK
  <2> QED BY <1>0, <1>b, <1>i, <2>1 DEF TypeOK
<1>2. Grows
  BY <1>b DEF Grows
<1>3. LogGrows
  BY <1>i DEF LogGrows
<1>l. \A q \in PCs : \A e : Has(q, e)' <=> Has(q, e)
  BY <1>b DEF Has
<1>4. LogKnows'
  <2>1. ASSUME NEW i \in 1 .. Len(log') PROVE Has(log[i].pc, log[i].entity)'
    <3>1. CASE i \in 1 .. Len(log)
      <4>1. log'[i] = log[i] /\ log[i].pc \in PCs /\ Has(log[i].pc, log[i].entity)
        BY <1>0, <1>i, <3>1, TypeFacts DEF CloudTypes, LogKnows
      <4>2. PICK e \in {log[i].entity}, q \in PCs : e = log[i].entity /\ q = log[i].pc
        BY <4>1
      <4>3. Has(q, e)'
        BY <1>l, <4>1, <4>2
      <4>4. log'[i].pc = q /\ log'[i].entity = e
        BY <4>1, <4>2
      <4> QED BY <4>3, <4>4 DEF Has
    <3>2. CASE i > Len(log)
      <4>1. log'[i].pc = pc
        BY <1>i, <3>2
      <4>2. PICK k \in 1 .. n : log'[i].entity = outbox[pc][k].entity
        BY <1>g, <1>i, <3>2
      <4>3. Has(pc, outbox[pc][k].entity)
        BY <1>c, <1>e, <1>k DEF OutboxKnows
      <4>4. PICK e : e = outbox[pc][k].entity
        OBVIOUS
      <4>5. Has(pc, e)'
        BY <1>l, <4>3, <4>4
      <4>6. log'[i].entity = e
        BY <4>2, <4>4
      <4> QED BY <4>1, <4>5, <4>6 DEF Has
    <3> QED BY <1>j, <3>1, <3>2
  <2> QED BY <1>a, <2>1 DEF LogKnows, Has
<1>5. CloudKnows'
  <2>1. ASSUME NEW i \in 1 .. Len(log'), log'[i].committed
        PROVE  /\ \A r \in Receipts : log'[i].entity = Sale(r) => ledger[r] # "NONE"
               /\ log'[i].entity = Item => catalogue.quantity # None
    <3>1. i \in 1 .. Len(log)
      BY <1>i, <1>j, <2>1
    <3>2. log'[i] = log[i]
      BY <1>i, <3>1
    <3> QED BY <1>0, <2>1, <3>1, <3>2 DEF CloudKnows
  <2> QED BY <1>b, <2>1 DEF CloudKnows
<1>6. ASSUME NEW q \in PCs PROVE SaleIsNew(q)'
  BY <1>0, <1>b, SaleStays
<1>7. ASSUME NEW q \in PCs, q # pc PROVE PCKnows(q)'
  <2>1. Rests(q)
    BY <1>0, <1>7, <1>a, <1>b DEF Rests, TypeOK
  <2>2. NothingOpened(q)
    BY <1>7, <1>i, <1>j DEF NothingOpened
  <2> QED BY <1>0, <1>2, <1>3, <2>1, <2>2, RestingKnows
<1>8. PCKnows(pc)'
  <2>2. DeskKnows(pc)'
    BY <1>k, <1>b, DeskStays
  <2>3. Stocked(pc)'
    BY <1>k, <1>b, StockedStays
  <2>4. Booked(pc)'
    BY <1>0, <1>2, <1>k, <1>b, BookedStays
  <2>5. OutboxKnows(pc)'
    BY <1>0, <1>2, <1>k, <1>b, OutboxStays
  <2>6. PushKnows(pc)'
    <3>1. pushing'[pc] = n
      BY <1>0, <1>a DEF TypeOK
    <3>2. ASSUME NEW i \in 1 .. Len(log'), log'[i].pc = pc, ~ log'[i].committed
          PROVE  \E k \in 1 .. n : outbox[pc][k].entity = log'[i].entity
      <4>1. CASE i \in 1 .. Len(log)
        <5>1. log'[i] = log[i]
          BY <1>i, <4>1
        <5>2. \E k \in 1 .. pushing[pc] : outbox[pc][k].entity = log[i].entity
          BY <1>k, <3>2, <4>1, <5>1 DEF PushKnows
        <5> QED BY <1>a, <5>2
      <4>2. CASE i > Len(log)
        <5>1. PICK k \in 1 .. n : log'[i].entity = sent[k].entity
          BY <1>g, <1>i, <4>2
        <5> QED BY <1>g, <5>1
      <4> QED BY <1>j, <4>1, <4>2
    <3> QED BY <1>b, <1>e, <3>1, <3>2 DEF PushKnows
  <2>7. PullKnows(pc)'
    BY <1>0, <1>b, <1>3, <1>k, PullStays
  <2>8. CursorKnows(pc)'
    BY <1>0, <1>b, <1>2, <1>3, <1>k, CursorStays
  <2>9. Explained(pc)'
    BY <1>b, <1>k, ExplainedStays
  <2> QED BY <2>2, <2>3, <2>4, <2>5, <2>6, <2>7, <2>8, <2>9 DEF PCKnows
<1> QED
  BY <1>1, <1>4, <1>5, <1>6, <1>7, <1>8 DEF PInv

\* A sale the cloud has, or is sent, it has afterwards; a cancelled one stays so.
LEMMA SaleAfterFacts ==
    ASSUME TypeOK, NEW r \in Receipts, NEW sent \in Seq(Row)
    PROVE  /\ SaleAfter(r, sent) \in Statuses
           /\ ledger[r] # "NONE" => SaleAfter(r, sent) # "NONE"
           /\ ledger[r] = "CANCELLED" => SaleAfter(r, sent) = "CANCELLED"
           /\ \A k \in 1 .. Len(sent) : sent[k].entity = Sale(r) => SaleAfter(r, sent) # "NONE"
<1> DEFINE rows(operation) == {i \in 1 .. Len(sent) : sent[i].entity = Sale(r)
                                                    /\ sent[i].operation = operation}
<1>1. SaleAfter(r, sent) = IF rows("UPDATE") # {} THEN "CANCELLED"
                           ELSE IF ledger[r] = "NONE" /\ rows("CREATE") # {} THEN "COMPLETED"
                           ELSE ledger[r]
  BY DEF SaleAfter
<1>2. ledger[r] \in Statuses
  BY TypeFacts DEF CloudTypes
<1>3. ASSUME NEW k \in 1 .. Len(sent), sent[k].entity = Sale(r)
      PROVE  rows("UPDATE") # {} \/ rows("CREATE") # {}
  <2>1. sent[k] \in Row
    OBVIOUS
  <2>2. sent[k].operation \in {"CREATE", "UPDATE"}
    BY <2>1 DEF Row
  <2>3. k \in rows("UPDATE") \/ k \in rows("CREATE")
    BY <1>3, <2>2
  <2> QED BY <2>3
<1> HIDE DEF rows
<1> QED BY <1>1, <1>2, <1>3 DEF Statuses

\* A timestamp is a number.
LEMMA StampFacts ==
    ASSUME TypeOK, NEW pc \in PCs
    PROVE  Stamp(pc) \in Nat
<1> DEFINE places == {i \in 1 .. Len(log) : log[i].pc = pc /\ ~ log[i].committed} \cup {Len(log)}
<1>1. places \in SUBSET Nat /\ places # {}
  BY TypeFacts DEF CloudTypes
<1>2. Stamp(pc) = Min(places)
  BY DEF Stamp
<1> HIDE DEF places
<1> QED BY <1>1, <1>2, MinExists

\* A product the cloud has, or is sent, it has afterwards.
LEMMA ItemAfterFacts ==
    ASSUME TypeOK, NEW sent \in Seq(Row), NEW stamp \in Nat
    PROVE  /\ ItemAfter(sent, stamp) \in [quantity: Nat \cup {None}, updated: Nat]
           /\ catalogue.quantity # None => ItemAfter(sent, stamp).quantity # None
           /\ \A k \in 1 .. Len(sent) : sent[k].entity = Item => ItemAfter(sent, stamp).quantity # None
<1> DEFINE items == {i \in 1 .. Len(sent) : sent[i].entity = Item}
           item == IF catalogue.quantity = None /\ items # {}
                   THEN [quantity |-> sent[Min(items)].quantity, updated |-> stamp]
                   ELSE catalogue
           saves == {i \in items : sent[i].operation = "UPDATE" /\ sent[i].at >= item.updated}
<1>1. ItemAfter(sent, stamp) =
        IF saves = {} THEN item ELSE [item EXCEPT !.quantity = sent[Max(saves)].quantity]
  BY DEF ItemAfter
<1>2. Len(sent) \in Nat /\ \A i \in 1 .. Len(sent) : sent[i].quantity \in Nat
  <2>1. \A i \in 1 .. Len(sent) : sent[i] \in Row
    OBVIOUS
  <2> QED BY <2>1 DEF Row
<1>3. items # {} => sent[Min(items)].quantity \in Nat
  <2>1. items \in SUBSET Nat
    BY <1>2
  <2>2. ASSUME items # {} PROVE Min(items) \in items
    <3> HIDE DEF items
    <3> QED BY <2>1, <2>2, MinExists
  <2> QED BY <1>2, <2>2
<1>4. saves # {} => sent[Max(saves)].quantity \in Nat
  <2>1. saves \in SUBSET (1 .. Len(sent))
    OBVIOUS
  <2>2. ASSUME saves # {} PROVE Max(saves) \in saves
    <3> HIDE DEF saves
    <3> QED BY <1>2, <2>1, <2>2, MaxExists
  <2> QED BY <1>2, <2>1, <2>2
<1>5. /\ item \in [quantity: Nat \cup {None}, updated: Nat]
      /\ catalogue.quantity # None => item.quantity # None
      /\ items # {} => item.quantity # None
  <2>1. catalogue \in [quantity: Nat \cup {None}, updated: Nat]
    BY TypeFacts DEF CloudTypes
  <2> HIDE DEF items
  <2>2. ASSUME catalogue.quantity = None, items # {}
        PROVE  item \in [quantity: Nat \cup {None}, updated: Nat] /\ item.quantity # None
    BY <1>3, <2>2, EntityFacts
  <2> QED BY <2>1, <2>2
<1>6. \A k \in 1 .. Len(sent) : sent[k].entity = Item => items # {}
  OBVIOUS
<1>7. ASSUME NEW q \in Nat
      PROVE  /\ [item EXCEPT !.quantity = q] \in [quantity: Nat \cup {None}, updated: Nat]
             /\ [item EXCEPT !.quantity = q].quantity # None
  <2> HIDE DEF item
  <2> QED BY <1>5, EntityFacts
<1> HIDE DEF items, item, saves
<1> QED BY <1>1, <1>4, <1>5, <1>6, <1>7

\* Committing a push keeps the invariant: its rows are in the cloud before they leave the queue.
LEMMA CommitPushStep ==
    ASSUME PInv, NEW pc \in PCs, CommitPush(pc)
    PROVE  PInv'
<1>0. TypeOK /\ LogKnows /\ CloudKnows /\ \A q \in PCs : SaleIsNew(q) /\ PCKnows(q)
  BY DEF PInv
<1>k. /\ DeskKnows(pc) /\ Stocked(pc) /\ Booked(pc) /\ OutboxKnows(pc)
      /\ PushKnows(pc) /\ PullKnows(pc) /\ CursorKnows(pc) /\ Explained(pc)
  BY <1>0 DEF PCKnows
<1>c. outbox[pc] \in Seq(Row) /\ Len(outbox[pc]) \in Nat
  BY <1>0, TypeFacts DEF PCTypes
<1>d. PICK n \in Nat : n = pushing[pc]
  BY <1>0, TypeFacts DEF PCTypes
<1>e. n > 0 /\ n <= Len(outbox[pc])
  BY <1>d, <1>k DEF CommitPush, PushKnows
<1>f. PICK sent : sent = SubSeq(outbox[pc], 1, n)
  OBVIOUS
<1>g. sent \in Seq(Row) /\ Len(sent) = n /\ \A k \in 1 .. n : sent[k] = outbox[pc][k]
  BY <1>c, <1>e, <1>f, SubSeqProperties
<1>h. PICK left : left = SubSeq(outbox[pc], n + 1, Len(outbox[pc]))
  OBVIOUS
<1>i. /\ left \in Seq(Row) /\ Len(left) = Len(outbox[pc]) - n
      /\ \A k \in 1 .. Len(outbox[pc]) - n : left[k] = outbox[pc][k + n]
  <2>1. /\ left \in Seq(Row) /\ Len(left) = IF n + 1 <= Len(outbox[pc]) THEN Len(outbox[pc]) - (n + 1) + 1 ELSE 0
        /\ \A k \in 1 .. Len(outbox[pc]) - (n + 1) + 1 : left[k] = outbox[pc][(n + 1) + k - 1]
    BY <1>c, <1>e, <1>h, SubSeqProperties
  <2>2. Len(outbox[pc]) - (n + 1) + 1 = Len(outbox[pc]) - n /\ \A k \in Nat : (n + 1) + k - 1 = k + n
    BY <1>c
  <2>3. Len(left) = Len(outbox[pc]) - n
    BY <1>c, <1>e, <2>1
  <2>4. \A k \in 1 .. Len(outbox[pc]) - n : k \in Nat
    OBVIOUS
  <2> QED BY <2>1, <2>2, <2>3, <2>4
<1>a. /\ log' = [i \in 1 .. Len(log) |->
                   IF log[i].pc = pc THEN [log[i] EXCEPT !.committed = TRUE] ELSE log[i]]
      /\ ledger' = [r \in Receipts |-> SaleAfter(r, sent)]
      /\ catalogue' = ItemAfter(sent, Stamp(pc))
      /\ outbox' = outbox \/ outbox' = [outbox EXCEPT ![pc] = left]
      /\ pushing' = [pushing EXCEPT ![pc] = 0]
  BY <1>d, <1>f, <1>h DEF CommitPush
<1>b. /\ quantity' = quantity /\ base' = base /\ edits' = edits
      /\ device' = device /\ receipts' = receipts /\ movements' = movements /\ since' = since
      /\ desk' = desk /\ pull' = pull /\ gap' = gap /\ disturbed' = disturbed
  BY DEF CommitPush, history
<1>j. /\ Len(log) \in Nat /\ log \in Seq(LogRow)
      /\ \A i \in 1 .. Len(log) : log[i] \in LogRow /\ log[i].pc \in PCs
  BY <1>0, TypeFacts DEF CloudTypes
<1>l. /\ log' \in Seq(LogRow) /\ Len(log') = Len(log)
      /\ \A i \in 1 .. Len(log) :
           /\ log'[i].entity = log[i].entity /\ log'[i].pc = log[i].pc
           /\ log[i].pc # pc => log'[i] = log[i]
           /\ log[i].pc = pc => log'[i].committed
  <2>1. ASSUME NEW row \in LogRow
        PROVE  /\ [row EXCEPT !.committed = TRUE] \in LogRow
               /\ [row EXCEPT !.committed = TRUE].entity = row.entity
               /\ [row EXCEPT !.committed = TRUE].pc = row.pc
               /\ [row EXCEPT !.committed = TRUE].committed
    BY DEF LogRow
  <2>2. \A i \in 1 .. Len(log) :
          (IF log[i].pc = pc THEN [log[i] EXCEPT !.committed = TRUE] ELSE log[i]) \in LogRow
    BY <1>j, <2>1
  <2>3. log' \in [1 .. Len(log) -> LogRow]
    BY <1>a, <2>2
  <2>4. log' \in Seq(LogRow) /\ Len(log') = Len(log)
    BY <1>j, <2>3
  <2> QED BY <1>a, <1>j, <2>1, <2>4
<1>m. ASSUME NEW r \in Receipts
      PROVE  /\ ledger'[r] \in Statuses
             /\ ledger[r] # "NONE" => ledger'[r] # "NONE"
             /\ \A k \in 1 .. Len(sent) : sent[k].entity = Sale(r) => ledger'[r] # "NONE"
  <2>1. ledger'[r] = SaleAfter(r, sent)
    BY <1>a
  <2> QED BY <1>0, <1>g, <2>1, SaleAfterFacts
<1>n. /\ catalogue' \in [quantity: Nat \cup {None}, updated: Nat]
      /\ catalogue.quantity # None => catalogue'.quantity # None
      /\ \A k \in 1 .. Len(sent) : sent[k].entity = Item => catalogue'.quantity # None
  <2>1. PICK stamp \in Nat : stamp = Stamp(pc)
    BY <1>0, StampFacts
  <2>2. catalogue' = ItemAfter(sent, stamp)
    BY <1>a, <2>1
  <2> QED BY <1>0, <1>g, <2>2, ItemAfterFacts
<1>1. TypeOK'
  <2>1. pushing' \in [PCs -> 0 .. BatchSize]
    BY <1>0, <1>a, PullAssumption DEF TypeOK
  <2>2. outbox' \in [PCs -> Seq(Row)]
    BY <1>0, <1>a, <1>i DEF TypeOK
  <2>3. ledger' \in [Receipts -> Statuses]
    BY <1>a, <1>m
  <2> QED BY <1>0, <1>b, <1>l, <1>n, <2>1, <2>2, <2>3 DEF TypeOK
<1>2. Grows
  BY <1>b DEF Grows
<1>3. LogGrows
  BY <1>j, <1>l DEF LogGrows
<1>o. \A q \in PCs : \A e : Has(q, e)' <=> Has(q, e)
  BY <1>b DEF Has
<1>4. LogKnows'
  <2>1. ASSUME NEW i \in 1 .. Len(log) PROVE Has(log[i].pc, log[i].entity)'
    <3>1. log'[i].pc = log[i].pc /\ log'[i].entity = log[i].entity /\ log[i].pc \in PCs
          /\ Has(log[i].pc, log[i].entity)
      BY <1>0, <1>j, <1>l DEF LogKnows
    <3>2. PICK e \in {log[i].entity}, q \in PCs : e = log[i].entity /\ q = log[i].pc
      BY <3>1
    <3>3. Has(q, e)'
      BY <1>o, <3>1, <3>2
    <3>4. log'[i].pc = q /\ log'[i].entity = e
      BY <3>1, <3>2
    <3> QED BY <3>3, <3>4 DEF Has
  <2> QED BY <1>0, <1>l, <2>1 DEF LogKnows, Has
<1>5. CloudKnows'
  <2>1. ASSUME NEW i \in 1 .. Len(log), log'[i].committed
        PROVE  /\ \A r \in Receipts : log'[i].entity = Sale(r) => ledger'[r] # "NONE"
               /\ log'[i].entity = Item => catalogue'.quantity # None
    <3>1. log'[i].entity = log[i].entity
      BY <1>l
    <3>2. CASE log[i].committed
      <4>1. /\ \A r \in Receipts : log[i].entity = Sale(r) => ledger[r] # "NONE"
            /\ log[i].entity = Item => catalogue.quantity # None
        BY <1>0, <3>2 DEF CloudKnows
      <4> QED BY <1>m, <1>n, <3>1, <4>1
    <3>3. CASE ~ log[i].committed
      <4>1. log[i].pc = pc
        BY <1>l, <2>1, <3>3
      <4>2. PICK k \in 1 .. n : outbox[pc][k].entity = log[i].entity
        BY <1>d, <1>k, <3>3, <4>1 DEF PushKnows
      <4>3. k \in 1 .. Len(sent) /\ sent[k].entity = log[i].entity
        BY <1>g, <4>2
      <4> QED BY <1>m, <1>n, <3>1, <4>3
    <3> QED BY <3>2, <3>3
  <2> QED BY <1>l, <2>1 DEF CloudKnows
<1>6. ASSUME NEW q \in PCs PROVE SaleIsNew(q)'
  BY <1>0, <1>b, SaleStays
<1>7. ASSUME NEW q \in PCs, q # pc PROVE PCKnows(q)'
  <2>1. Rests(q)
    BY <1>0, <1>7, <1>a, <1>b DEF Rests, TypeOK
  <2>2. NothingOpened(q)
    BY <1>7, <1>l DEF NothingOpened
  <2> QED BY <1>0, <1>2, <1>3, <2>1, <2>2, RestingKnows
<1>8. PCKnows(pc)'
  <2>2. DeskKnows(pc)'
    BY <1>k, <1>b, DeskStays
  <2>3. Stocked(pc)'
    BY <1>k, <1>b, StockedStays
  <2>4. Booked(pc)'
    BY <1>0, <1>2, <1>k, <1>b, BookedStays
  <2>5. OutboxKnows(pc)'
    <3>1. CASE outbox' = outbox
      BY <1>0, <1>2, <1>k, <3>1, OutboxStays
    <3>2. CASE outbox' = [outbox EXCEPT ![pc] = left]
      <4>1. outbox'[pc] = left
        BY <1>0, <3>2 DEF TypeOK
      <4>2. ASSUME NEW k \in 1 .. Len(left) PROVE Has(pc, outbox[pc][k].entity)'
        <5>1. k + n \in 1 .. Len(outbox[pc]) /\ left[k] = outbox[pc][k + n]
          BY <1>c, <1>d, <1>e, <1>i
        <5>2. PICK e : e = outbox[pc][k + n].entity
          OBVIOUS
        <5>3. Has(pc, outbox[pc][k + n].entity)
          BY <1>k, <5>1 DEF OutboxKnows
        <5>4. Has(pc, e)'
          BY <1>o, <5>2, <5>3
        <5>5. outbox'[pc][k].entity = e
          BY <4>1, <5>1, <5>2
        <5> QED BY <5>4, <5>5 DEF Has
      <4> QED BY <4>1, <4>2 DEF OutboxKnows, Has
    <3> QED BY <1>a, <3>1, <3>2
  <2>6. PushKnows(pc)'
    <3>1. pushing'[pc] = 0
      BY <1>0, <1>a DEF TypeOK
    <3>2. \A i \in 1 .. Len(log') : ~ (log'[i].pc = pc /\ ~ log'[i].committed)
      BY <1>l
    <3>3. Len(outbox'[pc]) \in Nat
      BY <1>1, <1>c, LenProperties DEF TypeOK
    <3>4. 0 <= Len(outbox'[pc])
      BY <3>3
    <3> QED BY <3>1, <3>2, <3>4 DEF PushKnows
  <2>7. PullKnows(pc)'
    BY <1>0, <1>b, <1>3, <1>k, PullStays
  <2>8. CursorKnows(pc)'
    BY <1>0, <1>b, <1>2, <1>3, <1>k, CursorStays
  <2>9. Explained(pc)'
    BY <1>b, <1>k, ExplainedStays
  <2> QED BY <2>2, <2>3, <2>4, <2>5, <2>6, <2>7, <2>8, <2>9 DEF PCKnows
<1> QED
  BY <1>1, <1>4, <1>5, <1>6, <1>7, <1>8 DEF PInv

-------------------------------------------------------------------------------
\* Applying

\* A PC's rows while an answer is applied to them.
Copies == [quantity: Nat \cup {None}, base: Nat \cup {None}, status: [Receipts -> Statuses],
           moved: SUBSET Movements, broken: BOOLEAN, clipped: BOOLEAN, wrote: BOOLEAN]

\* The product is inserted where it is missing, with the quantity it comes with.
LEMMA ItemApplied ==
    ASSUME NEW pc \in PCs, NEW rows \in Copies, NEW m \in Mutation, m.entity = Item
    PROVE  LET new == Applied(pc, rows, m)
           IN  /\ new \in Copies
               /\ new.status = rows.status /\ new.moved = rows.moved
               /\ new.broken = rows.broken /\ new.clipped = rows.clipped
               /\ new.quantity # None
               /\ rows.quantity # None => new = rows
               /\ rows.quantity = None => new.quantity = new.base /\ new.wrote
<1>1. Applied(pc, rows, m) = IF rows.quantity # None THEN rows
                             ELSE [rows EXCEPT !.quantity = m.quantity, !.base = m.quantity, !.wrote = TRUE]
  BY DEF Applied
<1>2. m.quantity \in Nat /\ m.quantity # None
  BY EntityFacts DEF Mutation
<1>3. PICK new : new = [rows EXCEPT !.quantity = m.quantity, !.base = m.quantity, !.wrote = TRUE]
  OBVIOUS
<1>4. /\ new \in Copies /\ new.status = rows.status /\ new.moved = rows.moved
      /\ new.broken = rows.broken /\ new.clipped = rows.clipped
      /\ new.quantity = m.quantity /\ new.base = m.quantity /\ new.wrote
  BY <1>2, <1>3 DEF Copies
<1> QED BY <1>1, <1>2, <1>3, <1>4

\* A sale gets the status it is sent with, unless it is there.
LEMMA SaleApplied ==
    ASSUME NEW pc \in PCs, NEW rows \in Copies, NEW m \in Mutation, m.entity \in Sales
    PROVE  LET new == Applied(pc, rows, m)
               r == m.entity.receipt
           IN  /\ new \in Copies
               /\ new.quantity = rows.quantity /\ new.base = rows.base /\ new.moved = rows.moved
               /\ new.clipped = rows.clipped /\ new.wrote = rows.wrote
               /\ rows.broken => new.broken
               /\ r \in Receipts /\ new.status[r] = StatusAfter(rows.status[r], m.status)
               /\ \A x \in Receipts : x # r => new.status[x] = rows.status[x]
<1>1. PICK r \in Receipts : r = m.entity.receipt /\ m.entity # Item
  BY EntityFacts
<1> DEFINE status == [rows.status EXCEPT ![r] = StatusAfter(rows.status[r], m.status)]
           broken == rows.broken \/ (rows.status[r] = "NONE" /\ rows.quantity = None)
<1>3. /\ status \in [Receipts -> Statuses] /\ status[r] = StatusAfter(rows.status[r], m.status)
      /\ \A x \in Receipts : x # r => status[x] = rows.status[x]
  <2>1. m.status \in Statuses /\ rows.status \in [Receipts -> Statuses]
    BY DEF Mutation, Copies
  <2>2. StatusAfter(rows.status[r], m.status) \in Statuses
    BY <2>1 DEF StatusAfter
  <2> QED BY <2>1, <2>2
<1>4. broken \in BOOLEAN /\ (rows.broken => broken)
  BY Zenon
<1>5. Applied(pc, rows, m) = [rows EXCEPT !.status = status, !.broken = broken]
  <2>1. Applied(pc, rows, m) =
          [rows EXCEPT !.status = [rows.status EXCEPT ![m.entity.receipt] =
                                     StatusAfter(rows.status[m.entity.receipt], m.status)],
                       !.broken = rows.broken \/ (rows.status[m.entity.receipt] = "NONE"
                                                 /\ rows.quantity = None)]
    BY <1>1, Zenon DEF Applied
  <2> QED BY <1>1, <2>1, Zenon
<1> HIDE DEF status, broken
<1>6. PICK new : new = [rows EXCEPT !.status = status, !.broken = broken]
  OBVIOUS
<1>7. /\ new \in Copies /\ new.quantity = rows.quantity /\ new.base = rows.base /\ new.moved = rows.moved
      /\ new.clipped = rows.clipped /\ new.wrote = rows.wrote /\ new.status = status
      /\ new.broken = broken
  BY <1>3, <1>4, <1>6 DEF Copies
<1>8. rows.broken => new.broken
  BY <1>4, <1>7
<1> QED BY <1>1, <1>3, <1>5, <1>6, <1>7, <1>8

\* A movement that is not there is added and changes the quantity, which stays at zero
\* where it would fall below.
LEMMA MovementApplied ==
    ASSUME NEW pc \in PCs, NEW rows \in Copies, NEW m \in Mutation, m.entity \in Movements
    PROVE  LET new == Applied(pc, rows, m)
               e == m.entity
           IN  /\ new \in Copies
               /\ new.status = rows.status /\ new.base = rows.base
               /\ rows.broken => new.broken
               /\ e \in movements[pc] => new = rows
               /\ e \notin movements[pc] /\ rows.quantity = None =>
                    /\ new.broken /\ new.quantity = None /\ new.moved = rows.moved
                    /\ new.wrote = rows.wrote /\ new.clipped = rows.clipped
               /\ e \notin movements[pc] /\ rows.quantity # None =>
                    /\ new.moved = rows.moved \cup {e} /\ new.wrote /\ new.broken = rows.broken
                    /\ new.quantity # None
                    /\ rows.clipped => new.clipped
                    /\ ~ new.clipped => new.quantity = rows.quantity + e.change
<1>1. PICK e \in Movements : e = m.entity /\ e # Item /\ e \notin Sales /\ e.change \in {-1, 1}
  BY EntityFacts
<1>2. CASE e \in movements[pc]
  <2>1. Applied(pc, rows, m) = rows
    BY <1>1, <1>2 DEF Applied, Known
  <2> QED BY <1>1, <1>2, <2>1
<1>3. CASE e \notin movements[pc] /\ rows.quantity = None
  <2>1. Applied(pc, rows, m) = [rows EXCEPT !.broken = TRUE]
    BY <1>1, <1>3 DEF Applied, Known
  <2>2. PICK new : new = [rows EXCEPT !.broken = TRUE]
    OBVIOUS
  <2>3. /\ new \in Copies /\ new.status = rows.status /\ new.base = rows.base /\ new.broken
        /\ new.quantity = rows.quantity /\ new.moved = rows.moved /\ new.wrote = rows.wrote
        /\ new.clipped = rows.clipped
    BY <2>2 DEF Copies
  <2> QED BY <1>1, <1>3, <2>1, <2>2, <2>3
<1>4. CASE e \notin movements[pc] /\ rows.quantity # None
  <2>1. PICK q \in Int : q = rows.quantity + e.change
    BY <1>1, <1>4 DEF Copies
  <2>2. NotBelowZero(q) \in Nat /\ (q >= 0 => NotBelowZero(q) = q)
    BY DEF NotBelowZero
  <2>3. PICK clipped \in BOOLEAN : clipped = (rows.clipped \/ q < 0)
    OBVIOUS
  <2>4. Applied(pc, rows, m) = [rows EXCEPT !.moved = rows.moved \cup {e}, !.quantity = NotBelowZero(q),
                                            !.wrote = TRUE, !.clipped = clipped]
    BY <1>1, <1>4, <2>1, <2>3 DEF Applied, Known, Copies
  <2>5. PICK new : new = [rows EXCEPT !.moved = rows.moved \cup {e}, !.quantity = NotBelowZero(q),
                                      !.wrote = TRUE, !.clipped = clipped]
    OBVIOUS
  <2>6. /\ new \in Copies /\ new.status = rows.status /\ new.base = rows.base /\ new.broken = rows.broken
        /\ new.quantity = NotBelowZero(q) /\ new.moved = rows.moved \cup {e} /\ new.wrote
        /\ new.clipped = clipped
    BY <2>2, <2>5 DEF Copies
  <2>7. new.quantity # None
    BY <2>2, <2>6, EntityFacts
  <2>8. rows.clipped => new.clipped
    BY <2>3, <2>6
  <2>9. ~ new.clipped => new.quantity = rows.quantity + e.change
    <3>1. q < 0 => clipped
      BY <2>3, Zenon
    <3>2. ~ clipped => q >= 0
      BY <2>1, <3>1
    <3> QED BY <2>1, <2>2, <2>6, <3>2
  <2> QED BY <1>1, <1>4, <2>4, <2>5, <2>6, <2>7, <2>8, <2>9
<1> QED BY <1>1, <1>2, <1>3, <1>4

\* The quantity an answer is applied to.
Read(pc) == IF pull[pc].phase = "loaded" THEN pull[pc].seen ELSE quantity[pc]

Start(pc) == [quantity |-> Read(pc), base |-> base[pc], status |-> receipts[pc],
              moved |-> movements[pc], broken |-> FALSE, clipped |-> FALSE, wrote |-> FALSE]

\* An answer is applied mutation by mutation.
LEMMA ApplyingEquation ==
    ASSUME TypeOK, NEW pc \in PCs
    PROVE  LET g == Applying(pc)
               sent == pull[pc].rows
           IN  /\ Start(pc) \in Copies /\ g[0] = Start(pc)
               /\ \A i \in 1 .. Len(sent) :
                    g[i] = IF sent[i] = None THEN g[i - 1] ELSE Applied(pc, g[i - 1], sent[i])
<1> DEFINE sent == pull[pc].rows
           n == Len(sent)
           Step(x, i) == IF sent[i] = None THEN x ELSE Applied(pc, x, sent[i])
           G(g) == [i \in 0 .. n |-> IF i = 0 THEN Start(pc) ELSE Step(g[i - 1], i)]
           F == [p \in Copies \X (1 .. n) |-> Step(p[1], p[2])]
<1>1. n \in Nat /\ \A i \in 1 .. n : sent[i] # None => sent[i] \in Mutation
  BY TypeFacts DEF PCTypes
<1>2. Start(pc) \in Copies
  <2>1. /\ quantity[pc] \in Nat \cup {None} /\ base[pc] \in Nat \cup {None}
        /\ receipts[pc] \in [Receipts -> Statuses] /\ movements[pc] \in SUBSET Movements
        /\ pull[pc].seen \in Nat \cup {None}
    BY TypeFacts DEF PCTypes
  <2>2. Read(pc) \in Nat \cup {None}
    BY <2>1 DEF Read
  <2> QED BY <2>1, <2>2 DEF Start, Copies
<1>3. \A x \in Copies, i \in 1 .. n : Step(x, i) \in Copies
  <2> SUFFICES ASSUME NEW x \in Copies, NEW i \in 1 .. n, sent[i] # None
               PROVE  Applied(pc, x, sent[i]) \in Copies
    OBVIOUS
  <2>1. PICK m \in Mutation : m = sent[i]
    BY <1>1
  <2>2. m.entity = Item \/ m.entity \in Sales \/ m.entity \in Movements
    <3>1. m.entity \in Entities
      BY DEF Mutation
    <3> QED BY <3>1, EntityFacts
  <2>3. Applied(pc, x, m) \in Copies
    BY <2>2, ItemApplied, SaleApplied, MovementApplied
  <2> QED BY <2>1, <2>3
<1> HIDE DEF Step
<1>4. F \in [Copies \X (1 .. n) -> Copies] /\ \A x \in Copies, i \in 1 .. n : F[<<x, i>>] = Step(x, i)
  BY <1>3
<1> HIDE DEF F
<1>5. PICK f \in [0 .. n -> Copies] : Steps(f, Start(pc), F, n)
  BY <1>1, <1>2, <1>4, Iteration
<1>6. f = G(f)
  <2>1. f = [i \in 0 .. n |-> IF i = 0 THEN Start(pc) ELSE F[<<f[i - 1], i>>]]
    BY <1>5 DEF Steps
  <2>2. ASSUME NEW i \in 1 .. n PROVE F[<<f[i - 1], i>>] = Step(f[i - 1], i)
    <3>1. i - 1 \in 0 .. n
      BY <1>1
    <3>2. f[i - 1] \in Copies
      BY <3>1
    <3> QED BY <1>4, <3>2
  <2>3. \A i \in 0 .. n : i # 0 => i \in 1 .. n
    BY <1>1
  <2> QED BY <2>1, <2>2, <2>3
<1>7. Applying(pc) = CHOOSE g : g = G(g)
  BY DEF Applying, Step, Start, Read
<1> HIDE DEF G
<1>8. PICK g : g = Applying(pc) /\ g = G(g)
  BY <1>6, <1>7
<1>9. g[0] = Start(pc) /\ \A i \in 1 .. n : g[i] = Step(g[i - 1], i)
  BY <1>1, <1>8 DEF G
<1> QED BY <1>2, <1>8, <1>9 DEF Step

\* A receipt that is there stays, cancelled as it may be, and a status changes only
\* by a row that says so.
StatusKept(pc, x) ==
    /\ \A r \in Receipts : receipts[pc][r] # "NONE" => x.status[r] # "NONE"
    /\ \A r \in Receipts : receipts[pc][r] = "CANCELLED" => x.status[r] = "CANCELLED"
    /\ \A r \in Receipts : x.status[r] # receipts[pc][r] =>
         \E k \in 1 .. Len(pull[pc].rows) : pull[pc].rows[k] # None /\ pull[pc].rows[k].entity = Sale(r)

\* The movements are those that were there and those of the first i rows.
MovesKnown(pc, x, i) ==
    /\ movements[pc] \subseteq x.moved /\ IsFiniteSet(x.moved)
    /\ \A m \in x.moved : \/ m \in movements[pc]
                          \/ \E k \in 1 .. i : pull[pc].rows[k] # None /\ pull[pc].rows[k].entity = m

\* The product does not vanish, and is as it was read if it need not be written.
StockKept(pc, x) ==
    /\ x.quantity = None <=> x.base = None
    /\ x.quantity = None => x.moved = {}
    /\ Read(pc) # None => x.quantity # None
    /\ ~ x.wrote => x.quantity = Read(pc) /\ x.base = base[pc] /\ x.moved = movements[pc]

\* If nothing broke, what the first i rows name is there.
AllThere(pc, x, i) ==
    ~ x.broken =>
      \A k \in 1 .. i : pull[pc].rows[k] # None =>
        LET e == pull[pc].rows[k].entity
        IN  /\ e = Item => x.quantity # None
            /\ e \in Sales => x.status[e.receipt] # "NONE"
            /\ e \in Movements => e \in x.moved

\* If nothing was clipped, the movements explain the quantity as before.
SumKept(pc, x) ==
    ~ x.clipped /\ (Read(pc) # None => Read(pc) = base[pc] + Sum(movements[pc])) /\ x.quantity # None
      => x.quantity = x.base + Sum(x.moved)

SoFar(pc, x, i) ==
    x \in Copies /\ StatusKept(pc, x) /\ MovesKnown(pc, x, i) /\ StockKept(pc, x)
    /\ AllThere(pc, x, i) /\ SumKept(pc, x)

\* Nothing applied yet.
LEMMA SoFarStarts ==
    ASSUME TypeOK, NEW pc \in PCs, Stocked(pc)
    PROVE  SoFar(pc, Start(pc), 0)
<1>1. Start(pc) \in Copies
  BY ApplyingEquation
<1>2. /\ Start(pc).quantity = Read(pc) /\ Start(pc).base = base[pc] /\ Start(pc).status = receipts[pc]
      /\ Start(pc).moved = movements[pc] /\ ~ Start(pc).clipped /\ ~ Start(pc).broken /\ ~ Start(pc).wrote
  BY DEF Start
<1>3. PICK x : x = Start(pc)
  OBVIOUS
<1>4. Read(pc) = None <=> quantity[pc] = None
  BY DEF Read, Stocked
<1>5. StatusKept(pc, x)
  BY <1>2, <1>3 DEF StatusKept
<1>6. MovesKnown(pc, x, 0)
  BY <1>2, <1>3 DEF MovesKnown, Stocked
<1>7. StockKept(pc, x)
  BY <1>2, <1>3, <1>4 DEF StockKept, Stocked
<1>8. AllThere(pc, x, 0)
  BY DEF AllThere
<1>9. SumKept(pc, x)
  BY <1>2, <1>3 DEF SumKept
<1> QED BY <1>1, <1>3, <1>5, <1>6, <1>7, <1>8, <1>9 DEF SoFar

\* A row that is not answered changes nothing.
LEMMA SoFarSkips ==
    ASSUME NEW pc \in PCs, NEW n \in Nat, NEW i \in 0 .. n, NEW x, SoFar(pc, x, i),
           pull[pc].rows[i + 1] = None
    PROVE  SoFar(pc, x, i + 1)
<1>1. \A k \in 1 .. i : k \in 1 .. i + 1
  OBVIOUS
<1>2. \A k \in 1 .. i + 1 : k \in 1 .. i \/ k = i + 1
  OBVIOUS
<1>3. MovesKnown(pc, x, i + 1)
  BY <1>1 DEF SoFar, MovesKnown
<1>4. AllThere(pc, x, i + 1)
  BY <1>2 DEF SoFar, AllThere
<1> QED BY <1>3, <1>4 DEF SoFar

\* What holds so far holds with the next row applied.
LEMMA SoFarGoesOn ==
    ASSUME TypeOK, NEW pc \in PCs, PullKnows(pc), NEW i \in 0 .. Len(pull[pc].rows),
           i < Len(pull[pc].rows), NEW x, SoFar(pc, x, i),
           NEW m \in Mutation, m = pull[pc].rows[i + 1], m # None
    PROVE  SoFar(pc, Applied(pc, x, m), i + 1)
<1> DEFINE rows == pull[pc].rows
<1>1. /\ x \in Copies /\ StatusKept(pc, x) /\ MovesKnown(pc, x, i) /\ StockKept(pc, x)
      /\ AllThere(pc, x, i) /\ SumKept(pc, x)
  BY DEF SoFar
<1>2. PICK y : y = Applied(pc, x, m)
  OBVIOUS
<1>3. PICK e \in Entities : e = m.entity
  BY DEF Mutation
<1>4. /\ i + 1 \in 1 .. Len(rows) /\ rows[i + 1] = m /\ rows[i + 1].entity = e
      /\ \A k \in 1 .. i : k \in 1 .. i + 1 /\ k \in 1 .. Len(rows) /\ k # i + 1
      /\ \A k \in 1 .. i + 1 : k \in 1 .. i \/ k = i + 1
  BY <1>3, TypeFacts DEF PCTypes
<1>5. /\ \A j, k \in 1 .. Len(rows) :
           rows[j] # None /\ rows[k] # None /\ rows[j].entity = rows[k].entity => j = k
      /\ e \in Sales => m.status # "NONE"
  BY <1>3, <1>4 DEF PullKnows
<1>6. /\ x.quantity \in Nat \cup {None} /\ x.base \in Nat \cup {None}
      /\ x.status \in [Receipts -> Statuses] /\ x.moved \in SUBSET Movements
  BY <1>1 DEF Copies
<1> HIDE DEF rows
<1>7. CASE e = Item
  <2>1. /\ y \in Copies /\ y.status = x.status /\ y.moved = x.moved
        /\ y.broken = x.broken /\ y.clipped = x.clipped /\ y.quantity # None
        /\ x.quantity # None => y = x
        /\ x.quantity = None => y.quantity = y.base /\ y.wrote
    <3>1. m.entity = Item
      BY <1>3, <1>7
    <3>2. LET new == Applied(pc, x, m)
          IN  /\ new \in Copies
              /\ new.status = x.status /\ new.moved = x.moved
              /\ new.broken = x.broken /\ new.clipped = x.clipped
              /\ new.quantity # None
              /\ x.quantity # None => new = x
              /\ x.quantity = None => new.quantity = new.base /\ new.wrote
      BY <1>1, <3>1, ItemApplied
    <3> QED BY <1>2, <3>2
  <2>2. StatusKept(pc, y)
    BY <1>1, <2>1 DEF StatusKept
  <2>3. MovesKnown(pc, y, i + 1)
    BY <1>1, <1>4, <2>1 DEF MovesKnown
  <2>4. StockKept(pc, y)
    <3>1. CASE x.quantity # None
      BY <1>1, <2>1, <3>1
    <3>2. CASE x.quantity = None
      <4>1. y.base # None /\ y.wrote
        BY <2>1, <3>2
      <4> QED BY <2>1, <4>1 DEF StockKept
    <3> QED BY <3>1, <3>2
  <2>5. AllThere(pc, y, i + 1)
    <3> SUFFICES ASSUME ~ y.broken, NEW k \in 1 .. i + 1, pull[pc].rows[k] # None,
                        NEW d, d = pull[pc].rows[k].entity
                 PROVE  /\ d = Item => y.quantity # None
                        /\ d \in Sales => y.status[d.receipt] # "NONE"
                        /\ d \in Movements => d \in y.moved
      BY DEF AllThere
    <3>1. CASE k \in 1 .. i
      BY <1>1, <2>1, <3>1 DEF AllThere
    <3>2. CASE k = i + 1
      <4>1. d = Item
        BY <1>4, <1>7, <3>2 DEF rows
      <4> QED BY <2>1, <4>1, EntityFacts
    <3> QED BY <1>4, <3>1, <3>2
  <2>6. SumKept(pc, y)
    <3>1. CASE x.quantity # None
      BY <1>1, <2>1, <3>1
    <3>2. CASE x.quantity = None
      <4>1. y.moved = {} /\ y.quantity = y.base /\ y.quantity \in Nat
        BY <1>1, <2>1, <3>2 DEF StockKept, Copies
      <4>2. Sum(y.moved) = 0
        BY <4>1, SumOfNone
      <4> QED BY <4>1, <4>2 DEF SumKept
    <3> QED BY <3>1, <3>2
  <2> QED BY <1>2, <2>1, <2>2, <2>3, <2>4, <2>5, <2>6 DEF SoFar
<1>8. CASE e \in Sales
  <2>1. PICK r \in Receipts :
        /\ r = e.receipt /\ e = Sale(r) /\ e # Item /\ e \notin Movements
        /\ y \in Copies /\ y.quantity = x.quantity /\ y.base = x.base /\ y.moved = x.moved
        /\ y.clipped = x.clipped /\ y.wrote = x.wrote
        /\ x.broken => y.broken
        /\ y.status[r] = StatusAfter(x.status[r], m.status)
        /\ \A s \in Receipts : s # r => y.status[s] = x.status[s]
    <3>1. e.receipt \in Receipts /\ e = Sale(e.receipt) /\ e # Item /\ e \notin Movements
      BY <1>8, EntityFacts
    <3>2. m.entity \in Sales
      BY <1>3, <1>8
    <3>3. LET new == Applied(pc, x, m)
              r == m.entity.receipt
          IN  /\ new \in Copies
              /\ new.quantity = x.quantity /\ new.base = x.base /\ new.moved = x.moved
              /\ new.clipped = x.clipped /\ new.wrote = x.wrote
              /\ x.broken => new.broken
              /\ r \in Receipts /\ new.status[r] = StatusAfter(x.status[r], m.status)
              /\ \A s \in Receipts : s # r => new.status[s] = x.status[s]
      BY <1>1, <1>3, <3>2, SaleApplied
    <3> QED BY <1>2, <1>3, <3>1, <3>3
  <2>2. y.status[r] # "NONE" /\ (x.status[r] = "CANCELLED" => y.status[r] = "CANCELLED")
    BY <1>5, <1>8, <2>1 DEF StatusAfter
  <2>3. StatusKept(pc, y)
    <3>1. \A s \in Receipts : x.status[s] # "NONE" => y.status[s] # "NONE"
      BY <2>1, <2>2
    <3>2. \A s \in Receipts : x.status[s] = "CANCELLED" => y.status[s] = "CANCELLED"
      BY <2>1, <2>2
    <3>3. ASSUME NEW s \in Receipts, y.status[s] # receipts[pc][s]
          PROVE  \E k \in 1 .. Len(pull[pc].rows) : pull[pc].rows[k] # None /\ pull[pc].rows[k].entity = Sale(s)
      <4>1. CASE s = r
        BY <1>4, <2>1, <4>1 DEF rows
      <4>2. CASE s # r
        BY <1>1, <2>1, <3>3, <4>2 DEF StatusKept
      <4> QED BY <4>1, <4>2
    <3> QED BY <1>1, <3>1, <3>2, <3>3 DEF StatusKept
  <2>4. MovesKnown(pc, y, i + 1)
    BY <1>1, <1>4, <2>1 DEF MovesKnown
  <2>5. StockKept(pc, y)
    BY <1>1, <2>1 DEF StockKept
  <2>6. AllThere(pc, y, i + 1)
    <3> SUFFICES ASSUME ~ y.broken, NEW k \in 1 .. i + 1, pull[pc].rows[k] # None,
                        NEW d, d = pull[pc].rows[k].entity
                 PROVE  /\ d = Item => y.quantity # None
                        /\ d \in Sales => y.status[d.receipt] # "NONE"
                        /\ d \in Movements => d \in y.moved
      BY DEF AllThere
    <3>1. CASE k \in 1 .. i
      <4>1. /\ d = Item => x.quantity # None
            /\ d \in Sales => x.status[d.receipt] # "NONE"
            /\ d \in Movements => d \in x.moved
        BY <1>1, <2>1, <3>1 DEF AllThere
      <4>2. d \in Sales => d.receipt \in Receipts
        BY EntityFacts
      <4> QED BY <2>1, <2>2, <4>1, <4>2
    <3>2. CASE k = i + 1
      <4>1. d = e
        BY <1>4, <3>2 DEF rows
      <4> QED BY <2>1, <2>2, <4>1
    <3> QED BY <1>4, <3>1, <3>2
  <2>7. SumKept(pc, y)
    BY <1>1, <2>1 DEF SumKept
  <2> QED BY <1>2, <2>1, <2>3, <2>4, <2>5, <2>6, <2>7 DEF SoFar
<1>9. CASE e \in Movements
  <2>1. /\ y \in Copies /\ y.status = x.status /\ y.base = x.base
        /\ x.broken => y.broken
        /\ e \in movements[pc] => y = x
        /\ e \notin movements[pc] /\ x.quantity = None =>
             /\ y.broken /\ y.quantity = None /\ y.moved = x.moved
             /\ y.wrote = x.wrote /\ y.clipped = x.clipped
        /\ e \notin movements[pc] /\ x.quantity # None =>
             /\ y.moved = x.moved \cup {e} /\ y.wrote /\ y.broken = x.broken
             /\ y.quantity # None
             /\ x.clipped => y.clipped
             /\ ~ y.clipped => y.quantity = x.quantity + e.change
    BY <1>1, <1>2, <1>3, <1>9, MovementApplied
  <2>2. e # Item /\ e \notin Sales /\ e.change \in {-1, 1}
    BY <1>9, EntityFacts
  <2>3. e \notin movements[pc] => e \notin x.moved
    <3> SUFFICES ASSUME e \notin movements[pc], e \in x.moved PROVE FALSE
      OBVIOUS
    <3>1. PICK k \in 1 .. i : rows[k] # None /\ rows[k].entity = e
      BY <1>1 DEF MovesKnown, rows
    <3>2. k = i + 1
      BY <1>4, <1>5, <3>1
    <3> QED BY <1>4, <3>2
  <2>4. ASSUME e \notin movements[pc]
        PROVE  /\ IsFiniteSet(x.moved \cup {e}) /\ Sum(x.moved) \in Int
               /\ Sum(x.moved \cup {e}) = Sum(x.moved) + e.change
    <3>1. PICK S \in SUBSET Movements : S = x.moved
      BY <1>6
    <3>2. IsFiniteSet(S) /\ e \notin S /\ e \in Movements
      BY <1>1, <1>9, <2>3, <2>4, <3>1 DEF MovesKnown
    <3>3. IsFiniteSet(S \cup {e}) /\ Sum(S) \in Int /\ Sum(S \cup {e}) = Sum(S) + e.change
      BY <3>2, SumGrows
    <3> QED BY <3>1, <3>3
  <2>5. StatusKept(pc, y)
    BY <1>1, <2>1 DEF StatusKept
  <2>6. x.moved \subseteq y.moved /\ y.moved \subseteq x.moved \cup {e}
    BY <2>1
  <2>7. MovesKnown(pc, y, i + 1)
    <3>1. IsFiniteSet(y.moved)
      BY <1>1, <2>1, <2>4 DEF MovesKnown
    <3>2. \A d \in x.moved : \/ d \in movements[pc]
                             \/ \E k \in 1 .. i + 1 : pull[pc].rows[k] # None /\ pull[pc].rows[k].entity = d
      BY <1>1, <1>4 DEF MovesKnown
    <3>3. \E k \in 1 .. i + 1 : pull[pc].rows[k] # None /\ pull[pc].rows[k].entity = e
      BY <1>4 DEF rows
    <3>4. movements[pc] \subseteq x.moved
      BY <1>1 DEF MovesKnown
    <3> QED BY <2>6, <3>1, <3>2, <3>3, <3>4 DEF MovesKnown
  <2>8. StockKept(pc, y)
    BY <1>1, <2>1 DEF StockKept
  <2>9. AllThere(pc, y, i + 1)
    <3> SUFFICES ASSUME ~ y.broken, NEW k \in 1 .. i + 1, pull[pc].rows[k] # None,
                        NEW d, d = pull[pc].rows[k].entity
                 PROVE  /\ d = Item => y.quantity # None
                        /\ d \in Sales => y.status[d.receipt] # "NONE"
                        /\ d \in Movements => d \in y.moved
      BY DEF AllThere
    <3>1. CASE k \in 1 .. i
      <4>1. /\ d = Item => x.quantity # None
            /\ d \in Sales => x.status[d.receipt] # "NONE"
            /\ d \in Movements => d \in x.moved
        BY <1>1, <2>1, <3>1 DEF AllThere
      <4>2. x.quantity # None => y.quantity # None
        BY <2>1
      <4> QED BY <2>1, <2>6, <4>1, <4>2
    <3>2. CASE k = i + 1
      <4>1. d = e
        BY <1>4, <3>2 DEF rows
      <4>2. e \in y.moved
        BY <1>1, <2>1 DEF MovesKnown
      <4> QED BY <2>2, <4>1, <4>2
    <3> QED BY <1>4, <3>1, <3>2
  <2>10. SumKept(pc, y)
    <3>1. CASE e \in movements[pc]
      BY <1>1, <2>1, <3>1
    <3>2. CASE e \notin movements[pc] /\ x.quantity = None
      BY <2>1, <3>2 DEF SumKept
    <3>3. CASE e \notin movements[pc] /\ x.quantity # None
      <4> SUFFICES ASSUME ~ y.clipped, Read(pc) # None => Read(pc) = base[pc] + Sum(movements[pc])
                   PROVE  y.quantity = y.base + Sum(y.moved)
        BY DEF SumKept
      <4>1. x.quantity = x.base + Sum(x.moved)
        BY <1>1, <2>1, <3>3 DEF SumKept
      <4>2. x.quantity \in Nat /\ x.base \in Nat
        BY <1>1, <1>6, <3>3 DEF StockKept
      <4>3. y.quantity = x.quantity + e.change /\ y.base = x.base /\ y.moved = x.moved \cup {e}
        BY <2>1, <3>3
      <4>4. Sum(x.moved) \in Int /\ Sum(y.moved) = Sum(x.moved) + e.change
        BY <2>4, <3>3, <4>3
      <4> QED BY <2>2, <4>1, <4>2, <4>3, <4>4
    <3> QED BY <3>1, <3>2, <3>3
  <2> QED BY <1>2, <2>1, <2>5, <2>7, <2>8, <2>9, <2>10 DEF SoFar
<1> QED BY <1>7, <1>8, <1>9, EntityFacts

\* What the whole answer makes of the PC's rows.
LEMMA ResultKnows ==
    ASSUME TypeOK, NEW pc \in PCs, Stocked(pc), PullKnows(pc)
    PROVE  SoFar(pc, Result(pc), Len(pull[pc].rows))
<1>1. PICK n \in Nat : n = Len(pull[pc].rows)
  BY TypeFacts DEF PCTypes
<1>2. PICK g : /\ g = Applying(pc) /\ g[0] = Start(pc)
               /\ \A i \in 1 .. n :
                    g[i] = IF pull[pc].rows[i] = None THEN g[i - 1]
                           ELSE Applied(pc, g[i - 1], pull[pc].rows[i])
  BY <1>1, ApplyingEquation
<1> DEFINE S == {i \in 0 .. n : SoFar(pc, g[i], i)}
<1>3. 0 \in S
  BY <1>2, SoFarStarts
<1>4. ASSUME NEW i \in 0 .. n, i < n, i \in S PROVE i + 1 \in S
  <2>1. i + 1 \in 1 .. n /\ i + 1 \in 0 .. n /\ (i + 1) - 1 = i
    BY <1>4
  <2>2. PICK x : x = g[i] /\ SoFar(pc, x, i)
    BY <1>4
  <2>3. CASE pull[pc].rows[i + 1] = None
    <3>1. g[i + 1] = x
      BY <1>2, <2>1, <2>2, <2>3
    <3>2. SoFar(pc, x, i + 1)
      BY <2>2, <2>3, SoFarSkips
    <3> QED BY <2>1, <3>1, <3>2
  <2>4. CASE pull[pc].rows[i + 1] # None
    <3>1. PICK m \in Mutation : m = pull[pc].rows[i + 1]
      BY <1>1, <2>1, <2>4, TypeFacts DEF PCTypes
    <3>2. g[i + 1] = Applied(pc, x, m)
      BY <1>2, <2>1, <2>2, <2>4, <3>1
    <3>3. SoFar(pc, Applied(pc, x, m), i + 1)
      BY <1>1, <1>4, <2>2, <2>4, <3>1, SoFarGoesOn
    <3> QED BY <2>1, <3>2, <3>3
  <2> QED BY <2>3, <2>4
<1> HIDE DEF S
<1>5. \A i \in 0 .. n : i \in S
  BY <1>3, <1>4, AllNumbers
<1>6. SoFar(pc, g[n], n)
  BY <1>5 DEF S
<1> QED BY <1>1, <1>2, <1>6 DEF Result

\* Applying an answer keeps the invariant.
LEMMA ApplyStep ==
    ASSUME PInv, NEW pc \in PCs, Apply(pc)
    PROVE  PInv'
<1>0. TypeOK /\ LogKnows /\ CloudKnows /\ \A q \in PCs : SaleIsNew(q) /\ PCKnows(q)
  BY DEF PInv
<1>k. /\ DeskKnows(pc) /\ Stocked(pc) /\ Booked(pc) /\ OutboxKnows(pc)
      /\ PushKnows(pc) /\ PullKnows(pc) /\ CursorKnows(pc) /\ Explained(pc)
  BY <1>0 DEF PCKnows
<1>c. PICK n \in Nat : n = Len(pull[pc].rows)
  BY <1>0, TypeFacts DEF PCTypes
<1>d. PICK x : x = Result(pc) /\ SoFar(pc, x, n)
  BY <1>0, <1>k, <1>c, ResultKnows
<1>e. /\ x \in Copies /\ StatusKept(pc, x) /\ MovesKnown(pc, x, n) /\ StockKept(pc, x)
      /\ AllThere(pc, x, n) /\ SumKept(pc, x)
  BY <1>d DEF SoFar
<1>f. /\ x.quantity \in Nat \cup {None} /\ x.base \in Nat \cup {None}
      /\ x.status \in [Receipts -> Statuses] /\ x.moved \in SUBSET Movements
  BY <1>e DEF Copies
<1>a. /\ ~ x.broken
      /\ quantity' = [quantity EXCEPT ![pc] = IF x.wrote THEN x.quantity ELSE quantity[pc]]
      /\ base' = [base EXCEPT ![pc] = x.base]
      /\ receipts' = [receipts EXCEPT ![pc] = x.status]
      /\ movements' = [movements EXCEPT ![pc] = x.moved]
      /\ since' = [since EXCEPT ![pc] = pull[pc].clock]
      /\ pull' = [pull EXCEPT ![pc] = NoPull]
      /\ gap' = IF pull[pc].short THEN gap \cup {pc} ELSE gap
      /\ disturbed' = IF x.clipped \/ (pull[pc].phase = "loaded" /\ pull[pc].seen # quantity[pc] /\ x.wrote)
                      THEN disturbed \cup {pc} ELSE disturbed
  BY <1>d DEF Apply
<1>b. /\ device' = device /\ outbox' = outbox /\ edits' = edits /\ desk' = desk
      /\ pushing' = pushing /\ catalogue' = catalogue /\ ledger' = ledger /\ log' = log
  BY DEF Apply, cloudVars
<1>g. /\ quantity'[pc] = (IF x.wrote THEN x.quantity ELSE quantity[pc])
      /\ base'[pc] = x.base /\ receipts'[pc] = x.status /\ movements'[pc] = x.moved
      /\ since'[pc] = pull[pc].clock /\ pull'[pc] = NoPull
  BY <1>0, <1>a DEF TypeOK
<1>h. \A q \in PCs : q # pc => /\ quantity'[q] = quantity[q] /\ base'[q] = base[q]
                               /\ receipts'[q] = receipts[q] /\ movements'[q] = movements[q]
                               /\ since'[q] = since[q] /\ pull'[q] = pull[q]
  BY <1>0, <1>a DEF TypeOK
<1>i. /\ Read(pc) = None <=> quantity[pc] = None
      /\ quantity'[pc] = None <=> x.quantity = None
      /\ quantity[pc] # None => quantity'[pc] # None
  <2>1. Read(pc) = None <=> quantity[pc] = None
    BY <1>k DEF Read, Stocked
  <2> QED BY <1>e, <1>g, <2>1 DEF StockKept
<1>j. quantity'[pc] \in Nat \cup {None}
  BY <1>0, <1>f, <1>g, TypeFacts DEF PCTypes
<1>l. /\ pull[pc].clock \in 0 .. MaxLog /\ pull[pc].short \in BOOLEAN
  <2>1. pull[pc] \in [phase: Phases, rows: Seq(Mutation \cup {None}), clock: 0 .. MaxLog,
                      seen: Nat \cup {None}, short: BOOLEAN]
    BY <1>0, TypeFacts DEF PCTypes
  <2> QED BY <2>1
<1>m. Len(log) \in Nat /\ \A i \in 1 .. Len(log) : log[i].entity \in Entities /\ log[i].pc \in PCs
  BY <1>0, TypeFacts DEF CloudTypes
<1>n. /\ NoPull \in [phase: Phases, rows: Seq(Mutation \cup {None}), clock: 0 .. MaxLog,
                     seen: Nat \cup {None}, short: BOOLEAN]
      /\ NoPull.seen = None /\ NoPull.phase = "idle" /\ PullKnows(pc)'
  BY <1>b, <1>g, <1>m, NoPullKnows
\* A row of the answer names what some PC has.
<1>o. ASSUME NEW k \in 1 .. n, pull[pc].rows[k] # None
      PROVE  \E q \in PCs : Has(q, pull[pc].rows[k].entity)
  <2>1. k \in 1 .. Len(log) /\ pull[pc].rows[k].entity = log[k].entity
    BY <1>c, <1>k, <1>m, <1>o DEF PullKnows
  <2>2. Has(log[k].pc, log[k].entity) /\ log[k].pc \in PCs
    BY <1>0, <1>m, <2>1 DEF LogKnows
  <2>3. Has(log[k].pc, pull[pc].rows[k].entity)
    BY <2>1, <2>2
  <2> QED BY <2>2, <2>3
\* A movement that is new here is one of another PC.
<1>p. ASSUME NEW m \in x.moved, m \notin movements[pc]
      PROVE  m \in Movements /\ m.at \in PCs /\ m.at # pc /\ m \in movements[m.at]
  <2>1. m \in Movements /\ m.at \in PCs
    BY <1>f, EntityFacts
  <2>2. PICK k \in 1 .. n : pull[pc].rows[k] # None /\ pull[pc].rows[k].entity = m
    BY <1>e, <1>p DEF MovesKnown
  <2>3. PICK q \in PCs : Has(q, m)
    BY <1>o, <2>2
  <2>4. m \in movements[q]
    BY <2>1, <2>3, HasFacts
  <2>5. m \in movements[m.at]
    BY <1>0, <2>4 DEF PCKnows, Booked
  <2> QED BY <1>p, <2>1, <2>5
<1>1. TypeOK'
  <2>1. quantity' \in [PCs -> Nat \cup {None}] /\ base' \in [PCs -> Nat \cup {None}]
    <3>1. (IF x.wrote THEN x.quantity ELSE quantity[pc]) \in Nat \cup {None}
      BY <1>g, <1>j
    <3> QED BY <1>0, <1>a, <1>f, <3>1 DEF TypeOK
  <2>2. receipts' \in [PCs -> [Receipts -> Statuses]] /\ movements' \in [PCs -> SUBSET Movements]
    BY <1>0, <1>a, <1>f DEF TypeOK
  <2>3. since' \in [PCs -> 0 .. MaxLog]
    BY <1>0, <1>a, <1>l DEF TypeOK
  <2>4. pull' \in [PCs -> [phase: Phases, rows: Seq(Mutation \cup {None}), clock: 0 .. MaxLog,
                           seen: Nat \cup {None}, short: BOOLEAN]]
    BY <1>0, <1>a, <1>n DEF TypeOK
  <2>5. gap' \subseteq PCs /\ disturbed' \subseteq PCs
    BY <1>0, <1>a DEF TypeOK
  <2> QED BY <1>0, <1>b, <2>1, <2>2, <2>3, <2>4, <2>5 DEF TypeOK
<1>2. Grows
  <2>1. ASSUME NEW q \in PCs
        PROVE  /\ quantity[q] # None => quantity'[q] # None
               /\ movements[q] \subseteq movements'[q]
               /\ \A r \in Receipts : receipts[q][r] # "NONE" => receipts'[q][r] # "NONE"
    <3>1. CASE q # pc
      BY <1>h, <3>1
    <3>2. CASE q = pc
      BY <1>e, <1>g, <1>i, <3>2 DEF StatusKept, MovesKnown
    <3> QED BY <3>1, <3>2
  <2> QED BY <2>1 DEF Grows
<1>3. LogGrows
  BY <1>0, <1>b, SameLog
<1>4. LogKnows'
  BY <1>0, <1>2, <1>b, LogStays
<1>5. CloudKnows'
  BY <1>0, <1>b, CloudStays
<1>6. ASSUME NEW q \in PCs PROVE SaleIsNew(q)'
  <2> SUFFICES ASSUME desk[q].call = "sale"
               PROVE  \A other \in PCs : /\ receipts'[other][desk[q].receipt] = "NONE"
                                         /\ other # q => desk[other].receipt # desk[q].receipt
    BY <1>b DEF SaleIsNew
  <2>1. \A other \in PCs : /\ receipts[other][desk[q].receipt] = "NONE"
                           /\ other # q => desk[other].receipt # desk[q].receipt
    BY <1>0 DEF SaleIsNew
  <2>2. PICK r \in Receipts : r = desk[q].receipt
    <3>1. desk[q] # NoCall
      BY DEF NoCall
    <3> QED BY <1>0, <3>1 DEF PCKnows, DeskKnows
  <2>3. x.status[r] = "NONE"
    <3> SUFFICES ASSUME x.status[r] # "NONE" PROVE FALSE
      OBVIOUS
    <3>1. x.status[r] # receipts[pc][r]
      BY <2>1, <2>2
    <3>2. PICK k \in 1 .. n : pull[pc].rows[k] # None /\ pull[pc].rows[k].entity = Sale(r)
      BY <1>c, <1>e, <3>1 DEF StatusKept
    <3>3. PICK p \in PCs : Has(p, Sale(r))
      BY <1>o, <3>2
    <3>4. receipts[p][r] # "NONE"
      BY <3>3, HasFacts
    <3> QED BY <2>1, <2>2, <3>4
  <2> QED BY <1>g, <1>h, <2>1, <2>2, <2>3
<1>7. ASSUME NEW q \in PCs, q # pc PROVE PCKnows(q)'
  <2>1. Rests(q)
    <3>1. /\ q \notin gap' => q \notin gap
          /\ q \notin disturbed' => q \notin disturbed
      BY <1>a
    <3> QED BY <1>7, <1>b, <1>h, <3>1 DEF Rests
  <2>2. NothingOpened(q)
    BY <1>0, <1>b, NothingOpens
  <2> QED BY <1>0, <1>2, <1>3, <2>1, <2>2, RestingKnows
<1>8. PCKnows(pc)'
  <2>1. Queues(pc)
    BY <1>0, <1>b, TypeFacts DEF Queues, PCTypes
  <2>2. DeskKnows(pc)'
    <3> SUFFICES ASSUME desk[pc] # NoCall
                 PROVE  quantity'[pc] # None /\ Moving(pc) \notin x.moved
      BY <1>b, <1>g, <1>k DEF DeskKnows, Moving
    <3>1. quantity[pc] # None /\ Moving(pc) \notin movements[pc]
      BY <1>k DEF DeskKnows
    <3>2. Moving(pc).at = pc
      BY DEF Moving
    <3>3. Moving(pc) \notin x.moved
      BY <1>p, <3>1, <3>2
    <3> QED BY <1>i, <3>1, <3>3
  <2>3. Stocked(pc)'
    <3>1. IsFiniteSet(x.moved) /\ (x.quantity = None <=> x.base = None) /\ (x.quantity = None => x.moved = {})
      BY <1>e DEF MovesKnown, StockKept
    <3> QED BY <1>g, <1>i, <1>n, <3>1 DEF Stocked
  <2>4. Booked(pc)'
    <3>1. ASSUME NEW m \in x.moved
          PROVE  /\ m \in movements'[m.at]
                 /\ m.at = pc => /\ x.status[m.receipt] # "NONE"
                                 /\ m.change = 1 => x.status[m.receipt] = "CANCELLED"
      <4>1. m.at \in PCs /\ m.receipt \in Receipts
        BY <1>f, EntityFacts
      <4>2. CASE m \in movements[pc]
        <5>1. /\ m \in movements[m.at]
              /\ m.at = pc => /\ receipts[pc][m.receipt] # "NONE"
                              /\ m.change = 1 => receipts[pc][m.receipt] = "CANCELLED"
          BY <1>k, <4>2 DEF Booked
        <5> QED BY <1>2, <1>e, <4>1, <5>1 DEF Grows, StatusKept
      <4>3. CASE m \notin movements[pc]
        BY <1>2, <1>p, <4>1, <4>3 DEF Grows
      <4> QED BY <4>2, <4>3
    <3> QED BY <1>g, <3>1 DEF Booked
  <2>5. OutboxKnows(pc)'
    BY <1>0, <1>2, <1>b, <1>k, OutboxStays
  <2>6. PushKnows(pc)'
    BY <1>0, <1>b, <1>k, <2>1, PushQueues
  <2>7. PullKnows(pc)'
    BY <1>n
  <2>8. CursorKnows(pc)'
    <3>1. pull[pc].clock = n /\ n <= Len(log) /\ since[pc] \in Nat
      BY <1>0, <1>c, <1>k, TypeFacts DEF PullKnows, PCTypes
    <3>2. ASSUME pc \notin gap', NEW i \in 1 .. n, log[i].pc # pc PROVE Has(pc, log[i].entity)'
      <4>1. ~ pull[pc].short /\ pc \notin gap
        BY <1>a, <3>2
      <4>2. i \in 1 .. Len(log)
        BY <1>m, <3>1
      <4>3. PICK e \in Entities : e = log[i].entity
        BY <1>m, <4>2
      <4>4. CASE i <= since[pc]
        <5>1. i \in 1 .. since[pc]
          BY <3>1, <4>4
        <5>2. Has(pc, log[i].entity)
          BY <1>k, <3>2, <4>1, <5>1 DEF CursorKnows
        <5>3. Has(pc, e)
          BY <4>3, <5>2
        <5>4. Has(pc, e)'
          BY <1>2, <5>3, HasStays
        <5>5. log'[i].entity = e
          BY <1>b, <4>3
        <5> QED BY <5>4, <5>5 DEF Has
      <4>5. CASE i > since[pc]
        <5>1. PICK k \in 1 .. n : pull[pc].rows[k] # None /\ pull[pc].rows[k].entity = e
          BY <1>c, <1>k, <3>2, <4>1, <4>3, <4>5 DEF PullKnows
        <5>2. /\ e = Item => x.quantity # None
              /\ e \in Sales => x.status[e.receipt] # "NONE"
              /\ e \in Movements => e \in x.moved
          BY <1>a, <1>e, <5>1 DEF AllThere
        <5>3. /\ e = Item => quantity'[pc] # None
              /\ e \in Sales => receipts'[pc][e.receipt] # "NONE"
              /\ e \in Movements => e \in movements'[pc]
          BY <1>g, <1>i, <5>2
        <5>4. Has(pc, e)'
          BY <5>3, EntityFacts DEF Has
        <5>5. log'[i].entity = e
          BY <1>b, <4>3
        <5> QED BY <5>4, <5>5 DEF Has
      <4> QED BY <3>1, <4>4, <4>5
    <3>3. since'[pc] = n /\ log' = log
      BY <1>b, <1>g, <3>1
    <3> QED BY <3>1, <3>2, <3>3 DEF CursorKnows, Has
  <2>9. Explained(pc)'
    <3> SUFFICES ASSUME pc \notin disturbed', quantity'[pc] # None
                 PROVE  quantity'[pc] = x.base + Sum(x.moved)
      BY <1>g DEF Explained, Sum
    <3>1. /\ pc \notin disturbed /\ ~ x.clipped
          /\ x.wrote => Read(pc) = quantity[pc]
      BY <1>a DEF Read
    <3>2. quantity[pc] # None => quantity[pc] = base[pc] + Sum(movements[pc])
      BY <1>k, <3>1 DEF Explained
    <3>3. CASE x.wrote
      <4>1. Read(pc) # None => Read(pc) = base[pc] + Sum(movements[pc])
        BY <1>i, <3>1, <3>2, <3>3
      <4>2. x.quantity # None
        BY <1>i
      <4>3. x.quantity = x.base + Sum(x.moved)
        BY <1>e, <3>1, <4>1, <4>2 DEF SumKept
      <4> QED BY <1>g, <3>3, <4>3
    <3>4. CASE ~ x.wrote
      <4>1. x.base = base[pc] /\ x.moved = movements[pc] /\ quantity'[pc] = quantity[pc]
        BY <1>e, <1>g, <3>4 DEF StockKept
      <4> QED BY <3>2, <4>1
    <3> QED BY <3>3, <3>4
  <2> QED BY <2>2, <2>3, <2>4, <2>5, <2>6, <2>7, <2>8, <2>9 DEF PCKnows
<1> QED
  BY <1>1, <1>4, <1>5, <1>6, <1>7, <1>8 DEF PInv

-------------------------------------------------------------------------------
\* The theorems

\* No PC knows anything at first.
LEMMA PInvInit == Init => PInv
<1> SUFFICES ASSUME Init PROVE PInv
  OBVIOUS
<1>1. TypeOK
  <2>1. /\ <<>> \in Seq(Row) /\ <<>> \in Seq(LogRow) /\ <<>> \in Seq(Mutation \cup {None})
        /\ 0 \in 0 .. MaxLog /\ 0 \in 0 .. BatchSize
    BY PullAssumption
  <2>2. NoCall \in [call: Calls, receipt: Receipts \cup {None}, seen: Nat \cup {None}]
    BY DEF NoCall, Calls
  <2>3. NoPull \in [phase: Phases, rows: Seq(Mutation \cup {None}), clock: 0 .. MaxLog,
                    seen: Nat \cup {None}, short: BOOLEAN]
    BY <2>1 DEF NoPull, Phases
  <2> HIDE DEF NoCall, NoPull, Row, LogRow, Mutation
  <2> QED BY <2>1, <2>2, <2>3 DEF Init, TypeOK, Statuses
<1>2. log = <<>> /\ Len(log) = 0 /\ 1 .. 0 = {}
  BY DEF Init
<1>3. LogKnows /\ CloudKnows
  BY <1>2, PullAssumption DEF LogKnows, CloudKnows
<1>4. ASSUME NEW pc \in PCs PROVE SaleIsNew(pc) /\ PCKnows(pc)
  <2>1. /\ quantity[pc] = None /\ base[pc] = None /\ movements[pc] = {}
        /\ desk[pc] = NoCall /\ NoCall.call = "idle" /\ outbox[pc] = <<>> /\ pushing[pc] = 0
        /\ since[pc] = 0 /\ pull[pc] = NoPull /\ NoPull.phase = "idle" /\ NoPull.rows = <<>>
        /\ NoPull.clock = 0 /\ NoPull.seen = None
    BY DEF Init, NoCall, NoPull
  <2>2. SaleIsNew(pc) /\ DeskKnows(pc)
    BY <2>1 DEF SaleIsNew, DeskKnows
  <2>3. Stocked(pc) /\ Booked(pc)
    BY <2>1, FS_EmptySet DEF Stocked, Booked
  <2>4. Len(<<>>) = 0 /\ 1 .. 0 = {}
    OBVIOUS
  <2>5. OutboxKnows(pc) /\ PushKnows(pc)
    BY <1>2, <2>1, <2>4 DEF OutboxKnows, PushKnows
  <2>6. PullKnows(pc) /\ CursorKnows(pc)
    BY <1>2, <2>1, <2>4 DEF PullKnows, CursorKnows
  <2>7. Explained(pc)
    BY <2>1 DEF Explained
  <2> QED BY <2>2, <2>3, <2>5, <2>6, <2>7 DEF PCKnows
<1> QED BY <1>1, <1>3, <1>4 DEF PInv

\* A step that changes nothing.
LEMMA PInvIdles ==
    ASSUME PInv, UNCHANGED vars
    PROVE  PInv'
<1>0. TypeOK /\ LogKnows /\ CloudKnows /\ \A q \in PCs : SaleIsNew(q) /\ PCKnows(q)
  BY DEF PInv
<1>b. /\ quantity' = quantity /\ base' = base /\ outbox' = outbox /\ edits' = edits
      /\ device' = device /\ receipts' = receipts /\ movements' = movements /\ since' = since
      /\ pushing' = pushing /\ catalogue' = catalogue /\ desk' = desk /\ pull' = pull
      /\ ledger' = ledger /\ log' = log /\ gap' = gap /\ disturbed' = disturbed
  BY DEF vars, localVars, cloudVars, history
<1>1. TypeOK'
  BY <1>0, <1>b DEF TypeOK
<1>2. Grows /\ LogGrows
  BY <1>0, <1>b, SameLog DEF Grows
<1>3. LogKnows' /\ CloudKnows'
  BY <1>0, <1>2, <1>b, LogStays, CloudStays
<1>4. ASSUME NEW q \in PCs PROVE SaleIsNew(q)' /\ PCKnows(q)'
  <2>1. Rests(q)
    BY <1>b DEF Rests
  <2>2. NothingOpened(q)
    BY <1>0, <1>b, NothingOpens
  <2>3. PCKnows(q)'
    BY <1>0, <1>2, <2>1, <2>2, RestingKnows
  <2>4. SaleIsNew(q)'
    BY <1>0, <1>b, SaleStays
  <2> QED BY <2>3, <2>4
<1> QED BY <1>1, <1>3, <1>4 DEF PInv

\* Every step keeps what the PCs and the cloud know of each other.
LEMMA PInvInductive == PInv /\ [Next]_vars => PInv'
<1> SUFFICES ASSUME PInv, [Next]_vars PROVE PInv'
  OBVIOUS
<1>1. CASE UNCHANGED vars
  BY <1>1, PInvIdles
<1>2. ASSUME NEW pc \in PCs, Screens(pc) PROVE PInv'
  <2>1. CASE Register(pc)
    BY <2>1, RegisterStep
  <2>2. CASE CreateProduct(pc)
    BY <2>2, CreateStep
  <2>3. CASE EditProduct(pc)
    BY <2>3, EditStep
  <2>4. ASSUME NEW r \in Receipts, Load(pc, "sale", r) \/ Load(pc, "cancellation", r) PROVE PInv'
    BY <2>4, LoadStep
  <2>5. CASE Book(pc)
    BY <2>5, BookStep
  <2>6. CASE Kill(pc)
    BY <2>6, KillStep
  <2> QED BY <1>2, <2>1, <2>2, <2>3, <2>4, <2>5, <2>6 DEF Screens
<1>3. ASSUME NEW pc \in PCs, Worker(pc) PROVE PInv'
  <2>1. CASE OpenPush(pc)
    BY <2>1, OpenPushStep
  <2>2. CASE CommitPush(pc)
    BY <2>2, CommitPushStep
  <2>3. CASE Ask(pc)
    BY <2>3, AskStep
  <2>4. CASE LoadForApply(pc)
    BY <2>4, LoadForApplyStep
  <2>5. CASE Apply(pc)
    BY <2>5, ApplyStep
  <2>6. CASE Fail(pc)
    BY <2>6, FailStep
  <2> QED BY <1>3, <2>1, <2>2, <2>3, <2>4, <2>5, <2>6 DEF Worker
<1> QED BY <1>1, <1>2, <1>3 DEF Next

\* The inductive invariant of the PCs that share a cloud: what each has, it had first or
\* somebody else has, the log names nothing that nobody has, and no answer is incomplete
\* unnoticed.
THEOREM PCsKnow == Spec => []PInv
  BY PInvInit, PInvInductive, PTL DEF Spec

\* No quantity falls below zero, however sales, cancellations and pulled movements
\* interleave: apply clips where change_stock would refuse (apply.py:223-243).
THEOREM PullTypeCorrect == Spec => []TypeOK
<1>1. PInv => TypeOK
  BY DEF PInv
<1> QED BY <1>1, PCsKnow, PTL

\* Every movement reaches the stock of a PC exactly once, for any number of PCs, receipts,
\* registrations and repeated or cut-off pulls (apply.py:206-243).
THEOREM MovementsAddUp == Spec => []MovementsExplainStock
<1>1. PInv => MovementsExplainStock
  BY DEF PInv, PCKnows, Explained, MovementsExplainStock
<1> QED BY <1>1, PCsKnow, PTL

\* Whatever fails between answer and commit, the cursor passes no row that was not
\* applied, unless the answer was short (worker.py:371-378, cloud_api.py:410-423).
THEOREM NothingIsSkipped == Spec => []NothingBehindTheCursor
<1>1. ASSUME PInv PROVE NothingBehindTheCursor
  <2> SUFFICES ASSUME NEW pc \in PCs \ gap, NEW i \in 1 .. since[pc], Foreign(pc, i)
               PROVE  Has(pc, log[i].entity)
    BY DEF NothingBehindTheCursor
  <2>1. since[pc] <= Len(log) /\ since[pc] \in Nat /\ Len(log) \in Nat
    BY <1>1, TypeFacts DEF PInv, PCKnows, CursorKnows, PCTypes, CloudTypes
  <2>2. CASE log[i].pc # pc
    BY <1>1, <2>2 DEF PInv, PCKnows, CursorKnows
  <2>3. CASE log[i].pc = pc
    <3>1. i \in 1 .. Len(log)
      BY <2>1
    <3>2. Has(log[i].pc, log[i].entity)
      BY <1>1, <3>1 DEF PInv, LogKnows
    <3> QED BY <2>3, <3>2
  <2> QED BY <2>2, <2>3
<1> QED BY <1>1, PCsKnow, PTL

\* No status of a sale that is cancelled changes, here or in the cloud.
LEMMA CancelledStays ==
    ASSUME PInv, [Next]_vars, NEW r \in Receipts
    PROVE  /\ ledger[r] = "CANCELLED" => ledger'[r] = "CANCELLED"
           /\ \A pc \in PCs : receipts[pc][r] = "CANCELLED" => receipts'[pc][r] = "CANCELLED"
<1>0. TypeOK /\ \A q \in PCs : SaleIsNew(q) /\ PCKnows(q)
  BY DEF PInv
<1>1. CASE ledger' = ledger /\ receipts' = receipts
  BY <1>1
<1>2. ASSUME NEW pc \in PCs, CommitPush(pc)
      PROVE  receipts' = receipts /\ (ledger[r] = "CANCELLED" => ledger'[r] = "CANCELLED")
  <2>1. PICK sent : sent = SubSeq(outbox[pc], 1, pushing[pc])
    OBVIOUS
  <2>2. sent \in Seq(Row)
    <3>1. outbox[pc] \in Seq(Row) /\ pushing[pc] \in Nat /\ pushing[pc] <= Len(outbox[pc])
      BY <1>0, TypeFacts DEF PCTypes, PCKnows, PushKnows
    <3> QED BY <2>1, <3>1, SubSeqProperties
  <2>3. ledger'[r] = SaleAfter(r, sent) /\ receipts' = receipts
    BY <1>2, <2>1 DEF CommitPush
  <2> QED BY <1>0, <2>2, <2>3, SaleAfterFacts
<1>3. ASSUME NEW pc \in PCs, Book(pc)
      PROVE  /\ ledger' = ledger
             /\ \A q \in PCs : receipts[q][r] = "CANCELLED" => receipts'[q][r] = "CANCELLED"
  <2>1. /\ desk[pc].receipt \in Receipts /\ desk[pc].call \in {"sale", "cancellation"}
        /\ desk[pc].call = "sale" => receipts[pc][desk[pc].receipt] = "NONE"
    BY <1>0, <1>3 DEF Book, PCKnows, DeskKnows, SaleIsNew
  <2>2. PICK status : /\ status = IF desk[pc].call = "sale" THEN "COMPLETED" ELSE "CANCELLED"
                      /\ receipts' = [receipts EXCEPT ![pc] =
                                        [receipts[pc] EXCEPT ![desk[pc].receipt] = status]]
    BY <1>3 DEF Book
  <2>3. receipts[pc] \in [Receipts -> Statuses]
    BY <1>0, TypeFacts DEF PCTypes
  <2>4. \A q \in PCs : q # pc => receipts'[q] = receipts[q]
    BY <1>0, <2>2 DEF TypeOK
  <2>5. receipts'[pc][r] = IF r = desk[pc].receipt THEN status ELSE receipts[pc][r]
    BY <1>0, <2>2, <2>3 DEF TypeOK
  <2>6. ledger' = ledger
    BY <1>3 DEF Book, cloudVars
  <2> QED BY <2>1, <2>2, <2>4, <2>5, <2>6
<1>4. ASSUME NEW pc \in PCs, Apply(pc)
      PROVE  /\ ledger' = ledger
             /\ \A q \in PCs : receipts[q][r] = "CANCELLED" => receipts'[q][r] = "CANCELLED"
  <2>1. PICK x : x = Result(pc) /\ StatusKept(pc, x)
    BY <1>0, ResultKnows DEF PCKnows, SoFar
  <2>2. receipts' = [receipts EXCEPT ![pc] = x.status] /\ ledger' = ledger
    BY <1>4, <2>1 DEF Apply, cloudVars
  <2> QED BY <1>0, <2>1, <2>2 DEF TypeOK, StatusKept
<1>5. CASE UNCHANGED vars
  BY <1>1, <1>5 DEF vars, localVars, cloudVars
<1>6. ASSUME NEW pc \in PCs, Screens(pc), ~ Book(pc) PROVE ledger' = ledger /\ receipts' = receipts
  BY <1>6 DEF Screens, Register, CreateProduct, EditProduct, Load, Kill, localVars, cloudVars
<1>7. ASSUME NEW pc \in PCs, Worker(pc), ~ CommitPush(pc), ~ Apply(pc)
      PROVE  ledger' = ledger /\ receipts' = receipts
  BY <1>7 DEF Worker, OpenPush, Ask, LoadForApply, Fail, localVars, cloudVars
<1> QED BY <1>1, <1>2, <1>3, <1>4, <1>5, <1>6, <1>7 DEF Next

\* A cancelled sale stays cancelled on every PC and in the cloud, however old the answer
\* that is applied and whatever is pushed twice (apply.py:187, cloud_api.py:249-267).
THEOREM SalesStayCancelled == Spec => CancelledForGood
<1> DEFINE Step == \A r \in Receipts :
             /\ ledger[r] = "CANCELLED" => ledger'[r] = "CANCELLED"
             /\ \A pc \in PCs : receipts[pc][r] = "CANCELLED" => receipts'[pc][r] = "CANCELLED"
<1>1. PInv /\ [Next]_vars => [Step]_vars
  BY CancelledStays
<1>2. CancelledForGood <=> [][Step]_vars
  BY DEF CancelledForGood
<1> HIDE DEF Step
<1> QED BY <1>1, <1>2, PCsKnow, PTL DEF Spec

-------------------------------------------------------------------------------
\* The PCs agree

InLog(e) == \E i \in 1 .. Len(log) : log[i].entity = e
Queued(e) == \E q \in PCs : \E k \in 1 .. Len(outbox[q]) : outbox[q][k].entity = e

\* What a PC has is in the log or still to be sent.
Told(pc) ==
    /\ \A m \in movements[pc] : InLog(m) \/ Queued(m)
    /\ \A r \in Receipts : receipts[pc][r] # "NONE" => InLog(Sale(r)) \/ Queued(Sale(r))

Cancels(row, r) == row.entity = Sale(r) /\ row.operation = "UPDATE"

\* Who sends a cancellation has cancelled.
CancelsKnow(pc) ==
    \A k \in 1 .. Len(outbox[pc]), r \in Receipts :
       Cancels(outbox[pc][k], r) => receipts[pc][r] = "CANCELLED"

Cancelling(r) == \E q \in PCs : \E k \in 1 .. Len(outbox[q]) : Cancels(outbox[q][k], r)

\* A cancellation is in the cloud or still to be sent.
CancelTold(pc) ==
    \A r \in Receipts : receipts[pc][r] = "CANCELLED" => ledger[r] = "CANCELLED" \/ Cancelling(r)

\* What an open push holds is in the log, not committed, the product apart.
PushLogged(pc) ==
    \A k \in 1 .. pushing[pc] : outbox[pc][k].entity # Item =>
       \E i \in 1 .. Len(log) :
          log[i].pc = pc /\ ~ log[i].committed /\ log[i].entity = outbox[pc][k].entity

\* Unless it was cut short, a pull does not pass what is not committed.
CommittedBehind(pc) ==
    /\ pc \notin gap => \A i \in 1 .. since[pc] : log[i].pc # pc => log[i].committed
    /\ ~ pull[pc].short =>
         \A i \in 1 .. pull[pc].clock : i > since[pc] /\ log[i].pc # pc => log[i].committed

\* A sale that is cancelled in an answer is so in the cloud.
AnswerKnows(pc) ==
    \A k \in 1 .. Len(pull[pc].rows), r \in Receipts :
       pull[pc].rows[k] # None /\ pull[pc].rows[k].entity = Sale(r)
         /\ pull[pc].rows[k].status = "CANCELLED" => ledger[r] = "CANCELLED"

\* A cancellation the PC does not know of is in the log after its cursor, and in the
\* answer that has come that far.
Coming(pc, r) ==
    \E i \in 1 .. Len(log) :
       /\ i > since[pc] /\ log[i].pc # pc /\ log[i].entity = Sale(r)
       /\ ~ pull[pc].short /\ i <= pull[pc].clock =>
            \E k \in 1 .. Len(pull[pc].rows) :
               /\ pull[pc].rows[k] # None /\ pull[pc].rows[k].entity = Sale(r)
               /\ pull[pc].rows[k].status = "CANCELLED"

CancelComes(pc) ==
    \A r \in Receipts :
       pc \notin gap /\ ledger[r] = "CANCELLED" /\ receipts[pc][r] # "CANCELLED" => Coming(pc, r)

AKnows(pc) == /\ Told(pc) /\ CancelsKnow(pc) /\ CancelTold(pc) /\ PushLogged(pc)
              /\ CommittedBehind(pc) /\ AnswerKnows(pc) /\ CancelComes(pc)

AInv == \A pc \in PCs : AKnows(pc)

-------------------------------------------------------------------------------
\* What stays

\* What is in the log or to be sent is so afterwards, the product apart; what is
\* committed stays so, and a cancellation stays one.
Remembers ==
    /\ LogGrows
    /\ \A i \in 1 .. Len(log) : log[i].committed => log'[i].committed
    /\ \A e : e # Item /\ (InLog(e) \/ Queued(e)) => InLog(e)' \/ Queued(e)'
    /\ \A r \in Receipts : ledger[r] = "CANCELLED" \/ Cancelling(r) =>
         ledger'[r] = "CANCELLED" \/ Cancelling(r)'
    /\ \A r \in Receipts : ledger[r] = "CANCELLED" => ledger'[r] = "CANCELLED"
    /\ \A pc \in PCs, r \in Receipts : receipts[pc][r] = "CANCELLED" => receipts'[pc][r] = "CANCELLED"

\* Queues that only grow forget nothing.
LEMMA QueuesRemember ==
    ASSUME PInv, [Next]_vars, LogGrows, \A q \in PCs : Queues(q), ledger' = ledger,
           \A i \in 1 .. Len(log) : log[i].committed => log'[i].committed
    PROVE  Remembers
<1>1. TypeOK
  BY DEF PInv
<1>2. ASSUME NEW q \in PCs, NEW k \in 1 .. Len(outbox[q])
      PROVE  k \in 1 .. Len(outbox'[q]) /\ outbox'[q][k] = outbox[q][k]
  <2>1. Len(outbox[q]) \in Nat /\ Len(outbox'[q]) \in Nat /\ Len(outbox[q]) <= Len(outbox'[q])
    BY <1>1, TypeFacts DEF Queues, PCTypes
  <2> QED BY <2>1 DEF Queues
<1>3. ASSUME NEW e, InLog(e) PROVE InLog(e)'
  <2>1. PICK i \in 1 .. Len(log) : log[i].entity = e
    BY <1>3 DEF InLog
  <2>2. i \in 1 .. Len(log') /\ log'[i].entity = e
    BY <1>1, <2>1, TypeFacts DEF LogGrows, CloudTypes
  <2> QED BY <2>2 DEF InLog
<1>4. ASSUME NEW e, Queued(e) PROVE Queued(e)'
  BY <1>2, <1>4 DEF Queued
<1>5. ASSUME NEW r \in Receipts, Cancelling(r) PROVE Cancelling(r)'
  BY <1>2, <1>5 DEF Cancelling, Cancels
<1>6. \A r \in Receipts :
        /\ ledger[r] = "CANCELLED" => ledger'[r] = "CANCELLED"
        /\ \A pc \in PCs : receipts[pc][r] = "CANCELLED" => receipts'[pc][r] = "CANCELLED"
  BY CancelledStays
<1> QED BY <1>3, <1>4, <1>5, <1>6 DEF Remembers

\* What a PC told stays told while it books nothing.
LEMMA ToldStays ==
    ASSUME PInv, Remembers, NEW pc \in PCs, Told(pc), movements'[pc] = movements[pc],
           \A r \in Receipts : receipts'[pc][r] # "NONE" => receipts[pc][r] # "NONE"
    PROVE  Told(pc)'
<1>1. Told(pc)' = (/\ \A m \in movements'[pc] : InLog(m)' \/ Queued(m)'
                   /\ \A r \in Receipts : receipts'[pc][r] # "NONE" => InLog(Sale(r))' \/ Queued(Sale(r))')
  BY DEF Told
<1>2. (\A m \in movements[pc] : m # Item) /\ \A r \in Receipts : Sale(r) # Item
  BY TypeFacts, EntityFacts DEF PInv, PCTypes
<1> QED BY <1>1, <1>2 DEF Told, Remembers

\* So do its cancellations.
LEMMA CancelToldStays ==
    ASSUME Remembers, NEW pc \in PCs, CancelTold(pc), receipts'[pc] = receipts[pc]
    PROVE  CancelTold(pc)'
<1>1. CancelTold(pc)' = (\A r \in Receipts : receipts'[pc][r] = "CANCELLED" =>
                            ledger'[r] = "CANCELLED" \/ Cancelling(r)')
  BY DEF CancelTold
<1> QED BY <1>1 DEF CancelTold, Remembers

\* An open push stays in the log while the PC commits nothing.
LEMMA PushLoggedStays ==
    ASSUME PInv, LogGrows, NEW pc \in PCs, PushLogged(pc), Queues(pc), pushing'[pc] = pushing[pc],
           \A i \in 1 .. Len(log) : log[i].pc = pc => log'[i].committed = log[i].committed
    PROVE  PushLogged(pc)'
<1>1. /\ TypeOK /\ PushKnows(pc)
  BY DEF PInv, PCKnows
<1>2. /\ pushing[pc] \in Nat /\ Len(outbox[pc]) \in Nat /\ pushing[pc] <= Len(outbox[pc])
      /\ Len(log) \in Nat /\ Len(log') \in Nat /\ Len(log) <= Len(log')
  BY <1>1, TypeFacts DEF PCTypes, CloudTypes, PushKnows, LogGrows
<1>3. ASSUME NEW k \in 1 .. pushing[pc], outbox'[pc][k].entity # Item
      PROVE  \E i \in 1 .. Len(log') :
                log'[i].pc = pc /\ ~ log'[i].committed /\ log'[i].entity = outbox'[pc][k].entity
  <2>1. outbox'[pc][k] = outbox[pc][k]
    BY <1>2 DEF Queues
  <2>2. PICK i \in 1 .. Len(log) :
          log[i].pc = pc /\ ~ log[i].committed /\ log[i].entity = outbox[pc][k].entity
    BY <1>3, <2>1 DEF PushLogged
  <2>3. i \in 1 .. Len(log')
    BY <1>2
  <2> QED BY <2>1, <2>2, <2>3 DEF LogGrows
<1> QED BY <1>3 DEF PushLogged

\* What is committed behind a cursor stays so while the cursor stays.
LEMMA CommittedStays ==
    ASSUME PInv, Remembers, NEW pc \in PCs, CommittedBehind(pc), since'[pc] = since[pc],
           pull'[pc] = pull[pc], pc \notin gap' => pc \notin gap
    PROVE  CommittedBehind(pc)'
<1>1. TypeOK /\ CursorKnows(pc) /\ PullKnows(pc)
  BY DEF PInv, PCKnows
<1>2. /\ since[pc] \in Nat /\ Len(log) \in Nat /\ since[pc] <= Len(log)
      /\ pull[pc].clock = Len(pull[pc].rows) /\ Len(pull[pc].rows) \in Nat
      /\ Len(pull[pc].rows) <= Len(log)
  BY <1>1, TypeFacts DEF PCTypes, CloudTypes, CursorKnows, PullKnows
<1>3. /\ \A i \in 1 .. since[pc] : i \in 1 .. Len(log)
      /\ \A i \in 1 .. pull[pc].clock : i \in 1 .. Len(log)
  BY <1>2
<1>4. \A i \in 1 .. Len(log) : log'[i].pc = log[i].pc /\ (log[i].committed => log'[i].committed)
  BY DEF Remembers, LogGrows
<1> QED BY <1>3, <1>4 DEF CommittedBehind

\* What an answer says of a cancellation stays true.
LEMMA AnswerStays ==
    ASSUME Remembers, NEW pc \in PCs, AnswerKnows(pc), pull'[pc] = pull[pc]
    PROVE  AnswerKnows(pc)'
  BY DEF AnswerKnows, Remembers

\* What comes still comes.
LEMMA ComingStays ==
    ASSUME PInv, Remembers, NEW pc \in PCs, NEW r \in Receipts, Coming(pc, r),
           since'[pc] = since[pc], pull'[pc] = pull[pc]
    PROVE  Coming(pc, r)'
<1>1. TypeOK
  BY DEF PInv
<1>2. PICK i \in 1 .. Len(log) :
        /\ i > since[pc] /\ log[i].pc # pc /\ log[i].entity = Sale(r)
        /\ ~ pull[pc].short /\ i <= pull[pc].clock =>
             \E k \in 1 .. Len(pull[pc].rows) :
                /\ pull[pc].rows[k] # None /\ pull[pc].rows[k].entity = Sale(r)
                /\ pull[pc].rows[k].status = "CANCELLED"
  BY DEF Coming
<1>3. i \in 1 .. Len(log') /\ log'[i].pc = log[i].pc /\ log'[i].entity = log[i].entity
  BY <1>1, TypeFacts DEF CloudTypes, Remembers, LogGrows
<1> QED BY <1>2, <1>3 DEF Coming

\* So do all cancellations that have not come, while the cloud gets no new one.
LEMMA ComesStays ==
    ASSUME PInv, Remembers, NEW pc \in PCs, CancelComes(pc), ledger' = ledger,
           since'[pc] = since[pc], pull'[pc] = pull[pc], pc \notin gap' => pc \notin gap
    PROVE  CancelComes(pc)'
<1>1. ASSUME NEW r \in Receipts, pc \notin gap', ledger'[r] = "CANCELLED", receipts'[pc][r] # "CANCELLED"
      PROVE  Coming(pc, r)'
  <2>1. receipts[pc][r] # "CANCELLED"
    BY <1>1 DEF Remembers
  <2>2. Coming(pc, r)
    BY <1>1, <2>1 DEF CancelComes
  <2> QED BY <2>2, ComingStays
<1>2. CancelComes(pc)' = (\A r \in Receipts :
         pc \notin gap' /\ ledger'[r] = "CANCELLED" /\ receipts'[pc][r] # "CANCELLED" => Coming(pc, r)')
  BY DEF CancelComes
<1> QED BY <1>1, <1>2

\* Queues that do not grow by cancellations.
LEMMA CancelsStay ==
    ASSUME PInv, [Next]_vars, NEW pc \in PCs, CancelsKnow(pc), Queues(pc),
           \A k \in 1 .. Len(outbox'[pc]) : k > Len(outbox[pc]) => outbox'[pc][k].entity = Item
    PROVE  CancelsKnow(pc)'
<1>1. TypeOK
  BY DEF PInv
<1>2. ASSUME NEW k \in 1 .. Len(outbox'[pc]), NEW r \in Receipts, Cancels(outbox'[pc][k], r)
      PROVE  receipts'[pc][r] = "CANCELLED"
  <2>1. outbox'[pc][k].entity # Item
    BY <1>2, EntityFacts DEF Cancels
  <2>2. k \in 1 .. Len(outbox[pc]) /\ outbox'[pc][k] = outbox[pc][k]
    <3>1. Len(outbox[pc]) \in Nat /\ Len(outbox'[pc]) \in Nat
      BY <1>1, TypeFacts DEF PCTypes, Queues
    <3>2. ~ k > Len(outbox[pc])
      BY <2>1
    <3>3. k \in 1 .. Len(outbox[pc])
      BY <3>1, <3>2
    <3> QED BY <3>3 DEF Queues
  <2>3. receipts[pc][r] = "CANCELLED"
    BY <1>2, <2>2 DEF CancelsKnow
  <2> QED BY <2>3, CancelledStays
<1>3. CancelsKnow(pc)' = (\A k \in 1 .. Len(outbox'[pc]), r \in Receipts :
                            Cancels(outbox'[pc][k], r) => receipts'[pc][r] = "CANCELLED")
  BY DEF CancelsKnow, Cancels
<1> QED BY <1>2, <1>3

\* What a screen leaves alone that books nothing.
Idles ==
    /\ log' = log /\ ledger' = ledger /\ since' = since /\ pull' = pull /\ gap' = gap
    /\ receipts' = receipts /\ movements' = movements /\ pushing' = pushing
    /\ \A q \in PCs : /\ Queues(q)
                      /\ \A k \in 1 .. Len(outbox'[q]) :
                           k > Len(outbox[q]) => outbox'[q][k].entity = Item

\* Nothing is booked, pushed or pulled.
LEMMA IdlesAgree ==
    ASSUME PInv, AInv, [Next]_vars, Idles
    PROVE  AInv'
<1>1. TypeOK
  BY DEF PInv
<1>2. LogGrows
  BY <1>1, SameLog DEF Idles
<1>3. Remembers
  <2>1. /\ \A q \in PCs : Queues(q)
        /\ ledger' = ledger
        /\ \A i \in 1 .. Len(log) : log[i].committed => log'[i].committed
    BY DEF Idles
  <2> QED BY <1>2, <2>1, QueuesRemember
<1>4. ASSUME NEW pc \in PCs PROVE AKnows(pc)'
  <2>1. /\ Told(pc) /\ CancelsKnow(pc) /\ CancelTold(pc) /\ PushLogged(pc)
        /\ CommittedBehind(pc) /\ AnswerKnows(pc) /\ CancelComes(pc)
    BY DEF AInv, AKnows
  <2>2. /\ movements'[pc] = movements[pc] /\ receipts'[pc] = receipts[pc]
        /\ since'[pc] = since[pc] /\ pull'[pc] = pull[pc] /\ pushing'[pc] = pushing[pc]
        /\ pc \notin gap' => pc \notin gap
        /\ ledger' = ledger /\ Queues(pc)
        /\ \A k \in 1 .. Len(outbox'[pc]) : k > Len(outbox[pc]) => outbox'[pc][k].entity = Item
        /\ \A i \in 1 .. Len(log) : log[i].pc = pc => log'[i].committed = log[i].committed
    BY DEF Idles
  <2>3. Told(pc)'
    BY <1>3, <2>1, <2>2, ToldStays
  <2>4. CancelsKnow(pc)'
    BY <2>1, <2>2, CancelsStay
  <2>5. CancelTold(pc)'
    BY <1>3, <2>1, <2>2, CancelToldStays
  <2>6. PushLogged(pc)'
    BY <1>2, <2>1, <2>2, PushLoggedStays
  <2>7. CommittedBehind(pc)'
    BY <1>3, <2>1, <2>2, CommittedStays
  <2>8. AnswerKnows(pc)'
    BY <1>3, <2>1, <2>2, AnswerStays
  <2>9. CancelComes(pc)'
    BY <1>3, <2>1, <2>2, ComesStays
  <2> QED BY <2>3, <2>4, <2>5, <2>6, <2>7, <2>8, <2>9 DEF AKnows
<1> QED BY <1>4 DEF AInv

\* A queue that stays the same, and one that gets a row of the product.
LEMMA SameQueue ==
    ASSUME PInv, NEW pc \in PCs, outbox'[pc] = outbox[pc]
    PROVE  /\ Queues(pc)
           /\ \A k \in 1 .. Len(outbox'[pc]) : k > Len(outbox[pc]) => outbox'[pc][k].entity = Item
<1>1. Len(outbox[pc]) \in Nat /\ Len(outbox'[pc]) = Len(outbox[pc])
  BY TypeFacts DEF PInv, PCTypes
<1> QED BY <1>1 DEF Queues

\* One more save of the product in a queue cancels nothing and forgets nothing.
LEMMA ItemQueued ==
    ASSUME PInv, NEW pc \in PCs, NEW row \in Row, row.entity = Item,
           outbox' = [outbox EXCEPT ![pc] = Append(outbox[pc], row)], NEW q \in PCs
    PROVE  /\ Queues(q)
           /\ \A k \in 1 .. Len(outbox'[q]) : k > Len(outbox[q]) => outbox'[q][k].entity = Item
<1>1. TypeOK
  BY DEF PInv
<1>2. CASE q # pc
  <2>1. outbox'[q] = outbox[q]
    BY <1>1, <1>2 DEF TypeOK
  <2> QED BY <2>1, SameQueue
<1>3. CASE q = pc
  <2>1. outbox'[pc] = Append(outbox[pc], row)
    BY <1>1 DEF TypeOK
  <2>2. outbox[pc] \in Seq(Row) /\ Len(outbox[pc]) \in Nat
    BY <1>1, TypeFacts DEF PCTypes
  <2>3. /\ Len(outbox'[pc]) = Len(outbox[pc]) + 1
        /\ \A k \in 1 .. Len(outbox[pc]) : outbox'[pc][k] = outbox[pc][k]
        /\ outbox'[pc][Len(outbox[pc]) + 1] = row
    BY <2>1, <2>2, AppendProperties
  <2>4. \A k \in 1 .. Len(outbox'[pc]) : k > Len(outbox[pc]) => k = Len(outbox[pc]) + 1
    BY <2>2, <2>3
  <2> QED BY <1>3, <2>2, <2>3, <2>4 DEF Queues
<1> QED BY <1>2, <1>3

\* The steps of a screen that book nothing.
LEMMA ScreensIdle ==
    ASSUME PInv, NEW pc \in PCs,
           Register(pc) \/ CreateProduct(pc) \/ EditProduct(pc) \/ Kill(pc)
             \/ \E r \in Receipts, call \in {"sale", "cancellation"} : Load(pc, call, r)
    PROVE  Idles
<1>1. TypeOK
  BY DEF PInv
<1>2. CASE Register(pc) \/ Kill(pc) \/ \E r \in Receipts, call \in {"sale", "cancellation"} : Load(pc, call, r)
  <2>1. /\ log' = log /\ ledger' = ledger /\ since' = since /\ pull' = pull /\ gap' = gap
        /\ receipts' = receipts /\ movements' = movements /\ pushing' = pushing /\ outbox' = outbox
    BY <1>2 DEF Register, Kill, Load, localVars, cloudVars, history
  <2>2. \A q \in PCs : /\ Queues(q)
                       /\ \A k \in 1 .. Len(outbox'[q]) : k > Len(outbox[q]) => outbox'[q][k].entity = Item
    BY <2>1, SameQueue
  <2> QED BY <2>1, <2>2 DEF Idles
<1>3. CASE CreateProduct(pc)
  <2>1. PICK row : row = Saved("CREATE", Opening)
    OBVIOUS
  <2>2. row \in Row /\ row.entity = Item
    BY <1>1, <2>1, TypeFacts, EntityFacts, PullAssumption DEF Saved, Row, CloudTypes
  <2>3. /\ log' = log /\ ledger' = ledger /\ since' = since /\ pull' = pull /\ gap' = gap
        /\ receipts' = receipts /\ movements' = movements /\ pushing' = pushing
        /\ outbox' = [outbox EXCEPT ![pc] = Append(outbox[pc], row)]
    BY <1>3, <2>1 DEF CreateProduct, cloudVars, history
  <2>4. \A q \in PCs : /\ Queues(q)
                       /\ \A k \in 1 .. Len(outbox'[q]) : k > Len(outbox[q]) => outbox'[q][k].entity = Item
    BY <2>2, <2>3, ItemQueued
  <2> QED BY <2>3, <2>4 DEF Idles
<1>4. CASE EditProduct(pc)
  <2>1. PICK row : row = Saved("UPDATE", quantity[pc])
    OBVIOUS
  <2>2. row \in Row /\ row.entity = Item
    <3>1. quantity[pc] \in Nat
      BY <1>1, <1>4, TypeFacts DEF EditProduct, PCTypes
    <3> QED BY <1>1, <2>1, <3>1, TypeFacts, EntityFacts DEF Saved, Row, CloudTypes
  <2>3. /\ log' = log /\ ledger' = ledger /\ since' = since /\ pull' = pull /\ gap' = gap
        /\ receipts' = receipts /\ movements' = movements /\ pushing' = pushing
        /\ outbox' = [outbox EXCEPT ![pc] = Append(outbox[pc], row)]
    BY <1>4, <2>1 DEF EditProduct, cloudVars, history
  <2>4. \A q \in PCs : /\ Queues(q)
                       /\ \A k \in 1 .. Len(outbox'[q]) : k > Len(outbox[q]) => outbox'[q][k].entity = Item
    BY <2>2, <2>3, ItemQueued
  <2> QED BY <2>3, <2>4 DEF Idles
<1> QED BY <1>2, <1>3, <1>4

\* What booking does: the movement and the receipt are queued with it.
Books(pc, r, status, moved, operation) ==
    /\ status \in {"COMPLETED", "CANCELLED"} /\ moved \in Movements
    /\ operation = "UPDATE" <=> status = "CANCELLED"
    /\ movements'[pc] = movements[pc] \cup {moved}
    /\ receipts'[pc][r] = status /\ \A x \in Receipts : x # r => receipts'[pc][x] = receipts[pc][x]
    /\ Queues(pc) /\ Len(outbox'[pc]) = Len(outbox[pc]) + 2
    /\ outbox'[pc][Len(outbox[pc]) + 1] = Plain(moved, "CREATE")
    /\ outbox'[pc][Len(outbox[pc]) + 2] = Plain(Sale(r), operation)

\* A call books one movement and one receipt, and queues both.
LEMMA BookBooks ==
    ASSUME PInv, NEW pc \in PCs, Book(pc)
    PROVE  /\ \E r \in Receipts : \E status, moved, operation : Books(pc, r, status, moved, operation)
           /\ log' = log /\ ledger' = ledger /\ since' = since /\ pull' = pull /\ gap' = gap
           /\ pushing' = pushing
           /\ \A q \in PCs : q # pc => /\ receipts'[q] = receipts[q] /\ movements'[q] = movements[q]
                                       /\ outbox'[q] = outbox[q]
<1>0. TypeOK /\ DeskKnows(pc)
  BY DEF PInv, PCKnows
<1>1. desk[pc].call \in {"sale", "cancellation"} /\ desk[pc].receipt \in Receipts
  BY <1>0 DEF Book, DeskKnows
<1>2. PICK r \in Receipts, call \in {"sale", "cancellation"} : r = desk[pc].receipt /\ call = desk[pc].call
  BY <1>1
<1>3. PICK status \in {"COMPLETED", "CANCELLED"} :
        status = IF call = "sale" THEN "COMPLETED" ELSE "CANCELLED"
  OBVIOUS
<1>4. PICK operation \in {"CREATE", "UPDATE"} :
        operation = IF call = "sale" THEN "CREATE" ELSE "UPDATE"
  OBVIOUS
<1>5. PICK moved \in Movements :
        moved = [receipt |-> r, change |-> IF call = "sale" THEN -1 ELSE 1, at |-> pc]
  <2>1. (IF call = "sale" THEN -1 ELSE 1) \in {-1, 1}
    OBVIOUS
  <2>2. [receipt |-> r, change |-> IF call = "sale" THEN -1 ELSE 1, at |-> pc] \in Movements
    BY <2>1 DEF Movements
  <2> QED BY <2>2
<1>6. PICK rows : rows = <<Plain(moved, "CREATE"), Plain(Sale(r), operation)>>
  OBVIOUS
<1>7. /\ receipts' = [receipts EXCEPT ![pc] = [receipts[pc] EXCEPT ![r] = status]]
      /\ movements' = [movements EXCEPT ![pc] = movements[pc] \cup {moved}]
      /\ outbox' = [outbox EXCEPT ![pc] = outbox[pc] \o rows]
      /\ log' = log /\ ledger' = ledger /\ since' = since /\ pull' = pull /\ gap' = gap
      /\ pushing' = pushing
  BY <1>2, <1>3, <1>4, <1>5, <1>6 DEF Book, cloudVars
<1>8. /\ receipts'[pc] = [receipts[pc] EXCEPT ![r] = status]
      /\ movements'[pc] = movements[pc] \cup {moved}
      /\ outbox'[pc] = outbox[pc] \o rows
      /\ \A q \in PCs : q # pc => /\ receipts'[q] = receipts[q] /\ movements'[q] = movements[q]
                                  /\ outbox'[q] = outbox[q]
  BY <1>0, <1>7 DEF TypeOK
<1>9. receipts'[pc][r] = status /\ \A x \in Receipts : x # r => receipts'[pc][x] = receipts[pc][x]
  <2>1. receipts[pc] \in [Receipts -> Statuses]
    BY <1>0, TypeFacts DEF PCTypes
  <2> QED BY <1>8, <2>1
<1>10. /\ Queues(pc) /\ Len(outbox'[pc]) = Len(outbox[pc]) + 2
       /\ outbox'[pc][Len(outbox[pc]) + 1] = Plain(moved, "CREATE")
       /\ outbox'[pc][Len(outbox[pc]) + 2] = Plain(Sale(r), operation)
  <2>1. outbox[pc] \in Seq(Row) /\ Len(outbox[pc]) \in Nat
    BY <1>0, TypeFacts DEF PCTypes
  <2>2. /\ Plain(moved, "CREATE") \in Row /\ Plain(Sale(r), operation) \in Row
    BY <1>4, EntityFacts DEF Plain, Row
  <2>3. /\ rows \in Seq(Row) /\ Len(rows) = 2
        /\ rows[1] = Plain(moved, "CREATE") /\ rows[2] = Plain(Sale(r), operation)
    BY <1>6, <2>2
  <2>4. /\ Len(outbox'[pc]) = Len(outbox[pc]) + 2
        /\ \A k \in 1 .. Len(outbox[pc]) : outbox'[pc][k] = outbox[pc][k]
        /\ outbox'[pc][Len(outbox[pc]) + 1] = rows[1] /\ outbox'[pc][Len(outbox[pc]) + 2] = rows[2]
    <3>1. PICK s \in Seq(Row) : s = outbox[pc]
      BY <2>1
    <3>2. /\ Len(s \o rows) = Len(s) + 2
          /\ \A k \in 1 .. Len(s) + Len(rows) :
               (s \o rows)[k] = IF k <= Len(s) THEN s[k] ELSE rows[k - Len(s)]
      <4>1. PICK t \in Seq(Row) : t = rows
        BY <2>3
      <4>2. /\ Len(s \o t) = Len(s) + Len(t)
            /\ \A k \in 1 .. Len(s) + Len(t) : (s \o t)[k] = IF k <= Len(s) THEN s[k] ELSE t[k - Len(s)]
        BY ConcatProperties
      <4> QED BY <2>3, <4>1, <4>2
    <3>3. Len(s) \in Nat
      BY <2>1, <3>1
    <3>4. /\ \A k \in 1 .. Len(s) : (s \o rows)[k] = s[k]
          /\ (s \o rows)[Len(s) + 1] = rows[1] /\ (s \o rows)[Len(s) + 2] = rows[2]
      BY <2>3, <3>2, <3>3
    <3> QED BY <1>8, <3>1, <3>2, <3>4
  <2> QED BY <2>1, <2>3, <2>4 DEF Queues
<1>11. operation = "UPDATE" <=> status = "CANCELLED"
  BY <1>3, <1>4
<1>12. Books(pc, r, status, moved, operation)
  BY <1>3, <1>8, <1>9, <1>10, <1>11 DEF Books
<1> QED BY <1>7, <1>8, <1>12

\* A movement and its receipt are queued together, and a cancellation is known where it
\* was made.
LEMMA BookAgrees ==
    ASSUME PInv, AInv, [Next]_vars, NEW pc \in PCs, Book(pc)
    PROVE  AInv'
<1>0. TypeOK
  BY DEF PInv
<1>r. PICK r \in Receipts : \E status, moved, operation : Books(pc, r, status, moved, operation)
  BY BookBooks
<1>1. PICK status, moved, operation : Books(pc, r, status, moved, operation)
  BY <1>r
<1>2. /\ log' = log /\ ledger' = ledger /\ since' = since /\ pull' = pull /\ gap' = gap
      /\ pushing' = pushing
      /\ \A q \in PCs : q # pc => /\ receipts'[q] = receipts[q] /\ movements'[q] = movements[q]
                                  /\ outbox'[q] = outbox[q]
  BY BookBooks
<1>3. /\ status \in {"COMPLETED", "CANCELLED"} /\ moved \in Movements
      /\ operation = "UPDATE" <=> status = "CANCELLED"
      /\ movements'[pc] = movements[pc] \cup {moved}
      /\ receipts'[pc][r] = status /\ \A x \in Receipts : x # r => receipts'[pc][x] = receipts[pc][x]
      /\ Queues(pc) /\ Len(outbox'[pc]) = Len(outbox[pc]) + 2
      /\ outbox'[pc][Len(outbox[pc]) + 1] = Plain(moved, "CREATE")
      /\ outbox'[pc][Len(outbox[pc]) + 2] = Plain(Sale(r), operation)
  BY <1>1 DEF Books
<1>4. /\ Len(outbox[pc]) \in Nat
      /\ Len(outbox[pc]) + 1 \in 1 .. Len(outbox'[pc]) /\ Len(outbox[pc]) + 2 \in 1 .. Len(outbox'[pc])
      /\ \A k \in 1 .. Len(outbox'[pc]) :
           k \in 1 .. Len(outbox[pc]) \/ k = Len(outbox[pc]) + 1 \/ k = Len(outbox[pc]) + 2
  BY <1>0, <1>3, TypeFacts DEF PCTypes
<1>5. LogGrows
  BY <1>0, <1>2, SameLog
<1>6. Remembers
  <2>1. \A q \in PCs : Queues(q)
    BY <1>2, <1>3, SameQueue
  <2>2. \A i \in 1 .. Len(log) : log[i].committed => log'[i].committed
    BY <1>2
  <2> QED BY <1>2, <1>5, <2>1, <2>2, QueuesRemember
<1>7. ASSUME NEW q \in PCs
      PROVE  /\ Told(q) /\ CancelsKnow(q) /\ CancelTold(q) /\ PushLogged(q)
             /\ CommittedBehind(q) /\ AnswerKnows(q) /\ CancelComes(q)
  BY DEF AInv, AKnows
<1>8. ASSUME NEW q \in PCs
      PROVE  PushLogged(q)' /\ CommittedBehind(q)' /\ AnswerKnows(q)' /\ CancelComes(q)'
  <2>1. /\ since'[q] = since[q] /\ pull'[q] = pull[q] /\ pushing'[q] = pushing[q]
        /\ q \notin gap' => q \notin gap
        /\ \A i \in 1 .. Len(log) : log[i].pc = q => log'[i].committed = log[i].committed
    BY <1>2
  <2>2. Queues(q)
    BY <1>2, <1>3, SameQueue
  <2>3. PushLogged(q)'
    BY <1>5, <1>7, <2>1, <2>2, PushLoggedStays
  <2>4. CommittedBehind(q)'
    BY <1>6, <1>7, <2>1, CommittedStays
  <2>5. AnswerKnows(q)'
    BY <1>6, <1>7, <2>1, AnswerStays
  <2>6. CancelComes(q)'
    BY <1>2, <1>6, <1>7, <2>1, ComesStays
  <2> QED BY <2>3, <2>4, <2>5, <2>6
<1>9. ASSUME NEW q \in PCs, q # pc PROVE Told(q)' /\ CancelsKnow(q)' /\ CancelTold(q)'
  <2>1. movements'[q] = movements[q] /\ receipts'[q] = receipts[q] /\ outbox'[q] = outbox[q]
    BY <1>2, <1>9
  <2>2. Told(q)'
    BY <1>6, <1>7, <2>1, ToldStays
  <2>3. CancelsKnow(q)'
    BY <1>7, <2>1, SameQueue, CancelsStay
  <2>4. CancelTold(q)'
    BY <1>6, <1>7, <2>1, CancelToldStays
  <2> QED BY <2>2, <2>3, <2>4
<1>10. Queued(moved)' /\ Queued(Sale(r))' /\ (status = "CANCELLED" => Cancelling(r)')
  <2>1. /\ outbox'[pc][Len(outbox[pc]) + 1].entity = moved
        /\ outbox'[pc][Len(outbox[pc]) + 2].entity = Sale(r)
        /\ outbox'[pc][Len(outbox[pc]) + 2].operation = operation
    BY <1>3 DEF Plain
  <2>2. Queued(moved)' /\ Queued(Sale(r))'
    BY <1>4, <2>1 DEF Queued
  <2>3. status = "CANCELLED" => Cancels(outbox'[pc][Len(outbox[pc]) + 2], r)
    BY <1>3, <2>1 DEF Cancels
  <2>4. Cancelling(r)' = (\E q \in PCs : \E k \in 1 .. Len(outbox'[q]) : Cancels(outbox'[q][k], r))
    BY DEF Cancelling, Cancels
  <2> QED BY <1>4, <2>2, <2>3, <2>4
<1>11. Told(pc)'
  <2>0. (\A m \in movements[pc] : m # Item) /\ \A x \in Receipts : Sale(x) # Item
    BY <1>0, TypeFacts, EntityFacts DEF PCTypes
  <2>1. \A m \in movements'[pc] : InLog(m)' \/ Queued(m)'
    BY <1>3, <1>6, <1>7, <1>10, <2>0 DEF Told, Remembers
  <2>2. ASSUME NEW x \in Receipts, receipts'[pc][x] # "NONE" PROVE InLog(Sale(x))' \/ Queued(Sale(x))'
    <3>1. CASE x = r
      BY <1>10, <3>1
    <3>2. CASE x # r
      BY <1>3, <1>6, <1>7, <2>0, <2>2, <3>2 DEF Told, Remembers
    <3> QED BY <3>1, <3>2
  <2>3. Told(pc)' = (/\ \A m \in movements'[pc] : InLog(m)' \/ Queued(m)'
                     /\ \A x \in Receipts : receipts'[pc][x] # "NONE" => InLog(Sale(x))' \/ Queued(Sale(x))')
    BY DEF Told
  <2> QED BY <2>1, <2>2, <2>3
<1>12. CancelsKnow(pc)'
  <2>1. ASSUME NEW k \in 1 .. Len(outbox'[pc]), NEW x \in Receipts, Cancels(outbox'[pc][k], x)
        PROVE  receipts'[pc][x] = "CANCELLED"
    <3>1. CASE k \in 1 .. Len(outbox[pc])
      <4>1. outbox'[pc][k] = outbox[pc][k]
        BY <1>3, <3>1 DEF Queues
      <4>2. receipts[pc][x] = "CANCELLED"
        BY <1>7, <2>1, <3>1, <4>1 DEF CancelsKnow
      <4> QED BY <4>2, CancelledStays
    <3>2. CASE k = Len(outbox[pc]) + 1
      <4>1. outbox'[pc][k].entity = moved
        BY <1>3, <3>2 DEF Plain
      <4> QED BY <1>3, <2>1, <4>1, EntityFacts DEF Cancels
    <3>3. CASE k = Len(outbox[pc]) + 2
      <4>1. outbox'[pc][k].entity = Sale(r) /\ outbox'[pc][k].operation = operation
        BY <1>3, <3>3 DEF Plain
      <4>2. x = r
        BY <2>1, <4>1, EntityFacts DEF Cancels
      <4> QED BY <1>3, <2>1, <4>1, <4>2 DEF Cancels
    <3> QED BY <1>4, <3>1, <3>2, <3>3
  <2>2. CancelsKnow(pc)' = (\A k \in 1 .. Len(outbox'[pc]), x \in Receipts :
                              Cancels(outbox'[pc][k], x) => receipts'[pc][x] = "CANCELLED")
    BY DEF CancelsKnow, Cancels
  <2> QED BY <2>1, <2>2
<1>13. CancelTold(pc)'
  <2>1. ASSUME NEW x \in Receipts, receipts'[pc][x] = "CANCELLED"
        PROVE  ledger'[x] = "CANCELLED" \/ Cancelling(x)'
    <3>1. CASE x = r
      BY <1>3, <1>10, <2>1, <3>1
    <3>2. CASE x # r
      <4>1. ledger[x] = "CANCELLED" \/ Cancelling(x)
        BY <1>3, <1>7, <2>1, <3>2 DEF CancelTold
      <4> QED BY <1>6, <4>1 DEF Remembers
    <3> QED BY <3>1, <3>2
  <2>2. CancelTold(pc)' = (\A x \in Receipts : receipts'[pc][x] = "CANCELLED" =>
                             ledger'[x] = "CANCELLED" \/ Cancelling(x)')
    BY DEF CancelTold
  <2> QED BY <2>1, <2>2
<1>14. ASSUME NEW q \in PCs PROVE AKnows(q)'
  BY <1>8, <1>9, <1>11, <1>12, <1>13 DEF AKnows
<1> QED BY <1>14 DEF AInv

\* Whatever is sent is logged, the product apart.
LEMMA LoggingKeeps ==
    ASSUME TypeOK, NEW pc \in PCs, NEW sent \in Seq(Row), NEW first,
           NEW grown, grown = Logging(pc, sent, first)[Len(sent)]
    PROVE  \A k \in 1 .. Len(sent) : sent[k].entity # Item =>
             \E j \in 1 .. Len(grown) : j > Len(log) /\ grown[j].entity = sent[k].entity
<1>1. PICK g : /\ g = Logging(pc, sent, first)
               /\ g[0] = log
               /\ \A i \in 1 .. Len(sent) :
                    g[i] = IF Accepted(sent[i], first) THEN Append(g[i - 1], Logged(pc, sent[i]))
                           ELSE g[i - 1]
  BY LoggingEquation
<1> DEFINE Good(i, h) ==
             /\ h \in Seq(LogRow) /\ Len(h) \in Nat /\ Len(log) <= Len(h)
             /\ \A k \in 1 .. i : sent[k].entity # Item =>
                  \E j \in 1 .. Len(h) : j > Len(log) /\ h[j].entity = sent[k].entity
           S == {i \in 0 .. Len(sent) : Good(i, g[i])}
<1>2. /\ log \in Seq(LogRow) /\ Len(log) \in Nat /\ Len(sent) \in Nat
      /\ \A i \in 1 .. Len(sent) : sent[i] \in Row
  BY TypeFacts DEF CloudTypes
<1>3. 0 \in S
  BY <1>1, <1>2
<1>4. ASSUME NEW i \in 0 .. Len(sent), i < Len(sent), i \in S PROVE i + 1 \in S
  <2>1. /\ i + 1 \in 1 .. Len(sent) /\ i + 1 \in 0 .. Len(sent) /\ (i + 1) - 1 = i
        /\ \A k \in 1 .. i + 1 : k \in 1 .. i \/ k = i + 1
    BY <1>2, <1>4
  <2>2. PICK h : h = g[i] /\ Good(i, h)
    BY <1>4
  <2>3. /\ h \in Seq(LogRow) /\ Len(h) \in Nat /\ Len(log) <= Len(h)
        /\ \A k \in 1 .. i : sent[k].entity # Item =>
             \E j \in 1 .. Len(h) : j > Len(log) /\ h[j].entity = sent[k].entity
    BY <2>2
  <2>4. PICK new : new = Logged(pc, sent[i + 1])
    OBVIOUS
  <2>5. new \in LogRow /\ new.entity = sent[i + 1].entity
    <3>1. device[pc] \in Nat
      BY TypeFacts DEF PCTypes
    <3>2. sent[i + 1].entity \in Entities
      BY <1>2, <2>1 DEF Row
    <3> QED BY <2>4, <3>1, <3>2 DEF Logged, LogRow
  <2>6. CASE Accepted(sent[i + 1], first)
    <3>1. PICK a : a = Append(h, new) /\ a = g[i + 1]
      BY <1>1, <2>1, <2>2, <2>4, <2>6
    <3>a. /\ Append(h, new) \in Seq(LogRow) /\ Len(Append(h, new)) = Len(h) + 1
          /\ \A k \in 1 .. Len(h) : Append(h, new)[k] = h[k]
          /\ Append(h, new)[Len(h) + 1] = new
      BY <2>3, <2>5, AppendProperties
    <3>2. /\ a \in Seq(LogRow) /\ Len(a) = Len(h) + 1
          /\ \A k \in 1 .. Len(h) : a[k] = h[k]
          /\ a[Len(h) + 1] = new
      BY <3>a, <3>1
    <3>3. ASSUME NEW k \in 1 .. i + 1, sent[k].entity # Item
          PROVE  \E j \in 1 .. Len(a) : j > Len(log) /\ a[j].entity = sent[k].entity
      <4>1. CASE k \in 1 .. i
        <5>1. PICK j \in 1 .. Len(h) : j > Len(log) /\ h[j].entity = sent[k].entity
          BY <2>3, <3>3, <4>1
        <5>2. j \in 1 .. Len(a) /\ a[j] = h[j]
          BY <2>3, <3>2
        <5> QED BY <5>1, <5>2
      <4>2. CASE k = i + 1
        <5>1. Len(h) + 1 \in 1 .. Len(a) /\ Len(h) + 1 > Len(log)
          BY <1>2, <2>3, <3>2
        <5>2. a[Len(h) + 1].entity = sent[k].entity
          BY <2>5, <3>2, <4>2
        <5> QED BY <5>1, <5>2
      <4> QED BY <2>1, <4>1, <4>2
    <3>4. Len(a) \in Nat /\ Len(log) <= Len(a)
      BY <1>2, <2>3, <3>2
    <3>5. Good(i + 1, a)
      BY <3>2, <3>3, <3>4
    <3> HIDE DEF Good
    <3> QED BY <2>1, <3>1, <3>5
  <2>7. CASE ~ Accepted(sent[i + 1], first)
    <3>1. h = g[i + 1]
      BY <1>1, <2>1, <2>2, <2>7
    <3>2. sent[i + 1].entity = Item
      BY <2>7 DEF Accepted
    <3>3. Good(i + 1, h)
      BY <2>1, <2>3, <3>2
    <3> HIDE DEF Good
    <3> QED BY <2>1, <3>1, <3>3
  <2> QED BY <2>6, <2>7
<1> HIDE DEF S, Good
<1>5. \A i \in 0 .. Len(sent) : i \in S
  BY <1>2, <1>3, <1>4, AllNumbers
<1>6. Good(Len(sent), grown)
  BY <1>1, <1>2, <1>5 DEF S
<1> QED BY <1>6 DEF Good

\* What is sent comes into the log, not committed, and nothing else changes.
LEMMA OpenPushAgrees ==
    ASSUME PInv, AInv, [Next]_vars, NEW pc \in PCs, OpenPush(pc)
    PROVE  AInv'
<1>0. TypeOK
  BY DEF PInv
<1>c. outbox[pc] \in Seq(Row) /\ Len(outbox[pc]) \in Nat
  BY <1>0, TypeFacts DEF PCTypes
<1>d. PICK n \in Nat : n = IF Len(outbox[pc]) < BatchSize THEN Len(outbox[pc]) ELSE BatchSize
  BY <1>c, PullAssumption
<1>e. n <= Len(outbox[pc])
  BY <1>c, <1>d, PullAssumption
<1>f. PICK sent : sent = SubSeq(outbox[pc], 1, n)
  OBVIOUS
<1>g. sent \in Seq(Row) /\ Len(sent) = n /\ \A k \in 1 .. n : sent[k] = outbox[pc][k]
  BY <1>c, <1>e, <1>f, SubSeqProperties
<1>h. PICK first : first = (catalogue.quantity = None /\ \E i \in 1 .. n : sent[i].operation = "CREATE"
                                                                      /\ sent[i].entity = Item)
  OBVIOUS
<1>a. /\ log' = Logging(pc, sent, first)[n] /\ pushing' = [pushing EXCEPT ![pc] = n]
      /\ outbox' = outbox /\ receipts' = receipts /\ movements' = movements /\ since' = since
      /\ pull' = pull /\ ledger' = ledger /\ gap' = gap
  BY <1>d, <1>f, <1>h DEF OpenPush, localVars, history
<1>i. /\ log' \in Seq(LogRow) /\ Len(log') \in Nat /\ Len(log) <= Len(log')
      /\ \A i \in 1 .. Len(log) : log'[i] = log[i]
      /\ \A i \in 1 .. Len(log') : i > Len(log) => log'[i].pc = pc /\ ~ log'[i].committed
      /\ \A k \in 1 .. n : sent[k].entity # Item =>
           \E j \in 1 .. Len(log') : j > Len(log) /\ log'[j].entity = sent[k].entity
  <2>1. PICK grown : grown = log'
    OBVIOUS
  <2>2. grown = Logging(pc, sent, first)[Len(sent)]
    BY <1>a, <1>g, <2>1
  <2>3. /\ grown \in Seq(LogRow) /\ Len(grown) \in Nat /\ Len(log) <= Len(grown)
        /\ \A i \in 1 .. Len(log) : grown[i] = log[i]
        /\ \A i \in 1 .. Len(grown) : i > Len(log) =>
             /\ grown[i].pc = pc /\ ~ grown[i].committed
             /\ \E k \in 1 .. Len(sent) : grown[i].entity = sent[k].entity
    BY <1>0, <1>g, <2>2, LoggingAdds
  <2>4. \A k \in 1 .. Len(sent) : sent[k].entity # Item =>
          \E j \in 1 .. Len(grown) : j > Len(log) /\ grown[j].entity = sent[k].entity
    BY <1>0, <1>g, <2>2, LoggingKeeps
  <2> QED BY <1>g, <2>1, <2>3, <2>4
<1>1. LogGrows
  BY <1>i DEF LogGrows
<1>2. \A q \in PCs : Queues(q)
  BY <1>a, SameQueue
<1>3. Remembers
  <2>1. \A i \in 1 .. Len(log) : log[i].committed => log'[i].committed
    BY <1>i
  <2> QED BY <1>1, <1>2, <1>a, <2>1, QueuesRemember
<1>4. ASSUME NEW q \in PCs PROVE AKnows(q)'
  <2>1. /\ Told(q) /\ CancelsKnow(q) /\ CancelTold(q) /\ PushLogged(q)
        /\ CommittedBehind(q) /\ AnswerKnows(q) /\ CancelComes(q)
    BY DEF AInv, AKnows
  <2>2. /\ movements'[q] = movements[q] /\ receipts'[q] = receipts[q] /\ outbox'[q] = outbox[q]
        /\ since'[q] = since[q] /\ pull'[q] = pull[q]
        /\ q \notin gap' => q \notin gap
        /\ ledger' = ledger
        /\ \A i \in 1 .. Len(log) : log[i].pc = q => log'[i].committed = log[i].committed
    BY <1>a, <1>i
  <2>3. Told(q)'
    BY <1>3, <2>1, <2>2, ToldStays
  <2>4. CancelsKnow(q)'
    BY <2>1, <2>2, SameQueue, CancelsStay
  <2>5. CancelTold(q)'
    BY <1>3, <2>1, <2>2, CancelToldStays
  <2>6. PushLogged(q)'
    <3>1. CASE q # pc
      <4>1. pushing'[q] = pushing[q]
        BY <1>0, <1>a, <3>1 DEF TypeOK
      <4> QED BY <1>1, <1>2, <2>1, <2>2, <4>1, PushLoggedStays
    <3>2. CASE q = pc
      <4>1. pushing'[pc] = n
        BY <1>0, <1>a DEF TypeOK
      <4>2. ASSUME NEW k \in 1 .. n, outbox[pc][k].entity # Item
            PROVE  \E i \in 1 .. Len(log') :
                      log'[i].pc = pc /\ ~ log'[i].committed /\ log'[i].entity = outbox[pc][k].entity
        <5>1. PICK j \in 1 .. Len(log') : j > Len(log) /\ log'[j].entity = outbox[pc][k].entity
          BY <1>g, <1>i, <4>2
        <5> QED BY <1>i, <5>1
      <4> QED BY <1>a, <3>2, <4>1, <4>2 DEF PushLogged
    <3> QED BY <3>1, <3>2
  <2>7. CommittedBehind(q)'
    BY <1>3, <2>1, <2>2, CommittedStays
  <2>8. AnswerKnows(q)'
    BY <1>3, <2>1, <2>2, AnswerStays
  <2>9. CancelComes(q)'
    BY <1>3, <2>1, <2>2, ComesStays
  <2> QED BY <2>3, <2>4, <2>5, <2>6, <2>7, <2>8, <2>9 DEF AKnows
<1> QED BY <1>4 DEF AInv

\* What a commit does.
Commits(pc, n) ==
    /\ Len(log') = Len(log) /\ log' \in Seq(LogRow)
    /\ \A i \in 1 .. Len(log) :
         /\ log'[i].entity = log[i].entity /\ log'[i].pc = log[i].pc
         /\ log[i].pc # pc => log'[i] = log[i]
         /\ log[i].pc = pc => log'[i].committed
    /\ \A r \in Receipts : ledger'[r] = "CANCELLED" <=>
         ledger[r] = "CANCELLED" \/ \E k \in 1 .. n : Cancels(outbox[pc][k], r)
    /\ \A q \in PCs : q # pc => outbox'[q] = outbox[q] /\ pushing'[q] = pushing[q]
    /\ pushing'[pc] = 0
    /\ receipts' = receipts /\ movements' = movements /\ since' = since
    /\ pull' = pull /\ gap' = gap

\* The rows that were sent stay in the queue, or they leave it.
Leaves(pc, n) ==
    \/ outbox'[pc] = outbox[pc]
    \/ /\ Len(outbox'[pc]) = Len(outbox[pc]) - n
       /\ \A k \in 1 .. Len(outbox[pc]) - n : outbox'[pc][k] = outbox[pc][k + n]

\* A commit is of the rows the push holds, and keeps or drops just them.
LEMMA CommitCommits ==
    ASSUME PInv, NEW pc \in PCs, CommitPush(pc)
    PROVE  LET n == pushing[pc] IN n \in Nat /\ n <= Len(outbox[pc]) /\ Commits(pc, n) /\ Leaves(pc, n)
<1>0. TypeOK /\ PushKnows(pc)
  BY DEF PInv, PCKnows
<1>1. outbox[pc] \in Seq(Row) /\ Len(outbox[pc]) \in Nat
  BY <1>0, TypeFacts DEF PCTypes
<1>2. PICK n \in Nat : n = pushing[pc]
  BY <1>0, TypeFacts DEF PCTypes
<1>3. n > 0 /\ n <= Len(outbox[pc])
  BY <1>0, <1>2 DEF CommitPush, PushKnows
<1>4. PICK sent : sent = SubSeq(outbox[pc], 1, n)
  OBVIOUS
<1>5. sent \in Seq(Row) /\ Len(sent) = n /\ \A k \in 1 .. n : sent[k] = outbox[pc][k]
  BY <1>1, <1>3, <1>4, SubSeqProperties
<1>6. PICK left : left = SubSeq(outbox[pc], n + 1, Len(outbox[pc]))
  OBVIOUS
<1>7. /\ Len(left) = Len(outbox[pc]) - n
      /\ \A k \in 1 .. Len(outbox[pc]) - n : left[k] = outbox[pc][k + n]
  <2>1. /\ Len(left) = IF n + 1 <= Len(outbox[pc]) THEN Len(outbox[pc]) - (n + 1) + 1 ELSE 0
        /\ \A k \in 1 .. Len(outbox[pc]) - (n + 1) + 1 : left[k] = outbox[pc][(n + 1) + k - 1]
    BY <1>1, <1>3, <1>6, SubSeqProperties
  <2>2. Len(outbox[pc]) - (n + 1) + 1 = Len(outbox[pc]) - n /\ \A k \in Nat : (n + 1) + k - 1 = k + n
    BY <1>1
  <2>3. Len(left) = Len(outbox[pc]) - n
    BY <1>1, <1>3, <2>1
  <2>4. \A k \in 1 .. Len(outbox[pc]) - n : k \in Nat
    OBVIOUS
  <2> QED BY <2>1, <2>2, <2>3, <2>4
<1>8. /\ log' = [i \in 1 .. Len(log) |->
                   IF log[i].pc = pc THEN [log[i] EXCEPT !.committed = TRUE] ELSE log[i]]
      /\ ledger' = [r \in Receipts |-> SaleAfter(r, sent)]
      /\ outbox' = outbox \/ outbox' = [outbox EXCEPT ![pc] = left]
      /\ pushing' = [pushing EXCEPT ![pc] = 0]
      /\ receipts' = receipts /\ movements' = movements /\ since' = since
      /\ pull' = pull /\ gap' = gap
  BY <1>2, <1>4, <1>6 DEF CommitPush, history
<1>9. /\ Len(log) \in Nat
      /\ \A i \in 1 .. Len(log) : log[i] \in LogRow
  BY <1>0, TypeFacts DEF CloudTypes
<1>10. /\ log' \in Seq(LogRow) /\ Len(log') = Len(log)
       /\ \A i \in 1 .. Len(log) :
            /\ log'[i].entity = log[i].entity /\ log'[i].pc = log[i].pc
            /\ log[i].pc # pc => log'[i] = log[i]
            /\ log[i].pc = pc => log'[i].committed
  <2>1. ASSUME NEW row \in LogRow
        PROVE  /\ [row EXCEPT !.committed = TRUE] \in LogRow
               /\ [row EXCEPT !.committed = TRUE].entity = row.entity
               /\ [row EXCEPT !.committed = TRUE].pc = row.pc
               /\ [row EXCEPT !.committed = TRUE].committed
    BY DEF LogRow
  <2>2. \A i \in 1 .. Len(log) :
          (IF log[i].pc = pc THEN [log[i] EXCEPT !.committed = TRUE] ELSE log[i]) \in LogRow
    BY <1>9, <2>1
  <2>3. log' \in [1 .. Len(log) -> LogRow]
    BY <1>8, <2>2
  <2>4. log' \in Seq(LogRow) /\ Len(log') = Len(log)
    BY <1>9, <2>3
  <2> QED BY <1>8, <1>9, <2>1, <2>4
<1>11. ASSUME NEW r \in Receipts
       PROVE  ledger'[r] = "CANCELLED" <=>
                ledger[r] = "CANCELLED" \/ \E k \in 1 .. n : Cancels(outbox[pc][k], r)
  <2> DEFINE rows(operation) == {i \in 1 .. Len(sent) : sent[i].entity = Sale(r)
                                                      /\ sent[i].operation = operation}
  <2>1. ledger'[r] = SaleAfter(r, sent)
    BY <1>8
  <2>2. SaleAfter(r, sent) = IF rows("UPDATE") # {} THEN "CANCELLED"
                             ELSE IF ledger[r] = "NONE" /\ rows("CREATE") # {} THEN "COMPLETED"
                             ELSE ledger[r]
    BY DEF SaleAfter
  <2>3. rows("UPDATE") # {} <=> \E k \in 1 .. n : Cancels(outbox[pc][k], r)
    BY <1>5 DEF Cancels
  <2> HIDE DEF rows
  <2> QED BY <2>1, <2>2, <2>3
<1>12. /\ \A q \in PCs : q # pc => outbox'[q] = outbox[q] /\ pushing'[q] = pushing[q]
       /\ pushing'[pc] = 0 /\ (outbox'[pc] = outbox[pc] \/ outbox'[pc] = left)
  BY <1>0, <1>8 DEF TypeOK
<1>13. Commits(pc, n)
  BY <1>8, <1>10, <1>11, <1>12 DEF Commits
<1>14. Leaves(pc, n)
  BY <1>7, <1>12 DEF Leaves
<1> QED BY <1>2, <1>3, <1>13, <1>14

\* A row that leaves the queue was in the request that is committed.
LEMMA LeavesFacts ==
    ASSUME PInv, NEW pc \in PCs, NEW n \in Nat, n <= Len(outbox[pc]), Leaves(pc, n)
    PROVE  /\ \A k \in 1 .. Len(outbox[pc]) : k \in 1 .. n \/
                \E j \in 1 .. Len(outbox'[pc]) : outbox'[pc][j] = outbox[pc][k]
           /\ \A j \in 1 .. Len(outbox'[pc]) :
                \E k \in 1 .. Len(outbox[pc]) : outbox'[pc][j] = outbox[pc][k]
<1>1. Len(outbox[pc]) \in Nat
  BY TypeFacts DEF PInv, PCTypes
<1>2. CASE outbox'[pc] = outbox[pc]
  BY <1>2
<1>3. CASE /\ Len(outbox'[pc]) = Len(outbox[pc]) - n
           /\ \A k \in 1 .. Len(outbox[pc]) - n : outbox'[pc][k] = outbox[pc][k + n]
  <2>1. ASSUME NEW k \in 1 .. Len(outbox[pc]), k \notin 1 .. n
        PROVE  \E j \in 1 .. Len(outbox'[pc]) : outbox'[pc][j] = outbox[pc][k]
    <3>1. k - n \in 1 .. Len(outbox[pc]) - n /\ (k - n) + n = k
      BY <1>1, <2>1
    <3>2. outbox'[pc][k - n] = outbox[pc][k]
      BY <1>3, <3>1
    <3> QED BY <1>3, <3>1, <3>2
  <2>2. ASSUME NEW j \in 1 .. Len(outbox'[pc])
        PROVE  \E k \in 1 .. Len(outbox[pc]) : outbox'[pc][j] = outbox[pc][k]
    <3>1. j + n \in 1 .. Len(outbox[pc]) /\ j \in 1 .. Len(outbox[pc]) - n
      BY <1>1, <1>3
    <3> QED BY <1>3, <3>1
  <2> QED BY <2>1, <2>2
<1> QED BY <1>2, <1>3 DEF Leaves

\* What leaves the queue with a commit is in the log, and in the ledger if it cancels.
LEMMA CommitRemembers ==
    ASSUME PInv, AInv, [Next]_vars, NEW pc \in PCs, CommitPush(pc)
    PROVE  Remembers
<1>0. TypeOK /\ PushLogged(pc)
  BY DEF PInv, AInv, AKnows
<1>1. PICK n \in Nat : n = pushing[pc] /\ n <= Len(outbox[pc]) /\ Commits(pc, n) /\ Leaves(pc, n)
  BY CommitCommits
<1>2. /\ Len(log') = Len(log) /\ log' \in Seq(LogRow)
      /\ \A i \in 1 .. Len(log) :
           /\ log'[i].entity = log[i].entity /\ log'[i].pc = log[i].pc
           /\ log[i].pc # pc => log'[i] = log[i]
           /\ log[i].pc = pc => log'[i].committed
      /\ \A r \in Receipts : ledger'[r] = "CANCELLED" <=>
           ledger[r] = "CANCELLED" \/ \E k \in 1 .. n : Cancels(outbox[pc][k], r)
      /\ \A q \in PCs : q # pc => outbox'[q] = outbox[q]
  BY <1>1 DEF Commits
<1>3. \A k \in 1 .. Len(outbox[pc]) : k \in 1 .. n \/
        \E j \in 1 .. Len(outbox'[pc]) : outbox'[pc][j] = outbox[pc][k]
  BY <1>1, LeavesFacts
<1>4. LogGrows
  <2>1. Len(log) \in Nat
    BY <1>0, TypeFacts DEF CloudTypes
  <2> QED BY <1>2, <2>1 DEF LogGrows
<1>5. \A i \in 1 .. Len(log) : log[i].committed => log'[i].committed
  BY <1>2
<1>6. ASSUME NEW e, InLog(e) PROVE InLog(e)'
  BY <1>2, <1>6 DEF InLog
<1>7. ASSUME NEW e, e # Item, Queued(e) PROVE InLog(e)' \/ Queued(e)'
  <2>0. PICK q \in PCs : \E x \in 1 .. Len(outbox[q]) : outbox[q][x].entity = e
    BY <1>7 DEF Queued
  <2>1. PICK k \in 1 .. Len(outbox[q]) : outbox[q][k].entity = e
    BY <2>0
  <2>2. CASE q # pc
    BY <1>2, <2>1, <2>2 DEF Queued
  <2>3. CASE q = pc /\ k \in 1 .. n
    <3>1. InLog(e)
      BY <1>0, <1>1, <1>7, <2>1, <2>3 DEF PushLogged, InLog
    <3> QED BY <1>6, <3>1
  <2>4. CASE q = pc /\ k \notin 1 .. n
    <3>1. PICK j \in 1 .. Len(outbox'[pc]) : outbox'[pc][j] = outbox[pc][k]
      BY <1>3, <2>1, <2>4
    <3>2. outbox'[pc][j].entity = e
      BY <2>1, <2>4, <3>1
    <3> QED BY <3>1, <3>2 DEF Queued
  <2> QED BY <2>2, <2>3, <2>4
<1>8. ASSUME NEW r \in Receipts, Cancelling(r) PROVE ledger'[r] = "CANCELLED" \/ Cancelling(r)'
  <2>0. PICK q \in PCs : \E x \in 1 .. Len(outbox[q]) : Cancels(outbox[q][x], r)
    BY <1>8 DEF Cancelling
  <2>1. PICK k \in 1 .. Len(outbox[q]) : Cancels(outbox[q][k], r)
    BY <2>0
  <2>2. Cancelling(r)' = (\E p \in PCs : \E x \in 1 .. Len(outbox'[p]) : Cancels(outbox'[p][x], r))
    BY DEF Cancelling, Cancels
  <2>3. CASE q # pc
    BY <1>2, <2>1, <2>2, <2>3
  <2>4. CASE q = pc /\ k \in 1 .. n
    BY <1>2, <2>1, <2>4
  <2>5. CASE q = pc /\ k \notin 1 .. n
    <3>1. PICK j \in 1 .. Len(outbox'[pc]) : outbox'[pc][j] = outbox[pc][k]
      BY <1>3, <2>1, <2>5
    <3> QED BY <2>1, <2>2, <2>5, <3>1
  <2> QED BY <2>3, <2>4, <2>5
<1>9. \A r \in Receipts :
        /\ ledger[r] = "CANCELLED" => ledger'[r] = "CANCELLED"
        /\ \A q \in PCs : receipts[q][r] = "CANCELLED" => receipts'[q][r] = "CANCELLED"
  BY CancelledStays
<1> QED BY <1>4, <1>5, <1>6, <1>7, <1>8, <1>9 DEF Remembers

\* A commit brings cancellations to the cloud, and their rows of the log to those that
\* have not passed them.
LEMMA CommitAgrees ==
    ASSUME PInv, AInv, [Next]_vars, NEW pc \in PCs, CommitPush(pc)
    PROVE  AInv'
<1>0. TypeOK
  BY DEF PInv
<1>1. PICK n \in Nat : n = pushing[pc] /\ n <= Len(outbox[pc]) /\ Commits(pc, n) /\ Leaves(pc, n)
  BY CommitCommits
<1>2. /\ Len(log') = Len(log)
      /\ \A i \in 1 .. Len(log) : log[i].pc # pc => log'[i] = log[i]
      /\ \A r \in Receipts : ledger'[r] = "CANCELLED" <=>
           ledger[r] = "CANCELLED" \/ \E k \in 1 .. n : Cancels(outbox[pc][k], r)
      /\ \A q \in PCs : q # pc => outbox'[q] = outbox[q] /\ pushing'[q] = pushing[q]
      /\ pushing'[pc] = 0
      /\ receipts' = receipts /\ movements' = movements /\ since' = since
      /\ pull' = pull /\ gap' = gap
  BY <1>1 DEF Commits
<1>3. Remembers
  BY CommitRemembers
<1>4. LogGrows
  BY <1>3 DEF Remembers
<1>5. ASSUME NEW q \in PCs
      PROVE  /\ Told(q) /\ CancelsKnow(q) /\ CancelTold(q) /\ PushLogged(q)
             /\ CommittedBehind(q) /\ AnswerKnows(q) /\ CancelComes(q)
  BY DEF AInv, AKnows
<1>6. ASSUME NEW q \in PCs PROVE AKnows(q)'
  <2>1. /\ movements'[q] = movements[q] /\ receipts'[q] = receipts[q]
        /\ since'[q] = since[q] /\ pull'[q] = pull[q]
        /\ q \notin gap' => q \notin gap
    BY <1>2
  <2>2. Told(q)'
    BY <1>3, <1>5, <2>1, ToldStays
  <2>3. CancelsKnow(q)'
    <3>1. CASE q # pc
      <4>1. outbox'[q] = outbox[q]
        BY <1>2, <3>1
      <4> QED BY <1>5, <4>1, SameQueue, CancelsStay
    <3>2. CASE q = pc
      <4>1. ASSUME NEW j \in 1 .. Len(outbox'[pc]), NEW r \in Receipts, Cancels(outbox'[pc][j], r)
            PROVE  receipts'[pc][r] = "CANCELLED"
        <5>1. PICK k \in 1 .. Len(outbox[pc]) : outbox'[pc][j] = outbox[pc][k]
          BY <1>1, LeavesFacts
        <5>2. receipts[pc][r] = "CANCELLED"
          BY <1>5, <4>1, <5>1 DEF CancelsKnow
        <5> QED BY <1>2, <5>2
      <4>2. CancelsKnow(pc)' = (\A j \in 1 .. Len(outbox'[pc]), r \in Receipts :
                                  Cancels(outbox'[pc][j], r) => receipts'[pc][r] = "CANCELLED")
        BY DEF CancelsKnow, Cancels
      <4> QED BY <3>2, <4>1, <4>2
    <3> QED BY <3>1, <3>2
  <2>4. CancelTold(q)'
    BY <1>3, <1>5, <2>1, CancelToldStays
  <2>5. PushLogged(q)'
    <3>1. CASE q # pc
      <4>1. outbox'[q] = outbox[q] /\ pushing'[q] = pushing[q]
            /\ \A i \in 1 .. Len(log) : log[i].pc = q => log'[i].committed = log[i].committed
        BY <1>2, <3>1
      <4> QED BY <1>4, <1>5, <4>1, SameQueue, PushLoggedStays
    <3>2. CASE q = pc
      BY <1>2, <3>2 DEF PushLogged
    <3> QED BY <3>1, <3>2
  <2>6. CommittedBehind(q)'
    BY <1>3, <1>5, <2>1, CommittedStays
  <2>7. AnswerKnows(q)'
    BY <1>3, <1>5, <2>1, AnswerStays
  <2>8. CancelComes(q)'
    <3>1. ASSUME NEW r \in Receipts, q \notin gap', ledger'[r] = "CANCELLED", receipts'[q][r] # "CANCELLED"
          PROVE  Coming(q, r)
      <4>1. receipts[q][r] # "CANCELLED" /\ q \notin gap
        BY <1>2, <3>1
      <4>2. CASE ledger[r] = "CANCELLED"
        BY <1>5, <4>1, <4>2 DEF CancelComes
      <4>3. CASE ledger[r] # "CANCELLED"
        <5>1. PICK k \in 1 .. n : Cancels(outbox[pc][k], r)
          BY <1>2, <3>1, <4>3
        <5>2. k \in 1 .. Len(outbox[pc]) /\ k \in 1 .. pushing[pc]
          <6>1. Len(outbox[pc]) \in Nat
            BY <1>0, TypeFacts DEF PCTypes
          <6> QED BY <1>1, <6>1
        <5>3. q # pc
          BY <1>5, <4>1, <5>1, <5>2 DEF CancelsKnow
        <5>4. outbox[pc][k].entity = Sale(r) /\ Sale(r) # Item
          BY <5>1, EntityFacts DEF Cancels
        <5>5. PICK i \in 1 .. Len(log) : log[i].pc = pc /\ ~ log[i].committed /\ log[i].entity = Sale(r)
          BY <1>5, <5>2, <5>4 DEF PushLogged
        <5>6. /\ \A j \in 1 .. since[q] : log[j].pc # q => log[j].committed
              /\ ~ pull[q].short =>
                   \A j \in 1 .. pull[q].clock : j > since[q] /\ log[j].pc # q => log[j].committed
          BY <1>5, <4>1 DEF CommittedBehind
        <5>7. i > since[q]
          <6>1. i \notin 1 .. since[q]
            BY <5>3, <5>5, <5>6
          <6>2. since[q] \in Nat
            BY <1>0, TypeFacts DEF PCTypes
          <6> QED BY <6>1, <6>2
        <5>8. ~ (~ pull[q].short /\ i <= pull[q].clock)
          <6>1. pull[q].clock \in Nat
            <7>1. pull[q].clock \in 0 .. MaxLog
              BY <1>0, TypeFacts DEF PCTypes
            <7> QED BY <7>1, PullAssumption
          <6>2. ~ pull[q].short => i \notin 1 .. pull[q].clock
            BY <5>3, <5>5, <5>6, <5>7
          <6> QED BY <6>1, <6>2
        <5> QED BY <5>3, <5>5, <5>7, <5>8 DEF Coming
      <4> QED BY <4>2, <4>3
    <3>2. \A r \in Receipts :
            q \notin gap' /\ ledger'[r] = "CANCELLED" /\ receipts'[q][r] # "CANCELLED" => Coming(q, r)'
      BY <1>3, <2>1, <3>1, ComingStays
    <3>3. CancelComes(q)' = (\A r \in Receipts :
            q \notin gap' /\ ledger'[r] = "CANCELLED" /\ receipts'[q][r] # "CANCELLED" => Coming(q, r)')
      BY DEF CancelComes
    <3> QED BY <3>2, <3>3
  <2> QED BY <2>2, <2>3, <2>4, <2>5, <2>6, <2>7, <2>8 DEF AKnows
<1> QED BY <1>6 DEF AInv

\* What a pull leaves alone: all but the PC's own rows, cursor and answer.
Pulls(pc) ==
    /\ log' = log /\ ledger' = ledger /\ outbox' = outbox /\ pushing' = pushing
    /\ \A q \in PCs : q # pc => /\ receipts'[q] = receipts[q] /\ movements'[q] = movements[q]
                                /\ since'[q] = since[q] /\ pull'[q] = pull[q]
                                /\ q \notin gap' => q \notin gap

\* A pull forgets nothing that was told.
LEMMA PullsRemember ==
    ASSUME PInv, [Next]_vars, NEW pc \in PCs, Pulls(pc)
    PROVE  Remembers /\ LogGrows
<1>1. log' = log /\ ledger' = ledger /\ outbox' = outbox
  BY DEF Pulls
<1>2. LogGrows
  BY <1>1, SameLog DEF PInv
<1>3. \A q \in PCs : Queues(q)
  BY <1>1, SameQueue
<1>4. \A i \in 1 .. Len(log) : log[i].committed => log'[i].committed
  BY <1>1
<1> QED BY <1>1, <1>2, <1>3, <1>4, QueuesRemember

\* The other PCs know what they knew, and the PC of its queue.
LEMMA PullsAgree ==
    ASSUME PInv, AInv, [Next]_vars, NEW pc \in PCs, Pulls(pc)
    PROVE  /\ \A q \in PCs : q # pc => AKnows(q)'
           /\ CancelsKnow(pc)' /\ PushLogged(pc)'
<1>1. /\ log' = log /\ ledger' = ledger /\ outbox' = outbox /\ pushing' = pushing
      /\ \A q \in PCs : q # pc => /\ receipts'[q] = receipts[q] /\ movements'[q] = movements[q]
                                  /\ since'[q] = since[q] /\ pull'[q] = pull[q]
                                  /\ q \notin gap' => q \notin gap
  BY DEF Pulls
<1>2. Remembers /\ LogGrows
  BY PullsRemember
<1>3. ASSUME NEW q \in PCs
      PROVE  /\ Told(q) /\ CancelsKnow(q) /\ CancelTold(q) /\ PushLogged(q)
             /\ CommittedBehind(q) /\ AnswerKnows(q) /\ CancelComes(q)
  BY DEF AInv, AKnows
<1>4. ASSUME NEW q \in PCs PROVE CancelsKnow(q)' /\ PushLogged(q)'
  <2>1. outbox'[q] = outbox[q] /\ pushing'[q] = pushing[q]
        /\ \A i \in 1 .. Len(log) : log[i].pc = q => log'[i].committed = log[i].committed
    BY <1>1
  <2>2. CancelsKnow(q)'
    BY <1>3, <2>1, SameQueue, CancelsStay
  <2>3. PushLogged(q)'
    BY <1>2, <1>3, <2>1, SameQueue, PushLoggedStays
  <2> QED BY <2>2, <2>3
<1>5. ASSUME NEW q \in PCs, q # pc PROVE AKnows(q)'
  <2>1. /\ movements'[q] = movements[q] /\ receipts'[q] = receipts[q]
        /\ since'[q] = since[q] /\ pull'[q] = pull[q]
        /\ q \notin gap' => q \notin gap
        /\ ledger' = ledger
    BY <1>1, <1>5
  <2>2. Told(q)'
    BY <1>2, <1>3, <2>1, ToldStays
  <2>3. CancelTold(q)'
    BY <1>2, <1>3, <2>1, CancelToldStays
  <2>4. CommittedBehind(q)'
    BY <1>2, <1>3, <2>1, CommittedStays
  <2>5. AnswerKnows(q)'
    BY <1>2, <1>3, <2>1, AnswerStays
  <2>6. CancelComes(q)'
    BY <1>2, <1>3, <2>1, ComesStays
  <2> QED BY <1>4, <2>2, <2>3, <2>4, <2>5, <2>6 DEF AKnows
<1> QED BY <1>4, <1>5

\* A pull that fails leaves everything to come.
LEMMA FailAgrees ==
    ASSUME PInv, AInv, [Next]_vars, NEW pc \in PCs, Fail(pc)
    PROVE  AInv'
<1>0. TypeOK
  BY DEF PInv
<1>1. /\ since' = since /\ log' = log /\ ledger' = ledger /\ outbox' = outbox /\ pushing' = pushing
      /\ receipts' = receipts /\ movements' = movements /\ gap' = gap
      /\ pull'[pc] = NoPull /\ \A q \in PCs : q # pc => pull'[q] = pull[q]
  BY <1>0 DEF Fail, CursorAfterFailure, TypeOK, cloudVars, history
<1>2. Pulls(pc)
  BY <1>1 DEF Pulls
<1>3. Remembers
  BY <1>2, PullsRemember
<1>4. /\ Told(pc) /\ CancelTold(pc) /\ CommittedBehind(pc) /\ CancelComes(pc)
  BY DEF AInv, AKnows
<1>5. /\ pull'[pc].rows = <<>> /\ pull'[pc].clock = 0
  BY <1>1 DEF NoPull
<1>6. Told(pc)'
  BY <1>1, <1>3, <1>4, ToldStays
<1>7. CancelTold(pc)'
  BY <1>1, <1>3, <1>4, CancelToldStays
<1>8. CommittedBehind(pc)'
  BY <1>1, <1>4, <1>5 DEF CommittedBehind
<1>9. AnswerKnows(pc)'
  BY <1>5 DEF AnswerKnows
<1>10. CancelComes(pc)'
  <2>1. ASSUME NEW r \in Receipts, pc \notin gap', ledger'[r] = "CANCELLED", receipts'[pc][r] # "CANCELLED"
        PROVE  Coming(pc, r)'
    <3>1. Coming(pc, r)
      BY <1>1, <1>4, <2>1 DEF CancelComes
    <3>2. PICK i \in 1 .. Len(log) : i > since[pc] /\ log[i].pc # pc /\ log[i].entity = Sale(r)
      BY <3>1 DEF Coming
    <3>3. ~ i <= 0
      OBVIOUS
    <3> QED BY <1>1, <1>5, <3>2, <3>3 DEF Coming
  <2>2. CancelComes(pc)' = (\A r \in Receipts :
          pc \notin gap' /\ ledger'[r] = "CANCELLED" /\ receipts'[pc][r] # "CANCELLED" => Coming(pc, r)')
    BY DEF CancelComes
  <2> QED BY <2>1, <2>2
<1>11. CancelsKnow(pc)' /\ PushLogged(pc)' /\ \A q \in PCs : q # pc => AKnows(q)'
  BY <1>2, PullsAgree
<1>12. AKnows(pc)'
  BY <1>6, <1>7, <1>8, <1>9, <1>10, <1>11 DEF AKnows
<1> QED BY <1>11, <1>12 DEF AInv

\* Reading the rows an answer is applied to does not change the answer.
LEMMA LoadForApplyAgrees ==
    ASSUME PInv, AInv, [Next]_vars, NEW pc \in PCs, LoadForApply(pc)
    PROVE  AInv'
<1>0. TypeOK
  BY DEF PInv
<1>1. /\ since' = since /\ log' = log /\ ledger' = ledger /\ outbox' = outbox /\ pushing' = pushing
      /\ receipts' = receipts /\ movements' = movements /\ gap' = gap
      /\ pull'[pc] = [pull[pc] EXCEPT !.phase = "loaded", !.seen = quantity[pc]]
      /\ \A q \in PCs : q # pc => pull'[q] = pull[q]
  BY <1>0 DEF LoadForApply, TypeOK, localVars, cloudVars, history
<1>2. Pulls(pc)
  BY <1>1 DEF Pulls
<1>3. Remembers
  BY <1>2, PullsRemember
<1>4. /\ Told(pc) /\ CancelTold(pc) /\ CommittedBehind(pc) /\ AnswerKnows(pc) /\ CancelComes(pc)
  BY DEF AInv, AKnows
<1>5. /\ pull'[pc].rows = pull[pc].rows /\ pull'[pc].clock = pull[pc].clock
      /\ pull'[pc].short = pull[pc].short
  <2>1. pull[pc] \in [phase: Phases, rows: Seq(Mutation \cup {None}), clock: 0 .. MaxLog,
                      seen: Nat \cup {None}, short: BOOLEAN]
    BY <1>0, TypeFacts DEF PCTypes
  <2> QED BY <1>1, <2>1
<1>6. Told(pc)'
  BY <1>1, <1>3, <1>4, ToldStays
<1>7. CancelTold(pc)'
  BY <1>1, <1>3, <1>4, CancelToldStays
<1>8. CommittedBehind(pc)'
  BY <1>1, <1>4, <1>5 DEF CommittedBehind
<1>9. AnswerKnows(pc)'
  BY <1>1, <1>4, <1>5 DEF AnswerKnows
<1>10. CancelComes(pc)'
  BY <1>1, <1>4, <1>5 DEF CancelComes, Coming
<1>11. CancelsKnow(pc)' /\ PushLogged(pc)' /\ \A q \in PCs : q # pc => AKnows(q)'
  BY <1>2, PullsAgree
<1>12. AKnows(pc)'
  BY <1>6, <1>7, <1>8, <1>9, <1>10, <1>11 DEF AKnows
<1> QED BY <1>11, <1>12 DEF AInv

\* A full answer has every row after the cursor committed, and the cancellations of the
\* cloud as such.
LEMMA AskAgrees ==
    ASSUME PInv, AInv, [Next]_vars, NEW pc \in PCs, Ask(pc)
    PROVE  AInv'
<1>0. TypeOK
  BY DEF PInv
<1> DEFINE places == Answered(pc)
           firsts == {i \in places : \A j \in places : log[j].entity = log[i].entity => i <= j}
           rows == [i \in 1 .. Len(log) |-> IF i \in firsts THEN Payload(log[i].entity) ELSE None]
<1>1. /\ since' = since /\ log' = log /\ ledger' = ledger /\ outbox' = outbox /\ pushing' = pushing
      /\ receipts' = receipts /\ movements' = movements /\ gap' = gap
      /\ \A q \in PCs : q # pc => pull'[q] = pull[q]
  BY <1>0 DEF Ask, TypeOK, localVars, cloudVars, history
<1>2. /\ pull'[pc].clock = Len(log) /\ pull'[pc].rows = rows
      /\ ~ pull'[pc].short => After(pc) = places
  <2>1. PICK short \in BOOLEAN : short = (After(pc) # places)
    OBVIOUS
  <2>2. PICK answer : answer = [phase |-> "answered", clock |-> Len(log), seen |-> None,
                                rows |-> rows, short |-> short]
    OBVIOUS
  <2>3. pull' = [pull EXCEPT ![pc] = answer]
    BY <2>1, <2>2 DEF Ask
  <2>4. pull'[pc] = answer
    BY <1>0, <2>3 DEF TypeOK
  <2> HIDE DEF rows, places
  <2>5. answer.clock = Len(log) /\ answer.rows = rows /\ answer.short = short
    BY <2>2
  <2>6. ~ short => After(pc) = places
    BY <2>1, Zenon
  <2> QED BY <2>4, <2>5, <2>6
<1>3. Len(log) \in Nat /\ since[pc] \in Nat
  BY <1>0, TypeFacts DEF CloudTypes, PCTypes
<1>4. places \subseteq 1 .. Len(log) /\ \A i \in places : log[i].committed
  BY DEF Answered, After
<1>5. firsts \subseteq places
  OBVIOUS
<1>6. Len(rows) = Len(log)
  BY <1>3
<1>7. ASSUME NEW i \in places PROVE \E k \in firsts : log[k].entity = log[i].entity
  <2> DEFINE named == {j \in places : log[j].entity = log[i].entity}
  <2>1. named \in SUBSET Nat /\ named # {}
    BY <1>4
  <2>2. Min(named) \in named /\ \A j \in named : Min(named) <= j
    <3> HIDE DEF named
    <3> QED BY <2>1, MinExists
  <2>3. Min(named) \in firsts
    BY <2>2
  <2> QED BY <2>2, <2>3
<1>8. ASSUME After(pc) = places, NEW i \in 1 .. Len(log), i > since[pc], log[i].pc # pc
      PROVE  i \in places
  BY <1>8 DEF After, Foreign
<1>9. /\ \A i \in 1 .. Len(log) : rows[i] = IF i \in firsts THEN Payload(log[i].entity) ELSE None
  OBVIOUS
<1>10. ASSUME NEW r \in Receipts
       PROVE  Payload(Sale(r)) # None /\ Payload(Sale(r)).status = ledger[r]
  <2>1. ledger[r] \in Statuses
    BY <1>0, TypeFacts DEF CloudTypes
  <2>2. Payload(Sale(r)) = [entity |-> Sale(r), status |-> ledger[r], quantity |-> 0]
    BY EntityFacts DEF Payload
  <2>3. Payload(Sale(r)) \in Mutation
    BY <2>1, <2>2, EntityFacts DEF Mutation
  <2> QED BY <2>2, <2>3, EntityFacts
<1>11. \A e : Payload(e).entity = e
  BY DEF Payload
<1>12. Pulls(pc)
  BY <1>1 DEF Pulls
<1>13. Remembers
  BY <1>12, PullsRemember
<1>14. /\ Told(pc) /\ CancelTold(pc) /\ CommittedBehind(pc) /\ CancelComes(pc)
  BY DEF AInv, AKnows
<1>15. Told(pc)'
  BY <1>1, <1>13, <1>14, ToldStays
<1>16. CancelTold(pc)'
  BY <1>1, <1>13, <1>14, CancelToldStays
<1>17. CommittedBehind(pc)'
  <2>1. pc \notin gap' => \A i \in 1 .. since'[pc] : log'[i].pc # pc => log'[i].committed
    BY <1>1, <1>14 DEF CommittedBehind
  <2>2. ASSUME ~ pull'[pc].short, NEW i \in 1 .. Len(log), i > since[pc], log[i].pc # pc
        PROVE  log[i].committed
    <3> HIDE DEF places
    <3> QED BY <1>2, <1>4, <1>8, <2>2
  <2>3. ~ pull'[pc].short =>
          \A i \in 1 .. pull'[pc].clock : i > since'[pc] /\ log'[i].pc # pc => log'[i].committed
    BY <1>1, <1>2, <2>2
  <2> QED BY <2>1, <2>3 DEF CommittedBehind
<1> HIDE DEF places, firsts, rows
<1>18. AnswerKnows(pc)'
  <2>1. ASSUME NEW k \in 1 .. Len(log), NEW r \in Receipts, rows[k] # None, rows[k].entity = Sale(r)
        PROVE  rows[k].status = ledger[r]
    <3>1. rows[k] = Payload(log[k].entity)
      BY <1>9, <2>1
    <3>2. log[k].entity = Sale(r)
      BY <1>11, <2>1, <3>1
    <3> QED BY <1>10, <3>1, <3>2
  <2>2. \A k \in 1 .. Len(rows), r \in Receipts :
          rows[k] # None /\ rows[k].entity = Sale(r) /\ rows[k].status = "CANCELLED"
            => ledger'[r] = "CANCELLED"
    BY <1>1, <1>6, <2>1
  <2> QED BY <1>2, <2>2 DEF AnswerKnows
<1>19. CancelComes(pc)'
  <2>1. ASSUME NEW r \in Receipts, pc \notin gap', ledger'[r] = "CANCELLED", receipts'[pc][r] # "CANCELLED"
        PROVE  Coming(pc, r)'
    <3>1. Coming(pc, r)
      BY <1>1, <1>14, <2>1 DEF CancelComes
    <3>2. PICK i \in 1 .. Len(log) : i > since[pc] /\ log[i].pc # pc /\ log[i].entity = Sale(r)
      BY <3>1 DEF Coming
    <3>3. ASSUME ~ pull'[pc].short
          PROVE  \E k \in 1 .. Len(rows) :
                    rows[k] # None /\ rows[k].entity = Sale(r) /\ rows[k].status = "CANCELLED"
      <4>1. i \in places
        BY <1>2, <1>8, <3>2, <3>3
      <4>2. PICK k \in firsts : log[k].entity = log[i].entity
        BY <1>7, <4>1
      <4>3. k \in 1 .. Len(log) /\ k \in 1 .. Len(rows)
        BY <1>4, <1>5, <1>6
      <4>4. rows[k] = Payload(Sale(r))
        BY <1>9, <3>2, <4>2, <4>3
      <4>5. ledger[r] = "CANCELLED"
        BY <1>1, <2>1
      <4> QED BY <1>10, <1>11, <4>3, <4>4, <4>5
    <3> QED BY <1>1, <1>2, <3>2, <3>3 DEF Coming
  <2>2. CancelComes(pc)' = (\A r \in Receipts :
          pc \notin gap' /\ ledger'[r] = "CANCELLED" /\ receipts'[pc][r] # "CANCELLED" => Coming(pc, r)')
    BY DEF CancelComes
  <2> QED BY <2>1, <2>2
<1>20. CancelsKnow(pc)' /\ PushLogged(pc)' /\ \A q \in PCs : q # pc => AKnows(q)'
  BY <1>12, PullsAgree
<1>21. AKnows(pc)'
  BY <1>15, <1>16, <1>17, <1>18, <1>19, <1>20 DEF AKnows
<1> QED BY <1>20, <1>21 DEF AInv

\* A sale is cancelled by the first i rows exactly if it was, or one of them says so.
CancelledBy(pc, x, i) ==
    \A r \in Receipts : x.status[r] = "CANCELLED" <=>
       \/ receipts[pc][r] = "CANCELLED"
       \/ \E k \in 1 .. i : /\ pull[pc].rows[k] # None /\ pull[pc].rows[k].entity = Sale(r)
                            /\ pull[pc].rows[k].status = "CANCELLED"

\* One more row.
LEMMA CancelledGoesOn ==
    ASSUME TypeOK, NEW pc \in PCs, NEW i \in Nat, NEW x \in Copies, CancelledBy(pc, x, i),
           NEW m \in Mutation, m = pull[pc].rows[i + 1]
    PROVE  CancelledBy(pc, Applied(pc, x, m), i + 1)
<1>1. PICK y : y = Applied(pc, x, m)
  OBVIOUS
<1>2. m # None /\ m.entity \in Entities /\ m.status \in Statuses
  BY EntityFacts DEF Mutation
<1>3. \A k \in 1 .. i + 1 : k \in 1 .. i \/ k = i + 1
  OBVIOUS
<1>4. \A k \in 1 .. i : k \in 1 .. i + 1
  OBVIOUS
<1>5. i + 1 \in 1 .. i + 1
  OBVIOUS
<1>6. CASE m.entity \in Sales
  <2>1. PICK s \in Receipts : /\ s = m.entity.receipt /\ m.entity = Sale(s)
                              /\ y.status[s] = StatusAfter(x.status[s], m.status)
                              /\ \A r \in Receipts : r # s => y.status[r] = x.status[r]
    <3>1. m.entity.receipt \in Receipts /\ m.entity = Sale(m.entity.receipt)
      BY <1>6, EntityFacts
    <3>2. LET new == Applied(pc, x, m)
              r == m.entity.receipt
          IN  /\ new \in Copies
              /\ new.quantity = x.quantity /\ new.base = x.base /\ new.moved = x.moved
              /\ new.clipped = x.clipped /\ new.wrote = x.wrote
              /\ x.broken => new.broken
              /\ r \in Receipts /\ new.status[r] = StatusAfter(x.status[r], m.status)
              /\ \A z \in Receipts : z # r => new.status[z] = x.status[z]
      BY <1>6, SaleApplied
    <3> QED BY <1>1, <3>1, <3>2
  <2>2. y.status[s] = "CANCELLED" <=> x.status[s] = "CANCELLED" \/ m.status = "CANCELLED"
    <3>1. x.status[s] \in Statuses
      BY DEF Copies
    <3> QED BY <1>2, <2>1, <3>1 DEF StatusAfter, Statuses
  <2>3. ASSUME NEW r \in Receipts
        PROVE  y.status[r] = "CANCELLED" <=>
                 \/ receipts[pc][r] = "CANCELLED"
                 \/ \E k \in 1 .. i + 1 : /\ pull[pc].rows[k] # None /\ pull[pc].rows[k].entity = Sale(r)
                                          /\ pull[pc].rows[k].status = "CANCELLED"
    <3>1. y.status[r] = "CANCELLED" <=>
            x.status[r] = "CANCELLED" \/ (m.entity = Sale(r) /\ m.status = "CANCELLED")
      <4>1. r # s => m.entity # Sale(r)
        BY <2>1, EntityFacts
      <4> QED BY <2>1, <2>2, <4>1
    <3>2. x.status[r] = "CANCELLED" <=>
            \/ receipts[pc][r] = "CANCELLED"
            \/ \E k \in 1 .. i : /\ pull[pc].rows[k] # None /\ pull[pc].rows[k].entity = Sale(r)
                                 /\ pull[pc].rows[k].status = "CANCELLED"
      BY DEF CancelledBy
    <3> QED BY <1>2, <1>3, <1>4, <1>5, <3>1, <3>2
  <2> QED BY <1>1, <2>3 DEF CancelledBy
<1>7. CASE m.entity \notin Sales
  <2>1. y.status = x.status
    <3>1. CASE m.entity = Item
      BY <1>1, <3>1, ItemApplied
    <3>2. CASE m.entity \in Movements
      BY <1>1, <3>2, MovementApplied
    <3> QED BY <1>2, <1>7, <3>1, <3>2, EntityFacts
  <2>2. \A r \in Receipts : m.entity # Sale(r)
    BY <1>7, EntityFacts
  <2> QED BY <1>1, <1>3, <1>4, <2>1, <2>2 DEF CancelledBy
<1> QED BY <1>6, <1>7

\* After all of them.
LEMMA ResultCancels ==
    ASSUME TypeOK, NEW pc \in PCs
    PROVE  CancelledBy(pc, Result(pc), Len(pull[pc].rows))
<1>1. PICK n \in Nat : n = Len(pull[pc].rows)
  BY TypeFacts DEF PCTypes
<1>2. PICK g : /\ g = Applying(pc) /\ g[0] = Start(pc) /\ Start(pc) \in Copies
               /\ \A i \in 1 .. n :
                    g[i] = IF pull[pc].rows[i] = None THEN g[i - 1]
                           ELSE Applied(pc, g[i - 1], pull[pc].rows[i])
  BY <1>1, ApplyingEquation
<1> DEFINE S == {i \in 0 .. n : g[i] \in Copies /\ CancelledBy(pc, g[i], i)}
<1>3. 0 \in S
  <2>1. Start(pc).status = receipts[pc]
    BY DEF Start
  <2>2. CancelledBy(pc, Start(pc), 0)
    BY <2>1 DEF CancelledBy
  <2> QED BY <1>2, <2>2
<1>4. ASSUME NEW i \in 0 .. n, i < n, i \in S PROVE i + 1 \in S
  <2>1. i + 1 \in 1 .. n /\ i + 1 \in 0 .. n /\ (i + 1) - 1 = i /\ i \in Nat
    BY <1>4
  <2>2. PICK x \in Copies : x = g[i] /\ CancelledBy(pc, x, i)
    BY <1>4
  <2>3. CASE pull[pc].rows[i + 1] = None
    <3>1. g[i + 1] = x
      BY <1>2, <2>1, <2>2, <2>3
    <3>2. CancelledBy(pc, x, i + 1)
      <4>1. \A k \in 1 .. i + 1 : pull[pc].rows[k] # None <=> k \in 1 .. i /\ pull[pc].rows[k] # None
        BY <2>1, <2>3
      <4>2. \A k \in 1 .. i : k \in 1 .. i + 1
        BY <2>1
      <4> QED BY <2>2, <4>1, <4>2 DEF CancelledBy
    <3> QED BY <2>1, <3>1, <3>2
  <2>4. CASE pull[pc].rows[i + 1] # None
    <3>1. PICK m \in Mutation : m = pull[pc].rows[i + 1]
      BY <1>1, <2>1, <2>4, TypeFacts DEF PCTypes
    <3>2. g[i + 1] = Applied(pc, x, m)
      BY <1>2, <2>1, <2>2, <2>4, <3>1
    <3>3. CancelledBy(pc, Applied(pc, x, m), i + 1)
      BY <2>1, <2>2, <3>1, CancelledGoesOn
    <3>4. Applied(pc, x, m) \in Copies
      <4>1. m.entity = Item \/ m.entity \in Sales \/ m.entity \in Movements
        <5>1. m.entity \in Entities
          BY DEF Mutation
        <5> QED BY <5>1, EntityFacts
      <4> QED BY <4>1, ItemApplied, SaleApplied, MovementApplied
    <3> QED BY <2>1, <3>2, <3>3, <3>4
  <2> QED BY <2>3, <2>4
<1> HIDE DEF S
<1>5. \A i \in 0 .. n : i \in S
  BY <1>3, <1>4, AllNumbers
<1>6. CancelledBy(pc, g[n], n)
  BY <1>5 DEF S
<1> QED BY <1>1, <1>2, <1>6 DEF Result

\* What is applied is in the log; a PC that has come to the end of a full answer has all
\* cancellations it names.
LEMMA ApplyAgrees ==
    ASSUME PInv, AInv, [Next]_vars, NEW pc \in PCs, Apply(pc)
    PROVE  AInv'
<1>0. TypeOK /\ Stocked(pc) /\ PullKnows(pc)
  BY DEF PInv, PCKnows
<1>1. PICK n \in Nat : n = Len(pull[pc].rows)
  BY <1>0, TypeFacts DEF PCTypes
<1>2. PICK x : x = Result(pc) /\ SoFar(pc, x, n) /\ CancelledBy(pc, x, n)
  BY <1>0, <1>1, ResultKnows, ResultCancels
<1>3. /\ receipts' = [receipts EXCEPT ![pc] = x.status]
      /\ movements' = [movements EXCEPT ![pc] = x.moved]
      /\ since' = [since EXCEPT ![pc] = pull[pc].clock]
      /\ pull' = [pull EXCEPT ![pc] = NoPull]
      /\ gap' = IF pull[pc].short THEN gap \cup {pc} ELSE gap
      /\ outbox' = outbox /\ pushing' = pushing /\ ledger' = ledger /\ log' = log
  BY <1>2 DEF Apply, cloudVars
<1>4. /\ receipts'[pc] = x.status /\ movements'[pc] = x.moved
      /\ since'[pc] = pull[pc].clock /\ pull'[pc] = NoPull
      /\ \A q \in PCs : q # pc => /\ receipts'[q] = receipts[q] /\ movements'[q] = movements[q]
                                  /\ since'[q] = since[q] /\ pull'[q] = pull[q]
  BY <1>0, <1>3 DEF TypeOK
<1>5. /\ \A q \in PCs : q \notin gap' => q \notin gap
      /\ pc \notin gap' => ~ pull[pc].short
  BY <1>3
<1>6. Pulls(pc)
  BY <1>3, <1>4, <1>5 DEF Pulls
<1>7. Remembers
  BY <1>6, PullsRemember
<1>8. /\ Told(pc) /\ CancelTold(pc) /\ CommittedBehind(pc) /\ AnswerKnows(pc) /\ CancelComes(pc)
  BY DEF AInv, AKnows
<1>9. /\ n = pull[pc].clock /\ n <= Len(log) /\ Len(log) \in Nat
      /\ \A k \in 1 .. n : pull[pc].rows[k] # None => pull[pc].rows[k].entity = log[k].entity
      /\ \A k \in 1 .. n : k \in 1 .. Len(log)
  BY <1>0, <1>1, TypeFacts DEF PullKnows, CloudTypes
<1>10. ASSUME NEW e, NEW k \in 1 .. n, pull[pc].rows[k] # None, pull[pc].rows[k].entity = e
       PROVE  InLog(e)'
  <2>1. log[k].entity = e /\ k \in 1 .. Len(log)
    BY <1>9, <1>10
  <2>2. InLog(e)
    BY <2>1 DEF InLog
  <2>3. InLog(e)' = \E i \in 1 .. Len(log') : log'[i].entity = e
    BY DEF InLog
  <2> QED BY <1>3, <2>1, <2>3
<1>11. Told(pc)'
  <2>1. /\ MovesKnown(pc, x, n) /\ StatusKept(pc, x)
    BY <1>2 DEF SoFar
  <2>2. (\A m \in movements[pc] : m # Item) /\ \A r \in Receipts : Sale(r) # Item
    BY <1>0, TypeFacts, EntityFacts DEF PCTypes
  <2>3. ASSUME NEW m \in x.moved PROVE InLog(m)' \/ Queued(m)'
    <3>1. CASE m \in movements[pc]
      BY <1>7, <1>8, <2>2, <3>1 DEF Told, Remembers
    <3>2. CASE \E k \in 1 .. n : pull[pc].rows[k] # None /\ pull[pc].rows[k].entity = m
      BY <1>10, <3>2
    <3> QED BY <2>1, <3>1, <3>2 DEF MovesKnown
  <2>4. ASSUME NEW r \in Receipts, x.status[r] # "NONE" PROVE InLog(Sale(r))' \/ Queued(Sale(r))'
    <3>1. CASE x.status[r] = receipts[pc][r]
      BY <1>7, <1>8, <2>2, <2>4, <3>1 DEF Told, Remembers
    <3>2. CASE x.status[r] # receipts[pc][r]
      <4>1. PICK k \in 1 .. n : pull[pc].rows[k] # None /\ pull[pc].rows[k].entity = Sale(r)
        BY <1>1, <2>1, <3>2 DEF StatusKept
      <4> QED BY <1>10, <4>1
    <3> QED BY <3>1, <3>2
  <2>5. Told(pc)' = (/\ \A m \in movements'[pc] : InLog(m)' \/ Queued(m)'
                     /\ \A r \in Receipts : receipts'[pc][r] # "NONE" => InLog(Sale(r))' \/ Queued(Sale(r))')
    BY DEF Told
  <2> QED BY <1>4, <2>3, <2>4, <2>5
<1>12. CancelTold(pc)'
  <2>1. ASSUME NEW r \in Receipts, x.status[r] = "CANCELLED"
        PROVE  ledger'[r] = "CANCELLED" \/ Cancelling(r)'
    <3>1. CASE receipts[pc][r] = "CANCELLED"
      BY <1>7, <1>8, <3>1 DEF CancelTold, Remembers
    <3>2. CASE \E k \in 1 .. n : /\ pull[pc].rows[k] # None /\ pull[pc].rows[k].entity = Sale(r)
                                 /\ pull[pc].rows[k].status = "CANCELLED"
      <4>1. ledger[r] = "CANCELLED"
        BY <1>1, <1>8, <3>2 DEF AnswerKnows
      <4> QED BY <1>3, <4>1
    <3> QED BY <1>2, <2>1, <3>1, <3>2 DEF CancelledBy
  <2>2. CancelTold(pc)' = (\A r \in Receipts : receipts'[pc][r] = "CANCELLED" =>
                             ledger'[r] = "CANCELLED" \/ Cancelling(r)')
    BY DEF CancelTold
  <2> QED BY <1>4, <2>1, <2>2
<1>13. pull'[pc].rows = <<>> /\ pull'[pc].clock = 0
  BY <1>4 DEF NoPull
<1>14. CommittedBehind(pc)'
  <2>1. ASSUME pc \notin gap', NEW i \in 1 .. n, log[i].pc # pc PROVE log[i].committed
    <3>1. ~ pull[pc].short /\ pc \notin gap
      BY <1>5, <2>1
    <3>2. since[pc] \in Nat
      BY <1>0, TypeFacts DEF PCTypes
    <3>3. CASE i > since[pc]
      BY <1>8, <1>9, <2>1, <3>1, <3>3 DEF CommittedBehind
    <3>4. CASE ~ i > since[pc]
      <4>1. i \in 1 .. since[pc]
        BY <3>2, <3>4
      <4> QED BY <1>8, <2>1, <3>1, <4>1 DEF CommittedBehind
    <3> QED BY <3>3, <3>4
  <2> QED BY <1>3, <1>4, <1>9, <1>13, <2>1 DEF CommittedBehind
<1>15. AnswerKnows(pc)'
  BY <1>13 DEF AnswerKnows
<1>16. CancelComes(pc)'
  <2>1. ASSUME NEW r \in Receipts, pc \notin gap', ledger'[r] = "CANCELLED", receipts'[pc][r] # "CANCELLED"
        PROVE  Coming(pc, r)'
    <3>1. ~ pull[pc].short /\ pc \notin gap /\ ledger[r] = "CANCELLED" /\ x.status[r] # "CANCELLED"
      BY <1>3, <1>4, <1>5, <2>1
    <3>2. receipts[pc][r] # "CANCELLED"
      BY <1>2, <3>1 DEF CancelledBy
    <3>3. Coming(pc, r)
      BY <1>8, <3>1, <3>2 DEF CancelComes
    <3>4. PICK i \in 1 .. Len(log) :
            /\ i > since[pc] /\ log[i].pc # pc /\ log[i].entity = Sale(r)
            /\ ~ pull[pc].short /\ i <= pull[pc].clock =>
                 \E k \in 1 .. Len(pull[pc].rows) :
                    /\ pull[pc].rows[k] # None /\ pull[pc].rows[k].entity = Sale(r)
                    /\ pull[pc].rows[k].status = "CANCELLED"
      BY <3>3 DEF Coming
    <3>5. ~ i <= n
      BY <1>1, <1>2, <1>9, <3>1, <3>4 DEF CancelledBy
    <3>6. i > since'[pc] /\ ~ i <= 0
      BY <1>4, <1>9, <3>5
    <3> QED BY <1>3, <1>13, <3>4, <3>6 DEF Coming
  <2>2. CancelComes(pc)' = (\A r \in Receipts :
          pc \notin gap' /\ ledger'[r] = "CANCELLED" /\ receipts'[pc][r] # "CANCELLED" => Coming(pc, r)')
    BY DEF CancelComes
  <2> QED BY <2>1, <2>2
<1>17. CancelsKnow(pc)' /\ PushLogged(pc)' /\ \A q \in PCs : q # pc => AKnows(q)'
  BY <1>6, PullsAgree
<1>18. AKnows(pc)'
  BY <1>11, <1>12, <1>14, <1>15, <1>16, <1>17 DEF AKnows
<1> QED BY <1>17, <1>18 DEF AInv

\* At first nothing is booked, sent or logged.
LEMMA AInvInit == Init => AInv
<1> SUFFICES ASSUME Init, NEW pc \in PCs PROVE AKnows(pc)
  BY DEF AInv
<1>1. /\ movements[pc] = {} /\ outbox[pc] = <<>> /\ pushing[pc] = 0 /\ since[pc] = 0
      /\ pull[pc] = NoPull /\ NoPull.rows = <<>> /\ NoPull.clock = 0
      /\ \A r \in Receipts : receipts[pc][r] = "NONE" /\ ledger[r] = "NONE"
  BY DEF Init, NoPull
<1>2. Len(<<>>) = 0 /\ 1 .. 0 = {}
  OBVIOUS
<1>3. Told(pc) /\ CancelTold(pc) /\ CancelComes(pc)
  BY <1>1 DEF Told, CancelTold, CancelComes
<1>4. CancelsKnow(pc) /\ PushLogged(pc)
  BY <1>1, <1>2 DEF CancelsKnow, PushLogged
<1>5. CommittedBehind(pc) /\ AnswerKnows(pc)
  BY <1>1, <1>2 DEF CommittedBehind, AnswerKnows
<1> QED BY <1>3, <1>4, <1>5 DEF AKnows

\* Every step of a screen or of the worker keeps what the PCs agree by.
LEMMA AInvInductive == PInv /\ AInv /\ [Next]_vars => AInv'
<1> SUFFICES ASSUME PInv, AInv, [Next]_vars PROVE AInv'
  OBVIOUS
<1>1. CASE UNCHANGED vars
  <2>1. /\ log' = log /\ ledger' = ledger /\ since' = since /\ pull' = pull /\ gap' = gap
        /\ receipts' = receipts /\ movements' = movements /\ pushing' = pushing /\ outbox' = outbox
    BY <1>1 DEF vars, localVars, cloudVars, history
  <2>2. \A q \in PCs : /\ Queues(q)
                       /\ \A k \in 1 .. Len(outbox'[q]) : k > Len(outbox[q]) => outbox'[q][k].entity = Item
    BY <2>1, SameQueue
  <2>3. Idles
    BY <2>1, <2>2 DEF Idles
  <2> QED BY <2>3, IdlesAgree
<1>2. ASSUME NEW pc \in PCs, Screens(pc) PROVE AInv'
  <2>1. CASE Book(pc)
    BY <2>1, BookAgrees
  <2>2. CASE \/ Register(pc) \/ CreateProduct(pc) \/ EditProduct(pc) \/ Kill(pc)
             \/ \E r \in Receipts, call \in {"sale", "cancellation"} : Load(pc, call, r)
    BY <2>2, ScreensIdle, IdlesAgree
  <2> QED BY <1>2, <2>1, <2>2 DEF Screens
<1>3. ASSUME NEW pc \in PCs, Worker(pc) PROVE AInv'
  <2>1. CASE OpenPush(pc)
    BY <2>1, OpenPushAgrees
  <2>2. CASE CommitPush(pc)
    BY <2>2, CommitAgrees
  <2>3. CASE Ask(pc)
    BY <2>3, AskAgrees
  <2>4. CASE LoadForApply(pc)
    BY <2>4, LoadForApplyAgrees
  <2>5. CASE Apply(pc)
    BY <2>5, ApplyAgrees
  <2>6. CASE Fail(pc)
    BY <2>6, FailAgrees
  <2> QED BY <1>3, <2>1, <2>2, <2>3, <2>4, <2>5, <2>6 DEF Worker
<1> QED BY <1>1, <1>2, <1>3 DEF Next

-------------------------------------------------------------------------------
\* Agreement

\* Nothing is left to send or to pull, and nothing was cut short.
Done == /\ \A pc \in PCs : outbox[pc] = <<>> /\ After(pc) = {}
        /\ gap = {}

\* Then every PC has what any PC has told the cloud.
LEMMA AllHaveTheLog ==
    ASSUME PInv, Done, NEW pc \in PCs, NEW e, InLog(e)
    PROVE  Has(pc, e)
<1>1. /\ TypeOK /\ LogKnows /\ CursorKnows(pc)
  BY DEF PInv, PCKnows
<1>2. PICK i \in 1 .. Len(log) : log[i].entity = e
  BY DEF InLog
<1>3. since[pc] \in Nat /\ since[pc] <= Len(log) /\ pc \notin gap /\ After(pc) = {}
  BY <1>1, TypeFacts DEF CursorKnows, PCTypes, Done
<1>4. CASE log[i].pc = pc
  BY <1>1, <1>2, <1>4 DEF LogKnows
<1>5. CASE log[i].pc # pc
  <2>1. ~ i > since[pc]
    BY <1>3, <1>5 DEF After, Foreign
  <2>2. i \in 1 .. since[pc]
    BY <1>3, <2>1
  <2> QED BY <1>1, <1>2, <1>3, <1>5, <2>2 DEF CursorKnows
<1> QED BY <1>4, <1>5

\* And what any PC has at all, its movements and its receipts.
LEMMA AllHaveTheSame ==
    ASSUME PInv, AInv, Done, NEW a \in PCs, NEW b \in PCs
    PROVE  /\ movements[a] \subseteq movements[b]
           /\ \A r \in Receipts : receipts[a][r] # "NONE" => receipts[b][r] # "NONE"
<1>1. Told(a) /\ TypeOK
  BY DEF AInv, AKnows, PInv
<1>2. \A e : ~ Queued(e)
  <2>1. \A q \in PCs : 1 .. Len(outbox[q]) = {}
    BY DEF Done
  <2> QED BY <2>1 DEF Queued
<1>3. ASSUME NEW m \in movements[a] PROVE m \in movements[b]
  <2>1. Has(b, m)
    BY <1>1, <1>2, AllHaveTheLog DEF Told
  <2>2. m \in Movements
    BY <1>1, TypeFacts DEF PCTypes
  <2>3. m # Item /\ m \notin Sales
    BY <2>2, EntityFacts
  <2> QED BY <2>1, <2>3 DEF Has
<1>4. ASSUME NEW r \in Receipts, receipts[a][r] # "NONE" PROVE receipts[b][r] # "NONE"
  <2>1. Has(b, Sale(r))
    BY <1>1, <1>2, <1>4, AllHaveTheLog DEF Told
  <2>2. Sale(r) # Item /\ Sale(r) \in Sales /\ Sale(r).receipt = r
    BY EntityFacts
  <2> QED BY <2>1, <2>2 DEF Has
<1> QED BY <1>3, <1>4

\* A cancellation of one PC is in the cloud, and so on every PC.
LEMMA AllHaveCancelled ==
    ASSUME PInv, AInv, Done, NEW a \in PCs, NEW b \in PCs, NEW r \in Receipts,
           receipts[a][r] = "CANCELLED"
    PROVE  receipts[b][r] = "CANCELLED"
<1>1. CancelTold(a) /\ CancelComes(b)
  BY DEF AInv, AKnows
<1>2. ~ Cancelling(r)
  <2>1. \A q \in PCs : 1 .. Len(outbox[q]) = {}
    BY DEF Done
  <2> QED BY <2>1 DEF Cancelling
<1>3. ledger[r] = "CANCELLED"
  BY <1>1, <1>2 DEF CancelTold
<1>4. ~ Coming(b, r)
  <2>1. b \notin gap /\ After(b) = {}
    BY DEF Done
  <2> QED BY <2>1 DEF Coming, After, Foreign
<1>5. b \notin gap
  BY DEF Done
<1> QED BY <1>1, <1>3, <1>4, <1>5 DEF CancelComes

\* The PCs agree on receipts and stock once all is pushed and pulled, whatever was sold
\* and cancelled where, sent twice, answered late or lost on the way, for any number of
\* PCs and receipts and every size of batch and page (worker.py, cloud_api.py, apply.py).
THEOREM PCsAgree == Spec => []AgreeWhenQuiet
<1>1. ASSUME PInv, AInv PROVE AgreeWhenQuiet
  <2> SUFFICES ASSUME Quiet, gap = {}, disturbed = {}, NEW a \in PCs, NEW b \in PCs
               PROVE  /\ receipts[a] = receipts[b]
                      /\ base[a] = base[b] => quantity[a] = quantity[b]
    BY DEF AgreeWhenQuiet
  <2>1. Done
    BY DEF Quiet, Done
  <2>2. ASSUME NEW q \in PCs
        PROVE  /\ receipts[q] \in [Receipts -> Statuses]
               /\ Stocked(q) /\ Explained(q)
    BY <1>1, TypeFacts DEF PInv, PCKnows, PCTypes
  <2>3. ASSUME NEW r \in Receipts PROVE receipts[a][r] = receipts[b][r]
    <3>1. /\ receipts[a][r] # "NONE" <=> receipts[b][r] # "NONE"
          /\ receipts[a][r] = "CANCELLED" <=> receipts[b][r] = "CANCELLED"
      BY <1>1, <2>1, AllHaveTheSame, AllHaveCancelled
    <3>2. receipts[a][r] \in Statuses /\ receipts[b][r] \in Statuses
      BY <2>2
    <3> QED BY <3>1, <3>2 DEF Statuses
  <2>4. receipts[a] = receipts[b]
    BY <2>2, <2>3
  <2>5. movements[a] = movements[b]
    BY <1>1, <2>1, AllHaveTheSame
  <2>6. ASSUME base[a] = base[b] PROVE quantity[a] = quantity[b]
    <3>1. PICK n : n = Sum(movements[a])
      OBVIOUS
    <3>2. Sum(movements[b]) = n
      BY <2>5, <3>1
    <3>3. quantity[a] = None <=> quantity[b] = None
      BY <2>2, <2>6 DEF Stocked
    <3>4. ASSUME quantity[a] # None, quantity[b] # None PROVE quantity[a] = quantity[b]
      <4>1. quantity[a] = base[a] + n /\ quantity[b] = base[b] + n
        BY <2>2, <3>1, <3>2, <3>4 DEF Explained
      <4> QED BY <2>6, <4>1
    <3> QED BY <3>3, <3>4
  <2> QED BY <2>4, <2>6
<1>2. PInv /\ AInv /\ [Next]_vars => (PInv /\ AInv)'
  BY PInvInductive, AInvInductive
<1> QED BY <1>1, <1>2, PInvInit, AInvInit, PTL DEF Spec

===============================================================================
