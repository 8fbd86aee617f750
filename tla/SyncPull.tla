------------------------------- MODULE SyncPull --------------------------------
(***************************************************************************)
(* Several PCs of the shop and the cloud between them: what a PC sells and *)
(* cancels is pushed to the cloud's tables and sync_log, pulled from there *)
(* by the other PCs and applied to their own stock.                        *)
(*                                                                         *)
(* A pull asks for the log rows of other devices after a timestamp, gets   *)
(* the present state of what they name and the cloud's clock, and applies  *)
(* all of it, with the clock as the next timestamp, in one transaction.    *)
(* Push transactions and pulls overlap in the cloud; calls of the screens  *)
(* and the worker's apply overlap on a PC, where SQLAlchemy reads a row    *)
(* before any lock is taken and writes it afterwards.                      *)
(*                                                                         *)
(* Abstractions.  One product.  A receipt sells one of it, and stands for  *)
(* its sale, items and payment; its movement is an entity of its own, as   *)
(* is the movement of each cancellation.  A push is one request and its    *)
(* transaction; what becomes of the outbox when requests fail is the       *)
(* subject of SyncPush, here an outbox loses its rows when they have       *)
(* arrived, or sends them again.  No service raises version or enqueues a  *)
(* DELETE.  The timestamp of a log row is its place in the log: one clock  *)
(* is assumed for the PCs and the cloud.                                   *)
(***************************************************************************)
EXTENDS Integers, Sequences, FiniteSets, FiniteSetsExt

CONSTANTS
    PCs,         \* the PCs of the shop
    Receipts,    \* receipts that may be made, on any PC
    Opening,     \* quantity the product is created with
    Limit,       \* log rows of a pull
    BatchSize,   \* rows of a push
    MaxExtras,   \* bound: registrations and edits of the product
    MaxLog,      \* bound: rows of the log
    None         \* no row

VARIABLES
    device,     \* registrations of each PC so far, the last one is in its credentials
    quantity,   \* products.quantity of each PC, None before the product is there
    base,       \* the quantity its row was inserted with
    receipts,   \* sales.status of each PC
    movements,  \* inventory_logs of each PC
    desk,       \* the call of a screen under way on each PC, and what it has read
    outbox,     \* sync_queue of each PC: what the cloud has not acknowledged
    pushing,    \* how many of its rows the PC's open push transaction holds
    catalogue,  \* product of the cloud: quantity and updated_at
    ledger,     \* sales of the cloud
    log,        \* sync_log of the cloud, with rows that are not committed yet
    since,      \* sync_state.last_sync_at of each PC
    pull,       \* the pull under way on each PC
    edits,      \* edits of the product so far
    gap,        \* PCs whose pulls were cut short, or overlapped an open push
    disturbed   \* PCs that lost part of a movement

localVars == <<device, quantity, base, receipts, movements, outbox, since, edits>>
cloudVars == <<catalogue, ledger, log>>
history   == <<gap, disturbed>>
vars == <<localVars, desk, pushing, cloudVars, pull, history>>

-------------------------------------------------------------------------------
\* Types

Statuses == {"NONE", "COMPLETED", "CANCELLED"}

\* The movement of a sale, and the one of its cancellation on a PC.
Movements == [receipt: Receipts, change: {-1, 1}, at: PCs]

Item == [receipt |-> None, change |-> 0, at |-> None]
Sale(r) == [receipt |-> r, change |-> 0, at |-> None]
Sales == {Sale(r) : r \in Receipts}
Entities == {Item} \cup Sales \cup Movements

\* A queued row: the quantity and the enqueue time of a product row, else 0.
Row == [entity: Entities, operation: {"CREATE", "UPDATE"}, quantity: Nat, at: Nat]

LogRow == [entity: Entities, pc: PCs, device: Nat, committed: BOOLEAN]

Calls == {"idle", "sale", "cancellation"}
Mutation == [entity: Entities, status: Statuses, quantity: Nat]
Phases == {"idle", "answered", "loaded"}

ASSUME PullAssumption ==
    /\ {Opening, MaxExtras, MaxLog} \subseteq Nat
    /\ {Limit, BatchSize} \subseteq Nat \ {0}
    /\ None \notin Nat /\ None \notin Receipts /\ None \notin Mutation

NoCall == [call |-> "idle", receipt |-> None, seen |-> None]
NoPull == [phase |-> "idle", rows |-> <<>>, clock |-> 0, seen |-> None, short |-> FALSE]

\* Types; above all, a quantity is never negative (apply.py:243).
TypeOK ==
    /\ device \in [PCs -> Nat]
    /\ quantity \in [PCs -> Nat \cup {None}]
    /\ base \in [PCs -> Nat \cup {None}]
    /\ receipts \in [PCs -> [Receipts -> Statuses]]
    /\ movements \in [PCs -> SUBSET Movements]
    /\ desk \in [PCs -> [call: Calls, receipt: Receipts \cup {None}, seen: Nat \cup {None}]]
    /\ outbox \in [PCs -> Seq(Row)]
    /\ pushing \in [PCs -> 0 .. BatchSize]
    /\ catalogue \in [quantity: Nat \cup {None}, updated: Nat]
    /\ ledger \in [Receipts -> Statuses]
    /\ log \in Seq(LogRow)
    /\ since \in [PCs -> 0 .. MaxLog]
    /\ pull \in [PCs -> [phase: Phases, rows: Seq(Mutation \cup {None}), clock: 0 .. MaxLog,
                         seen: Nat \cup {None}, short: BOOLEAN]]
    /\ edits \in Nat
    /\ gap \subseteq PCs
    /\ disturbed \subseteq PCs

Init ==
    /\ device = [pc \in PCs |-> 0]
    /\ quantity = [pc \in PCs |-> None]
    /\ base = [pc \in PCs |-> None]
    /\ receipts = [pc \in PCs |-> [r \in Receipts |-> "NONE"]]
    /\ movements = [pc \in PCs |-> {}]
    /\ desk = [pc \in PCs |-> NoCall]
    /\ outbox = [pc \in PCs |-> <<>>]
    /\ pushing = [pc \in PCs |-> 0]
    /\ catalogue = [quantity |-> None, updated |-> 0]
    /\ ledger = [r \in Receipts |-> "NONE"]
    /\ log = <<>>
    /\ since = [pc \in PCs |-> 0]
    /\ pull = [pc \in PCs |-> NoPull]
    /\ edits = 0
    /\ gap = {}
    /\ disturbed = {}

Sum(moved) == Cardinality({m \in moved : m.change = 1}) - Cardinality({m \in moved : m.change = -1})

-------------------------------------------------------------------------------
Extras == MapThenSumSet(LAMBDA pc : device[pc], PCs) + edits

\* Registration: every time it succeeds the PC gets a new device id of the cloud

Register(pc) ==
    /\ Extras < MaxExtras
    /\ device' = [device EXCEPT ![pc] = @ + 1]
    /\ UNCHANGED <<quantity, base, receipts, movements, outbox, since, edits, desk, pushing,
                   cloudVars, pull, history>>

Registered(pc) == device[pc] > 0

-------------------------------------------------------------------------------
\* The screens of a PC

Plain(entity, operation) == [entity |-> entity, operation |-> operation, quantity |-> 0, at |-> 0]

\* The whole row of the product, stamped with the time.
Saved(operation, q) ==
    [entity |-> Item, operation |-> operation, quantity |-> q, at |-> Len(log)]

CreateProduct(pc) ==
    /\ \A other \in PCs : quantity[other] = None
    /\ quantity' = [quantity EXCEPT ![pc] = Opening]
    /\ base' = [base EXCEPT ![pc] = Opening]
    /\ outbox' = [outbox EXCEPT ![pc] = Append(@, Saved("CREATE", Opening))]
    /\ UNCHANGED <<device, receipts, movements, since, edits, desk, pushing, cloudVars, pull, history>>

\* A price or a name: the quantity is in the payload all the same.
EditProduct(pc) ==
    /\ Extras < MaxExtras
    /\ quantity[pc] # None
    /\ edits' = edits + 1
    /\ outbox' = [outbox EXCEPT ![pc] = Append(@, Saved("UPDATE", quantity[pc]))]
    /\ UNCHANGED <<device, quantity, base, receipts, movements, since, desk, pushing, cloudVars,
                   pull, history>>

\* The call loads the product, and the receipt, before it writes anything.
Load(pc, call, r) ==
    /\ desk[pc] = NoCall
    /\ quantity[pc] # None
    /\ \/ /\ call = "sale"
          /\ \A other \in PCs : /\ receipts[other][r] = "NONE"
                                /\ desk[other].receipt # r
          /\ quantity[pc] >= 1
       \/ call = "cancellation" /\ receipts[pc][r] = "COMPLETED"
    /\ desk' = [desk EXCEPT ![pc] = [call |-> call, receipt |-> r, seen |-> quantity[pc]]]
    /\ UNCHANGED <<localVars, pushing, cloudVars, pull, history>>

\* change_stock writes what was read plus the change, in the transaction of the
\* document; both are enqueued in it, the movement first.
Book(pc) ==
    LET call   == desk[pc]
        sold   == call.call = "sale"
        change == IF sold THEN -1 ELSE 1
        moved  == [receipt |-> call.receipt, change |-> change, at |-> pc]
    IN  /\ call # NoCall
        /\ quantity' = [quantity EXCEPT ![pc] = call.seen + change]
        /\ receipts' = [receipts EXCEPT ![pc] = [@ EXCEPT ![call.receipt] =
                           IF sold THEN "COMPLETED" ELSE "CANCELLED"]]
        /\ movements' = [movements EXCEPT ![pc] = @ \cup {moved}]
        /\ outbox' = [outbox EXCEPT ![pc] =
                        @ \o <<Plain(moved, "CREATE"),
                               Plain(Sale(call.receipt), IF sold THEN "CREATE" ELSE "UPDATE")>>]
        /\ desk' = [desk EXCEPT ![pc] = NoCall]
        /\ disturbed' = IF call.seen = quantity[pc] THEN disturbed ELSE disturbed \cup {pc}
        /\ UNCHANGED <<device, base, since, edits, pushing, cloudVars, pull, gap>>

-------------------------------------------------------------------------------
\* Pushing

\* A save of the product older than the cloud's copy is a conflict; of anything
\* else that is there already, the log gets a row and the table none.
Accepted(row, first) ==
    \/ row.entity # Item
    \/ row.operation = "CREATE"
    \/ catalogue.quantity # None /\ ~ first /\ row.at >= catalogue.updated

\* The log with the rows of a request that are accepted, one after the other.
Logging(pc, sent, first) ==
    LET grown[i \in 0 .. Len(sent)] ==
            IF i = 0 THEN log
            ELSE IF Accepted(sent[i], first)
                 THEN Append(grown[i - 1], [entity |-> sent[i].entity, pc |-> pc,
                                            device |-> device[pc], committed |-> FALSE])
                 ELSE grown[i - 1]
    IN  grown

\* The request arrives: its rows are flushed, the log gets its timestamps, and
\* nobody else sees any of it yet.  first: the product itself is in the request.
OpenPush(pc) ==
    LET n     == IF Len(outbox[pc]) < BatchSize THEN Len(outbox[pc]) ELSE BatchSize
        sent  == SubSeq(outbox[pc], 1, n)
        first == catalogue.quantity = None /\ \E i \in 1 .. n : sent[i].operation = "CREATE"
                                                              /\ sent[i].entity = Item
    IN  /\ Registered(pc)
        /\ pushing[pc] = 0
        /\ n > 0
        /\ log' = Logging(pc, sent, first)[n]
        /\ Len(log') <= MaxLog
        /\ pushing' = [pushing EXCEPT ![pc] = n]
        /\ UNCHANGED <<localVars, desk, catalogue, ledger, pull, history>>

\* A cancellation is one for good, a sale that is there stays as it is.
SaleAfter(r, sent) ==
    LET rows(operation) == {i \in 1 .. Len(sent) : sent[i].entity = Sale(r)
                                                 /\ sent[i].operation = operation}
    IN  IF rows("UPDATE") # {} THEN "CANCELLED"
        ELSE IF ledger[r] = "NONE" /\ rows("CREATE") # {} THEN "COMPLETED"
        ELSE ledger[r]

\* The place of the transaction's first row in the log.
Stamp(pc) == Min({i \in 1 .. Len(log) : log[i].pc = pc /\ ~ log[i].committed} \cup {Len(log)})

\* The first row creates the product, the last save that is not older than the
\* cloud's copy is its quantity.
ItemAfter(sent, stamp) ==
    LET items == {i \in 1 .. Len(sent) : sent[i].entity = Item}
        item  == IF catalogue.quantity = None /\ items # {}
                 THEN [quantity |-> sent[Min(items)].quantity, updated |-> stamp]
                 ELSE catalogue
        saves == {i \in items : sent[i].operation = "UPDATE" /\ sent[i].at >= item.updated}
    IN  IF saves = {} THEN item ELSE [item EXCEPT !.quantity = sent[Max(saves)].quantity]

\* Commit.  The answer may be lost: then the rows are sent again.
CommitPush(pc) ==
    LET sent == SubSeq(outbox[pc], 1, pushing[pc])
    IN  /\ pushing[pc] > 0
        /\ log' = [i \in 1 .. Len(log) |->
                     IF log[i].pc = pc THEN [log[i] EXCEPT !.committed = TRUE] ELSE log[i]]
        /\ ledger' = [r \in Receipts |-> SaleAfter(r, sent)]
        /\ catalogue' = ItemAfter(sent, Stamp(pc))
        /\ outbox' \in {outbox, [outbox EXCEPT ![pc] = SubSeq(@, pushing[pc] + 1, Len(@))]}
        /\ pushing' = [pushing EXCEPT ![pc] = 0]
        /\ UNCHANGED <<device, quantity, base, receipts, movements, since, edits, desk, pull, history>>

-------------------------------------------------------------------------------
\* Pulling

Foreign(pc, i) == ~ (log[i].pc = pc /\ log[i].device = device[pc])

After(pc) == {i \in 1 .. Len(log) : i > since[pc] /\ Foreign(pc, i)}

\* Places of the log rows of the answer: the oldest.
Answered(pc) ==
    LET seen == {i \in After(pc) : log[i].committed}
    IN  {i \in seen : Cardinality({j \in seen : j < i}) < Limit}

\* The first row that names it stands for an entity, with its present state.
Payload(entity) ==
    [entity |-> entity,
     status |-> IF entity \in Sales THEN ledger[entity.receipt] ELSE "NONE",
     quantity |-> IF entity = Item THEN catalogue.quantity ELSE 0]

\* pull_mutations.  An answer without rows changes nothing; here it is as long as the
\* log, with no mutation where none is answered.
Ask(pc) ==
    LET places == Answered(pc)
        firsts == {i \in places : \A j \in places : log[j].entity = log[i].entity => i <= j}
    IN  /\ Registered(pc)
        /\ pull[pc].phase = "idle"
        /\ places # {}
        /\ pull' = [pull EXCEPT ![pc] =
                      [phase |-> "answered", clock |-> Len(log), seen |-> None,
                       rows |-> [i \in 1 .. Len(log) |->
                                   IF i \in firsts THEN Payload(log[i].entity) ELSE None],
                       short |-> After(pc) # places]]
        /\ UNCHANGED <<localVars, desk, pushing, cloudVars, history>>

\* apply_mutations loads the product for rows it has nothing to write for, or
\* for the first one it writes, before it writes.  Only a call of a screen can
\* come between, so that the load is a step of its own only then.
LoadForApply(pc) ==
    /\ pull[pc].phase = "answered"
    /\ desk[pc] # NoCall
    /\ pull' = [pull EXCEPT ![pc] = [@ EXCEPT !.phase = "loaded", !.seen = quantity[pc]]]
    /\ UNCHANGED <<localVars, desk, pushing, cloudVars, history>>

\* Fault: a movement that is there already is applied again.
Known_Never(pc, m) == FALSE

Known(pc, m) == m \in movements[pc]

\* Fault: a cancellation does not reach a sale that is there.
StatusAfter_Kept(status, sent) == IF status = "NONE" THEN sent ELSE status

\* Fault: whatever the cloud answered replaces the status.
StatusAfter_Sent(status, sent) == sent

StatusAfter(status, sent) == IF status = "NONE" \/ sent = "CANCELLED" THEN sent ELSE status

\* Fault: the quantity becomes negative.
NotBelowZero_Negative(q) == q

NotBelowZero(q) == IF q < 0 THEN 0 ELSE q

\* The PC's rows with one mutation applied: an append-only row that is there is
\* skipped, a sale that is there takes a cancellation, the product that is there
\* has the same version.  A row that refers to a missing product breaks NOT NULL.
Applied(pc, rows, mutation) ==
    LET e == mutation.entity
        r == e.receipt
        q == rows.quantity + e.change
    IN  IF e = Item
        THEN IF rows.quantity # None THEN rows
             ELSE [rows EXCEPT !.quantity = mutation.quantity, !.base = mutation.quantity,
                               !.wrote = TRUE]
        ELSE IF e \in Sales
        THEN [rows EXCEPT !.status = [rows.status EXCEPT ![r] =
                                         StatusAfter(rows.status[r], mutation.status)],
                          !.broken = rows.broken \/ (rows.status[r] = "NONE" /\ rows.quantity = None)]
        ELSE IF Known(pc, e) THEN rows
        ELSE IF rows.quantity = None THEN [rows EXCEPT !.broken = TRUE]
        ELSE [rows EXCEPT !.moved = @ \cup {e}, !.quantity = NotBelowZero(q),
                          !.wrote = TRUE, !.clipped = @ \/ q < 0]

\* The PC's rows as they were read, and after each mutation in turn.
Applying(pc) ==
    LET read == IF pull[pc].phase = "loaded" THEN pull[pc].seen ELSE quantity[pc]
        sent == pull[pc].rows
        rows[i \in 0 .. Len(sent)] ==
            IF i = 0
            THEN [quantity |-> read, base |-> base[pc], status |-> receipts[pc],
                  moved |-> movements[pc], broken |-> FALSE, clipped |-> FALSE, wrote |-> FALSE]
            ELSE IF sent[i] = None THEN rows[i - 1]
            ELSE Applied(pc, rows[i - 1], sent[i])
    IN  rows

Result(pc) == Applying(pc)[Len(pull[pc].rows)]

\* All mutations and the cursor, in one transaction.  The product is written only
\* if it is new here or has a movement to apply.
Apply(pc) ==
    LET result == Result(pc)
        stale  == pull[pc].phase = "loaded" /\ pull[pc].seen # quantity[pc]
    IN  /\ pull[pc].phase # "idle"
        /\ ~ result.broken
        /\ quantity' = [quantity EXCEPT ![pc] = IF result.wrote THEN result.quantity ELSE @]
        /\ base' = [base EXCEPT ![pc] = result.base]
        /\ receipts' = [receipts EXCEPT ![pc] = result.status]
        /\ movements' = [movements EXCEPT ![pc] = result.moved]
        /\ since' = [since EXCEPT ![pc] = pull[pc].clock]
        /\ pull' = [pull EXCEPT ![pc] = NoPull]
        /\ gap' = IF pull[pc].short THEN gap \cup {pc} ELSE gap
        /\ disturbed' = IF result.clipped \/ (stale /\ result.wrote)
                        THEN disturbed \cup {pc} ELSE disturbed
        /\ UNCHANGED <<device, outbox, edits, desk, pushing, cloudVars>>

\* Fault: the cursor is committed although the rows are not.
CursorAfterFailure_Moved(pc) == pull[pc].clock

CursorAfterFailure(pc) == since[pc]

\* The answer is lost, the database is locked or a row refers to nothing there:
\* nothing is applied, the next pull asks again.
Fail(pc) ==
    /\ pull[pc].phase # "idle"
    /\ since' = [since EXCEPT ![pc] = CursorAfterFailure(pc)]
    /\ pull' = [pull EXCEPT ![pc] = NoPull]
    /\ UNCHANGED <<device, quantity, base, receipts, movements, outbox, edits, desk, pushing,
                   cloudVars, history>>

\* The application is killed: the call of its screen is gone.
Kill(pc) ==
    /\ desk[pc] # NoCall
    /\ desk' = [desk EXCEPT ![pc] = NoCall]
    /\ UNCHANGED <<localVars, pushing, cloudVars, pull, history>>

-------------------------------------------------------------------------------

Screens(pc) ==
    \/ Register(pc)
    \/ CreateProduct(pc) \/ EditProduct(pc)
    \/ \E r \in Receipts : Load(pc, "sale", r) \/ Load(pc, "cancellation", r)
    \/ Book(pc)
    \/ Kill(pc)

Worker(pc) ==
    \/ OpenPush(pc) \/ CommitPush(pc)
    \/ Ask(pc) \/ LoadForApply(pc) \/ Apply(pc) \/ Fail(pc)

Next == \E pc \in PCs : Screens(pc) \/ Worker(pc)

Spec == Init /\ [][Next]_vars

===============================================================================
