------------------------------ MODULE ShellProofs ------------------------------
(***************************************************************************)
(* Proofs about the copies of the application and the accounts, for any    *)
(* finite number of copies, any accounts, printers and bounds.             *)
(***************************************************************************)
EXTENDS ShellProperties, FiniteSetTheorems, TLAPS

\* Whoever is in a list of the users page has an account: no row of users goes.
PagesKnow == \A c \in Copies, u \in Accounts : page[c][u] # None => users[u] # None

\* The bounds and None are what the assumption says.
LEMMA ShellBounds ==
    /\ MaxRows \in Nat /\ MaxLoops \in Nat
    /\ EnvPrinter \in Printers \cup {None}
    /\ None \notin Accounts /\ None \notin Account /\ Admin \in Accounts
    /\ Cashiers \subseteq Accounts /\ Seeded \subseteq Cashiers /\ Admin \notin Cashiers
    /\ New \in Account /\ New # None /\ New.active = TRUE /\ New.resets = 0
<1>1. New \in Account /\ New.active = TRUE /\ New.resets = 0
  BY DEF New, Account
<1>2. None \notin Accounts /\ None \notin Account
  BY ShellAssumption
<1>3. /\ MaxRows \in Nat /\ MaxLoops \in Nat
      /\ EnvPrinter \in Printers \cup {None}
      /\ Admin \in Accounts /\ Cashiers \subseteq Accounts
      /\ Seeded \subseteq Cashiers /\ Admin \notin Cashiers
  BY ShellAssumption DEF Accounts
<1> QED
  BY <1>1, <1>2, <1>3

\* A stop leaves threads of the copy, each with the number it has; those it knows
\* are told or gone.
LEMMA StoppedThreads ==
    ASSUME NEW c \in Copies, loops[c] \subseteq Loop, Numbered(c), NEW left \in Stopped(c)
    PROVE  /\ left \subseteq Loop
           /\ \A a, b \in left : a.id = b.id => a = b
           /\ \A l \in left : l.id = worker[c] => l.told
           /\ \A l \in left : ~ l.told => l \in loops[c]
<1> DEFINE mine == {l \in loops[c] : l.id = worker[c]}
           rest == loops[c] \ mine
<1>1. CASE left = rest
  BY <1>1 DEF Numbered
<1>2. CASE \E l \in mine : l.busy /\ left = rest \cup {[l EXCEPT !.told = TRUE]}
  <2>1. PICK l \in mine : left = rest \cup {[l EXCEPT !.told = TRUE]}
    BY <1>2
  <2> DEFINE told == [l EXCEPT !.told = TRUE]
  <2>2. l \in Loop /\ l.id = worker[c]
    OBVIOUS
  <2>3. told \in Loop /\ told.id = worker[c] /\ told.told = TRUE
    BY <2>2 DEF Loop
  <2> HIDE DEF told
  <2>4. left = rest \cup {told}
    BY <2>1 DEF told
  <2>5. left \subseteq Loop
    BY <2>3, <2>4
  <2>6. \A a, b \in left : a.id = b.id => a = b
    BY <2>3, <2>4 DEF Numbered
  <2>7. \A k \in left : k.id = worker[c] => k.told
    BY <2>3, <2>4
  <2>8. \A k \in left : ~ k.told => k \in loops[c]
    BY <2>3, <2>4
  <2> QED BY <2>5, <2>6, <2>7, <2>8
<1> QED
  BY <1>1, <1>2 DEF Stopped

\* The number of a new thread is within bounds, and no other thread's.
LEMMA FreeNumber ==
    ASSUME NEW ls, Free(ls) # {}
    PROVE  FreeId(ls) \in 1 .. MaxLoops /\ \A l \in ls : l.id # FreeId(ls)
<1>1. FreeId(ls) \in Free(ls)
  BY DEF FreeId
<1> QED
  BY <1>1 DEF Free

\* What a login does to the threads: one that goes on is the one started.
LEMMA ShownThreads ==
    ASSUME TypeOK, NEW c \in Copies, NEW u \in Accounts, Show(c, u),
           \A l \in loops[c] : l.told
    PROVE  /\ worker' \in [Copies -> 1 .. MaxLoops \cup {None}]
           /\ loops'[c] \subseteq Loop
           /\ \A a, b \in loops'[c] : a.id = b.id => a = b
           /\ \A l \in loops'[c] : ~ l.told => l.id = worker'[c]
           /\ \A d \in Copies \ {c} : loops'[d] = loops[d] /\ worker'[d] = worker[d]
<1>1. PICK left \in Stopped(c) :
         \/ /\ Free(left) # {}
            /\ worker' = [worker EXCEPT ![c] = FreeId(left)]
            /\ loops' = [loops EXCEPT ![c] =
                            left \cup {[id |-> FreeId(left), told |-> FALSE, busy |-> FALSE]}]
         \/ /\ worker' = [worker EXCEPT ![c] = None]
            /\ loops' = [loops EXCEPT ![c] = left]
  BY DEF Show
<1>2. /\ left \subseteq Loop
      /\ \A a, b \in left : a.id = b.id => a = b
      /\ \A l \in left : l.told
  <2>1. loops[c] \subseteq Loop /\ Numbered(c)
    BY DEF TypeOK, Numbered
  <2>2. /\ left \subseteq Loop /\ \A a, b \in left : a.id = b.id => a = b
        /\ \A l \in left : ~ l.told => l \in loops[c]
    BY <2>1, StoppedThreads
  <2>3. \A l \in left : l.told \in BOOLEAN
    BY <2>2 DEF Loop
  <2> QED BY <2>2, <2>3
<1>3. worker \in [Copies -> 1 .. MaxLoops \cup {None}] /\ DOMAIN loops = Copies
  BY DEF TypeOK
<1>4. CASE /\ worker' = [worker EXCEPT ![c] = None]
           /\ loops' = [loops EXCEPT ![c] = left]
  <2>1. worker' \in [Copies -> 1 .. MaxLoops \cup {None}] /\ loops'[c] = left
    BY <1>3, <1>4
  <2> QED BY <1>2, <1>3, <1>4, <2>1
<1>5. CASE /\ Free(left) # {}
           /\ worker' = [worker EXCEPT ![c] = FreeId(left)]
           /\ loops' = [loops EXCEPT ![c] =
                           left \cup {[id |-> FreeId(left), told |-> FALSE, busy |-> FALSE]}]
  <2> DEFINE id == FreeId(left)
             started == [id |-> id, told |-> FALSE, busy |-> FALSE]
  <2>1. id \in 1 .. MaxLoops /\ \A l \in left : l.id # id
    BY <1>5, FreeNumber
  <2>2. worker' = [worker EXCEPT ![c] = id] /\ loops' = [loops EXCEPT ![c] = left \cup {started}]
    BY <1>5
  <2> HIDE DEF id
  <2>3. started \in Loop /\ started.id = id /\ started.told = FALSE
    BY <2>1 DEF Loop
  <2> HIDE DEF started
  <2>4. loops'[c] = left \cup {started} /\ worker'[c] = id
    BY <1>3, <2>2
  <2>5. worker' \in [Copies -> 1 .. MaxLoops \cup {None}]
    BY <1>3, <2>1, <2>2
  <2>6. \A a, b \in loops'[c] : a.id = b.id => a = b
    BY <1>2, <2>1, <2>3, <2>4
  <2>7. \A l \in loops'[c] : ~ l.told => l.id = worker'[c]
    BY <1>2, <2>3, <2>4
  <2>8. \A d \in Copies \ {c} : loops'[d] = loops[d] /\ worker'[d] = worker[d]
    BY <1>3, <2>2
  <2> QED BY <1>2, <2>3, <2>4, <2>5, <2>6, <2>7, <2>8
<1> QED
  BY <1>1, <1>4, <1>5

-------------------------------------------------------------------------------

\* The invariant the type of the tables needs, and the one of the threads.
IInv == TypeOK /\ PagesKnow /\ OneLoopGoesOn

\* The facts of TypeOK and PagesKnow, each of its own.
LEMMA TypeFacts ==
    ASSUME TypeOK
    PROVE  /\ users \in [Accounts -> Account \cup {None}]
           /\ trail \in [Accounts -> Seq(Row)]
           /\ window \in [Copies -> {"off", "login", "open", "hidden"}]
           /\ page \in [Copies -> [Accounts -> Account \cup {None}]]
           /\ worker \in [Copies -> 1 .. MaxLoops \cup {None}]
           /\ loops \in [Copies -> SUBSET Loop]
           /\ who \in [Copies -> Accounts \cup {None}]
           /\ \A c \in Copies : Staffed(c) /\ Numbered(c)
  BY DEF TypeOK

\* Windows stay staffed while nobody comes or goes: no account goes.
LEMMA StaysStaffed ==
    ASSUME TypeOK, UNCHANGED <<window, who>>,
           \A u \in Accounts : users[u] # None => users'[u] # None
    PROVE  \A c \in Copies : Staffed(c)'
  BY TypeFacts DEF Staffed

\* Threads that stay as they are stay apart.
LEMMA StaysNumbered ==
    ASSUME TypeOK, UNCHANGED loops PROVE \A c \in Copies : Numbered(c)'
  BY TypeFacts DEF Numbered

\* A row is added to the trail of one account.
LEMMA RecordedType ==
    ASSUME NEW u \in Accounts, NEW row \in Row, trail \in [Accounts -> Seq(Row)]
    PROVE  Recorded(u, row) \in [Accounts -> Seq(Row)]
<1>1. Append(trail[u], row) \in Seq(Row)
  OBVIOUS
<1> QED
  BY <1>1 DEF Recorded

\* What is done on the users page keeps the types, and the lists true.
LEMMA DoneType ==
    ASSUME TypeOK, PagesKnow, NEW c \in Copies, NEW u \in Accounts,
           NEW account \in Account, NEW row \in Row, Done(c, account, u, row)
    PROVE  TypeOK' /\ PagesKnow'
<1>1. /\ users' = [users EXCEPT ![u] = account] /\ trail' = Recorded(u, row)
      /\ page' = [page EXCEPT ![c] = users']
      /\ UNCHANGED <<window, who, worker, loops, registered, saved, printer>>
  BY DEF Done, threads, settings
<1>2. trail' \in [Accounts -> Seq(Row)]
  BY <1>1, TypeFacts, RecordedType
<1>3. users' \in [Accounts -> Account \cup {None}] /\ \A v \in Accounts : users[v] # None => users'[v] # None
  BY <1>1, TypeFacts, ShellBounds
<1>4. page' \in [Copies -> [Accounts -> Account \cup {None}]]
  BY <1>1, <1>3, TypeFacts
<1>5. PagesKnow'
  BY <1>1, <1>3, TypeFacts DEF PagesKnow
<1>6. \A d \in Copies : Staffed(d)' /\ Numbered(d)'
  BY <1>1, <1>3, StaysStaffed, StaysNumbered
<1> QED
  BY <1>1, <1>2, <1>3, <1>4, <1>5, <1>6 DEF TypeOK

\* A loop that works or rests is the same loop.
LEMMA BusyLoop ==
    ASSUME NEW l \in Loop
    PROVE  \A b \in BOOLEAN : LET k == [l EXCEPT !.busy = b]
                               IN  k \in Loop /\ k.id = l.id /\ k.told = l.told
  BY DEF Loop

\* Types, and one thread that goes on, hold as an inductive invariant.
LEMMA Inductive ==
    ASSUME IInv, NEW c \in Copies,
           \/ Start(c) \/ LogOut(c) \/ Close(c) \/ End(c)
           \/ Work(c) \/ Rest(c)
           \/ \E u \in Accounts, right \in BOOLEAN : LogIn(c, u, right)
           \/ Search(c)
           \/ \E u \in Cashiers :
                CreateUser(c, u) \/ UpdateUser(c, u) \/ ResetPassword(c, u) \/ Toggle(c, u)
           \/ Register(c)
           \/ \E name \in Printers \cup {None} : SavePrinter(c, name)
    PROVE  IInv'
<1> USE DEF IInv
<1>1. /\ \A d \in Copies : \A l \in loops[d] : l \in Loop
      /\ \A d \in Copies : \A l \in loops[d] : ~ l.told => l.id = worker[d]
      /\ \A d \in Copies : window[d] \in {"off", "login"} => \A l \in loops[d] : l.told
      /\ \A d \in Copies : loops[d] \subseteq Loop /\ Numbered(d)
  <2>1. \A d \in Copies : loops[d] \subseteq Loop /\ Numbered(d)
    BY TypeFacts
  <2>2. \A d \in Copies : \A l \in loops[d] : ~ l.told => l.id = worker[d]
    BY DEF OneLoopGoesOn
  <2>3. \A d \in Copies : window[d] \in {"off", "login"} => \A l \in loops[d] : l.told
    BY DEF OneLoopGoesOn
  <2> QED BY <2>1, <2>2, <2>3
<1>2. ASSUME UNCHANGED <<worker, loops>>,
             \A d \in Copies : window'[d] \in {"off", "login"} => window[d] \in {"off", "login"}
      PROVE  OneLoopGoesOn'
  BY <1>2 DEF OneLoopGoesOn
<1>3. ASSUME \A d \in Copies : \A l \in loops'[d] : ~ l.told => l.id = worker'[d],
             \A d \in Copies : window'[d] \in {"off", "login"} => \A l \in loops'[d] : l.told
      PROVE  OneLoopGoesOn'
  BY <1>3 DEF OneLoopGoesOn
<1>4. CASE Start(c)
  <2>1. /\ users' \in [Accounts -> Account \cup {None}]
        /\ \A u \in Accounts : users[u] # None => users'[u] # None
    BY <1>4, TypeFacts, ShellBounds DEF Start
  <2>2. \A d \in Copies : Staffed(d)' /\ Numbered(d)'
    <3>1. who' = who /\ loops' = loops /\ window' = [window EXCEPT ![c] = "login"] /\ window[c] = "off"
      BY <1>4 DEF Start, threads
    <3>2. \A d \in Copies : Staffed(d)'
      BY <2>1, <3>1, TypeFacts DEF Staffed
    <3> QED BY <3>1, <3>2, StaysNumbered
  <2>3. TypeOK'
    BY <1>4, <2>1, <2>2 DEF Start, TypeOK, threads, settings
  <2>4. PagesKnow'
    BY <1>4, <2>1 DEF Start, PagesKnow
  <2> QED BY <1>2, <1>4, <2>3, <2>4, TypeFacts DEF Start, threads
<1>5. CASE Close(c)
  <2>1. /\ window[c] = "open" /\ window' = [window EXCEPT ![c] = "hidden"]
        /\ UNCHANGED <<users, who, loops>>
    BY <1>5 DEF Close, threads, tables
  <2>2. \A d \in Copies : Staffed(d)' /\ Numbered(d)'
    <3>1. \A d \in Copies : Staffed(d)'
      BY <2>1, TypeFacts DEF Staffed
    <3> QED BY <2>1, <3>1, StaysNumbered
  <2>3. TypeOK'
    BY <1>5, <2>2 DEF Close, TypeOK, threads, settings, tables
  <2>4. PagesKnow'
    BY <1>5 DEF Close, PagesKnow, tables
  <2> QED BY <1>2, <1>5, <2>3, <2>4, TypeFacts DEF Close, threads
<1>6. CASE End(c)
  <2>1. /\ window' = [window EXCEPT ![c] = "off"] /\ who' = [who EXCEPT ![c] = None]
        /\ worker' = [worker EXCEPT ![c] = None] /\ loops' = [loops EXCEPT ![c] = {}]
        /\ UNCHANGED <<users, trail, page, registered, saved, printer>>
    BY <1>6 DEF End, settings, tables
  <2>2. \A d \in Copies \ {c} : /\ window'[d] = window[d] /\ who'[d] = who[d]
                                /\ worker'[d] = worker[d] /\ loops'[d] = loops[d]
    BY <2>1, TypeFacts
  <2>3. window'[c] = "off" /\ who'[c] = None /\ loops'[c] = {}
    BY <2>1, TypeFacts
  <2>4. \A d \in Copies : Staffed(d)'
    BY <2>1, <2>2, <2>3, TypeFacts DEF Staffed
  <2>5. \A d \in Copies : Numbered(d)'
    BY <2>2, <2>3, TypeFacts DEF Numbered
  <2>6. TypeOK'
    BY <2>1, <2>4, <2>5 DEF TypeOK
  <2>7. PagesKnow'
    BY <2>1 DEF PagesKnow
  <2>8. OneLoopGoesOn'
    BY <1>1, <1>3, <2>2, <2>3
  <2> QED BY <2>6, <2>7, <2>8
<1>7. CASE Work(c)
  <2>1. PICK l \in loops[c] :
          /\ ~ l.busy /\ ~ l.told
          /\ loops' = [loops EXCEPT ![c] = (@ \ {l}) \cup {[l EXCEPT !.busy = TRUE]}]
          /\ UNCHANGED <<tables, window, who, page, worker, settings, printer>>
    BY <1>7 DEF Work
  <2> DEFINE busy == [l EXCEPT !.busy = TRUE]
  <2>2. busy \in Loop /\ busy.id = l.id /\ busy.told = l.told
    BY <1>1, BusyLoop
  <2> HIDE DEF busy
  <2>3. loops' = [loops EXCEPT ![c] = (loops[c] \ {l}) \cup {busy}]
    BY <2>1 DEF busy
  <2>4. /\ loops' \in [Copies -> SUBSET Loop]
        /\ loops'[c] = (loops[c] \ {l}) \cup {busy}
        /\ \A d \in Copies \ {c} : loops'[d] = loops[d]
    BY <2>2, <2>3, TypeFacts
  <2>5. \A d \in Copies : Staffed(d)' /\ Numbered(d)'
    <3>1. \A d \in Copies \ {c} : Numbered(d)'
      BY <1>1, <2>4 DEF Numbered
    <3>2. Numbered(c)'
      <4>1. \A a, b \in loops[c] : a.id = b.id => a = b
        BY <1>1 DEF Numbered
      <4>2. \A a \in loops'[c] : a = busy \/ (a \in loops[c] /\ a # l)
        BY <2>4
      <4> QED BY <2>2, <4>1, <4>2 DEF Numbered
    <3> QED BY <2>1, <3>1, <3>2, StaysStaffed DEF tables
  <2>6. TypeOK' /\ PagesKnow'
    <3>1. TypeOK'
      BY <2>1, <2>4, <2>5 DEF TypeOK, settings, tables
    <3> QED BY <2>1, <3>1 DEF PagesKnow, tables
  <2>7. OneLoopGoesOn'
    <3>1. \A a \in loops'[c] : a = busy \/ a \in loops[c]
      BY <2>4
    <3>2. \A a \in loops'[c] : ~ a.told => a.id = worker[c]
      BY <1>1, <2>2, <3>1
    <3>3. window[c] \in {"off", "login"} => \A a \in loops'[c] : a.told
      BY <1>1, <2>2, <3>1
    <3> QED BY <1>1, <1>3, <2>1, <2>4, <3>2, <3>3
  <2> QED BY <2>6, <2>7
<1>8. CASE Rest(c)
  <2>1. PICK l \in loops[c] :
          /\ l.busy
          /\ loops' = [loops EXCEPT ![c] = (@ \ {l}) \cup (IF l.told THEN {}
                                                         ELSE {[l EXCEPT !.busy = FALSE]})]
          /\ UNCHANGED <<tables, window, who, page, worker, settings, printer>>
    BY <1>8 DEF Rest
  <2> DEFINE idle == [l EXCEPT !.busy = FALSE]
             left == IF l.told THEN {} ELSE {idle}
  <2>2. idle \in Loop /\ idle.id = l.id /\ idle.told = l.told
    BY <1>1, BusyLoop
  <2>3. loops' = [loops EXCEPT ![c] = (loops[c] \ {l}) \cup left]
    BY <2>1
  <2> HIDE DEF idle
  <2>4. left \subseteq Loop /\ \A k \in left : k = idle
    BY <2>2
  <2> HIDE DEF left
  <2>5. /\ loops' \in [Copies -> SUBSET Loop]
        /\ loops'[c] = (loops[c] \ {l}) \cup left
        /\ \A d \in Copies \ {c} : loops'[d] = loops[d]
    BY <2>3, <2>4, TypeFacts
  <2>6. \A d \in Copies : Staffed(d)' /\ Numbered(d)'
    <3>1. \A d \in Copies \ {c} : Numbered(d)'
      BY <1>1, <2>5 DEF Numbered
    <3>2. Numbered(c)'
      <4>1. \A a, b \in loops[c] : a.id = b.id => a = b
        BY <1>1 DEF Numbered
      <4>2. \A a \in loops'[c] : a = idle \/ (a \in loops[c] /\ a # l)
        BY <2>4, <2>5
      <4> QED BY <2>2, <4>1, <4>2 DEF Numbered
    <3> QED BY <2>1, <3>1, <3>2, StaysStaffed DEF tables
  <2>7. TypeOK' /\ PagesKnow'
    <3>1. TypeOK'
      BY <2>1, <2>5, <2>6 DEF TypeOK, settings, tables
    <3> QED BY <2>1, <3>1 DEF PagesKnow, tables
  <2>8. OneLoopGoesOn'
    <3>1. \A a \in loops'[c] : a = idle \/ a \in loops[c]
      BY <2>4, <2>5
    <3>2. \A a \in loops'[c] : ~ a.told => a.id = worker[c]
      BY <1>1, <2>2, <3>1
    <3>3. window[c] \in {"off", "login"} => \A a \in loops'[c] : a.told
      BY <1>1, <2>2, <3>1
    <3> QED BY <1>1, <1>3, <2>1, <2>5, <3>2, <3>3
  <2> QED BY <2>7, <2>8
<1>9. CASE LogOut(c)
  <2>1. PICK left \in Stopped(c) : loops' = [loops EXCEPT ![c] = left]
    BY <1>9 DEF LogOut, OnLogout
  <2>2. /\ left \subseteq Loop
        /\ \A a, b \in left : a.id = b.id => a = b
        /\ \A l \in left : l.id = worker[c] => l.told
        /\ \A l \in left : ~ l.told => l \in loops[c]
    BY <1>1, StoppedThreads
  <2>3. \A l \in left : l.told
    BY <1>1, <2>2
  <2>4. loops' \in [Copies -> SUBSET Loop] /\ loops'[c] = left
        /\ \A d \in Copies \ {c} : loops'[d] = loops[d]
    BY <2>1, <2>2, TypeFacts
  <2>5. who[c] \in Accounts
    BY <1>9, TypeFacts DEF LogOut, Staffed
  <2>6. trail' \in [Accounts -> Seq(Row)]
    BY <1>9, <2>5, TypeFacts, RecordedType DEF LogOut, Row
  <2>7. \A d \in Copies : Staffed(d)' /\ Numbered(d)'
    <3>1. \A d \in Copies \ {c} : Numbered(d)'
      BY <1>1, <2>4 DEF Numbered
    <3>2. Numbered(c)'
      BY <2>2, <2>4 DEF Numbered
    <3>3. window' = [window EXCEPT ![c] = "login"] /\ who' = [who EXCEPT ![c] = None] /\ users' = users
      BY <1>9 DEF LogOut
    <3>4. \A d \in Copies : Staffed(d)'
      BY <3>3, TypeFacts DEF Staffed
    <3> QED BY <3>1, <3>2, <3>4
  <2>8. TypeOK' /\ PagesKnow'
    <3>1. TypeOK'
      BY <1>9, <2>4, <2>6, <2>7 DEF LogOut, TypeOK, settings
    <3> QED BY <1>9, <3>1 DEF LogOut, PagesKnow
  <2>9. OneLoopGoesOn'
    <3>1. \A d \in Copies \ {c} : worker'[d] = worker[d] /\ window'[d] = window[d]
      BY <1>9, TypeFacts DEF LogOut
    <3> QED BY <1>1, <1>3, <2>3, <2>4, <3>1
  <2> QED BY <2>8, <2>9
<1>10. ASSUME NEW u \in Accounts, NEW right \in BOOLEAN, LogIn(c, u, right)
       PROVE  IInv'
  <2>1. UNCHANGED <<users, settings>> /\ window[c] = "login"
    BY <1>10 DEF LogIn
  <2>2. CASE Admitted(u, right)
    <3>1. trail' = Recorded(u, "LOGIN_SUCCESS") /\ Show(c, u) /\ users[u] # None
      BY <1>10, <2>2 DEF LogIn, Admitted
    <3>2. trail' \in [Accounts -> Seq(Row)]
      BY <3>1, TypeFacts, RecordedType DEF Row
    <3>3. /\ worker' \in [Copies -> 1 .. MaxLoops \cup {None}]
          /\ loops'[c] \subseteq Loop
          /\ \A a, b \in loops'[c] : a.id = b.id => a = b
          /\ \A l \in loops'[c] : ~ l.told => l.id = worker'[c]
          /\ \A d \in Copies \ {c} : loops'[d] = loops[d] /\ worker'[d] = worker[d]
      BY <1>1, <2>1, <3>1, ShownThreads
    <3>4. /\ window' = [window EXCEPT ![c] = "open"] /\ who' = [who EXCEPT ![c] = u]
          /\ page' = [page EXCEPT ![c] = IF u = Admin THEN users ELSE @]
          /\ printer' = [printer EXCEPT ![c] = Resolved]
      BY <3>1 DEF Show
    <3>5. \E left : loops' = [loops EXCEPT ![c] = left]
      BY <3>1 DEF Show
    <3>6. loops' \in [Copies -> SUBSET Loop]
      BY <3>3, <3>5, TypeFacts
    <3>7. \A d \in Copies : Staffed(d)' /\ Numbered(d)'
      <4>1. \A d \in Copies \ {c} : Numbered(d)'
        BY <1>1, <3>3 DEF Numbered
      <4>2. Numbered(c)'
        BY <3>3 DEF Numbered
      <4>3. \A d \in Copies : Staffed(d)'
        BY <2>1, <3>1, <3>4, TypeFacts DEF Staffed
      <4> QED BY <4>1, <4>2, <4>3
    <3>8. printer' \in [Copies -> Printers \cup {None}]
      BY <3>4, ShellBounds DEF Resolved, TypeOK
    <3>9. page' \in [Copies -> [Accounts -> Account \cup {None}]] /\ PagesKnow'
      <4>1. users' = users
        BY <2>1
      <4>2. page' \in [Copies -> [Accounts -> Account \cup {None}]]
        BY <3>4, TypeFacts
      <4>3. \A d \in Copies : page'[d] = page[d] \/ page'[d] = users
        BY <3>4, TypeFacts
      <4> QED BY <4>1, <4>2, <4>3 DEF PagesKnow
    <3>10. TypeOK'
      BY <2>1, <3>1, <3>2, <3>3, <3>4, <3>6, <3>7, <3>8, <3>9 DEF TypeOK, settings
    <3>11. OneLoopGoesOn'
      <4>1. window'[c] = "open" /\ \A d \in Copies \ {c} : window'[d] = window[d]
        BY <3>4, TypeFacts
      <4> QED BY <1>1, <1>3, <3>3, <4>1
    <3> QED BY <3>9, <3>10, <3>11
  <2>3. CASE ~ Admitted(u, right)
    <3>1. trail' = Recorded(u, "LOGIN_FAILED") /\ UNCHANGED <<window, who, page, threads, printer>>
      BY <1>10, <2>3 DEF LogIn
    <3>2. trail' \in [Accounts -> Seq(Row)]
      BY <3>1, TypeFacts, RecordedType DEF Row
    <3>3. TypeOK' /\ PagesKnow'
      <4>1. \A d \in Copies : Staffed(d)' /\ Numbered(d)'
        BY <2>1, <3>1, StaysStaffed, StaysNumbered DEF threads
      <4>2. TypeOK'
        BY <2>1, <3>1, <3>2, <4>1 DEF TypeOK, threads, settings
      <4> QED BY <2>1, <3>1, <4>2 DEF PagesKnow
    <3> QED BY <1>2, <3>1, <3>3 DEF threads
  <2> QED BY <2>2, <2>3
<1>11. ASSUME UNCHANGED <<tables, window, who, threads, printer>>,
              \/ page' = page \/ page' = [page EXCEPT ![c] = users],
              registered' \in BOOLEAN, saved' \in Printers \cup {None}
       PROVE  IInv'
  <2>1. users' = users /\ \A d \in Copies : Staffed(d)' /\ Numbered(d)'
    BY <1>11, StaysStaffed, StaysNumbered DEF threads, tables
  <2>2. page' \in [Copies -> [Accounts -> Account \cup {None}]]
    BY <1>11, TypeFacts
  <2>3. \A d \in Copies : page'[d] = page[d] \/ page'[d] = users
    BY <1>11, TypeFacts
  <2>4. TypeOK'
    BY <1>11, <2>1, <2>2 DEF TypeOK, threads, tables
  <2>5. PagesKnow'
    BY <2>1, <2>3 DEF PagesKnow
  <2> QED BY <1>2, <1>11, <2>4, <2>5 DEF threads
<1>12. CASE Search(c)
  BY <1>11, <1>12 DEF Search, Nothing, TypeOK, settings
<1>13. CASE Register(c)
  BY <1>11, <1>13 DEF Register, TypeOK
<1>14. ASSUME NEW name \in Printers \cup {None}, SavePrinter(c, name) PROVE IInv'
  BY <1>11, <1>14 DEF SavePrinter, TypeOK
<1>15. ASSUME NEW account \in Account, NEW u \in Accounts, NEW row \in Row, Done(c, account, u, row)
       PROVE  IInv'
  <2>1. TypeOK' /\ PagesKnow'
    BY <1>15, DoneType
  <2> QED BY <1>2, <1>15, <2>1 DEF Done, threads
<1>16. ASSUME NEW u \in Cashiers, Target(c, u) PROVE u \in Accounts /\ users[u] \in Account
  BY <1>16, TypeFacts, ShellBounds DEF Target, PagesKnow
<1>17. ASSUME NEW u \in Cashiers, CreateUser(c, u) PROVE IInv'
  BY <1>15, <1>17, ShellBounds DEF CreateUser, Row
<1>18. ASSUME NEW u \in Cashiers, UpdateUser(c, u) PROVE IInv'
  BY <1>15, <1>16, <1>18 DEF UpdateUser, Row
<1>19. ASSUME NEW u \in Cashiers, ResetPassword(c, u) PROVE IInv'
  <2>1. [users[u] EXCEPT !.resets = @ + 1] \in Account
    BY <1>16, <1>19 DEF ResetPassword, Account
  <2> QED BY <1>15, <1>16, <1>19, <2>1 DEF ResetPassword, Row
<1>20. ASSUME NEW u \in Cashiers, Toggle(c, u) PROVE IInv'
  <2>1. Target(c, u) /\ page[c][u] \in Account
    BY <1>20, TypeFacts, ShellBounds DEF Toggle, Target
  <2> DEFINE active == ~ page[c][u].active
  <2>2. [users[u] EXCEPT !.active = active] \in Account
    BY <1>16, <2>1 DEF Account
  <2> HIDE DEF active
  <2>3. CASE Nothing(c)
    BY <1>11, <2>3 DEF Nothing, TypeOK, settings
  <2>4. ASSUME NEW row \in Row, Done(c, [users[u] EXCEPT !.active = active], u, row) PROVE IInv'
    BY <1>15, <1>16, <2>1, <2>2, <2>4
  <2> QED BY <1>20, <2>3, <2>4 DEF Toggle, Row, active
<1> QED
  BY <1>4, <1>5, <1>6, <1>7, <1>8, <1>9, <1>10, <1>12, <1>13, <1>14, <1>17, <1>18, <1>19, <1>20

\* The program starts in it.
LEMMA InitiallyTyped ==
    ASSUME Init PROVE IInv
<1>1. \A c \in Copies : Staffed(c) /\ Numbered(c)
  BY DEF Init, Staffed, Numbered
<1>2. TypeOK
  BY <1>1 DEF Init, TypeOK
<1>3. PagesKnow
  BY DEF Init, PagesKnow
<1>4. OneLoopGoesOn
  BY DEF Init, OneLoopGoesOn
<1> QED
  BY <1>2, <1>3, <1>4 DEF IInv

\* The invariant holds of the program.
THEOREM ShellInvariant == Spec => []IInv
<1>1. Init => IInv
  BY InitiallyTyped
<1>2. IInv /\ [Next]_vars => IInv'
  <2>1. IInv /\ UNCHANGED vars => IInv'
    <3> SUFFICES ASSUME IInv, UNCHANGED vars PROVE IInv'
      OBVIOUS
    <3>1. /\ UNCHANGED <<users, trail, window, who, page, worker, loops>>
          /\ UNCHANGED <<registered, saved, printer>>
      BY DEF vars, tables, threads, settings
    <3>2. \A c \in Copies : Staffed(c)' /\ Numbered(c)'
      BY <3>1, StaysStaffed, StaysNumbered DEF IInv
    <3>3. TypeOK'
      BY <3>1, <3>2 DEF IInv, TypeOK
    <3>4. PagesKnow' /\ OneLoopGoesOn'
      BY <3>1 DEF IInv, PagesKnow, OneLoopGoesOn
    <3> QED BY <3>3, <3>4 DEF IInv
  <2> QED BY <2>1, Inductive DEF Next
<1> QED
  BY <1>1, <1>2, PTL DEF Spec

-------------------------------------------------------------------------------

\* An account nobody has made has no rows but of logins that failed; seeded
\* accounts are there once a copy has been started.
NothingBefore ==
    \A u \in Accounts : users[u] = None => \A k \in DOMAIN trail[u] : trail[u][k] = "LOGIN_FAILED"

SeededFirst ==
    \A c \in Copies : window[c] # "off" => \A u \in Seeded \cup {Admin} : users[u] # None

Told(u) == ToldByRows(u) /\ ByTurns(u) /\ LoggedIn(u)

Turns3 == {"USER_CREATED", "USER_ACTIVATED", "USER_DEACTIVATED"}

\* One row more in the trail of an account, and none in that of another.
Adds(u, row) ==
    /\ \A v \in Accounts \ {u} : trail'[v] = trail[v]
    /\ DOMAIN trail'[u] = DOMAIN trail[u] \cup {Len(trail[u]) + 1}
    /\ trail'[u][Len(trail[u]) + 1] = row
    /\ Len(trail[u]) + 1 \in Nat
    /\ \A k \in DOMAIN trail[u] : /\ trail'[u][k] = trail[u][k]
                                  /\ k \in Nat /\ k < Len(trail[u]) + 1

\* Recorded does that.
LEMMA RowAdded ==
    ASSUME TypeOK, NEW u \in Accounts, NEW row \in Row, trail' = Recorded(u, row)
    PROVE  Adds(u, row)
<1>1. trail[u] \in Seq(Row) /\ trail'[u] = Append(trail[u], row)
  BY TypeFacts DEF Recorded
<1>2. \A v \in Accounts \ {u} : trail'[v] = trail[v]
  BY TypeFacts DEF Recorded
<1>3. /\ DOMAIN trail[u] = 1 .. Len(trail[u]) /\ DOMAIN trail'[u] = 1 .. Len(trail'[u])
      /\ Len(trail'[u]) = Len(trail[u]) + 1 /\ Len(trail[u]) \in Nat
  BY <1>1
<1>4. /\ trail'[u][Len(trail[u]) + 1] = row
      /\ \A k \in 1 .. Len(trail[u]) : trail'[u][k] = trail[u][k]
  BY <1>1
<1>5. DOMAIN trail'[u] = DOMAIN trail[u] \cup {Len(trail[u]) + 1}
  BY <1>3
<1> QED
  BY <1>2, <1>3, <1>4, <1>5 DEF Adds

\* The rows of an account are finite in number.
LEMMA RowsAreFinite ==
    ASSUME TypeOK, NEW u \in Accounts, NEW r
    PROVE  IsFiniteSet(RowsOf(u, r)) /\ Count(u, r) \in Nat
<1>1. trail[u] \in Seq(Row)
  BY TypeFacts
<1>2. DOMAIN trail[u] = 1 .. Len(trail[u]) /\ Len(trail[u]) \in Nat
  BY <1>1
<1>3. IsFiniteSet(DOMAIN trail[u])
  BY <1>2, FS_Interval
<1>4. RowsOf(u, r) \subseteq DOMAIN trail[u]
  BY DEF RowsOf
<1>5. IsFiniteSet(RowsOf(u, r))
  BY <1>3, <1>4, FS_Subset
<1> QED
  BY <1>5, FS_CardinalityType DEF Count

\* The row that is added counts for what it says.
LEMMA RowsCounted ==
    ASSUME TypeOK, NEW u \in Accounts, NEW row \in Row, Adds(u, row), NEW r
    PROVE  /\ RowsOf(u, r)' = RowsOf(u, r) \cup (IF r = row THEN {Len(trail[u]) + 1} ELSE {})
           /\ Count(u, r)' = Count(u, r) + (IF r = row THEN 1 ELSE 0)
<1> DEFINE n == Len(trail[u]) + 1
<1>1. RowsOf(u, r)' = RowsOf(u, r) \cup (IF r = row THEN {n} ELSE {})
  BY DEF Adds, RowsOf
<1>2. n \notin RowsOf(u, r)
  BY DEF Adds, RowsOf
<1>3. Count(u, r) \in Nat /\ IsFiniteSet(RowsOf(u, r))
  BY RowsAreFinite
<1>4. CASE r = row
  <2>1. RowsOf(u, r)' = RowsOf(u, r) \cup {n}
    BY <1>1, <1>4
  <2> HIDE DEF n
  <2>2. Cardinality(RowsOf(u, r)') = Cardinality(RowsOf(u, r)) + 1
    BY <1>2, <1>3, <2>1, FS_AddElement
  <2>3. Count(u, r)' = Cardinality(RowsOf(u, r)')
    BY DEF Count
  <2>4. Count(u, r)' = Count(u, r) + 1
    BY <2>2, <2>3 DEF Count
  <2> QED BY <1>1, <1>4, <2>4 DEF n
<1>5. CASE r # row
  <2>1. RowsOf(u, r)' = RowsOf(u, r)
    BY <1>1, <1>5
  <2>2. Count(u, r)' = Count(u, r) + 0
    BY <1>3, <2>1 DEF Count
  <2> QED BY <1>1, <1>5, <2>2
<1> QED
  BY <1>4, <1>5

\* What is read off a trail stays while nothing is added to it.
SameRows(u) ==
    /\ \A r \in Row : RowsOf(u, r)' = RowsOf(u, r) /\ Count(u, r)' = Count(u, r)
    /\ Turnings(u)' = Turnings(u)
    /\ Latest(Turnings(u))' = Latest(Turnings(u))
    /\ ByTurns(u) => ByTurns(u)'

\* An action that adds nothing to the trail of an account changes none of its counts.
LEMMA RowsStay ==
    ASSUME NEW u \in Accounts, trail'[u] = trail[u]
    PROVE  SameRows(u)
<1>1. \A r : RowsOf(u, r)' = RowsOf(u, r) /\ Count(u, r)' = Count(u, r)
  BY DEF RowsOf, Count
<1>2. Turnings(u)' = Turnings(u)
  BY <1>1 DEF Turnings
<1>3. Latest(Turnings(u))' = Latest(Turnings(u)')
  BY DEF Latest
<1>4. ByTurns(u) => ByTurns(u)'
  BY <1>2 DEF ByTurns, Latest
<1> QED
  BY <1>1, <1>2, <1>3, <1>4 DEF SameRows

\* A row that turns nothing leaves the turns as they were.
Unturned(u) ==
    /\ Turnings(u)' = Turnings(u)
    /\ Latest(Turnings(u))' = Latest(Turnings(u))
    /\ ByTurns(u) => ByTurns(u)'

\* A row that neither gives nor takes leave to log in is counted, and turns nothing.
LEMMA RowsUnturned ==
    ASSUME TypeOK, NEW u \in Accounts, NEW row \in Row \ Turns3, Adds(u, row)
    PROVE  Unturned(u)
<1>1. ASSUME NEW r \in Turns3 PROVE RowsOf(u, r)' = RowsOf(u, r)
  <2>1. row \in Row /\ r # row
    BY <1>1
  <2>2. RowsOf(u, r)' = RowsOf(u, r) \cup (IF r = row THEN {Len(trail[u]) + 1} ELSE {})
    BY <2>1, RowsCounted
  <2> QED BY <2>1, <2>2
<1>2. Turnings(u)' = Turnings(u)
  BY <1>1 DEF Turnings, Turns3
<1>3. Latest(Turnings(u))' = Latest(Turnings(u)')
  BY DEF Latest
<1>4. \A k \in Turnings(u) : trail'[u][k] = trail[u][k]
  BY DEF Turnings, RowsOf, Adds
<1>5. ByTurns(u) => ByTurns(u)'
  BY <1>2, <1>4 DEF ByTurns, Latest
<1> QED
  BY <1>2, <1>3, <1>5 DEF Unturned

\* A row that turns it is the last to do so from then on.
Turned(u, row) ==
    /\ ByTurns(u)'
    /\ Latest(Turnings(u))' = {Len(trail[u]) + 1}

\* A row that does is the latest turning, and the account is told by its turns.
LEMMA RowsTurned ==
    ASSUME TypeOK, NEW u \in Accounts, NEW row \in Turns3, Adds(u, row), ByTurns(u),
           \A k \in Latest(Turnings(u)) : trail[u][k] # row /\ row # "USER_CREATED"
    PROVE  Turned(u, row)
<1> DEFINE n == Len(trail[u]) + 1
<1>1. row \in Row /\ n \in Nat
  BY DEF Turns3, Row, Adds
<1>2. \A r \in Turns3 : RowsOf(u, r)' = RowsOf(u, r) \cup (IF r = row THEN {n} ELSE {})
  BY <1>1, RowsCounted
<1>3. Turnings(u)' = Turnings(u) \cup {n}
  BY <1>2 DEF Turnings, Turns3
<1>4. /\ \A k \in Turnings(u) : k \in Nat /\ k < n /\ trail'[u][k] = trail[u][k]
      /\ trail'[u][n] = row
  BY DEF Turnings, RowsOf, Adds
<1> HIDE DEF n
<1>5. Latest(Turnings(u))' = {n}
  <2>1. Latest(Turnings(u))' = Latest(Turnings(u) \cup {n})
    BY <1>3 DEF Latest
  <2>2. \A k \in Turnings(u) : k <= n /\ ~ n <= k
    BY <1>1, <1>4
  <2>3. n <= n
    BY <1>1
  <2> QED BY <2>1, <2>2, <2>3 DEF Latest
<1>6. ASSUME NEW m \in Turnings(u)', NEW k \in Latest({k \in Turnings(u)' : k < m})
      PROVE  trail'[u][m] # trail'[u][k] /\ trail'[u][m] # "USER_CREATED"
  <2>1. CASE m = n
    <3>1. {j \in Turnings(u)' : j < m} = Turnings(u)
      BY <1>1, <1>3, <1>4, <2>1
    <3>2. k \in Latest(Turnings(u)) /\ k \in Turnings(u)
      BY <3>1 DEF Latest
    <3> QED BY <1>4, <2>1, <3>2
  <2>2. CASE m \in Turnings(u)
    <3>1. {j \in Turnings(u)' : j < m} = {j \in Turnings(u) : j < m}
      BY <1>1, <1>3, <1>4, <2>2
    <3>2. k \in Latest({j \in Turnings(u) : j < m}) /\ k \in Turnings(u)
      BY <3>1 DEF Latest
    <3> QED BY <1>4, <2>2, <3>2 DEF ByTurns
  <2> QED BY <1>3, <2>1, <2>2
<1>7. ByTurns(u)'
  BY <1>6 DEF ByTurns, Latest
<1> QED
  BY <1>5, <1>7 DEF Turned, n

-------------------------------------------------------------------------------

\* What the trail of one account must not lose, and what it rests on.
AInv == IInv /\ NothingBefore /\ SeededFirst /\ AuditTellsAccounts

AFacts(u) ==
    /\ \A r \in Row : Count(u, r) \in Nat
    /\ Cardinality({c \in Copies : who[c] = u}) \in Nat
    /\ IsFiniteSet({c \in Copies : who[c] = u})
    /\ users[u] = None => /\ Turnings(u) = {} /\ Count(u, "PASSWORD_RESET") = 0
                          /\ Count(u, "USER_CREATED") = 0

\* The counts of an account are numbers, and nothing is counted before it is made.
LEMMA AuditFacts ==
    ASSUME TypeOK, NothingBefore, NEW u \in Accounts
    PROVE  AFacts(u)
<1>1. \A r \in Row : Count(u, r) \in Nat
  BY RowsAreFinite
<1>2. {c \in Copies : who[c] = u} \subseteq Copies /\ IsFiniteSet(Copies)
  BY ShellAssumption
<1>3. IsFiniteSet({c \in Copies : who[c] = u})
  BY <1>2, FS_Subset
<1>4. Cardinality({c \in Copies : who[c] = u}) \in Nat
  BY <1>3, FS_CardinalityType
<1>5. ASSUME users[u] = None, NEW r, r # "LOGIN_FAILED" PROVE RowsOf(u, r) = {} /\ Count(u, r) = 0
  <2>1. RowsOf(u, r) = {}
    BY <1>5 DEF NothingBefore, RowsOf
  <2> QED BY <2>1, FS_EmptySet DEF Count
<1>6. users[u] = None => Turnings(u) = {}
  BY <1>5 DEF Turnings
<1> QED
  BY <1>1, <1>3, <1>4, <1>5, <1>6 DEF AFacts

\* An account and its trail that stay as they are stay in agreement, whoever else
\* logs in and whoever is gone.
LEMMA ToldStays ==
    ASSUME TypeOK, NothingBefore, NEW u \in Accounts, Told(u),
           trail'[u] = trail[u], users'[u] = users[u],
           {c \in Copies : who'[c] = u} \subseteq {c \in Copies : who[c] = u}
    PROVE  Told(u)'
<1>1. SameRows(u)
  BY RowsStay
<1>2. /\ Count(u, "USER_CREATED")' = Count(u, "USER_CREATED")
      /\ Count(u, "PASSWORD_RESET")' = Count(u, "PASSWORD_RESET")
      /\ Count(u, "LOGIN_SUCCESS")' = Count(u, "LOGIN_SUCCESS")
      /\ Count(u, "LOGOUT")' = Count(u, "LOGOUT")
      /\ RowsOf(u, "USER_DEACTIVATED")' = RowsOf(u, "USER_DEACTIVATED")
      /\ Latest(Turnings(u))' = Latest(Turnings(u))
      /\ ByTurns(u)'
  BY <1>1 DEF SameRows, Row, Told
<1>3. ToldByRows(u)'
  BY <1>2 DEF Told, ToldByRows
<1>4. LoggedIn(u)'
  <2> DEFINE before == {c \in Copies : who[c] = u}
             after  == {c \in Copies : who'[c] = u}
  <2>1. IsFiniteSet(before) /\ Cardinality(before) \in Nat
    BY AuditFacts DEF AFacts
  <2>2. after \in SUBSET before
    OBVIOUS
  <2>3. Count(u, "LOGIN_SUCCESS") >= Count(u, "LOGOUT") + Cardinality(before)
    BY DEF Told, LoggedIn
  <2>4. Count(u, "LOGIN_SUCCESS") \in Nat /\ Count(u, "LOGOUT") \in Nat
    BY AuditFacts DEF AFacts, Row
  <2>5. LoggedIn(u)' <=> Count(u, "LOGIN_SUCCESS")' >= Count(u, "LOGOUT")' + Cardinality(after)
    BY DEF LoggedIn
  <2> HIDE DEF before, after
  <2>6. Cardinality(after) \in Nat /\ Cardinality(after) <= Cardinality(before)
    BY <2>1, <2>2, FS_Subset, FS_CardinalityType
  <2> QED BY <1>2, <2>1, <2>3, <2>4, <2>5, <2>6
<1> QED
  BY <1>2, <1>3, <1>4 DEF Told

\* So do all, then.
LEMMA AllToldStay ==
    ASSUME AInv, UNCHANGED <<trail, users>>,
           \A c \in Copies : who'[c] = who[c] \/ who'[c] = None
    PROVE  NothingBefore' /\ AuditTellsAccounts'
<1>1. NothingBefore'
  BY DEF AInv, NothingBefore
<1>2. ASSUME NEW u \in Accounts PROVE Told(u)'
  <2>1. {c \in Copies : who'[c] = u} \subseteq {c \in Copies : who[c] = u}
    BY ShellBounds
  <2>2. TypeOK /\ NothingBefore /\ Told(u)
    BY DEF AInv, IInv, AuditTellsAccounts, Told
  <2> QED BY <2>1, <2>2, ToldStays
<1> QED
  BY <1>1, <1>2 DEF AuditTellsAccounts, Told

\* A row of one account disturbs no other.
LEMMA OthersStayTold ==
    ASSUME AInv, NEW u \in Accounts, NEW row, Adds(u, row),
           \A v \in Accounts \ {u} : users'[v] = users[v],
           \A c \in Copies : who'[c] \in {who[c], u, None},
           users'[u] = None => row = "LOGIN_FAILED" /\ users[u] = None,
           Told(u)'
    PROVE  NothingBefore' /\ AuditTellsAccounts'
<1>1. TypeOK /\ NothingBefore
  BY DEF AInv, IInv
<1>2. ASSUME NEW v \in Accounts \ {u} PROVE Told(v)'
  <2>1. {c \in Copies : who'[c] = v} \subseteq {c \in Copies : who[c] = v}
    BY ShellBounds
  <2>2. Told(v)
    BY DEF AInv, AuditTellsAccounts, Told
  <2>3. trail'[v] = trail[v]
    BY DEF Adds
  <2> QED BY <1>1, <2>1, <2>2, <2>3, ToldStays
<1>3. AuditTellsAccounts'
  BY <1>2 DEF AuditTellsAccounts, Told
<1>4. ASSUME NEW v \in Accounts, users'[v] = None PROVE \A k \in DOMAIN trail'[v] : trail'[v][k] = "LOGIN_FAILED"
  <2>1. CASE v = u
    BY <1>1, <1>4, <2>1 DEF Adds, NothingBefore
  <2>2. CASE v # u
    BY <1>1, <1>4, <2>2 DEF Adds, NothingBefore
  <2> QED BY <2>1, <2>2
<1> QED
  BY <1>3, <1>4 DEF NothingBefore

\* A row of a login leaves the account as its rows tell.
LEMMA LoginTold ==
    ASSUME AInv, NEW u \in Accounts,
           NEW row \in {"LOGIN_SUCCESS", "LOGIN_FAILED", "LOGOUT", "USER_UPDATED"},
           Adds(u, row), users'[u] = users[u]
    PROVE  ToldByRows(u)' /\ ByTurns(u)'
<1>1. row \in Row \ Turns3 /\ row \in Row /\ row # "PASSWORD_RESET" /\ row # "USER_CREATED"
      /\ row # "USER_DEACTIVATED"
  BY DEF Row, Turns3
<1>2. TypeOK /\ NothingBefore /\ ToldByRows(u) /\ ByTurns(u)
  BY DEF AInv, IInv, AuditTellsAccounts
<1>3. AFacts(u)
  BY <1>2, AuditFacts
<1>4. Unturned(u)
  BY <1>1, <1>2, RowsUnturned
<1>5. Count(u, "PASSWORD_RESET")' = Count(u, "PASSWORD_RESET") + 0
  BY <1>1, <1>2, RowsCounted
<1>6. Count(u, "USER_CREATED")' = Count(u, "USER_CREATED") + 0
  BY <1>1, <1>2, RowsCounted
<1>7. RowsOf(u, "USER_DEACTIVATED")' = RowsOf(u, "USER_DEACTIVATED")
  <2>1. RowsOf(u, "USER_DEACTIVATED")' = RowsOf(u, "USER_DEACTIVATED")
            \cup (IF "USER_DEACTIVATED" = row THEN {Len(trail[u]) + 1} ELSE {})
    BY <1>1, <1>2, RowsCounted
  <2> QED BY <1>1, <2>1
<1>8. /\ Count(u, "PASSWORD_RESET")' = Count(u, "PASSWORD_RESET")
      /\ Count(u, "USER_CREATED")' = Count(u, "USER_CREATED")
  BY <1>3, <1>5, <1>6 DEF AFacts, Row
<1>9. Latest(Turnings(u))' = Latest(Turnings(u)) /\ ByTurns(u)'
  BY <1>2, <1>4 DEF Unturned
<1> QED
  BY <1>2, <1>7, <1>8, <1>9 DEF ToldByRows

\* What counts the logins of an account goes up with one who comes, and down with
\* one who goes, as the rows do.
LEMMA LoginsCounted ==
    ASSUME AInv, NEW u \in Accounts, NEW row \in Row, Adds(u, row),
           NEW before, before = {c \in Copies : who[c] = u},
           NEW after, after = {c \in Copies : who'[c] = u}, NEW c \in Copies,
           \/ row = "LOGIN_SUCCESS" /\ after \subseteq before \cup {c}
           \/ row = "LOGOUT" /\ c \in before /\ after = before \ {c}
           \/ row \notin {"LOGIN_SUCCESS", "LOGOUT"} /\ after = before
    PROVE  LoggedIn(u)'
<1> DEFINE ins  == Count(u, "LOGIN_SUCCESS")
           outs == Count(u, "LOGOUT")
<1>1. TypeOK /\ NothingBefore /\ LoggedIn(u)
  BY DEF AInv, IInv, AuditTellsAccounts
<1>2. IsFiniteSet(before) /\ Cardinality(before) \in Nat /\ ins \in Nat /\ outs \in Nat
  BY <1>1, AuditFacts DEF AFacts, Row
<1>3. ins >= outs + Cardinality(before)
  BY <1>1 DEF LoggedIn
<1>4. ins' = ins + (IF "LOGIN_SUCCESS" = row THEN 1 ELSE 0)
  BY <1>1, RowsCounted
<1>5. outs' = outs + (IF "LOGOUT" = row THEN 1 ELSE 0)
  BY <1>1, RowsCounted
<1>6. LoggedIn(u)' <=> ins' >= outs' + Cardinality(after)
  BY DEF LoggedIn
<1>7. CASE row = "LOGIN_SUCCESS" /\ after \subseteq before \cup {c}
  <2>1. /\ IsFiniteSet(before \cup {c}) /\ Cardinality(before \cup {c}) \in Nat
        /\ Cardinality(before \cup {c}) <= Cardinality(before) + 1
    <3>1. /\ IsFiniteSet(before \cup {c})
          /\ \/ Cardinality(before \cup {c}) = Cardinality(before)
             \/ Cardinality(before \cup {c}) = Cardinality(before) + 1
      BY <1>2, FS_AddElement
    <3> QED BY <1>2, <3>1
  <2>2. Cardinality(after) \in Nat /\ Cardinality(after) <= Cardinality(before \cup {c})
    BY <1>7, <2>1, FS_Subset, FS_CardinalityType
  <2>3. ins' = ins + 1 /\ outs' = outs + 0
    BY <1>4, <1>5, <1>7
  <2> HIDE DEF ins, outs
  <2>4. Cardinality(after) <= Cardinality(before) + 1
    BY <1>2, <2>1, <2>2
  <2> QED BY <1>2, <1>3, <1>6, <2>2, <2>3, <2>4
<1>8. CASE row = "LOGOUT" /\ c \in before /\ after = before \ {c}
  <2>1. Cardinality(after) = Cardinality(before) - 1
    <3>1. IsFiniteSet(before) /\ c \in before
      BY <1>2, <1>8
    <3>2. Cardinality(before \ {c}) = Cardinality(before) - 1
      BY <3>1, FS_RemoveElement
    <3> QED BY <1>8, <3>2
  <2>2. ins' = ins + 0 /\ outs' = outs + 1
    BY <1>4, <1>5, <1>8
  <2> HIDE DEF ins, outs
  <2> QED BY <1>2, <1>3, <1>6, <2>1, <2>2
<1>9. CASE row \notin {"LOGIN_SUCCESS", "LOGOUT"} /\ after = before
  <2>1. ins' = ins + 0 /\ outs' = outs + 0
    BY <1>4, <1>5, <1>9
  <2>2. Cardinality(after) = Cardinality(before)
    BY <1>9
  <2> HIDE DEF ins, outs
  <2> QED BY <1>2, <1>3, <1>6, <2>1, <2>2
<1> QED
  BY <1>7, <1>8, <1>9

\* What is done to an account on the users page is told by its row.
LEMMA DoneTold ==
    ASSUME AInv, NEW c \in Copies, NEW u \in Accounts, NEW account \in Account,
           NEW row \in Row, Done(c, account, u, row),
           \/ /\ row = "USER_CREATED" /\ users[u] = None /\ account = New
              /\ u \notin Seeded \cup {Admin}
           \/ row = "USER_UPDATED" /\ users[u] # None /\ account = users[u]
           \/ /\ row = "PASSWORD_RESET" /\ users[u] # None
              /\ account = [users[u] EXCEPT !.resets = @ + 1]
           \/ /\ row = "USER_ACTIVATED" /\ users[u] # None /\ ~ users[u].active
              /\ account = [users[u] EXCEPT !.active = TRUE]
           \/ /\ row = "USER_DEACTIVATED" /\ users[u] # None /\ users[u].active
              /\ account = [users[u] EXCEPT !.active = FALSE]
    PROVE  ToldByRows(u)' /\ ByTurns(u)'
<1> DEFINE n == Len(trail[u]) + 1
<1>1. TypeOK /\ NothingBefore /\ ToldByRows(u) /\ ByTurns(u)
  BY DEF AInv, IInv, AuditTellsAccounts
<1>2. /\ trail' = Recorded(u, row) /\ users'[u] = account /\ account # None
      /\ users[u] # None => users[u] \in Account
  BY <1>1, TypeFacts, ShellBounds DEF Done
<1>3. Adds(u, row)
  BY <1>1, <1>2, RowAdded
<1>4. AFacts(u)
  BY <1>1, AuditFacts
<1>5. Count(u, "PASSWORD_RESET")' = Count(u, "PASSWORD_RESET") + (IF "PASSWORD_RESET" = row THEN 1 ELSE 0)
  BY <1>1, <1>3, RowsCounted
<1>6. Count(u, "USER_CREATED")' = Count(u, "USER_CREATED") + (IF "USER_CREATED" = row THEN 1 ELSE 0)
  BY <1>1, <1>3, RowsCounted
<1>7. RowsOf(u, "USER_DEACTIVATED")' = RowsOf(u, "USER_DEACTIVATED")
         \cup (IF "USER_DEACTIVATED" = row THEN {n} ELSE {})
  BY <1>1, <1>3, RowsCounted
<1>8. Count(u, "PASSWORD_RESET") \in Nat /\ Count(u, "USER_CREATED") \in Nat
  BY <1>4 DEF AFacts, Row
<1>9. CASE row = "USER_UPDATED" /\ users[u] # None /\ account = users[u]
  BY <1>2, <1>3, <1>9, LoginTold
<1>10. CASE /\ row = "PASSWORD_RESET" /\ users[u] # None
            /\ account = [users[u] EXCEPT !.resets = @ + 1]
  <2>1. row \in Row \ Turns3
    BY <1>10 DEF Row, Turns3
  <2>2. Unturned(u)
    BY <1>1, <1>3, <2>1, RowsUnturned
  <2>3. account.active = users[u].active /\ account.resets = users[u].resets + 1
    BY <1>2, <1>10 DEF Account
  <2>4. users[u].resets = Count(u, "PASSWORD_RESET")
    BY <1>1, <1>10 DEF ToldByRows
  <2>5. users'[u] # None /\ users'[u].resets = Count(u, "PASSWORD_RESET")'
    BY <1>2, <1>5, <1>10, <2>3, <2>4
  <2>6. Count(u, "USER_CREATED")' = Count(u, "USER_CREATED")
    BY <1>6, <1>8, <1>10
  <2>7. RowsOf(u, "USER_DEACTIVATED")' = RowsOf(u, "USER_DEACTIVATED")
    BY <1>7, <1>10
  <2>8. Latest(Turnings(u))' = Latest(Turnings(u)) /\ ByTurns(u)'
    BY <1>1, <2>2 DEF Unturned
  <2> QED BY <1>1, <1>2, <1>10, <2>3, <2>5, <2>6, <2>7, <2>8 DEF ToldByRows
<1>11. CASE row \in Turns3
  <2>1. \A k \in Latest(Turnings(u)) : trail[u][k] # row /\ row # "USER_CREATED"
    <3>1. CASE users[u] = None
      BY <1>4, <3>1 DEF AFacts, Latest
    <3>2. CASE row = "USER_DEACTIVATED" /\ users[u] # None /\ users[u].active
      <4>1. Latest(Turnings(u)) \cap RowsOf(u, "USER_DEACTIVATED") = {}
        BY <1>1, <3>2 DEF ToldByRows
      <4>2. \A k \in Latest(Turnings(u)) : k \in DOMAIN trail[u]
        BY DEF Latest, Turnings, RowsOf
      <4> QED BY <3>2, <4>1, <4>2 DEF RowsOf
    <3>3. CASE row = "USER_ACTIVATED" /\ users[u] # None /\ ~ users[u].active
      <4>1. PICK d \in Latest(Turnings(u)) : d \in RowsOf(u, "USER_DEACTIVATED")
        BY <1>1, <3>3 DEF ToldByRows
      <4>2. \A k \in Latest(Turnings(u)) : k \in Nat /\ k <= d /\ d <= k
        BY <1>3, <4>1 DEF Latest, Turnings, RowsOf, Adds
      <4>3. d \in Nat
        BY <4>1, <4>2
      <4>4. \A k \in Latest(Turnings(u)) : k = d
        BY <4>2, <4>3
      <4> QED BY <3>3, <4>1, <4>4 DEF RowsOf
    <3> QED BY <1>11, <3>1, <3>2, <3>3 DEF Turns3
  <2>2. Turned(u, row)
    BY <1>1, <1>3, <1>11, <2>1, RowsTurned
  <2>3. Latest(Turnings(u))' = {n} /\ ByTurns(u)'
    BY <2>2 DEF Turned
  <2>4. n \notin RowsOf(u, "USER_DEACTIVATED")
    BY <1>3 DEF RowsOf, Adds
  <2>5. (Latest(Turnings(u))' \cap RowsOf(u, "USER_DEACTIVATED")' # {}) <=> row = "USER_DEACTIVATED"
    BY <1>7, <2>3, <2>4
  <2>6. /\ account.active = (row # "USER_DEACTIVATED")
        /\ account.resets = Count(u, "PASSWORD_RESET")
    <3>1. CASE users[u] = None
      BY <1>4, <1>11, <3>1, ShellBounds DEF AFacts, Turns3
    <3>2. CASE users[u] # None
      <4>1. users[u].resets = Count(u, "PASSWORD_RESET")
        BY <1>1, <3>2 DEF ToldByRows
      <4> QED BY <1>2, <1>11, <3>2, <4>1 DEF Account, Turns3
    <3> QED BY <3>1, <3>2
  <2>7. Count(u, "PASSWORD_RESET")' = Count(u, "PASSWORD_RESET")
    BY <1>5, <1>8, <1>11 DEF Turns3
  <2>8. Count(u, "USER_CREATED")' = IF u \in Seeded \cup {Admin} THEN 0 ELSE 1
    <3>1. CASE users[u] = None
      <4>1. row = "USER_CREATED" /\ u \notin Seeded \cup {Admin} /\ Count(u, "USER_CREATED") = 0
        BY <1>4, <1>11, <3>1 DEF AFacts, Turns3
      <4> QED BY <1>6, <4>1
    <3>2. CASE users[u] # None
      <4>1. Count(u, "USER_CREATED") = IF u \in Seeded \cup {Admin} THEN 0 ELSE 1
        BY <1>1, <3>2 DEF ToldByRows
      <4>2. row # "USER_CREATED"
        BY <3>2
      <4>3. Count(u, "USER_CREATED")' = Count(u, "USER_CREATED")
        BY <1>6, <1>8, <4>2
      <4> QED BY <4>1, <4>3
    <3> QED BY <3>1, <3>2
  <2> HIDE DEF n
  <2> QED BY <1>2, <2>3, <2>5, <2>6, <2>7, <2>8 DEF ToldByRows
<1> QED
  BY <1>9, <1>10, <1>11 DEF Turns3

\* Every step keeps what the trail tells.
LEMMA AuditStep ==
    ASSUME AInv, IInv', NEW c \in Copies,
           \/ Start(c) \/ LogOut(c) \/ Close(c) \/ End(c)
           \/ Work(c) \/ Rest(c)
           \/ \E u \in Accounts, right \in BOOLEAN : LogIn(c, u, right)
           \/ Search(c)
           \/ \E u \in Cashiers :
                CreateUser(c, u) \/ UpdateUser(c, u) \/ ResetPassword(c, u) \/ Toggle(c, u)
           \/ Register(c)
           \/ \E name \in Printers \cup {None} : SavePrinter(c, name)
    PROVE  AInv'
<1>1. /\ TypeOK /\ PagesKnow /\ NothingBefore /\ SeededFirst /\ AuditTellsAccounts
      /\ \A u \in Accounts : Told(u)
  BY DEF AInv, IInv, AuditTellsAccounts, Told
<1>2. ASSUME \A u \in Accounts : users[u] # None => users'[u] # None,
             \A d \in Copies : window'[d] # "off" => window[d] # "off"
      PROVE  SeededFirst'
  BY <1>1, <1>2, ShellBounds DEF SeededFirst
<1>3. ASSUME UNCHANGED <<trail, users>>,
             \A d \in Copies : who'[d] = who[d] \/ who'[d] = None,
             \A d \in Copies : window'[d] # "off" => window[d] # "off"
      PROVE  AInv'
  BY <1>2, <1>3, AllToldStay DEF AInv
<1>4. CASE Start(c)
  <2>1. /\ users' = [u \in Accounts |-> IF users[u] = None /\ u \in Seeded \cup {Admin}
                                        THEN New ELSE users[u]]
        /\ trail' = trail /\ who' = who
    BY <1>4 DEF Start
  <2>2. \A u \in Accounts : users[u] # None => users'[u] # None
    BY <2>1
  <2>3. \A u \in Seeded \cup {Admin} : users'[u] # None
    BY <2>1, ShellBounds
  <2>4. SeededFirst' /\ NothingBefore'
    <3>1. SeededFirst'
      BY <2>3 DEF SeededFirst
    <3> QED BY <1>1, <2>1, <2>2, <3>1 DEF NothingBefore
  <2>5. ASSUME NEW u \in Accounts PROVE Told(u)'
    <3>1. CASE users'[u] = users[u]
      BY <1>1, <2>1, <3>1, ToldStays
    <3>2. CASE users[u] = None /\ u \in Seeded \cup {Admin} /\ users'[u] = New
      <4>1. AFacts(u) /\ SameRows(u)
        BY <1>1, <2>1, AuditFacts, RowsStay
      <4>2. /\ Count(u, "USER_CREATED")' = 0 /\ Count(u, "PASSWORD_RESET")' = 0
            /\ Count(u, "LOGIN_SUCCESS")' = Count(u, "LOGIN_SUCCESS")
            /\ Count(u, "LOGOUT")' = Count(u, "LOGOUT")
            /\ Latest(Turnings(u))' = {}
            /\ ByTurns(u)'
        <5>1. Latest(Turnings(u)) = {}
          BY <3>2, <4>1 DEF AFacts, Latest
        <5> QED BY <1>1, <3>2, <4>1, <5>1 DEF AFacts, SameRows, Row, Told
      <4>3. ToldByRows(u)'
        BY <3>2, <4>2, ShellBounds DEF ToldByRows
      <4>4. LoggedIn(u)'
        BY <1>1, <2>1, <4>2 DEF Told, LoggedIn
      <4> QED BY <4>2, <4>3, <4>4 DEF Told
    <3> QED BY <2>1, <3>1, <3>2
  <2> QED BY <2>4, <2>5 DEF AInv, AuditTellsAccounts, Told
<1>5. CASE Close(c) \/ Work(c) \/ Rest(c)
  <2>1. /\ UNCHANGED <<trail, users, who>>
        /\ window' = window \/ (window[c] = "open" /\ window' = [window EXCEPT ![c] = "hidden"])
    BY <1>5 DEF Close, Work, Rest, tables
  <2> QED BY <1>1, <1>3, <2>1, TypeFacts
<1>6. CASE End(c)
  <2>1. /\ UNCHANGED <<trail, users>> /\ who' = [who EXCEPT ![c] = None]
        /\ window' = [window EXCEPT ![c] = "off"]
    BY <1>6 DEF End, tables
  <2> QED BY <1>1, <1>3, <2>1, TypeFacts
<1>7. CASE Search(c) \/ Register(c) \/ \E name \in Printers \cup {None} : SavePrinter(c, name)
  <2>1. UNCHANGED <<trail, users, who, window>>
    BY <1>7 DEF Search, Nothing, Register, SavePrinter, tables
  <2> QED BY <1>3, <2>1
<1>8. CASE LogOut(c)
  <2>1. PICK u : u = who[c]
    OBVIOUS
  <2>2. /\ u \in Accounts /\ users[u] # None
        /\ trail' = Recorded(u, "LOGOUT") /\ users' = users
        /\ who' = [who EXCEPT ![c] = None] /\ window' = [window EXCEPT ![c] = "login"]
        /\ window[c] = "open"
    BY <1>1, <1>8, <2>1, TypeFacts DEF LogOut, Staffed
  <2>3. Adds(u, "LOGOUT")
    BY <1>1, <2>2, RowAdded DEF Row
  <2>4. ToldByRows(u)' /\ ByTurns(u)'
    BY <2>2, <2>3, LoginTold
  <2>5. who \in [Copies -> Accounts \cup {None}] /\ u # None
    BY <1>1, <2>2, TypeFacts, ShellBounds
  <2>6. LoggedIn(u)'
    <3>1. PICK before, after : before = {d \in Copies : who[d] = u} /\ after = {d \in Copies : who'[d] = u}
      OBVIOUS
    <3>2. c \in before /\ after = before \ {c}
      BY <2>1, <2>2, <2>5, <3>1
    <3> QED BY <2>2, <2>3, <3>1, <3>2, LoginsCounted DEF Row
  <2>7. \A d \in Copies : who'[d] \in {who[d], u, None}
    BY <2>2, <2>5
  <2>8. NothingBefore' /\ AuditTellsAccounts'
    BY <2>2, <2>3, <2>4, <2>6, <2>7, OthersStayTold DEF Told
  <2>9. SeededFirst'
    BY <1>1, <1>2, <2>2, TypeFacts
  <2> QED BY <2>8, <2>9 DEF AInv
<1>9. ASSUME NEW u \in Accounts, NEW right \in BOOLEAN, LogIn(c, u, right)
      PROVE  AInv'
  <2>1. users' = users /\ window[c] = "login"
    BY <1>9 DEF LogIn
  <2>2. who \in [Copies -> Accounts \cup {None}] /\ u # None
    BY <1>1, TypeFacts, ShellBounds
  <2>3. PICK before, after : before = {d \in Copies : who[d] = u} /\ after = {d \in Copies : who'[d] = u}
    OBVIOUS
  <2>4. CASE Admitted(u, right)
    <3>1. /\ trail' = Recorded(u, "LOGIN_SUCCESS") /\ users[u] # None
          /\ who' = [who EXCEPT ![c] = u] /\ window' = [window EXCEPT ![c] = "open"]
      BY <1>9, <2>4 DEF LogIn, Admitted, Show
    <3>2. Adds(u, "LOGIN_SUCCESS")
      BY <1>1, <3>1, RowAdded DEF Row
    <3>3. ToldByRows(u)' /\ ByTurns(u)'
      BY <2>1, <3>2, LoginTold
    <3>4. after \subseteq before \cup {c}
      BY <2>2, <2>3, <3>1
    <3>5. LoggedIn(u)'
      <4>1. "LOGIN_SUCCESS" \in Row
        BY DEF Row
      <4> QED BY <2>3, <3>2, <3>4, <4>1, LoginsCounted
    <3>6. \A d \in Copies : who'[d] \in {who[d], u, None}
      BY <2>2, <3>1
    <3>7. NothingBefore' /\ AuditTellsAccounts'
      BY <2>1, <3>1, <3>2, <3>3, <3>5, <3>6, OthersStayTold DEF Told
    <3>8. SeededFirst'
      BY <1>1, <1>2, <2>1, <3>1, TypeFacts
    <3> QED BY <3>7, <3>8 DEF AInv
  <2>5. CASE ~ Admitted(u, right)
    <3>1. trail' = Recorded(u, "LOGIN_FAILED") /\ who' = who /\ window' = window
      BY <1>9, <2>5 DEF LogIn
    <3>2. Adds(u, "LOGIN_FAILED")
      BY <1>1, <3>1, RowAdded DEF Row
    <3>3. ToldByRows(u)' /\ ByTurns(u)'
      BY <2>1, <3>2, LoginTold
    <3>4. after = before
      BY <2>3, <3>1
    <3>5. LoggedIn(u)'
      <4>1. "LOGIN_FAILED" \in Row
        BY DEF Row
      <4> QED BY <2>3, <3>2, <3>4, <4>1, LoginsCounted
    <3>6. NothingBefore' /\ AuditTellsAccounts'
      BY <2>1, <3>1, <3>2, <3>3, <3>5, OthersStayTold DEF Told
    <3>7. SeededFirst'
      BY <1>2, <2>1, <3>1
    <3> QED BY <3>6, <3>7 DEF AInv
  <2> QED BY <2>4, <2>5
<1>10. ASSUME NEW u \in Accounts, NEW account \in Account, NEW row \in Row,
              Done(c, account, u, row), ToldByRows(u)' /\ ByTurns(u)',
              row \notin {"LOGIN_SUCCESS", "LOGOUT"}
       PROVE  AInv'
  <2>1. /\ users' = [users EXCEPT ![u] = account] /\ trail' = Recorded(u, row)
        /\ who' = who /\ window' = window
    BY <1>10 DEF Done
  <2>2. /\ users'[u] # None
        /\ \A v \in Accounts \ {u} : users'[v] = users[v]
    BY <1>1, <2>1, TypeFacts, ShellBounds
  <2>3. Adds(u, row)
    BY <1>1, <2>1, RowAdded
  <2>4. PICK before, after : before = {d \in Copies : who[d] = u} /\ after = {d \in Copies : who'[d] = u}
    OBVIOUS
  <2>5. after = before
    BY <2>1, <2>4
  <2>6. LoggedIn(u)'
    BY <1>10, <2>3, <2>4, <2>5, LoginsCounted
  <2>7. NothingBefore' /\ AuditTellsAccounts'
    BY <1>10, <2>1, <2>2, <2>3, <2>6, OthersStayTold DEF Told
  <2>8. SeededFirst'
    BY <1>2, <2>1, <2>2
  <2> QED BY <2>7, <2>8 DEF AInv
<1>11. ASSUME NEW u \in Cashiers, Target(c, u) PROVE u \in Accounts /\ users[u] \in Account /\ users[u] # None
  BY <1>1, <1>11, TypeFacts, ShellBounds DEF Target, PagesKnow
<1>12. ASSUME NEW u \in Cashiers, CreateUser(c, u) PROVE AInv'
  <2>1. u \in Accounts /\ users[u] = None /\ Done(c, New, u, "USER_CREATED") /\ window[c] = "open"
    BY <1>12, ShellBounds DEF CreateUser, AtWork
  <2>2. u \notin Seeded \cup {Admin}
    BY <1>1, <2>1 DEF SeededFirst
  <2>3. ToldByRows(u)' /\ ByTurns(u)'
    BY <2>1, <2>2, DoneTold, ShellBounds DEF Row
  <2> QED BY <1>10, <2>1, <2>3, ShellBounds DEF Row
<1>13. ASSUME NEW u \in Cashiers, UpdateUser(c, u) PROVE AInv'
  <2>1. Target(c, u) /\ Done(c, users[u], u, "USER_UPDATED")
    BY <1>13 DEF UpdateUser
  <2>2. PICK account : account = users[u]
    OBVIOUS
  <2>3. u \in Accounts /\ account \in Account /\ users[u] # None /\ Done(c, account, u, "USER_UPDATED")
    BY <1>11, <2>1, <2>2
  <2>4. ToldByRows(u)' /\ ByTurns(u)'
    BY <2>2, <2>3, DoneTold DEF Row
  <2> QED BY <1>10, <2>3, <2>4 DEF Row
<1>14. ASSUME NEW u \in Cashiers, ResetPassword(c, u) PROVE AInv'
  <2>1. Target(c, u) /\ Done(c, [users[u] EXCEPT !.resets = @ + 1], u, "PASSWORD_RESET")
    BY <1>14 DEF ResetPassword
  <2>2. PICK account : account = [users[u] EXCEPT !.resets = @ + 1]
    OBVIOUS
  <2>3. /\ u \in Accounts /\ account \in Account /\ users[u] # None
        /\ Done(c, account, u, "PASSWORD_RESET")
    BY <1>11, <2>1, <2>2 DEF Account
  <2>4. ToldByRows(u)' /\ ByTurns(u)'
    BY <2>2, <2>3, DoneTold DEF Row
  <2> QED BY <1>10, <2>3, <2>4 DEF Row
<1>15. ASSUME NEW u \in Cashiers, Toggle(c, u) PROVE AInv'
  <2>1. PICK active : active = ~ page[c][u].active
    OBVIOUS
  <2>2. /\ Target(c, u)
        /\ IF Turns(u, active)
           THEN Done(c, [users[u] EXCEPT !.active = active], u,
                     IF active THEN "USER_ACTIVATED" ELSE "USER_DEACTIVATED")
           ELSE Nothing(c)
    BY <1>15, <2>1 DEF Toggle
  <2>3. CASE Nothing(c)
    BY <1>3, <2>3 DEF Nothing, tables
  <2>4. CASE /\ Turns(u, active)
             /\ Done(c, [users[u] EXCEPT !.active = active], u,
                     IF active THEN "USER_ACTIVATED" ELSE "USER_DEACTIVATED")
    <3>1. PICK account, row :
             /\ account = [users[u] EXCEPT !.active = active]
             /\ row = IF active THEN "USER_ACTIVATED" ELSE "USER_DEACTIVATED"
      OBVIOUS
    <3>2. /\ u \in Accounts /\ users[u] \in Account /\ users[u] # None
          /\ Done(c, account, u, row) /\ row \in Row /\ row \notin {"LOGIN_SUCCESS", "LOGOUT"}
      BY <1>11, <2>2, <2>4, <3>1 DEF Row
    <3>3. page[c][u] \in Account
      BY <1>1, <2>2, <3>2, TypeFacts DEF Target
    <3>4. active \in BOOLEAN
      BY <2>1
    <3>5. account \in Account
      BY <3>1, <3>2, <3>4 DEF Account
    <3>6. ToldByRows(u)' /\ ByTurns(u)'
      <4>1. CASE active
        <5>1. row = "USER_ACTIVATED" /\ ~ users[u].active /\ active = TRUE
          BY <2>4, <3>1, <3>2, <3>4, <4>1 DEF Turns, Account
        <5> QED BY <3>1, <3>2, <3>5, <5>1, DoneTold
      <4>2. CASE ~ active
        <5>1. row = "USER_DEACTIVATED" /\ users[u].active /\ active = FALSE
          BY <2>4, <3>1, <3>2, <3>4, <4>2 DEF Turns, Account
        <5> QED BY <3>1, <3>2, <3>5, <5>1, DoneTold
      <4> QED BY <4>1, <4>2
    <3> QED BY <1>10, <3>2, <3>5, <3>6
  <2> QED BY <2>2, <2>3, <2>4
<1> QED
  BY <1>4, <1>5, <1>6, <1>7, <1>8, <1>9, <1>12, <1>13, <1>14, <1>15

\* The audit trail tells the state of every account, whatever lists the Admins
\* work on (user_service.py:143-174).
THEOREM TrailTellsAccounts == Spec => []AuditTellsAccounts
<1>1. Init => AInv
  <2> SUFFICES ASSUME Init PROVE AInv
    OBVIOUS
  <2>1. IInv
    BY InitiallyTyped
  <2>2. NothingBefore /\ SeededFirst
    BY DEF Init, NothingBefore, SeededFirst
  <2>3. ASSUME NEW u \in Accounts PROVE ToldByRows(u) /\ ByTurns(u) /\ LoggedIn(u)
    <3>1. trail[u] = <<>> /\ users[u] = None
      BY DEF Init
    <3>2. \A r : RowsOf(u, r) = {} /\ Count(u, r) = 0
      <4>1. \A r : RowsOf(u, r) = {}
        BY <3>1 DEF RowsOf
      <4> QED BY <4>1, FS_EmptySet DEF Count
    <3>3. Turnings(u) = {}
      BY <3>2 DEF Turnings
    <3>4. {c \in Copies : who[c] = u} = {}
      BY ShellBounds DEF Init
    <3>5. LoggedIn(u)
      BY <3>2, <3>4, FS_EmptySet DEF LoggedIn
    <3> QED BY <3>1, <3>2, <3>3, <3>5 DEF ToldByRows, ByTurns
  <2> QED BY <2>1, <2>2, <2>3 DEF AInv, AuditTellsAccounts
<1>2. AInv /\ IInv' /\ [Next]_vars => AInv'
  <2> SUFFICES ASSUME AInv, IInv', [Next]_vars PROVE AInv'
    OBVIOUS
  <2>1. CASE UNCHANGED vars
    <3>1. UNCHANGED <<users, trail, who, window>>
      BY <2>1 DEF vars, tables
    <3>2. NothingBefore' /\ AuditTellsAccounts'
      BY <3>1, AllToldStay
    <3> QED BY <3>1, <3>2 DEF AInv, SeededFirst
  <2> QED BY <2>1, AuditStep DEF Next
<1>3. AInv => AuditTellsAccounts
  BY DEF AInv
<1> QED
  BY <1>1, <1>2, <1>3, ShellInvariant, PTL DEF Spec

\* Types hold.
THEOREM ShellTypeCorrect == Spec => []TypeOK
  BY ShellInvariant, PTL DEF IInv

\* At most one thread of a copy goes on, and its controller can stop it
\* (worker.py:217, main.py:412-494).
THEOREM OneLoop == Spec => []OneLoopGoesOn
  BY ShellInvariant, PTL DEF IInv

===============================================================================
