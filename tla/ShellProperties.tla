---------------------------- MODULE ShellProperties ----------------------------
(***************************************************************************)
(* What must hold of the copies that run and of the accounts they share.   *)
(***************************************************************************)
EXTENDS Shell

\* Somebody is at work in a window that is up, and nobody without an account.
Staffed(c) ==
    IF window[c] \in {"open", "hidden"}
    THEN who[c] \in Accounts /\ users[who[c]] # None
    ELSE who[c] = None

\* Threads of a copy have numbers of their own.
Numbered(c) == \A a, b \in loops[c] : a.id = b.id => a = b

\* Types; windows are staffed, threads are told apart.
TypeOK ==
    /\ users \in [Accounts -> Account \cup {None}]
    /\ trail \in [Accounts -> Seq(Row)]
    /\ window \in [Copies -> {"off", "login", "open", "hidden"}]
    /\ who \in [Copies -> Accounts \cup {None}]
    /\ page \in [Copies -> [Accounts -> Account \cup {None}]]
    /\ worker \in [Copies -> 1 .. MaxLoops \cup {None}]
    /\ loops \in [Copies -> SUBSET Loop]
    /\ registered \in BOOLEAN
    /\ saved \in Printers \cup {None}
    /\ printer \in [Copies -> Printers \cup {None}]
    /\ \A c \in Copies : Staffed(c) /\ Numbered(c)

\* The rows of an account that say so; those that make it or turn it.
RowsOf(u, row) == {k \in DOMAIN trail[u] : trail[u][k] = row}

Count(u, row) == Cardinality(RowsOf(u, row))

Turnings(u) ==
    RowsOf(u, "USER_CREATED") \cup RowsOf(u, "USER_ACTIVATED") \cup RowsOf(u, "USER_DEACTIVATED")

Latest(rows) == {k \in rows : \A m \in rows : m <= k}

\* An account that is not seeded was created; of one there is, the last row that
\* turned it tells what it is, and as many passwords were reset as rows say.
ToldByRows(u) ==
    /\ Count(u, "USER_CREATED") = IF users[u] = None \/ u \in Seeded \cup {Admin} THEN 0 ELSE 1
    /\ users[u] # None =>
         /\ users[u].resets = Count(u, "PASSWORD_RESET")
         /\ ~ users[u].active <=> Latest(Turnings(u)) \cap RowsOf(u, "USER_DEACTIVATED") # {}

\* It is deactivated and activated by turns, and created before either.
ByTurns(u) ==
    \A m \in Turnings(u) :
        \A k \in Latest({k \in Turnings(u) : k < m}) :
            trail[u][m] # trail[u][k] /\ trail[u][m] # "USER_CREATED"

\* Who is logged in has logged in since.
LoggedIn(u) ==
    Count(u, "LOGIN_SUCCESS") >= Count(u, "LOGOUT") + Cardinality({c \in Copies : who[c] = u})

\* The audit trail tells the state of every account, also when two Admins turn the
\* same one from lists that are out of date (user_service.py:143-174,
\* users_page.py:229).
AuditTellsAccounts == \A u \in Accounts : ToldByRows(u) /\ ByTurns(u) /\ LoggedIn(u)

\* However logouts and logins follow a stop that ran out of patience, at most one
\* thread of a copy goes on, it is the one its controller can stop, and none goes
\* on when nobody is logged in (worker.py:217, main.py:412-494).
OneLoopGoesOn ==
    \A c \in Copies :
        /\ {l.id : l \in {l \in loops[c] : ~ l.told}} \subseteq {worker[c]}
        /\ window[c] \in {"off", "login"} => \A l \in loops[c] : l.told

===============================================================================
