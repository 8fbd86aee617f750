--------------------------------- MODULE Shell ---------------------------------
(***************************************************************************)
(* The application around the screens: running copies of it on one PC,     *)
(* their logins and windows, the sync loop each runs in the background,    *)
(* the accounts an Admin manages, the audit trail, and the settings that   *)
(* survive the run.                                                        *)
(*                                                                         *)
(* Nothing keeps a second copy from being started on the same database.    *)
(* Each copy has one window and at most one SyncWorker, with a thread that *)
(* ends when it sees that it was told to; the users page works on the list *)
(* it has last read.                                                       *)
(*                                                                         *)
(* Abstractions.  The audit trail is kept per account: rows of logins and  *)
(* logouts of it, and of what was done to it.  Passwords are right or      *)
(* wrong, a reset counts one up.  What the loop does in a cycle is the     *)
(* subject of SyncPush and SyncPull, what the pages do of Till, Books,     *)
(* Catalogue and Vault.                                                    *)
(***************************************************************************)
EXTENDS Integers, SequencesExt, FiniteSetsExt

CONSTANTS
    Copies,      \* running copies of the application
    Admin,       \* the account of the Admin
    Cashiers,    \* accounts of cashiers
    Seeded,      \* those ensure_seed_users makes
    Printers,    \* names of printers
    EnvPrinter,  \* FUNMITE_PRINTER_NAME
    MaxRows,     \* bound: audit rows
    MaxLoops,    \* bound: threads of a copy
    None

VARIABLES
    users,       \* the users table: None, or whether active, and resets of the password
    trail,       \* audit_logs, per account
    window,      \* of each copy: off, login, open, hidden
    who,         \* CurrentUser of each copy
    page,        \* the list of the users page of each copy
    worker,      \* the thread the controller of each copy has started
    loops,       \* threads of each copy
    registered,  \* sync_credentials.json is there
    saved,       \* printer_config.json
    printer      \* the printer each copy prints on

tables   == <<users, trail>>
settings == <<registered, saved>>
threads  == <<worker, loops>>
vars == <<tables, window, who, page, threads, settings, printer>>

Accounts == Cashiers \cup {Admin}
Account  == [active : BOOLEAN, resets : Nat]
Row      == {"LOGIN_SUCCESS", "LOGIN_FAILED", "LOGOUT", "USER_CREATED", "USER_UPDATED",
             "USER_DEACTIVATED", "USER_ACTIVATED", "PASSWORD_RESET"}
Loop     == [id : 1 .. MaxLoops, told : BOOLEAN, busy : BOOLEAN]

ASSUME ShellAssumption ==
    /\ IsFiniteSet(Copies)
    /\ Seeded \subseteq Cashiers /\ Admin \notin Cashiers
    /\ EnvPrinter \in Printers \cup {None}
    /\ None \notin Printers \cup Accounts \cup Account
    /\ {MaxRows, MaxLoops} \subseteq Nat

New == [active |-> TRUE, resets |-> 0]

-------------------------------------------------------------------------------
\* The audit trail

Rows == FoldSet(LAMBDA u, n : n + Len(trail[u]), 0, Accounts)

Recorded(u, row) == [trail EXCEPT ![u] = Append(@, row)]

Room == Rows < MaxRows

-------------------------------------------------------------------------------
\* Threads

\* The event is set and the thread joined, for ten seconds: one that is in a
\* request may be left behind.
Stopped(c) ==
    LET mine == {l \in loops[c] : l.id = worker[c]}
        rest == loops[c] \ mine
    IN  {rest} \cup {rest \cup {[l EXCEPT !.told = TRUE]} : l \in {l \in mine : l.busy}}

\* Fault: a logout leaves the thread to the next login.
OnLogout_Kept(c) == {loops[c]}

OnLogout(c) == Stopped(c)

\* A number no thread has.
Free(ls)   == {n \in 1 .. MaxLoops : \A l \in ls : l.id # n}
FreeId(ls) == CHOOSE n \in Free(ls) : TRUE

\* A cycle begins; no thread that was told begins one.
Work(c) ==
    \E l \in loops[c] :
        /\ ~ l.busy /\ ~ l.told
        /\ loops' = [loops EXCEPT ![c] = (@ \ {l}) \cup {[l EXCEPT !.busy = TRUE]}]
        /\ UNCHANGED <<tables, window, who, page, worker, settings, printer>>

\* It ends, and with it a thread that was told.
Rest(c) ==
    \E l \in loops[c] :
        /\ l.busy
        /\ loops' = [loops EXCEPT ![c] = (@ \ {l}) \cup (IF l.told THEN {}
                                                         ELSE {[l EXCEPT !.busy = FALSE]})]
        /\ UNCHANGED <<tables, window, who, page, worker, settings, printer>>

-------------------------------------------------------------------------------
\* From the start to the login and back

\* main: accounts that are missing are seeded, without an audit row.
Start(c) ==
    /\ window[c] = "off"
    /\ users' = [u \in Accounts |-> IF users[u] = None /\ u \in Seeded \cup {Admin}
                                    THEN New ELSE users[u]]
    /\ window' = [window EXCEPT ![c] = "login"]
    /\ UNCHANGED <<trail, who, page, threads, settings, printer>>

\* resolve_printer_name
Resolved == IF saved # None THEN saved ELSE EnvPrinter

\* _show: the thread of an earlier window is stopped and one is started, if this
\* PC is registered and the cloud can be reached; the window is built.
Show(c, u) ==
    /\ \E left \in Stopped(c) :
         \/ /\ registered
            /\ Free(left) # {}
            /\ worker' = [worker EXCEPT ![c] = FreeId(left)]
            /\ loops' = [loops EXCEPT ![c] =
                            left \cup {[id |-> FreeId(left), told |-> FALSE, busy |-> FALSE]}]
         \/ /\ worker' = [worker EXCEPT ![c] = None]
            /\ loops' = [loops EXCEPT ![c] = left]
    /\ window' = [window EXCEPT ![c] = "open"]
    /\ who' = [who EXCEPT ![c] = u]
    /\ page' = [page EXCEPT ![c] = IF u = Admin THEN users ELSE @]
    /\ printer' = [printer EXCEPT ![c] = Resolved]

\* Fault: whoever knows the password is let in.
Admitted_Any(u, right) == right

Admitted(u, right) == users[u] # None /\ right /\ users[u].active

\* authenticate: the row is committed, whatever comes of it.
LogIn(c, u, right) ==
    /\ window[c] = "login" /\ Room
    /\ IF Admitted(u, right)
       THEN trail' = Recorded(u, "LOGIN_SUCCESS") /\ Show(c, u)
       ELSE /\ trail' = Recorded(u, "LOGIN_FAILED")
            /\ UNCHANGED <<window, who, page, threads, printer>>
    /\ UNCHANGED <<users, settings>>

\* _on_logout
LogOut(c) ==
    /\ window[c] = "open" /\ Room
    /\ \E left \in OnLogout(c) : loops' = [loops EXCEPT ![c] = left]
    /\ worker' = [worker EXCEPT ![c] = None]
    /\ trail' = Recorded(who[c], "LOGOUT")
    /\ window' = [window EXCEPT ![c] = "login"]
    /\ who' = [who EXCEPT ![c] = None]
    /\ UNCHANGED <<users, page, settings, printer>>

\* The window is closed at its cross: the loop that shows it goes on waiting, no
\* row is written, the thread works on.
Close(c) ==
    /\ window[c] = "open"
    /\ window' = [window EXCEPT ![c] = "hidden"]
    /\ UNCHANGED <<tables, who, page, threads, settings, printer>>

\* The login is given up, or the process killed; its threads are daemons.
End(c) ==
    /\ window[c] # "off"
    /\ window' = [window EXCEPT ![c] = "off"]
    /\ who' = [who EXCEPT ![c] = None]
    /\ worker' = [worker EXCEPT ![c] = None]
    /\ loops' = [loops EXCEPT ![c] = {}]
    /\ UNCHANGED <<tables, page, settings, printer>>

-------------------------------------------------------------------------------
\* The users page, of an Admin

AtWork(c) == window[c] = "open" /\ who[c] = Admin

\* What was done, and the list read again.
Done(c, account, u, row) ==
    /\ users' = [users EXCEPT ![u] = account]
    /\ trail' = Recorded(u, row)
    /\ page' = [page EXCEPT ![c] = users']
    /\ UNCHANGED <<window, who, threads, settings, printer>>

Nothing(c) ==
    /\ page' = [page EXCEPT ![c] = users]
    /\ UNCHANGED <<tables, window, who, threads, settings, printer>>

\* A search, or a handler that is refused.
Search(c) == AtWork(c) /\ Nothing(c)

CreateUser(c, u) ==
    /\ AtWork(c) /\ Room
    /\ users[u] = None
    /\ Done(c, New, u, "USER_CREATED")

\* Only cashiers, and only those in the list.
Target(c, u) == AtWork(c) /\ Room /\ u \in Cashiers /\ page[c][u] # None

UpdateUser(c, u) == Target(c, u) /\ Done(c, users[u], u, "USER_UPDATED")

ResetPassword(c, u) ==
    Target(c, u) /\ Done(c, [users[u] EXCEPT !.resets = @ + 1], u, "PASSWORD_RESET")

\* Fault: deactivate and activate do not look.
Turns_Always(u, active) == TRUE

\* deactivate and activate leave an account alone that is so already.
Turns(u, active) == users[u].active # active

\* toggle_deactivate: the list tells which way, the table is turned.
Toggle(c, u) ==
    LET active == ~ page[c][u].active
    IN  /\ Target(c, u)
        /\ IF Turns(u, active)
           THEN Done(c, [users[u] EXCEPT !.active = active], u,
                     IF active THEN "USER_ACTIVATED" ELSE "USER_DEACTIVATED")
           ELSE Nothing(c)

-------------------------------------------------------------------------------
\* The settings page, of an Admin

\* The thread is started by the next login.
Register(c) ==
    /\ AtWork(c) /\ ~ registered
    /\ registered' = TRUE
    /\ UNCHANGED <<tables, window, who, page, threads, saved, printer>>

\* _on_save_printer and _on_clear_printer.  The tills that are open keep theirs.
SavePrinter(c, name) ==
    /\ AtWork(c)
    /\ saved' = name
    /\ UNCHANGED <<tables, window, who, page, threads, registered, printer>>

-------------------------------------------------------------------------------

Init ==
    /\ users = [u \in Accounts |-> None]
    /\ trail = [u \in Accounts |-> <<>>]
    /\ window = [c \in Copies |-> "off"]
    /\ who = [c \in Copies |-> None]
    /\ page = [c \in Copies |-> users]
    /\ worker = [c \in Copies |-> None]
    /\ loops = [c \in Copies |-> {}]
    /\ registered \in BOOLEAN
    /\ saved = None
    /\ printer = [c \in Copies |-> None]

Next ==
    \E c \in Copies :
        \/ Start(c) \/ LogOut(c) \/ Close(c) \/ End(c)
        \/ Work(c) \/ Rest(c)
        \/ \E u \in Accounts, right \in BOOLEAN : LogIn(c, u, right)
        \/ Search(c)
        \/ \E u \in Cashiers :
             CreateUser(c, u) \/ UpdateUser(c, u) \/ ResetPassword(c, u) \/ Toggle(c, u)
        \/ Register(c)
        \/ \E name \in Printers \cup {None} : SavePrinter(c, name)

Spec == Init /\ [][Next]_vars

===============================================================================
