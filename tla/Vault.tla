--------------------------------- MODULE Vault ---------------------------------
(***************************************************************************)
(* The database file through launches, schema upgrades, backups, restores  *)
(* and kills.                                                              *)
(*                                                                         *)
(* The database is a main file and a write-ahead log.  A commit goes to    *)
(* the log, a checkpoint moves the log into the file, a reader sees the    *)
(* log over the file.  SQLite's backup reads what a reader sees; a restore *)
(* copies a backup over the main file, while the connections of the        *)
(* application and of the worker are open, and leaves the log.             *)
(*                                                                         *)
(* Abstractions.  Of the tables that migration 005 rebuilds one stands for *)
(* the three.  A table is the unit of the log; in the program it is a      *)
(* page, and pages a connection has cached may survive a restore as well.  *)
(* Commits survive a kill; what a power cut takes is left out.  The        *)
(* sync_queue stands for what the worker writes.  Names of backups follow  *)
(* the clock, which is not set back.                                       *)
(***************************************************************************)
EXTENDS Integers, Sequences, FiniteSets

CONSTANTS
    Sales,        \* sales that may be booked
    Found,        \* schema versions of the database the application is installed on
    Keep,         \* FUNMITE_BACKUP_KEEP, 0 or less: all are kept
    MaxBackups,   \* bound: backups ever made
    None

Latest == 5       \* the newest migration of this build
Broken == -1      \* the version in a file cut off in the middle

VARIABLES
    main,       \* the content of the main file
    wal,        \* tables in the write-ahead log, None: it is not there
    backups,    \* files in the backup folder, numbered by the clock
    made,       \* backups made so far
    phase,      \* where the application is
    todo,       \* statements of the upgrade still to run
    listed,     \* backups on the settings page
    chosen, safety,   \* the backup to restore and the safety backup
    outcome,    \* how the restore ended
    swapped,    \* "yes": the main file was written over since the launch,
                \* "mixed": it was, under a log of its predecessor
    sold        \* sales ever booked

files   == <<main, wal, backups, made>>
restore == <<listed, chosen, safety, outcome>>
vars    == <<files, phase, todo, restore, swapped, sold>>

Table   == [def : {"zero", "none", "old", "new", "torn"}, rows : SUBSET Sales]
Content == [sales : Table, staging : Table, queue : SUBSET Sales, version : Broken .. Latest + 1]
Backup  == [id : 1 .. MaxBackups, content : Content, old : BOOLEAN]

ASSUME VaultAssumption ==
    /\ Found \subseteq 0 .. Latest + 1 /\ Keep \in Int /\ MaxBackups \in Nat
    /\ None \notin Table /\ None \notin Int /\ \A some \in SUBSET Sales : some # None
    /\ None \notin {"restored", "undone", "failed"}

-------------------------------------------------------------------------------
\* Files

Absent == [def |-> "none", rows |-> {}]
Fresh  == [def |-> "new", rows |-> {}]

\* A file of no bytes, one with a header, and one whose end is missing.
Zero  == [sales |-> [def |-> "zero", rows |-> {}], staging |-> Absent, queue |-> {}, version |-> 0]
Blank == [Zero EXCEPT !.sales = Absent]
Torn  == [Zero EXCEPT !.sales = [def |-> "torn", rows |-> {}], !.version = Broken]

NoLog == [sales |-> None, staging |-> None, queue |-> None, version |-> None]

\* What a reader sees of a file with this log.
Over(log, file) ==
    [ sales   |-> IF log.sales = None THEN file.sales ELSE log.sales,
      staging |-> IF log.staging = None THEN file.staging ELSE log.staging,
      queue   |-> IF log.queue = None THEN file.queue ELSE log.queue,
      version |-> IF log.version = None THEN file.version ELSE log.version ]

View == Over(wal, main)

\* integrity_check, and the size and the magic bytes.
Whole(content) ==
    content.sales.def \notin {"zero", "torn"} /\ content.version # Broken

HasSales(content) == content.sales.def \in {"old", "new"}

\* A file that is written from the start, when the writing stops anywhere.
Written(content) == {main, Zero, Torn, content}

Ids == {b.id : b \in backups}
WithId(id) == CHOOSE b \in backups : b.id = id

\* Fault: the file is copied, not the database.
Snapshot_File == main

Snapshot == View

Newer(list, b) == Cardinality({a \in list : a.id > b.id})

\* Fault: a backup that is old, or beyond the newest, is deleted.
Expired_Either(list, b) == Keep > 0 /\ (Newer(list, b) >= Keep \/ b.old)

\* purge: beyond the newest and too old, both.
Expired(list, b) == Keep > 0 /\ Newer(list, b) >= Keep /\ b.old

Purged(list) == {b \in list : ~ Expired(list, b)}

\* What becomes of swapped when the main file is written over.
Swap == IF wal # NoLog \/ swapped = "mixed" THEN "mixed" ELSE "yes"

WithBackup(content) ==
    backups \cup {[id |-> made + 1, content |-> content, old |-> FALSE]}

-------------------------------------------------------------------------------
\* Launch and upgrade

\* _check_accepts_credit
NeedsRebuild(content) == content.sales.def # "new"

\* Fault: the version is recorded before the tables are rebuilt.
Rebuild_Early == <<"record", "drop_staging", "create_staging", "copy", "drop_sales", "rename">>

\* Migration 005, each statement committed by itself, and the runner's row.
Rebuild == <<"drop_staging", "create_staging", "copy", "drop_sales", "rename", "record">>

Statements(content) ==
    IF content.version = 0 THEN <<"create_tables", "record">>
    ELSE IF NeedsRebuild(content) THEN Rebuild
    ELSE <<"record">>

\* Some migrations cannot run at all: 001 creates tables whether or not they are
\* there, and 005 rebuilds on a second connection, that waits in vain for the lock
\* the first has taken with the row of 004.
Blocked(content) ==
    \/ content.version = 0 /\ content.sales.def # "none"
    \/ content.version \in 1 .. 3 /\ NeedsRebuild(content)

\* SQLite deletes the log of a file of no bytes and writes a header.
Opened == IF main = Zero THEN Blank ELSE View

\* runner.upgrade.  A database of a newer build is refused, a broken one cannot be
\* read; an older one is backed up first.
Launch ==
    /\ phase = "off"
    /\ Whole(Opened) /\ Opened.version <= Latest
    /\ main' = IF main = Zero THEN Blank ELSE main
    /\ wal' = IF main = Zero THEN NoLog ELSE wal
    /\ IF Opened.version = Latest
       THEN /\ phase' = "open"
            /\ UNCHANGED <<backups, made, todo>>
       ELSE /\ made < MaxBackups
            /\ backups' = WithBackup(Opened)
            /\ made' = made + 1
            /\ IF Blocked(Opened)
               THEN UNCHANGED <<phase, todo>>
               ELSE phase' = "upgrade" /\ todo' = Statements(Opened)
    /\ listed' = {b.id : b \in backups'}
    /\ chosen' = None /\ safety' = None /\ outcome' = None
    /\ swapped' = IF swapped = "mixed" THEN "mixed" ELSE "no"
    /\ UNCHANGED sold

\* What a statement leaves in the log.
Effect(statement) ==
    [ create_tables  |-> [wal EXCEPT !.sales = Fresh],
      drop_staging   |-> [wal EXCEPT !.staging = Absent],
      create_staging |-> [wal EXCEPT !.staging = Fresh],
      copy           |-> [wal EXCEPT !.staging = [Fresh EXCEPT !.rows = View.sales.rows]],
      drop_sales     |-> [wal EXCEPT !.sales = Absent],
      rename         |-> [wal EXCEPT !.sales = View.staging, !.staging = Absent],
      record         |-> [wal EXCEPT !.version = Latest] ][statement]

\* DROP TABLE fails without the table.
Fails(statement) == statement = "drop_sales" /\ ~ HasSales(View)

Upgrade ==
    /\ phase = "upgrade"
    /\ IF Fails(Head(todo))
       THEN /\ phase' = "off" /\ todo' = <<>>
            /\ UNCHANGED files
       ELSE /\ wal' = Effect(Head(todo))
            /\ todo' = Tail(todo)
            /\ phase' = IF todo' = <<>> THEN "open" ELSE phase
            /\ UNCHANGED <<main, backups, made>>
    /\ UNCHANGED <<restore, swapped, sold>>

-------------------------------------------------------------------------------
\* The shop at work

\* Fault: a table is taken to be there.
Sellable_Always == TRUE

Sellable == Whole(View) /\ HasSales(View)

\* A sale and its row of the outbox, in one commit.
Sell(s) ==
    /\ phase = "open"
    /\ Sellable
    /\ s \notin sold
    /\ wal' = [wal EXCEPT !.sales = [View.sales EXCEPT !.rows = @ \cup {s}],
                           !.queue = View.queue \cup {s}]
    /\ sold' = sold \cup {s}
    /\ UNCHANGED <<main, backups, made, phase, todo, restore, swapped>>

\* The worker marks a row SENT, also while the page restores.
Sync ==
    /\ phase \notin {"off", "upgrade"}
    /\ Whole(View) /\ View.queue # {}
    /\ \E s \in View.queue : wal' = [wal EXCEPT !.queue = View.queue \ {s}]
    /\ UNCHANGED <<main, backups, made, phase, todo, restore, swapped, sold>>

Checkpoint ==
    /\ phase # "off" /\ wal # NoLog
    /\ main' = View
    /\ wal' = NoLog
    /\ UNCHANGED <<backups, made, phase, todo, restore, swapped, sold>>

\* FUNMITE_BACKUP_MAX_AGE_DAYS pass.
Age ==
    /\ phase = "open"
    /\ backups' = {[b EXCEPT !.old = TRUE] : b \in backups}
    /\ UNCHANGED <<main, wal, made, phase, todo, restore, swapped, sold>>

-------------------------------------------------------------------------------
\* Backup

\* create_backup; one that is not whole is deleted again.
BackUp ==
    /\ phase = "open"
    /\ made < MaxBackups
    /\ Whole(Snapshot)
    /\ backups' = Purged(WithBackup(Snapshot))
    /\ made' = made + 1
    /\ listed' = {b.id : b \in backups'}
    /\ UNCHANGED <<main, wal, phase, todo, chosen, safety, outcome, swapped, sold>>

-------------------------------------------------------------------------------
\* Restore, on the thread of the screens

\* _on_restore to the safety backup.  The list may name a file that is gone.
\* When the database itself is not whole no safety backup can be made, and none
\* is restored; the file stays in the folder.
Restore(id) ==
    /\ phase = "open"
    /\ id \in listed \cap Ids
    /\ made < MaxBackups
    /\ Whole(WithId(id).content)
    /\ made' = made + 1
    /\ outcome' = None
    /\ IF Whole(Snapshot)
       THEN /\ backups' = Purged(WithBackup(Snapshot))
            /\ chosen' = id /\ safety' = made + 1
            /\ phase' = "copy"
       ELSE /\ backups' = WithBackup(Snapshot)
            /\ UNCHANGED <<chosen, safety, phase>>
    /\ UNCHANGED <<main, wal, todo, listed, swapped, sold>>

\* copy2 over the main file.  The purge may have deleted the chosen backup.
CopyBackup ==
    /\ phase = "copy"
    /\ \/ /\ chosen \in Ids
          /\ main' = WithId(chosen).content
          /\ phase' = "check" /\ swapped' = Swap
       \/ /\ chosen \in Ids
          /\ main' \in {Zero, Torn}
          /\ phase' = "back" /\ swapped' = Swap
       \/ /\ chosen \notin Ids
          /\ phase' = "back"
          /\ UNCHANGED <<main, swapped>>
    /\ UNCHANGED <<wal, backups, made, todo, restore, sold>>

\* integrity_check of the file and the log together, which need not fit; the
\* audit row, and the commit of the page.
FinishRestore ==
    /\ phase = "check"
    /\ \/ /\ Whole(View)
          /\ phase' = "open" /\ outcome' = "restored"
          /\ listed' = Ids
       \/ /\ wal # NoLog \/ ~ Whole(View)
          /\ phase' = "back"
          /\ UNCHANGED <<outcome, listed>>
    /\ UNCHANGED <<files, todo, chosen, safety, swapped, sold>>

\* The audit row is refused: the backup's schema or its users are not these.
FailAudit ==
    /\ phase = "check" /\ Whole(View)
    /\ View.version < Latest
    /\ phase' = "back"
    /\ UNCHANGED <<files, todo, restore, swapped, sold>>

\* The safety backup is copied back; that this fails is passed over.
CopyBack ==
    /\ phase = "back"
    /\ \/ main' = WithId(safety).content /\ outcome' = "undone"
       \/ main' \in {main, Zero, Torn} /\ outcome' = "failed"
    /\ phase' = "open" /\ swapped' = Swap
    /\ UNCHANGED <<wal, backups, made, todo, listed, chosen, safety, sold>>

-------------------------------------------------------------------------------
\* The process ends

\* Where a file is being written it may be left as it is.
Kill ==
    /\ phase # "off"
    /\ CASE phase = "copy" /\ chosen \in Ids -> main' \in Written(WithId(chosen).content)
         [] phase = "back" -> main' \in Written(WithId(safety).content)
         [] OTHER -> main' = main
    /\ phase' = "off" /\ todo' = <<>>
    /\ swapped' = IF main' # main THEN Swap ELSE swapped
    /\ UNCHANGED <<wal, backups, made, restore, sold>>

\* A database of an older or newer build, or none.
Installed(version) ==
    IF version = 0 THEN Zero
    ELSE [Zero EXCEPT !.sales = [def |-> IF version < Latest THEN "old" ELSE "new", rows |-> {}],
                      !.version = version]

Init ==
    /\ \E version \in Found, before \in SUBSET Sales :
         /\ version = 0 => before = {}
         /\ main = [Installed(version) EXCEPT !.sales.rows = before]
         /\ sold = before
    /\ wal = NoLog
    /\ backups = {} /\ made = 0
    /\ phase = "off" /\ todo = <<>>
    /\ listed = {} /\ chosen = None /\ safety = None /\ outcome = None
    /\ swapped = "no"

Next ==
    \/ Launch \/ Upgrade
    \/ (\E s \in Sales : Sell(s)) \/ Sync \/ Checkpoint \/ Age
    \/ BackUp
    \/ \E id \in listed : Restore(id)
    \/ CopyBackup \/ FinishRestore \/ FailAudit \/ CopyBack
    \/ Kill

Spec == Init /\ [][Next]_vars

===============================================================================
