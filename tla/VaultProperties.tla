---------------------------- MODULE VaultProperties ----------------------------
(***************************************************************************)
(* What launches, upgrades, backups and restores owe the shop's sales.     *)
(***************************************************************************)
EXTENDS Vault

\* Types; a table that is not there has no rows, and the file a failed restore
\* goes back to is there until it is over.
TypeOK ==
    /\ main \in Content
    /\ View \in Content
    /\ \A table \in {View.sales, View.staging} :
         table.def \in {"zero", "none", "torn"} => table.rows = {}
    /\ backups \subseteq Backup
    /\ made \in 0 .. MaxBackups
    /\ phase \in {"off", "upgrade", "open", "copy", "check", "back"}
    /\ phase \in {"copy", "check", "back"} => safety \in Ids
    /\ todo # <<>> <=> phase = "upgrade"
    /\ outcome \in {None, "restored", "undone", "failed"}
    /\ swapped \in {"no", "yes", "mixed"}
    /\ sold \in SUBSET Sales

\* The sales in the database, its staging table and the backups.
RowsOf(content) == content.sales.rows \cup content.staging.rows

Kept == RowsOf(View) \cup UNION {RowsOf(b.content) : b \in backups}

\* Wherever the process is killed in an upgrade or a restore, and whatever fails
\* there, each sale that was booked is in the database or in a backup, until a
\* backup is deleted that was too old and beyond the newest (runner.py:167,
\* backup_service.py:195, 005:224-231).  Only what is sold on after a restore whose
\* copy back has failed too is not safe.
NothingVanishes ==
    [][ \A s \in Kept : s \in Kept' \/ outcome = "failed" \/
          \E b \in backups : /\ s \in RowsOf(b.content)
                            /\ b.id \notin Ids'
                            /\ b.old
                            /\ Keep > 0 /\ Newer(backups, b) + 1 >= Keep ]_vars

\* The shop never works on tables of an older schema, whatever killed an earlier
\* upgrade, until a restore puts an older backup in their place (runner.py:172-181).
SchemaReady ==
    phase \in {"open", "copy"} /\ swapped = "no" =>
        View.version = Latest /\ View.sales.def = "new" /\ View.staging = Absent

\* A restore that fails leaves the sales as they were when it began, checkpoints
\* and the worker's commits in between included, unless the copy back fails as
\* well (backup_service.py:353).
FailedRestoreIsUndone ==
    [][ outcome' = "undone" /\ outcome # "undone" =>
          LET before == WithId(safety).content
          IN  View'.sales = before.sales /\ View'.version = before.version ]_vars

\* After a restore the sales are those of the selected backup
\* (docs/ADMIN_USER_MANUAL.md:151: "The selected backup replaces the current database").
RestoredIsTheBackup ==
    [][ outcome' = "restored" /\ outcome # "restored" =>
          View'.sales = WithId(chosen).content.sales ]_vars

===============================================================================
