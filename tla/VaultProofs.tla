------------------------------ MODULE VaultProofs ------------------------------
(***************************************************************************)
(* Proofs about the database file: whatever is killed or fails, for any    *)
(* sales, any versions it is installed on, and any number of backups.      *)
(***************************************************************************)
EXTENDS VaultProperties, FiniteSetTheorems, SequenceTheorems, TLAPS

\* A table that is not there has no rows; the staging table is whole.
GoodTable(table) == table \in Table /\ (table.def \in {"zero", "none", "torn"} => table.rows = {})

Good(content) ==
    /\ content \in Content
    /\ GoodTable(content.sales) /\ GoodTable(content.staging)
    /\ content.staging.def \in {"none", "new"}

Log == [sales : Table \cup {None}, staging : Table \cup {None},
        queue : (SUBSET Sales) \cup {None}, version : (Broken .. Latest + 1) \cup {None}]

GoodLog(log) ==
    /\ log \in Log
    /\ log.sales # None => GoodTable(log.sales)
    /\ log.staging # None => GoodTable(log.staging) /\ log.staging.def \in {"none", "new"}

Restoring == phase \in {"copy", "check", "back"}

\* What is left of an upgrade.
Create == <<"create_tables", "record">>
Rebuild2 == <<"create_staging", "copy", "drop_sales", "rename", "record">>
Rebuild3 == <<"copy", "drop_sales", "rename", "record">>
Rebuild4 == <<"drop_sales", "rename", "record">>
Rebuild5 == <<"rename", "record">>
Rebuild6 == <<"record">>

\* Files, and the backups a restore needs, which are whole.
FilesGood == Good(main) /\ GoodLog(wal)

BackupsGood ==
    /\ IsFiniteSet(backups) /\ backups \subseteq Backup
    /\ \A b \in backups : Good(b.content) /\ b.id <= made
    /\ \A a, b \in backups : a.id = b.id => a = b

PhasesGood ==
    /\ made \in 0 .. MaxBackups
    /\ phase \in {"off", "upgrade", "open", "copy", "check", "back"}
    /\ outcome \in {None, "restored", "undone", "failed"}
    /\ swapped \in {"no", "yes", "mixed"}
    /\ sold \in SUBSET Sales
    /\ phase = "upgrade" <=> todo # <<>>
    /\ phase = "upgrade" => todo \in {Create, Rebuild, Rebuild2, Rebuild3, Rebuild4, Rebuild5, Rebuild6}
    /\ Restoring => /\ outcome = None
                    /\ safety \in Ids /\ Whole(WithId(safety).content)
                    /\ chosen \in Ids => Whole(WithId(chosen).content)

\* A content that is no mixture: what a killed upgrade may leave.
Consistent(content) ==
    /\ content.sales.def = "new" => content.staging = Absent
    /\ content.version = Latest => content.sales.def = "new"
    /\ content.version = 0 => content.staging = Absent

\* Where the upgrade is.
Stage ==
    phase = "upgrade" =>
      /\ View.version < Latest
      /\ todo = Create => View.version = 0
      /\ todo \in {Rebuild, Rebuild2, Rebuild3, Rebuild4, Rebuild5} =>
            View.version # 0 /\ View.sales.def # "new"
      /\ todo \in {Rebuild4, Rebuild5} => View.staging.def = "new"
      /\ todo = Rebuild6 => View.sales.def = "new"

Unmixed ==
    swapped # "mixed" =>
      /\ Consistent(View) /\ \A b \in backups : Consistent(b.content)
      /\ Stage
      /\ phase \in {"open", "copy"} /\ swapped = "no" => View.version = Latest
      /\ phase = "check" => swapped # "no"

\* What may be lost in an upgrade or a restore is in a backup; so is what is in the
\* log of a file of no bytes, which the next launch deletes.
RowsIn(S) == UNION {RowsOf(b.content) : b \in S}

BackupRows == RowsIn(backups)

Covered ==
    /\ phase \in {"upgrade", "copy", "check", "back"} => RowsOf(View) \subseteq BackupRows
    /\ main = Zero => outcome = "failed" \/ RowsOf(View) \subseteq BackupRows
    /\ phase \in {"open", "check"} /\ main = Zero => outcome = "failed" \/ ~ Whole(View)
    /\ phase = "upgrade" => Whole(View) /\ main # Zero

\* The log holds nothing that the safety backup does not, of sales and version.
SafeLog ==
    Restoring =>
      /\ wal.sales # None => wal.sales = WithId(safety).content.sales
      /\ wal.version # None => wal.version = WithId(safety).content.version

TInv == FilesGood /\ BackupsGood /\ PhasesGood

-------------------------------------------------------------------------------
\* Contents of files

\* None is no table, no set of sales and no version.
LEMMA VaultBounds ==
    /\ None \notin Table /\ None \notin SUBSET Sales /\ None \notin Int
    /\ None \notin {"restored", "undone", "failed"}
    /\ MaxBackups \in Nat /\ Keep \in Int /\ Found \subseteq 0 .. Latest + 1
  BY VaultAssumption

\* Tables and files as they are made.
LEMMA Made ==
    /\ GoodTable(Absent) /\ GoodTable(Fresh) /\ Absent \in Table /\ Fresh \in Table
    /\ Good(Zero) /\ Good(Blank) /\ Good(Torn)
    /\ GoodLog(NoLog)
    /\ RowsOf(Zero) = {} /\ RowsOf(Blank) = {} /\ RowsOf(Torn) = {}
    /\ ~ Whole(Zero) /\ Whole(Blank) /\ ~ Whole(Torn)
<1>1. Absent \in Table /\ Fresh \in Table /\ GoodTable(Absent) /\ GoodTable(Fresh)
  BY DEF Absent, Fresh, Table, GoodTable
<1>2. /\ Zero.sales = [def |-> "zero", rows |-> {}] /\ Zero.staging = Absent
      /\ Zero.queue = {} /\ Zero.version = 0 /\ Zero \in Content
  BY <1>1 DEF Zero, Content, Table, Latest, Broken
<1>3. /\ Blank.sales = Absent /\ Blank.staging = Absent
      /\ Blank.queue = {} /\ Blank.version = 0 /\ Blank \in Content
  BY <1>1, <1>2 DEF Blank, Content
<1>4. /\ Torn.sales = [def |-> "torn", rows |-> {}] /\ Torn.staging = Absent
      /\ Torn.queue = {} /\ Torn.version = Broken /\ Torn \in Content
  <2>1. [def |-> "torn", rows |-> {}] \in Table /\ Broken \in Broken .. Latest + 1
    BY DEF Table, Latest, Broken
  <2> QED BY <1>1, <1>2, <2>1 DEF Torn, Content
<1>5. Good(Zero)
  BY <1>1, <1>2 DEF Good, GoodTable, Table, Absent
<1>6. Good(Blank)
  BY <1>1, <1>3 DEF Good, Absent
<1>7. Good(Torn)
  <2>1. GoodTable(Torn.sales)
    BY <1>4 DEF GoodTable, Table
  <2>2. GoodTable(Torn.staging) /\ Torn.staging.def = "none"
    BY <1>1, <1>4 DEF Absent
  <2> QED BY <1>4, <2>1, <2>2 DEF Good
<1>8. GoodLog(NoLog)
  BY DEF GoodLog, NoLog, Log
<1>9. RowsOf(Zero) = {} /\ RowsOf(Blank) = {} /\ RowsOf(Torn) = {}
  BY <1>2, <1>3, <1>4 DEF RowsOf, Absent
<1>10. ~ Whole(Zero) /\ Whole(Blank) /\ ~ Whole(Torn)
  BY <1>2, <1>3, <1>4 DEF Whole, Absent, Broken
<1> QED
  BY <1>1, <1>5, <1>6, <1>7, <1>8, <1>9, <1>10

\* A good log over a good file reads as a good content.
LEMMA OverGood ==
    ASSUME NEW log, NEW file, GoodLog(log), Good(file)
    PROVE  Good(Over(log, file))
<1> DEFINE seen == Over(log, file)
<1>1. /\ seen.sales = IF log.sales = None THEN file.sales ELSE log.sales
      /\ seen.staging = IF log.staging = None THEN file.staging ELSE log.staging
      /\ seen.queue = IF log.queue = None THEN file.queue ELSE log.queue
      /\ seen.version = IF log.version = None THEN file.version ELSE log.version
      /\ seen = [sales |-> seen.sales, staging |-> seen.staging, queue |-> seen.queue,
                 version |-> seen.version]
  BY DEF Over
<1>2. /\ file.sales \in Table /\ file.staging \in Table /\ file.queue \in SUBSET Sales
      /\ file.version \in Broken .. Latest + 1
      /\ GoodTable(file.sales) /\ GoodTable(file.staging) /\ file.staging.def \in {"none", "new"}
  BY DEF Good, Content
<1>3. /\ log.sales \in Table \cup {None} /\ log.staging \in Table \cup {None}
      /\ log.queue \in (SUBSET Sales) \cup {None} /\ log.version \in (Broken .. Latest + 1) \cup {None}
      /\ log.sales # None => GoodTable(log.sales)
      /\ log.staging # None => GoodTable(log.staging) /\ log.staging.def \in {"none", "new"}
  BY DEF GoodLog, Log
<1> HIDE DEF seen
<1>4. GoodTable(seen.sales) /\ seen.sales \in Table
  BY <1>1, <1>2, <1>3
<1>5. GoodTable(seen.staging) /\ seen.staging.def \in {"none", "new"} /\ seen.staging \in Table
  BY <1>1, <1>2, <1>3
<1>6. seen.queue \in SUBSET Sales /\ seen.version \in Broken .. Latest + 1
  <2>1. seen.queue \in SUBSET Sales
    <3>1. log.queue # None => log.queue \in SUBSET Sales
      BY <1>3
    <3> QED BY <1>1, <1>2, <3>1
  <2>2. seen.version \in Broken .. Latest + 1
    <3>1. CASE log.version = None
      BY <1>1, <1>2, <3>1
    <3>2. CASE log.version # None
      BY <1>1, <1>3, <3>2
    <3> QED BY <3>1, <3>2
  <2> QED BY <2>1, <2>2
<1>7. seen \in Content
  BY <1>1, <1>4, <1>5, <1>6 DEF Content
<1> QED
  BY <1>4, <1>5, <1>7 DEF Good, seen

\* What a reader sees, table by table.
LEMMA Seen ==
    ASSUME NEW log, NEW file
    PROVE  /\ Over(log, file).sales = IF log.sales = None THEN file.sales ELSE log.sales
           /\ Over(log, file).staging = IF log.staging = None THEN file.staging ELSE log.staging
           /\ Over(log, file).queue = IF log.queue = None THEN file.queue ELSE log.queue
           /\ Over(log, file).version = IF log.version = None THEN file.version ELSE log.version
  BY DEF Over

\* Without a log the file is what it is.
LEMMA OverNothing ==
    ASSUME NEW file \in Content PROVE Over(NoLog, file) = file
<1>1. file = [sales |-> file.sales, staging |-> file.staging, queue |-> file.queue,
              version |-> file.version]
  BY DEF Content
<1> QED
  BY <1>1 DEF Over, NoLog

\* Writing another file under a log shows no rows but of the log and of that file.
LEMMA OverRows ==
    ASSUME NEW log, NEW old, NEW file
    PROVE  RowsOf(Over(log, file)) \subseteq RowsOf(Over(log, old)) \cup RowsOf(file)
  BY Seen DEF RowsOf

\* Parts of a content, and of a log.
LEMMA Parts ==
    ASSUME NEW content, Good(content)
    PROVE  /\ content.sales \in Table /\ content.staging \in Table
           /\ content.queue \in SUBSET Sales /\ content.version \in Broken .. Latest + 1
           /\ content.version \in Int
           /\ GoodTable(content.sales) /\ GoodTable(content.staging)
           /\ content.staging.def \in {"none", "new"}
           /\ content \in Content
           /\ RowsOf(content) \subseteq Sales
<1>1. /\ content.sales \in Table /\ content.staging \in Table
      /\ content.queue \in SUBSET Sales /\ content.version \in Broken .. Latest + 1
  BY DEF Good, Content
<1> QED
  BY <1>1 DEF Good, RowsOf, Table, Latest, Broken

-------------------------------------------------------------------------------
\* Backups and upgrades

\* The backup with a number is the one that has it.
LEMMA OneOfThem ==
    ASSUME NEW S, \A a, b \in S : a.id = b.id => a = b, NEW b \in S
    PROVE  (CHOOSE a \in S : a.id = b.id) = b
  OBVIOUS

\* So a number that is in the folder names a good backup of it.
LEMMA NumberedBackup ==
    ASSUME BackupsGood, NEW id \in Ids
    PROVE  WithId(id) \in backups /\ WithId(id).id = id /\ Good(WithId(id).content)
<1>1. PICK b \in backups : b.id = id
  BY DEF Ids
<1>2. WithId(id) = b
  BY <1>1, OneOfThem DEF WithId, BackupsGood
<1> QED
  BY <1>1, <1>2 DEF BackupsGood

\* What a folder is that has been added to, whatever is deleted from it.
Folder(S, latest) ==
    /\ IsFiniteSet(S) /\ S \subseteq Backup
    /\ \A b \in S : Good(b.content) /\ b.id <= latest
    /\ \A a, b \in S : a.id = b.id => a = b

\* A folder to which a good content is added is good, whatever is deleted from it.
LEMMA FolderAdded ==
    ASSUME BackupsGood, made \in 0 .. MaxBackups, made < MaxBackups,
           NEW content, Good(content), NEW S, S \subseteq WithBackup(content)
    PROVE  Folder(S, made + 1)
<1> DEFINE new == [id |-> made + 1, content |-> content, old |-> FALSE]
<1>1. made \in Nat /\ MaxBackups \in Nat /\ made + 1 \in 1 .. MaxBackups
  BY VaultBounds
<1>2. new \in Backup /\ new.id = made + 1 /\ new.content = content
  BY <1>1, Parts DEF Backup
<1>3. WithBackup(content) = backups \cup {new}
  BY DEF WithBackup
<1> HIDE DEF new
<1>4. /\ IsFiniteSet(backups) /\ backups \subseteq Backup
      /\ \A b \in backups : Good(b.content) /\ b.id <= made
      /\ \A a, b \in backups : a.id = b.id => a = b
  BY DEF BackupsGood
<1>5. \A b \in backups : b.id \in Nat
  BY <1>1, <1>4 DEF Backup
<1>6. IsFiniteSet(backups \cup {new})
  BY <1>4, FS_AddElement
<1>7. IsFiniteSet(S)
  BY <1>3, <1>6, FS_Subset
<1>8. S \subseteq Backup
  BY <1>2, <1>3, <1>4
<1>9. \A b \in S : Good(b.content) /\ b.id <= made + 1
  BY <1>1, <1>2, <1>3, <1>4, <1>5
<1>10. \A a, b \in S : a.id = b.id => a = b
  <2>1. \A b \in backups : b.id # new.id
    BY <1>1, <1>2, <1>4, <1>5
  <2> QED BY <1>3, <1>4, <2>1
<1> QED
  BY <1>7, <1>8, <1>9, <1>10 DEF Folder

\* The newest backup is never deleted.
LEMMA NewestIsKept ==
    ASSUME BackupsGood, made \in 0 .. MaxBackups, NEW content
    PROVE  [id |-> made + 1, content |-> content, old |-> FALSE] \in Purged(WithBackup(content))
<1> DEFINE new == [id |-> made + 1, content |-> content, old |-> FALSE]
<1>1. new \in WithBackup(content) /\ new.id = made + 1 /\ new.old = FALSE
  BY DEF WithBackup
<1> HIDE DEF new
<1>2. ~ Expired(WithBackup(content), new)
  BY <1>1 DEF Expired
<1> QED
  BY <1>1, <1>2 DEF Purged, new

\* The statements of an upgrade one by one.
Statement == {"create_tables", "drop_staging", "create_staging", "copy", "drop_sales", "rename", "record"}

\* First and next statements of what is left of an upgrade.
LEMMA Programs ==
    /\ Head(Create) = "create_tables" /\ Tail(Create) = Rebuild6
    /\ Head(Rebuild) = "drop_staging" /\ Tail(Rebuild) = Rebuild2
    /\ Head(Rebuild2) = "create_staging" /\ Tail(Rebuild2) = Rebuild3
    /\ Head(Rebuild3) = "copy" /\ Tail(Rebuild3) = Rebuild4
    /\ Head(Rebuild4) = "drop_sales" /\ Tail(Rebuild4) = Rebuild5
    /\ Head(Rebuild5) = "rename" /\ Tail(Rebuild5) = Rebuild6
    /\ Head(Rebuild6) = "record" /\ Tail(Rebuild6) = <<>>
    /\ Create # <<>> /\ Rebuild # <<>> /\ Rebuild2 # <<>> /\ Rebuild3 # <<>> /\ Rebuild4 # <<>>
    /\ Rebuild5 # <<>> /\ Rebuild6 # <<>>
  BY DEF Create, Rebuild, Rebuild2, Rebuild3, Rebuild4, Rebuild5, Rebuild6

\* No two of these remainders are the same.
LEMMA Distinct ==
    /\ Create \notin {Rebuild, Rebuild2, Rebuild3, Rebuild4, Rebuild5, Rebuild6}
    /\ Rebuild \notin {Rebuild2, Rebuild3, Rebuild4, Rebuild5, Rebuild6}
    /\ Rebuild2 \notin {Rebuild3, Rebuild4, Rebuild5, Rebuild6}
    /\ Rebuild3 \notin {Rebuild4, Rebuild5, Rebuild6}
    /\ Rebuild4 \notin {Rebuild5, Rebuild6}
    /\ Rebuild5 # Rebuild6
  BY Programs

\* What each statement leaves in the log.
LEMMA Effects ==
    /\ Effect("create_tables") = [wal EXCEPT !.sales = Fresh]
    /\ Effect("drop_staging") = [wal EXCEPT !.staging = Absent]
    /\ Effect("create_staging") = [wal EXCEPT !.staging = Fresh]
    /\ Effect("copy") = [wal EXCEPT !.staging = [Fresh EXCEPT !.rows = View.sales.rows]]
    /\ Effect("drop_sales") = [wal EXCEPT !.sales = Absent]
    /\ Effect("rename") = [wal EXCEPT !.sales = View.staging, !.staging = Absent]
    /\ Effect("record") = [wal EXCEPT !.version = Latest]
  BY DEF Effect

\* They leave a good log.
LEMMA EffectGood ==
    ASSUME FilesGood, NEW statement \in Statement
    PROVE  GoodLog(Effect(statement))
<1>1. wal \in Log /\ GoodLog(wal) /\ Good(View)
  BY OverGood DEF FilesGood, GoodLog, View
<1>2. /\ wal.sales # None => GoodTable(wal.sales)
      /\ wal.staging # None => GoodTable(wal.staging) /\ wal.staging.def \in {"none", "new"}
  BY <1>1 DEF GoodLog
<1>3. GoodTable(Absent) /\ GoodTable(Fresh) /\ Absent \in Table /\ Fresh \in Table
  BY Made
<1>4. CASE statement = "create_tables"
  <2>1. Effect(statement) = [wal EXCEPT !.sales = Fresh]
    BY <1>4, Effects
  <2> QED BY <1>1, <1>2, <1>3, <2>1 DEF GoodLog, Log
<1>5. CASE statement = "drop_staging"
  <2>1. Effect(statement) = [wal EXCEPT !.staging = Absent] /\ Absent.def = "none"
    BY <1>5, Effects DEF Absent
  <2> QED BY <1>1, <1>2, <1>3, <2>1 DEF GoodLog, Log
<1>6. CASE statement = "create_staging"
  <2>1. Effect(statement) = [wal EXCEPT !.staging = Fresh] /\ Fresh.def = "new"
    BY <1>6, Effects DEF Fresh
  <2> QED BY <1>1, <1>2, <1>3, <2>1 DEF GoodLog, Log
<1>7. CASE statement = "copy"
  <2> DEFINE copy == [Fresh EXCEPT !.rows = View.sales.rows]
  <2>1. Effect(statement) = [wal EXCEPT !.staging = copy]
    BY <1>7, Effects
  <2>2. GoodTable(copy) /\ copy \in Table /\ copy.def = "new"
    BY <1>1, Parts DEF Fresh, GoodTable, Table
  <2> HIDE DEF copy
  <2> QED BY <1>1, <1>2, <2>1, <2>2 DEF GoodLog, Log
<1>8. CASE statement = "drop_sales"
  <2>1. Effect(statement) = [wal EXCEPT !.sales = Absent]
    BY <1>8, Effects
  <2> QED BY <1>1, <1>2, <1>3, <2>1 DEF GoodLog, Log
<1>9. CASE statement = "rename"
  <2>1. Effect(statement) = [wal EXCEPT !.sales = View.staging, !.staging = Absent] /\ Absent.def = "none"
    BY <1>9, Effects DEF Absent
  <2>2. GoodTable(View.staging) /\ View.staging \in Table
    BY <1>1, Parts
  <2> QED BY <1>1, <1>2, <1>3, <2>1, <2>2 DEF GoodLog, Log
<1>10. CASE statement = "record"
  <2>1. Effect(statement) = [wal EXCEPT !.version = Latest] /\ Latest \in Broken .. Latest + 1
    BY <1>10, Effects DEF Latest, Broken
  <2> QED BY <1>1, <1>2, <2>1 DEF GoodLog, Log
<1> QED
  BY <1>4, <1>5, <1>6, <1>7, <1>8, <1>9, <1>10 DEF Statement

-------------------------------------------------------------------------------
\* Files, backups and phases stay good

\* The facts of PhasesGood, each of its own.
LEMMA PhaseFacts ==
    ASSUME PhasesGood
    PROVE  /\ made \in 0 .. MaxBackups
           /\ phase \in {"off", "upgrade", "open", "copy", "check", "back"}
           /\ outcome \in {None, "restored", "undone", "failed"}
           /\ swapped \in {"no", "yes", "mixed"}
           /\ sold \in SUBSET Sales
           /\ phase = "upgrade" <=> todo # <<>>
           /\ phase = "upgrade" => todo \in {Create, Rebuild, Rebuild2, Rebuild3, Rebuild4, Rebuild5, Rebuild6}
  BY DEF PhasesGood

\* A launch opens what a reader sees, or the header of a file of no bytes.
LEMMA LaunchOpens ==
    ASSUME FilesGood, Launch
    PROVE  /\ FilesGood' /\ Good(Opened) /\ View' = Opened /\ main' # Zero
           /\ Whole(Opened) /\ Opened.version <= Latest
<1>1. /\ main' = IF main = Zero THEN Blank ELSE main
      /\ wal' = IF main = Zero THEN NoLog ELSE wal
      /\ Whole(Opened) /\ Opened.version <= Latest
  BY DEF Launch
<1>2. Good(Blank) /\ GoodLog(NoLog) /\ Blank # Zero
  BY Made
<1>3. CASE main = Zero
  <2>1. Over(NoLog, Blank) = Blank
    BY <1>2, OverNothing DEF Good
  <2> QED BY <1>1, <1>2, <1>3, <2>1 DEF FilesGood, View, Opened
<1>4. CASE main # Zero
  <2>1. Good(View)
    BY OverGood DEF FilesGood, View
  <2> QED BY <1>1, <1>4, <2>1 DEF FilesGood, View, Opened
<1> QED
  BY <1>3, <1>4

\* While a file is copied it is good wherever that stops.
LEMMA WrittenGood ==
    ASSUME FilesGood, NEW content, Good(content), NEW file \in Written(content)
    PROVE  Good(file)
  BY Made DEF Written, FilesGood

\* No step spoils files, backups or phases.
LEMMA TypesInductive ==
    ASSUME TInv, Next
    PROVE  TInv'
<1>1. /\ Good(main) /\ GoodLog(wal) /\ Good(View) /\ wal \in Log
      /\ made \in 0 .. MaxBackups /\ made \in Nat /\ MaxBackups \in Nat
  BY OverGood, VaultBounds DEF TInv, FilesGood, PhasesGood, View, GoodLog
<1>2. FilesGood /\ BackupsGood /\ PhasesGood
  BY DEF TInv
<1>3. ASSUME Folder(backups', made') PROVE BackupsGood'
  BY <1>3 DEF Folder, BackupsGood
<1>4. ASSUME UNCHANGED <<backups, made>> PROVE BackupsGood'
  BY <1>2, <1>4 DEF BackupsGood
<1>5. CASE Launch
  <2>1. FilesGood' /\ Good(Opened)
    BY <1>2, <1>5, LaunchOpens
  <2>2. BackupsGood' /\ made' \in 0 .. MaxBackups
    <3>1. CASE UNCHANGED <<backups, made>>
      BY <1>1, <1>4, <3>1
    <3>2. CASE made < MaxBackups /\ backups' = WithBackup(Opened) /\ made' = made + 1
      BY <1>1, <1>2, <1>3, <2>1, <3>2, FolderAdded
    <3> QED BY <1>5, <3>1, <3>2 DEF Launch
  <2>3. /\ phase = "off" /\ outcome' = None /\ sold' = sold
        /\ swapped' = IF swapped = "mixed" THEN "mixed" ELSE "no"
        /\ \/ phase' = "open" /\ todo' = todo
           \/ phase' = phase /\ todo' = todo
           \/ phase' = "upgrade" /\ todo' = Statements(Opened)
    BY <1>5 DEF Launch
  <2>4. todo = <<>>
    BY <1>2, <2>3, PhaseFacts
  <2>5. Statements(Opened) \in {Create, Rebuild, Rebuild6} /\ Statements(Opened) # <<>>
    BY Programs DEF Statements, Create, Rebuild6
  <2>6. PhasesGood'
    <3>1. phase' \in {"off", "open", "upgrade"} /\ ~ Restoring'
      BY <2>3 DEF Restoring
    <3>2. phase' = "upgrade" <=> todo' # <<>>
      BY <2>3, <2>4, <2>5
    <3>3. phase' = "upgrade" => todo' \in {Create, Rebuild, Rebuild2, Rebuild3, Rebuild4, Rebuild5, Rebuild6}
      BY <2>3, <2>4, <2>5, <3>2
    <3>4. swapped' \in {"no", "yes", "mixed"} /\ sold' \in SUBSET Sales
      BY <1>2, <2>3, PhaseFacts
    <3> QED BY <2>2, <2>3, <3>1, <3>2, <3>3, <3>4 DEF PhasesGood
  <2> QED BY <2>1, <2>2, <2>6 DEF TInv
<1>6. CASE Upgrade
  <2>1. phase = "upgrade" /\ todo \in {Create, Rebuild, Rebuild2, Rebuild3, Rebuild4, Rebuild5, Rebuild6}
    BY <1>2, <1>6, PhaseFacts DEF Upgrade
  <2>2. /\ Head(todo) \in Statement
        /\ Tail(todo) \in {<<>>, Rebuild2, Rebuild3, Rebuild4, Rebuild5, Rebuild6}
    BY <2>1, Programs DEF Statement
  <2>3. /\ UNCHANGED <<main, backups, made, outcome, swapped, sold>>
        /\ \/ wal' = wal /\ phase' = "off" /\ todo' = <<>>
           \/ /\ wal' = Effect(Head(todo)) /\ todo' = Tail(todo)
              /\ phase' = IF todo' = <<>> THEN "open" ELSE phase
    BY <1>6 DEF Upgrade, files, restore
  <2>4. FilesGood'
    BY <1>2, <2>2, <2>3, EffectGood DEF FilesGood
  <2>5. PhasesGood'
    <3>1. phase' \in {"off", "open", "upgrade"} /\ ~ Restoring'
      BY <2>1, <2>3 DEF Restoring
    <3>2. phase' = "upgrade" <=> todo' # <<>>
      BY <2>1, <2>3
    <3>3. phase' = "upgrade" => todo' \in {Create, Rebuild, Rebuild2, Rebuild3, Rebuild4, Rebuild5, Rebuild6}
      BY <2>2, <2>3, <3>2
    <3>4. /\ swapped' \in {"no", "yes", "mixed"} /\ sold' \in SUBSET Sales
          /\ made' \in 0 .. MaxBackups /\ outcome' \in {None, "restored", "undone", "failed"}
      BY <1>2, <2>3, PhaseFacts
    <3> QED BY <3>1, <3>2, <3>3, <3>4 DEF PhasesGood
  <2> QED BY <1>4, <2>3, <2>4, <2>5 DEF TInv
<1>7. ASSUME UNCHANGED <<backups, made, phase, todo, outcome, chosen, safety>>,
             swapped' \in {"no", "yes", "mixed"}, sold' \in SUBSET Sales, FilesGood'
      PROVE  TInv'
  <2>1. Ids' = Ids /\ \A id : WithId(id)' = WithId(id)
    BY <1>7 DEF Ids, WithId
  <2>2. PhasesGood'
    BY <1>2, <1>7, <2>1 DEF PhasesGood, Restoring, Whole
  <2> QED BY <1>4, <1>7, <2>2 DEF TInv
<1>8. ASSUME NEW s \in Sales, Sell(s) PROVE TInv'
  <2> DEFINE more == [View.sales EXCEPT !.rows = @ \cup {s}]
             queue == View.queue \cup {s}
  <2>1. wal' = [wal EXCEPT !.sales = more, !.queue = queue] /\ Sellable
    BY <1>8 DEF Sell
  <2>2. GoodTable(more) /\ more \in Table /\ queue \in SUBSET Sales
    BY <1>1, <2>1, Parts DEF GoodTable, Table, Sellable, HasSales
  <2> HIDE DEF more, queue
  <2>3. GoodLog(wal')
    BY <1>1, <2>1, <2>2 DEF GoodLog, Log
  <2>4. UNCHANGED <<main, backups, made, phase, todo, outcome, chosen, safety, swapped>>
        /\ sold' = sold \cup {s}
    BY <1>8 DEF Sell, restore
  <2> QED BY <1>1, <1>2, <1>7, <2>3, <2>4, PhaseFacts DEF FilesGood
<1>9. CASE Sync
  <2>1. PICK s \in View.queue : wal' = [wal EXCEPT !.queue = View.queue \ {s}]
    BY <1>9 DEF Sync
  <2>2. View.queue \ {s} \in SUBSET Sales
    BY <1>1, Parts
  <2>3. GoodLog(wal')
    BY <1>1, <2>1, <2>2 DEF GoodLog, Log
  <2>4. UNCHANGED <<main, backups, made, phase, todo, outcome, chosen, safety, swapped, sold>>
    BY <1>9 DEF Sync, restore
  <2> QED BY <1>1, <1>2, <1>7, <2>3, <2>4, PhaseFacts DEF FilesGood
<1>10. CASE Checkpoint
  <2>1. /\ main' = View /\ wal' = NoLog
        /\ UNCHANGED <<backups, made, phase, todo, outcome, chosen, safety, swapped, sold>>
    BY <1>10 DEF Checkpoint, restore
  <2> QED BY <1>1, <1>2, <1>7, <2>1, Made, PhaseFacts DEF FilesGood
<1>11. CASE Age
  <2>1. /\ backups' = {[b EXCEPT !.old = TRUE] : b \in backups}
        /\ UNCHANGED <<main, wal, made, phase, todo, outcome, swapped, sold>> /\ phase = "open"
    BY <1>11 DEF Age, restore
  <2> DEFINE Older(b) == [b EXCEPT !.old = TRUE]
  <2>2. \A b \in backups : /\ Older(b) \in Backup /\ Older(b).id = b.id
                           /\ Older(b).content = b.content
    BY <1>2 DEF BackupsGood, Backup
  <2>3. IsFiniteSet(backups')
    <3> DEFINE f == [b \in backups |-> Older(b)]
    <3>1. f \in Surjection(backups, backups')
      BY <2>1 DEF Surjection
    <3>2. IsFiniteSet(backups)
      BY <1>2 DEF BackupsGood
    <3> HIDE DEF f
    <3> QED BY <3>1, <3>2, FS_Surjection
  <2>4. \A a \in backups' : \E b \in backups : a = Older(b)
    BY <2>1
  <2> HIDE DEF Older
  <2>5. backups' \subseteq Backup
    BY <2>2, <2>4
  <2>6. \A b \in backups' : Good(b.content) /\ b.id <= made'
    BY <1>2, <2>1, <2>2, <2>4 DEF BackupsGood
  <2>7. \A a, b \in backups' : a.id = b.id => a = b
    <3> SUFFICES ASSUME NEW a \in backups', NEW b \in backups', a.id = b.id PROVE a = b
      OBVIOUS
    <3>1. PICK c \in backups : a = Older(c)
      BY <2>4
    <3>2. PICK d \in backups : b = Older(d)
      BY <2>4
    <3> QED BY <1>2, <2>2, <3>1, <3>2 DEF BackupsGood
  <2>8. PhasesGood'
    BY <1>2, <2>1 DEF PhasesGood, Restoring
  <2> QED BY <1>2, <1>3, <2>1, <2>3, <2>5, <2>6, <2>7, <2>8 DEF TInv, FilesGood, Folder
<1>12. CASE BackUp
  <2>1. /\ made < MaxBackups /\ backups' = Purged(WithBackup(View)) /\ made' = made + 1
        /\ phase = "open"
        /\ UNCHANGED <<main, wal, phase, todo, outcome, swapped, sold>>
    BY <1>12 DEF BackUp, Snapshot
  <2>2. Purged(WithBackup(View)) \subseteq WithBackup(View)
    BY DEF Purged
  <2>3. Folder(backups', made')
    BY <1>1, <1>2, <2>1, <2>2, FolderAdded
  <2>4. PhasesGood'
    BY <1>1, <1>2, <2>1 DEF PhasesGood, Restoring
  <2> QED BY <1>2, <1>3, <2>1, <2>3, <2>4 DEF TInv, FilesGood
<1>13. ASSUME NEW id \in listed, Restore(id) PROVE TInv'
  <2>1. /\ id \in Ids /\ made < MaxBackups /\ Whole(WithId(id).content) /\ made' = made + 1
        /\ phase = "open" /\ outcome' = None
        /\ UNCHANGED <<main, wal, todo, swapped, sold>>
    BY <1>13 DEF Restore
  <2>2. CASE /\ Whole(View) /\ backups' = Purged(WithBackup(View))
             /\ chosen' = id /\ safety' = made + 1 /\ phase' = "copy"
    <3> DEFINE new == [id |-> made + 1, content |-> View, old |-> FALSE]
    <3>1. Purged(WithBackup(View)) \subseteq WithBackup(View)
      BY DEF Purged
    <3>2. Folder(backups', made')
      BY <1>1, <1>2, <2>1, <2>2, <3>1, FolderAdded
    <3>3. new \in backups' /\ new.id = made + 1 /\ new.content = View
      BY <1>1, <1>2, <2>2, NewestIsKept
    <3> HIDE DEF new
    <3>4. safety' \in Ids' /\ WithId(safety)' = new
      <4>1. safety' = new.id
        BY <2>2, <3>3
      <4>2. (CHOOSE b \in backups' : b.id = new.id) = new
        BY <3>2, <3>3, OneOfThem DEF Folder
      <4> QED BY <3>3, <4>1, <4>2 DEF Ids, WithId
    <3>5. chosen' \in Ids' => Whole(WithId(chosen)'.content)
      <4> SUFFICES ASSUME id \in Ids' PROVE Whole((CHOOSE b \in backups' : b.id = id).content)
        BY <2>2 DEF WithId
      <4>1. PICK b \in backups' : b.id = id
        BY DEF Ids
      <4>2. (CHOOSE a \in backups' : a.id = id) = b
        BY <3>2, <4>1, OneOfThem DEF Folder
      <4>3. WithId(id) \in backups /\ WithId(id).id = id
        BY <1>2, <2>1, NumberedBackup
      <4>4. b = WithId(id)
        <5>1. WithId(id) \in WithBackup(View) /\ b \in WithBackup(View)
          BY <2>2, <3>1, <4>3 DEF WithBackup
        <5>2. Folder(WithBackup(View), made + 1)
          BY <1>1, <1>2, <2>1, FolderAdded
        <5> QED BY <4>1, <4>3, <5>1, <5>2 DEF Folder
      <4> QED BY <2>1, <4>2, <4>4
    <3>6. PhasesGood'
      <4>1. made' \in 0 .. MaxBackups /\ todo' = <<>>
        BY <1>1, <1>2, <2>1, PhaseFacts
      <4>2. /\ outcome' = None /\ safety' \in Ids' /\ Whole(WithId(safety)'.content)
            /\ chosen' \in Ids' => Whole(WithId(chosen)'.content)
        BY <2>1, <2>2, <3>3, <3>4, <3>5
      <4>3. swapped' \in {"no", "yes", "mixed"} /\ sold' \in SUBSET Sales
        BY <1>2, <2>1, PhaseFacts
      <4>4. Whole(WithId(safety).content)' = Whole(WithId(safety)'.content)
        BY DEF Whole
      <4>5. Whole(WithId(chosen).content)' = Whole(WithId(chosen)'.content)
        BY DEF Whole
      <4> QED BY <2>1, <2>2, <4>1, <4>2, <4>3, <4>4, <4>5 DEF PhasesGood
    <3> QED BY <1>2, <1>3, <2>1, <3>2, <3>6 DEF TInv, FilesGood
  <2>3. CASE backups' = WithBackup(View) /\ UNCHANGED <<chosen, safety, phase>>
    <3>1. Folder(backups', made')
      BY <1>1, <1>2, <2>1, <2>3, FolderAdded
    <3>2. PhasesGood'
      BY <1>1, <1>2, <2>1, <2>3 DEF PhasesGood, Restoring
    <3> QED BY <1>2, <1>3, <2>1, <3>1, <3>2 DEF TInv, FilesGood
  <2> QED BY <1>13, <2>2, <2>3 DEF Restore, Snapshot
<1>14. ASSUME UNCHANGED <<backups, made, todo, chosen, safety, sold>>, phase # "upgrade",
              phase' \in {"off", "open", "copy", "check", "back"},
              Restoring' => Restoring /\ outcome' = outcome,
              outcome' \in {None, "restored", "undone", "failed"},
              swapped' \in {"no", "yes", "mixed"}, FilesGood'
       PROVE  TInv'
  <2>1. Ids' = Ids /\ \A id : WithId(id)' = WithId(id)
    BY <1>14 DEF Ids, WithId
  <2>2. PhasesGood'
    BY <1>2, <1>14, <2>1 DEF PhasesGood, Restoring, Whole
  <2> QED BY <1>4, <1>14, <2>2 DEF TInv
<1>15. Swap \in {"no", "yes", "mixed"}
  BY DEF Swap
<1>16. CASE CopyBackup
  <2>1. /\ UNCHANGED <<wal, backups, made, todo, chosen, safety, outcome, sold>>
        /\ phase = "copy" /\ phase' \in {"check", "back"} /\ swapped' \in {Swap, swapped}
        /\ \/ main' = main \/ main' \in {Zero, Torn}
           \/ chosen \in Ids /\ main' = WithId(chosen).content
    BY <1>16 DEF CopyBackup, restore
  <2>2. FilesGood'
    BY <1>2, <2>1, Made, NumberedBackup DEF FilesGood
  <2> QED BY <1>2, <1>14, <1>15, <2>1, <2>2, PhaseFacts DEF Restoring
<1>17. CASE FinishRestore \/ FailAudit
  <2>1. /\ UNCHANGED <<main, wal, backups, made, todo, chosen, safety, swapped, sold>>
        /\ phase = "check"
        /\ \/ phase' = "open" /\ outcome' = "restored"
           \/ phase' = "back" /\ outcome' = outcome
    BY <1>17 DEF FinishRestore, FailAudit, files, restore
  <2>2. FilesGood'
    BY <1>2, <2>1 DEF FilesGood
  <2> QED BY <1>2, <1>14, <2>1, <2>2, PhaseFacts DEF Restoring
<1>18. CASE CopyBack
  <2>1. /\ UNCHANGED <<wal, backups, made, todo, chosen, safety, sold>>
        /\ phase = "back" /\ phase' = "open" /\ swapped' = Swap
        /\ outcome' \in {"undone", "failed"}
        /\ main' \in {main, Zero, Torn} \/ main' = WithId(safety).content
    BY <1>18 DEF CopyBack
  <2>2. safety \in Ids
    BY <1>2, <2>1 DEF PhasesGood, Restoring
  <2>3. FilesGood'
    BY <1>2, <2>1, <2>2, Made, NumberedBackup DEF FilesGood
  <2> QED BY <1>14, <1>15, <2>1, <2>3 DEF Restoring
<1>19. CASE Kill
  <2>1. /\ UNCHANGED <<wal, backups, made, chosen, safety, outcome, sold>>
        /\ phase' = "off" /\ todo' = <<>> /\ swapped' \in {Swap, swapped}
    BY <1>19 DEF Kill, restore
  <2>2. FilesGood'
    <3>1. CASE phase = "copy" /\ chosen \in Ids /\ main' \in Written(WithId(chosen).content)
      BY <1>2, <2>1, <3>1, NumberedBackup, WrittenGood DEF FilesGood
    <3>2. CASE phase = "back" /\ main' \in Written(WithId(safety).content)
      <4>1. safety \in Ids
        BY <1>2, <3>2 DEF PhasesGood, Restoring
      <4> QED BY <1>2, <2>1, <3>2, <4>1, NumberedBackup, WrittenGood DEF FilesGood
    <3>3. CASE main' = main
      BY <1>2, <2>1, <3>3 DEF FilesGood
    <3> QED BY <1>19, <3>1, <3>2, <3>3 DEF Kill
  <2>3. PhasesGood'
    BY <1>2, <1>15, <2>1, PhaseFacts DEF PhasesGood, Restoring
  <2> QED BY <1>4, <2>1, <2>2, <2>3 DEF TInv
<1> QED
  BY <1>5, <1>6, <1>8, <1>9, <1>10, <1>11, <1>12, <1>13, <1>16, <1>17, <1>18, <1>19 DEF Next

\* What the program starts from.
LEMMA InitFacts ==
    ASSUME Init
    PROVE  /\ Good(main) /\ wal = NoLog /\ View = main
           /\ main.staging = Absent /\ (main.version = Latest => main.sales.def = "new")
           /\ backups = {} /\ made = 0 /\ phase = "off" /\ todo = <<>>
           /\ outcome = None /\ swapped = "no" /\ sold \in SUBSET Sales
<1>1. PICK version \in Found, before \in SUBSET Sales :
        /\ version = 0 => before = {}
        /\ main = [Installed(version) EXCEPT !.sales.rows = before]
        /\ sold = before
  BY DEF Init
<1>2. version \in 0 .. Latest + 1
  BY VaultBounds
<1>3. GoodTable(Absent) /\ Absent \in Table /\ Absent.def = "none"
  BY Made DEF Absent
<1>4. ASSUME version = 0
      PROVE  Good(main) /\ main.staging = Absent /\ (main.version = Latest => main.sales.def = "new")
  <2>1. Installed(version) = Zero /\ before = {}
    BY <1>1, <1>4 DEF Installed
  <2>2. main.sales = [def |-> "zero", rows |-> {}] /\ main.staging = Absent
        /\ main.queue = {} /\ main.version = 0 /\ main = Zero
    BY <1>1, <2>1 DEF Zero
  <2>3. Good(main)
    BY <2>2, Made
  <2> QED BY <1>1, <2>2, <2>3 DEF Latest
<1>5. ASSUME version # 0
      PROVE  Good(main) /\ main.staging = Absent /\ (main.version = Latest => main.sales.def = "new")
  <2> DEFINE table == [def |-> IF version < Latest THEN "old" ELSE "new", rows |-> before]
             state == IF version < Latest THEN "old" ELSE "new"
  <2>1. /\ main.sales = table /\ main.staging = Absent
        /\ main.queue = {} /\ main.version = version
        /\ main = [sales |-> table, staging |-> Absent, queue |-> {}, version |-> version]
    BY <1>1, <1>5 DEF Installed, Zero
  <2>2. table.def = state /\ table.rows = before /\ state \in {"old", "new"}
        /\ table = [def |-> state, rows |-> before]
    OBVIOUS
  <2>3. version = Latest => state = "new"
    BY DEF Latest
  <2> HIDE DEF table, state
  <2>4. GoodTable(table) /\ table \in Table
    BY <2>2 DEF GoodTable, Table
  <2>5. main \in Content
    BY <1>2, <1>3, <2>1, <2>4 DEF Content, Broken, Latest
  <2>6. Good(main)
    BY <1>3, <2>1, <2>4, <2>5 DEF Good
  <2> QED BY <1>1, <2>1, <2>2, <2>3, <2>6
<1>6. Good(main) /\ main.staging = Absent /\ (main.version = Latest => main.sales.def = "new")
  BY <1>4, <1>5
<1>7. wal = NoLog
  BY DEF Init
<1>8. View = main
  BY <1>6, <1>7, OverNothing DEF View, Good
<1> QED
  BY <1>1, <1>6, <1>7, <1>8 DEF Init

\* The types hold at the start.
LEMMA TypesInit ==
    ASSUME Init
    PROVE  TInv
<1>1. FilesGood
  BY InitFacts, Made DEF FilesGood
<1>2. BackupsGood
  <2>1. IsFiniteSet({})
    BY FS_EmptySet
  <2> QED BY <2>1, InitFacts DEF BackupsGood
<1>3. PhasesGood
  BY InitFacts, VaultBounds DEF PhasesGood, Restoring
<1> QED
  BY <1>1, <1>2, <1>3 DEF TInv

\* And they are about the variables alone.
LEMMA TypesStutter ==
    ASSUME TInv, UNCHANGED vars
    PROVE  TInv'
<1>1. /\ main' = main /\ wal' = wal /\ backups' = backups /\ made' = made /\ phase' = phase
      /\ todo' = todo /\ chosen' = chosen /\ safety' = safety /\ outcome' = outcome
      /\ swapped' = swapped /\ sold' = sold
  BY DEF vars, files, restore
<1>2. FilesGood' /\ BackupsGood'
  BY <1>1 DEF TInv, FilesGood, BackupsGood
<1>3. Ids' = Ids /\ \A id : WithId(id)' = WithId(id)
  BY <1>1 DEF Ids, WithId
<1>4. PhasesGood'
  BY <1>1, <1>3 DEF TInv, PhasesGood, Restoring, Whole
<1> QED
  BY <1>2, <1>4 DEF TInv

\* Files, backups and phases are always good.
THEOREM VaultTypes == Spec => []TInv
<1>1. Init => TInv
  BY TypesInit
<1>2. TInv /\ [Next]_vars => TInv'
  BY TypesInductive, TypesStutter
<1> QED
  BY <1>1, <1>2, PTL DEF Spec

\* The types of the vault: what a reader sees is a whole content of the file whatever log
\* lies over it, and a restore has the backup it may have to go back to until it is over
\* (backup_service.py:195, 353).
THEOREM VaultTypeCorrect == Spec => []TypeOK
<1>1. TInv => TypeOK
  <2> SUFFICES ASSUME TInv PROVE TypeOK
    OBVIOUS
  <2>1. Good(main) /\ Good(View)
    BY OverGood DEF TInv, FilesGood, View
  <2>2. main \in Content /\ View \in Content
    BY <2>1, Parts
  <2>3. \A table \in {View.sales, View.staging} :
           table.def \in {"zero", "none", "torn"} => table.rows = {}
    BY <2>1, Parts DEF GoodTable
  <2>4. backups \subseteq Backup
    BY DEF TInv, BackupsGood
  <2>5. phase \in {"copy", "check", "back"} => safety \in Ids
    BY DEF TInv, PhasesGood, Restoring
  <2> QED BY <2>2, <2>3, <2>4, <2>5, PhaseFacts DEF TInv, TypeOK
<1> QED
  BY <1>1, VaultTypes, PTL

-------------------------------------------------------------------------------
\* What a reader sees, step by step

\* A sale, and what the worker and a checkpoint do, leave the schema alone.
SameSchema ==
    /\ View'.sales.def = View.sales.def
    /\ View'.staging = View.staging
    /\ View'.version = View.version

\* Nothing is seen to change while neither file does.
LEMMA ViewStays ==
    ASSUME main' = main, wal' = wal
    PROVE  View' = View
  BY DEF View, Over

\* A log with a table in it shows that table.
LEMMA ViewOf ==
    ASSUME TInv, main' = main
    PROVE  /\ View'.sales = IF wal'.sales = None THEN main.sales ELSE wal'.sales
           /\ View'.staging = IF wal'.staging = None THEN main.staging ELSE wal'.staging
           /\ View'.version = IF wal'.version = None THEN main.version ELSE wal'.version
           /\ View.sales = IF wal.sales = None THEN main.sales ELSE wal.sales
           /\ View.staging = IF wal.staging = None THEN main.staging ELSE wal.staging
           /\ View.version = IF wal.version = None THEN main.version ELSE wal.version
           /\ wal \in Log /\ Good(View) /\ Good(main)
           /\ Absent # None /\ Fresh # None /\ Latest # None
           /\ View.sales \in Table /\ View.sales # None /\ View.staging # None
<1>1. /\ View.sales = IF wal.sales = None THEN main.sales ELSE wal.sales
      /\ View.staging = IF wal.staging = None THEN main.staging ELSE wal.staging
      /\ View.version = IF wal.version = None THEN main.version ELSE wal.version
  BY Seen DEF View
<1>2. /\ View'.sales = IF wal'.sales = None THEN main'.sales ELSE wal'.sales
      /\ View'.staging = IF wal'.staging = None THEN main'.staging ELSE wal'.staging
      /\ View'.version = IF wal'.version = None THEN main'.version ELSE wal'.version
  BY Seen DEF View
<1>3. wal \in Log /\ Good(View) /\ Good(main)
  BY OverGood DEF TInv, FilesGood, View, GoodLog
<1>4. View.sales \in Table /\ View.staging \in Table
  BY <1>3, Parts
<1>5. Absent # None /\ Fresh # None
  BY Made, VaultBounds
<1>6. Latest # None
  BY VaultBounds DEF Latest
<1> QED
  BY <1>1, <1>2, <1>3, <1>4, <1>5, <1>6, VaultBounds

\* A sale adds itself to the sales that are seen.
LEMMA SellView ==
    ASSUME TInv, NEW s \in Sales, Sell(s)
    PROVE  SameSchema /\ View'.sales.rows = View.sales.rows \cup {s}
<1> DEFINE more == [View.sales EXCEPT !.rows = @ \cup {s}]
           queue == View.queue \cup {s}
<1>1. wal' = [wal EXCEPT !.sales = more, !.queue = queue] /\ main' = main
  BY DEF Sell
<1>2. View.sales \in Table /\ wal \in Log
  BY <1>1, ViewOf
<1>3. more \in Table /\ more.def = View.sales.def /\ more.rows = View.sales.rows \cup {s}
  BY <1>2 DEF Table
<1>4. more # None
  BY <1>3, VaultBounds
<1> HIDE DEF more, queue
<1>5. wal'.sales = more /\ wal'.staging = wal.staging /\ wal'.version = wal.version
  BY <1>1, <1>2 DEF Log
<1>6. View'.sales = more /\ View'.staging = View.staging /\ View'.version = View.version
  BY <1>1, <1>4, <1>5, ViewOf
<1> QED
  BY <1>3, <1>6 DEF SameSchema

\* What the worker marks is not seen in the sales.
LEMMA SyncView ==
    ASSUME TInv, Sync
    PROVE  SameSchema /\ View'.sales = View.sales
<1>1. PICK s \in View.queue : wal' = [wal EXCEPT !.queue = View.queue \ {s}]
  BY DEF Sync
<1>2. main' = main
  BY DEF Sync
<1>3. wal \in Log
  BY <1>2, ViewOf
<1>4. wal'.sales = wal.sales /\ wal'.staging = wal.staging /\ wal'.version = wal.version
  BY <1>1, <1>3 DEF Log
<1>5. View'.sales = View.sales /\ View'.staging = View.staging /\ View'.version = View.version
  BY <1>2, <1>4, ViewOf
<1> QED
  BY <1>5 DEF SameSchema

\* A checkpoint is not seen at all.
LEMMA CheckpointView ==
    ASSUME TInv, Checkpoint
    PROVE  View' = View
<1>1. main' = View /\ wal' = NoLog
  BY DEF Checkpoint
<1>2. View \in Content
  BY OverGood, Parts DEF TInv, FilesGood, View
<1>3. View' = Over(NoLog, View)
  BY <1>1 DEF View
<1> QED
  BY <1>2, <1>3, OverNothing

\* Without a log the file that is written is what is seen.
LEMMA WrittenView ==
    ASSUME wal = NoLog, wal' = wal, main' \in Content
    PROVE  View' = main'
<1>1. View' = Over(NoLog, main')
  BY DEF View
<1> QED
  BY <1>1, OverNothing

\* The statements of an upgrade, as they are seen.
LEMMA EffectViews ==
    ASSUME TInv, main' = main, NEW statement \in Statement, wal' = Effect(statement)
    PROVE  /\ View'.sales = CASE statement = "create_tables" -> Fresh
                              [] statement = "drop_sales" -> Absent
                              [] statement = "rename" -> View.staging
                              [] OTHER -> View.sales
           /\ View'.staging = CASE statement \in {"drop_staging", "rename"} -> Absent
                                [] statement = "create_staging" -> Fresh
                                [] statement = "copy" -> [Fresh EXCEPT !.rows = View.sales.rows]
                                [] OTHER -> View.staging
           /\ View'.version = IF statement = "record" THEN Latest ELSE View.version
<1>1. wal \in Log
  BY ViewOf
<1>2. CASE statement = "create_tables"
  <2>1. wal'.sales = Fresh /\ wal'.staging = wal.staging /\ wal'.version = wal.version
    BY <1>1, <1>2, Effects DEF Log
  <2>2. View'.sales = Fresh /\ View'.staging = View.staging /\ View'.version = View.version
    BY <2>1, ViewOf
  <2> QED BY <1>2, <2>2
<1>3. CASE statement = "drop_staging"
  <2>1. wal'.sales = wal.sales /\ wal'.staging = Absent /\ wal'.version = wal.version
    BY <1>1, <1>3, Effects DEF Log
  <2>2. View'.sales = View.sales /\ View'.staging = Absent /\ View'.version = View.version
    BY <2>1, ViewOf
  <2> QED BY <1>3, <2>2
<1>4. CASE statement = "create_staging"
  <2>1. wal'.sales = wal.sales /\ wal'.staging = Fresh /\ wal'.version = wal.version
    BY <1>1, <1>4, Effects DEF Log
  <2>2. View'.sales = View.sales /\ View'.staging = Fresh /\ View'.version = View.version
    BY <2>1, ViewOf
  <2> QED BY <1>4, <2>2
<1>5. CASE statement = "copy"
  <2> DEFINE copy == [Fresh EXCEPT !.rows = View.sales.rows]
  <2>1. copy \in Table
    BY ViewOf DEF Table, Fresh
  <2>2. copy # None
    BY <2>1, VaultBounds
  <2>3. Effect("copy") = [wal EXCEPT !.staging = copy]
    BY Effects
  <2> HIDE DEF copy
  <2>4. wal'.sales = wal.sales /\ wal'.staging = copy /\ wal'.version = wal.version
    BY <1>1, <1>5, <2>3 DEF Log
  <2>5. View'.sales = View.sales /\ View'.staging = copy /\ View'.version = View.version
    BY <2>2, <2>4, ViewOf
  <2> QED BY <1>5, <2>5 DEF copy
<1>6. CASE statement = "drop_sales"
  <2>1. wal'.sales = Absent /\ wal'.staging = wal.staging /\ wal'.version = wal.version
    BY <1>1, <1>6, Effects DEF Log
  <2>2. View'.sales = Absent /\ View'.staging = View.staging /\ View'.version = View.version
    BY <2>1, ViewOf
  <2> QED BY <1>6, <2>2
<1>7. CASE statement = "rename"
  <2>1. wal'.sales = View.staging /\ wal'.staging = Absent /\ wal'.version = wal.version
    BY <1>1, <1>7, Effects DEF Log
  <2>2. View'.sales = View.staging /\ View'.staging = Absent /\ View'.version = View.version
    BY <2>1, ViewOf
  <2> QED BY <1>7, <2>2
<1>8. CASE statement = "record"
  <2>1. wal'.sales = wal.sales /\ wal'.staging = wal.staging /\ wal'.version = Latest
    BY <1>1, <1>8, Effects DEF Log
  <2>2. View'.sales = View.sales /\ View'.staging = View.staging /\ View'.version = Latest
    BY <2>1, ViewOf
  <2> QED BY <1>8, <2>2
<1> QED
  BY <1>2, <1>3, <1>4, <1>5, <1>6, <1>7, <1>8 DEF Statement

-------------------------------------------------------------------------------
\* The schema

\* The files a copy stops at are no mixtures.
LEMMA Whatever ==
    Consistent(Zero) /\ Consistent(Blank) /\ Consistent(Torn)
<1>1. /\ Zero.sales.def = "zero" /\ Zero.staging = Absent /\ Zero.version = 0
      /\ Blank.sales.def = "none" /\ Blank.staging = Absent /\ Blank.version = 0
      /\ Torn.sales.def = "torn" /\ Torn.staging = Absent /\ Torn.version = Broken
  BY DEF Zero, Blank, Torn, Absent
<1> QED
  BY <1>1 DEF Consistent, Latest, Broken

\* What is seen stays no mixture while the schema does.
LEMMA SameConsistent ==
    ASSUME Consistent(View), SameSchema
    PROVE  Consistent(View)'
  BY DEF Consistent, SameSchema

\* An upgrade starts where its statements can begin.
LEMMA LaunchStage ==
    ASSUME TInv, Launch, phase' = "upgrade"
    PROVE  Stage'
<1>1. /\ View' = Opened /\ Opened.version \in Int /\ Opened.version <= Latest
  BY LaunchOpens, Parts DEF TInv
<1>2. Opened.version # Latest /\ ~ Blocked(Opened) /\ todo' = Statements(Opened)
  BY DEF Launch
<1>3. \/ todo' = Create /\ Opened.version = 0
      \/ todo' = Rebuild /\ Opened.version # 0 /\ Opened.sales.def # "new"
      \/ todo' = Rebuild6 /\ Opened.sales.def = "new"
  BY <1>2 DEF Statements, Create, Rebuild6, NeedsRebuild
<1>4. Opened.version < Latest
  BY <1>1, <1>2 DEF Latest
<1> QED
  BY <1>1, <1>3, <1>4, Distinct DEF Stage

\* Statement by statement a schema is made or rebuilt.
LEMMA UpgradeStage ==
    ASSUME TInv, Consistent(View), Stage, Upgrade, todo' # <<>> \/ phase' = "open"
    PROVE  /\ Consistent(View)' /\ Stage'
           /\ phase' = "open" => View'.version = Latest
<1>1. phase = "upgrade" /\ todo \in {Create, Rebuild, Rebuild2, Rebuild3, Rebuild4, Rebuild5, Rebuild6}
  BY PhaseFacts DEF TInv, Upgrade
<1>2. main' = main /\ wal' = Effect(Head(todo)) /\ todo' = Tail(todo)
      /\ phase' = IF todo' = <<>> THEN "open" ELSE phase
  BY <1>1 DEF Upgrade
<1>3. /\ View.version < Latest /\ View.version \in Int
      /\ todo = Create => View.version = 0
      /\ todo \in {Rebuild, Rebuild2, Rebuild3, Rebuild4, Rebuild5} =>
            View.version # 0 /\ View.sales.def # "new"
      /\ todo \in {Rebuild4, Rebuild5} => View.staging.def = "new"
      /\ todo = Rebuild6 => View.sales.def = "new"
  BY <1>1, <1>2, ViewOf, Parts DEF Stage
<1>4. Fresh.def = "new" /\ Absent.def = "none" /\ [Fresh EXCEPT !.rows = View.sales.rows].def = "new"
  BY DEF Fresh, Absent
<1>5. Latest = 5
  BY DEF Latest
<1>6. /\ View.sales.def = "new" => View.staging = Absent
      /\ View.version = 0 => View.staging = Absent
  BY DEF Consistent
<1>7. ASSUME NEW statement \in Statement, Head(todo) = statement
      PROVE  /\ View'.sales = CASE statement = "create_tables" -> Fresh
                              [] statement = "drop_sales" -> Absent
                              [] statement = "rename" -> View.staging
                              [] OTHER -> View.sales
             /\ View'.staging = CASE statement \in {"drop_staging", "rename"} -> Absent
                                [] statement = "create_staging" -> Fresh
                                [] statement = "copy" -> [Fresh EXCEPT !.rows = View.sales.rows]
                                [] OTHER -> View.staging
             /\ View'.version = IF statement = "record" THEN Latest ELSE View.version
  BY <1>2, <1>7, EffectViews
<1>8. CASE todo = Create
  <2>1. Head(todo) = "create_tables" /\ todo' = Rebuild6 /\ phase' = "upgrade"
    BY <1>1, <1>2, <1>8, Programs
  <2>2. View'.sales = Fresh /\ View'.staging = View.staging /\ View'.version = View.version
    BY <1>7, <2>1 DEF Statement
  <2> QED BY <1>3, <1>4, <1>5, <1>6, <1>8, <2>1, <2>2, Distinct DEF Consistent, Stage
<1>9. CASE todo = Rebuild
  <2>1. Head(todo) = "drop_staging" /\ todo' = Rebuild2 /\ phase' = "upgrade"
    BY <1>1, <1>2, <1>9, Programs
  <2>2. View'.sales = View.sales /\ View'.staging = Absent /\ View'.version = View.version
    BY <1>7, <2>1 DEF Statement
  <2> QED BY <1>3, <1>4, <1>5, <1>9, <2>1, <2>2, Distinct DEF Consistent, Stage
<1>10. CASE todo = Rebuild2
  <2>1. Head(todo) = "create_staging" /\ todo' = Rebuild3 /\ phase' = "upgrade"
    BY <1>1, <1>2, <1>10, Programs
  <2>2. View'.sales = View.sales /\ View'.staging = Fresh /\ View'.version = View.version
    BY <1>7, <2>1 DEF Statement
  <2> QED BY <1>3, <1>4, <1>5, <1>10, <2>1, <2>2, Distinct DEF Consistent, Stage
<1>11. CASE todo = Rebuild3
  <2>1. Head(todo) = "copy" /\ todo' = Rebuild4 /\ phase' = "upgrade"
    BY <1>1, <1>2, <1>11, Programs
  <2>2. View'.sales = View.sales /\ View'.staging.def = "new" /\ View'.version = View.version
    BY <1>4, <1>7, <2>1 DEF Statement
  <2> QED BY <1>3, <1>4, <1>5, <1>11, <2>1, <2>2, Distinct DEF Consistent, Stage
<1>12. CASE todo = Rebuild4
  <2>1. Head(todo) = "drop_sales" /\ todo' = Rebuild5 /\ phase' = "upgrade"
    BY <1>1, <1>2, <1>12, Programs
  <2>2. View'.sales = Absent /\ View'.staging = View.staging /\ View'.version = View.version
    BY <1>7, <2>1 DEF Statement
  <2> QED BY <1>3, <1>4, <1>5, <1>12, <2>1, <2>2, Distinct DEF Consistent, Stage
<1>13. CASE todo = Rebuild5
  <2>1. Head(todo) = "rename" /\ todo' = Rebuild6 /\ phase' = "upgrade"
    BY <1>1, <1>2, <1>13, Programs
  <2>2. View'.sales = View.staging /\ View'.staging = Absent /\ View'.version = View.version
    BY <1>7, <2>1 DEF Statement
  <2> QED BY <1>3, <1>4, <1>5, <1>13, <2>1, <2>2, Distinct DEF Consistent, Stage
<1>14. CASE todo = Rebuild6
  <2>1. Head(todo) = "record" /\ todo' = <<>> /\ phase' = "open"
    BY <1>1, <1>2, <1>14, Programs
  <2>2. View'.sales = View.sales /\ View'.staging = View.staging /\ View'.version = Latest
    BY <1>7, <2>1 DEF Statement
  <2> QED BY <1>3, <1>5, <1>6, <1>14, <2>1, <2>2 DEF Consistent, Stage
<1> QED
  BY <1>1, <1>8, <1>9, <1>10, <1>11, <1>12, <1>13, <1>14

\* A view of files that do not change has the same schema, of course.
LEMMA SameView ==
    ASSUME View' = View PROVE SameSchema
  BY DEF SameSchema

\* A database that was not written over under a log is as an upgrade leaves it.
LEMMA UnmixedInductive ==
    ASSUME TInv, Unmixed, Next
    PROVE  Unmixed'
<1> SUFFICES ASSUME swapped' # "mixed" PROVE Unmixed'
  BY DEF Unmixed
<1>1. ASSUME swapped # "mixed"
      PROVE  /\ Consistent(View) /\ \A b \in backups : Consistent(b.content)
             /\ Stage
             /\ phase \in {"open", "copy"} /\ swapped = "no" => View.version = Latest
             /\ phase = "check" => swapped # "no"
  BY <1>1 DEF Unmixed
<1>2. ASSUME SameSchema, swapped' = swapped, phase \notin {"off", "upgrade"},
             phase' # "upgrade", phase' = "check" => phase = "check",
             phase' \in {"open", "copy"} => \/ phase \in {"open", "copy"}
                                            \/ phase = "check",
             \A b \in backups' : b.content = View \/ \E a \in backups : a.content = b.content
      PROVE  Unmixed'
  <2>1. Consistent(View)' /\ \A b \in backups' : Consistent(b.content)
    BY <1>1, <1>2, SameConsistent
  <2>2. Stage'
    BY <1>2 DEF Stage
  <2>3. phase' \in {"open", "copy"} /\ swapped' = "no" => View'.version = Latest
    BY <1>1, <1>2 DEF SameSchema
  <2>4. phase' = "check" => swapped' # "no"
    BY <1>1, <1>2
  <2> QED BY <2>1, <2>2, <2>3, <2>4 DEF Unmixed
<1>3. ASSUME swapped' = "yes", swapped # "mixed", phase' # "upgrade", backups' = backups,
             Consistent(View)'
      PROVE  Unmixed'
  BY <1>1, <1>3 DEF Unmixed, Stage
<1>4. \A content : \A b \in WithBackup(content) :
         b.content = content \/ \E a \in backups : a.content = b.content
  BY DEF WithBackup
<1>5. ASSUME NEW file \in Content, swapped' = Swap, wal' = wal, main' = file, Consistent(file)
      PROVE  swapped' = "yes" /\ swapped # "mixed" /\ Consistent(View)'
  <2>1. wal = NoLog /\ swapped' = "yes" /\ swapped # "mixed"
    BY <1>5 DEF Swap
  <2>2. View' = file
    BY <1>5, <2>1, WrittenView
  <2> QED BY <1>5, <2>1, <2>2 DEF Consistent
<1>6. /\ Zero \in Content /\ Torn \in Content /\ Consistent(Zero) /\ Consistent(Torn)
      /\ BackupsGood /\ Good(main)
  BY Made, Whatever, Parts DEF TInv, FilesGood
<1>7. CASE Launch
  <2>1. /\ View' = Opened /\ swapped # "mixed"
        /\ swapped' = "no" /\ backups' \in {backups, WithBackup(Opened)}
        /\ phase' \in {"off", "open", "upgrade"}
        /\ phase' = "open" => Opened.version = Latest
    BY <1>7, LaunchOpens DEF Launch, TInv
  <2>2. Consistent(Opened)
    BY <1>1, <2>1, Whatever DEF Opened
  <2>3. \A b \in backups' : Consistent(b.content)
    BY <1>1, <1>4, <2>1, <2>2
  <2>4. Stage'
    BY <1>7, LaunchStage DEF Stage
  <2>5. Consistent(View)'
    BY <2>1, <2>2 DEF Consistent
  <2> QED BY <2>1, <2>3, <2>4, <2>5 DEF Unmixed
<1>8. CASE Upgrade
  <2>1. swapped' = swapped /\ backups' = backups /\ phase = "upgrade"
    BY <1>8 DEF Upgrade, files
  <2>2. CASE phase' = "off"
    <3>1. View' = View
      BY <1>8, <2>1, <2>2, ViewStays DEF Upgrade, files
    <3>2. Consistent(View)'
      BY <1>1, <2>1, <3>1 DEF Consistent
    <3> QED BY <1>1, <2>1, <2>2, <3>2 DEF Unmixed, Stage
  <2>3. CASE phase' # "off"
    <3>1. phase' = IF todo' = <<>> THEN "open" ELSE phase
      BY <1>8, <2>3 DEF Upgrade
    <3>2. /\ Consistent(View)' /\ Stage' /\ (phase' = "open" => View'.version = Latest)
          /\ phase' \in {"open", "upgrade"}
      BY <1>1, <1>8, <2>1, <3>1, UpgradeStage
    <3> QED BY <1>1, <2>1, <3>2 DEF Unmixed
  <2> QED BY <2>2, <2>3
<1>9. ASSUME NEW s \in Sales, Sell(s) PROVE Unmixed'
  <2>1. /\ swapped' = swapped /\ phase = "open" /\ phase' = phase /\ backups' = backups
    BY <1>9 DEF Sell
  <2> QED BY <1>2, <1>9, <2>1, SellView
<1>10. CASE Sync
  <2>1. /\ swapped' = swapped /\ phase \notin {"off", "upgrade"} /\ phase' = phase
        /\ backups' = backups /\ phase \in {"off", "upgrade", "open", "copy", "check", "back"}
    BY <1>10, PhaseFacts DEF Sync, TInv
  <2> QED BY <1>2, <1>10, <2>1, SyncView
<1>11. CASE Checkpoint
  <2>1. /\ View' = View /\ swapped' = swapped /\ backups' = backups /\ phase' = phase /\ todo' = todo
    BY <1>11, CheckpointView DEF Checkpoint
  <2> QED BY <1>1, <2>1 DEF Unmixed, Consistent, Stage
<1>12. CASE Age
  <2>1. /\ backups' = {[b EXCEPT !.old = TRUE] : b \in backups} /\ phase = "open" /\ phase' = phase
        /\ swapped' = swapped /\ main' = main /\ wal' = wal
    BY <1>12 DEF Age
  <2>2. \A b \in backups : [b EXCEPT !.old = TRUE].content = b.content
    BY <1>6 DEF BackupsGood, Backup
  <2>3. \A b \in backups' : \E a \in backups : a.content = b.content
    BY <2>1, <2>2
  <2>4. SameSchema
    BY <2>1, ViewStays, SameView
  <2> QED BY <1>2, <2>1, <2>3, <2>4
<1>13. CASE BackUp
  <2>1. /\ backups' \subseteq WithBackup(View) /\ phase = "open" /\ phase' = phase
        /\ swapped' = swapped /\ main' = main /\ wal' = wal
    BY <1>13 DEF BackUp, Snapshot, Purged
  <2>2. SameSchema
    BY <2>1, ViewStays, SameView
  <2> QED BY <1>2, <1>4, <2>1, <2>2
<1>14. ASSUME NEW id \in listed, Restore(id) PROVE Unmixed'
  <2>1. /\ backups' \subseteq WithBackup(View) /\ phase = "open" /\ phase' \in {"open", "copy"}
        /\ swapped' = swapped /\ main' = main /\ wal' = wal
    BY <1>14 DEF Restore, Snapshot, Purged
  <2>2. SameSchema
    BY <2>1, ViewStays, SameView
  <2> QED BY <1>2, <1>4, <2>1, <2>2
<1>15. CASE CopyBackup
  <2>1. /\ phase = "copy" /\ phase' \in {"check", "back"} /\ wal' = wal /\ backups' = backups
    BY <1>15 DEF CopyBackup
  <2>2. CASE main' = main /\ swapped' = swapped /\ phase' = "back"
    <3>1. SameSchema
      BY <2>1, <2>2, ViewStays, SameView
    <3> QED BY <1>2, <2>1, <2>2, <3>1
  <2>3. CASE swapped' = Swap /\ main' \in {Zero, Torn}
    BY <1>3, <1>5, <1>6, <2>1, <2>3
  <2>4. CASE swapped' = Swap /\ chosen \in Ids /\ main' = WithId(chosen).content
    <3>1. WithId(chosen) \in backups /\ WithId(chosen).content \in Content
      BY <1>6, <2>4, NumberedBackup, Parts
    <3>2. Consistent(WithId(chosen).content)
      BY <1>1, <2>4, <3>1 DEF Swap
    <3> QED BY <1>3, <1>5, <2>1, <2>4, <3>1, <3>2
  <2> QED BY <1>15, <2>2, <2>3, <2>4 DEF CopyBackup
<1>16. CASE FinishRestore \/ FailAudit
  <2>1. /\ phase = "check" /\ phase' \in {"open", "back"} /\ main' = main /\ wal' = wal
        /\ backups' = backups /\ swapped' = swapped
    BY <1>16 DEF FinishRestore, FailAudit, files
  <2>2. SameSchema
    BY <2>1, ViewStays, SameView
  <2> QED BY <1>2, <2>1, <2>2
<1>17. CASE CopyBack
  <2>1. /\ phase = "back" /\ phase' = "open" /\ wal' = wal /\ backups' = backups /\ swapped' = Swap
        /\ main' \in {main, Zero, Torn} \/ main' = WithId(safety).content
    BY <1>17 DEF CopyBack
  <2>2. swapped # "mixed" /\ wal = NoLog
    BY <2>1 DEF Swap
  <2>3. main \in Content /\ View = main
    BY <1>6, <2>2, Parts, OverNothing DEF View
  <2>4. safety \in Ids
    BY <2>1 DEF TInv, PhasesGood, Restoring
  <2>5. WithId(safety).content \in Content /\ Consistent(WithId(safety).content)
    BY <1>1, <1>6, <2>2, <2>4, NumberedBackup, Parts
  <2>6. main' \in Content /\ Consistent(main')
    BY <1>1, <1>6, <2>1, <2>2, <2>3, <2>5
  <2> QED BY <1>3, <1>5, <2>1, <2>6
<1>18. CASE Kill
  <2>1. /\ phase' = "off" /\ wal' = wal /\ backups' = backups
        /\ swapped' = IF main' # main THEN Swap ELSE swapped
    BY <1>18 DEF Kill
  <2>2. CASE main' = main
    <3>1. View' = View
      BY <2>1, <2>2, ViewStays
    <3> QED BY <1>1, <2>1, <2>2, <3>1 DEF Unmixed, Stage, Consistent
  <2>3. CASE main' # main
    <3>1. swapped' = Swap /\ swapped # "mixed"
      BY <2>1, <2>3 DEF Swap
    <3>2. PICK id \in Ids : main' \in Written(WithId(id).content)
      BY <1>18, <2>3 DEF Kill, TInv, PhasesGood, Restoring
    <3>3. WithId(id).content \in Content /\ Consistent(WithId(id).content)
      BY <1>1, <1>6, <3>1, NumberedBackup, Parts
    <3>4. main' \in Content /\ Consistent(main')
      BY <1>6, <2>3, <3>2, <3>3 DEF Written
    <3> QED BY <1>3, <1>5, <2>1, <3>1, <3>4
  <2> QED BY <2>2, <2>3
<1> QED
  BY <1>7, <1>8, <1>9, <1>10, <1>11, <1>12, <1>13, <1>14, <1>15, <1>16, <1>17, <1>18 DEF Next

\* Until a restore has put another file under its log, the schema of the database is
\* never a mixture, and the upgrade is where its statements say.
THEOREM SchemaIsNoMixture == Spec => []Unmixed
<1>1. Init => Unmixed
  <2> SUFFICES ASSUME Init PROVE Unmixed
    OBVIOUS
  <2>1. Good(main)
    BY InitFacts
  <2>2. Consistent(main)
    BY InitFacts DEF Consistent
  <2> QED BY <2>2, InitFacts DEF Unmixed, Stage
<1>2. TInv /\ Unmixed /\ [Next]_vars => Unmixed'
  <2>1. ASSUME Unmixed, UNCHANGED vars PROVE Unmixed'
    <3>1. View' = View
      BY <2>1, ViewStays DEF vars, files
    <3> QED BY <2>1, <3>1 DEF Unmixed, Consistent, Stage, vars, files
  <2> QED BY <2>1, UnmixedInductive
<1> QED
  BY <1>1, <1>2, VaultTypes, PTL DEF Spec

\* The shop never works on tables of an older schema, whatever killed an earlier upgrade
\* and however often, until a restore puts an older backup in their place
\* (runner.py:172-181, 005_store_credit_and_sale_cancellation.py).
THEOREM SchemaIsReady == Spec => []SchemaReady
<1>1. Unmixed => SchemaReady
  BY DEF Unmixed, SchemaReady, Consistent
<1> QED
  BY <1>1, SchemaIsNoMixture, PTL

-------------------------------------------------------------------------------
\* The sales

\* The rows of backups, one by one.
LEMMA RowsFound ==
    ASSUME NEW S
    PROVE  /\ \A b \in S : RowsOf(b.content) \subseteq RowsIn(S)
           /\ \A s \in RowsIn(S) : \E b \in S : s \in RowsOf(b.content)
           /\ \A T : S \subseteq T => RowsIn(S) \subseteq RowsIn(T)
  BY DEF RowsIn

\* A folder that was added to has the rows of the new backup as well.
LEMMA RowsAdded ==
    ASSUME NEW content
    PROVE  /\ RowsOf(content) \subseteq RowsIn(WithBackup(content))
           /\ BackupRows \subseteq RowsIn(WithBackup(content))
<1>1. [id |-> made + 1, content |-> content, old |-> FALSE] \in WithBackup(content)
  BY DEF WithBackup
<1>2. backups \subseteq WithBackup(content)
  BY DEF WithBackup
<1> QED
  BY <1>1, <1>2, RowsFound DEF BackupRows

\* No statement of an upgrade shows a sale that was not there, or breaks the file.
LEMMA EffectRows ==
    ASSUME TInv, Upgrade, Whole(View)
    PROVE  RowsOf(View)' \subseteq RowsOf(View) /\ Whole(View)' /\ UNCHANGED <<main, backups>>
<1>1. /\ main' = main /\ backups' = backups
      /\ wal' = wal \/ (wal' = Effect(Head(todo)) /\ phase = "upgrade")
  BY DEF Upgrade, files
<1>2. CASE wal' = wal
  <2>1. View' = View
    BY <1>1, <1>2, ViewStays
  <2> QED BY <1>1, <2>1 DEF RowsOf, Whole
<1>3. CASE wal' = Effect(Head(todo)) /\ phase = "upgrade"
  <2>1. Head(todo) \in Statement
    BY <1>3, PhaseFacts, Programs DEF TInv, Statement
  <2>2. PICK statement \in Statement : statement = Head(todo)
    BY <2>1
  <2>3. /\ View'.sales = CASE statement = "create_tables" -> Fresh
                          [] statement = "drop_sales" -> Absent
                          [] statement = "rename" -> View.staging
                          [] OTHER -> View.sales
        /\ View'.staging = CASE statement \in {"drop_staging", "rename"} -> Absent
                            [] statement = "create_staging" -> Fresh
                            [] statement = "copy" -> [Fresh EXCEPT !.rows = View.sales.rows]
                            [] OTHER -> View.staging
        /\ View'.version = IF statement = "record" THEN Latest ELSE View.version
    BY <1>1, <1>3, <2>2, EffectViews
  <2>4. /\ View.staging.def \in {"none", "new"} /\ View.sales.def \notin {"zero", "torn"}
        /\ View.version # Broken
    BY <1>1, ViewOf, Parts DEF Whole
  <2>5. /\ Fresh.rows = {} /\ Absent.rows = {} /\ Fresh.def = "new" /\ Absent.def = "none"
        /\ [Fresh EXCEPT !.rows = View.sales.rows].rows = View.sales.rows
    BY DEF Fresh, Absent
  <2>6. View'.sales \in {Fresh, Absent, View.staging, View.sales}
    BY <2>3
  <2>7. View'.staging \in {Fresh, Absent, View.staging, [Fresh EXCEPT !.rows = View.sales.rows]}
    BY <2>3
  <2>8. View'.version \in {Latest, View.version}
    BY <2>3
  <2>9. Whole(View)'
    BY <2>4, <2>5, <2>6, <2>8 DEF Whole, Latest, Broken
  <2>10. RowsOf(View)' \subseteq RowsOf(View)
    BY <2>5, <2>6, <2>7 DEF RowsOf
  <2> QED BY <1>1, <2>9, <2>10
<1> QED
  BY <1>1, <1>2, <1>3

\* Whatever a file is replaced by, no other rows are seen.
LEMMA ReplacedRows ==
    ASSUME wal' = wal
    PROVE  RowsOf(View)' \subseteq RowsOf(View) \cup RowsOf(main)'
<1>1. View' = Over(wal, main')
  BY DEF View
<1>2. RowsOf(View)' = RowsOf(View') /\ RowsOf(main)' = RowsOf(main')
  BY DEF RowsOf
<1>3. RowsOf(Over(wal, main')) \subseteq RowsOf(Over(wal, main)) \cup RowsOf(main')
  BY OverRows
<1> QED
  BY <1>1, <1>2, <1>3 DEF View

\* The backup of a number has only rows that are in backups.
LEMMA NumberedRows ==
    ASSUME BackupsGood, NEW id \in Ids
    PROVE  RowsOf(WithId(id).content) \subseteq BackupRows
  BY NumberedBackup, RowsFound DEF BackupRows

\* What may be lost stays in a backup.
LEMMA CoveredInductive ==
    ASSUME TInv, Covered, Next
    PROVE  Covered'
<1>1. /\ phase \in {"upgrade", "copy", "check", "back"} => RowsOf(View) \subseteq BackupRows
      /\ main = Zero => outcome = "failed" \/ RowsOf(View) \subseteq BackupRows
      /\ phase \in {"open", "check"} /\ main = Zero => outcome = "failed" \/ ~ Whole(View)
      /\ phase = "upgrade" => Whole(View) /\ main # Zero
  BY DEF Covered
<1>2. /\ ~ Whole(Zero) /\ RowsOf(Zero) = {} /\ RowsOf(Torn) = {}
      /\ BackupsGood /\ FilesGood
  BY Made DEF TInv
<1>3. ASSUME backups' = backups PROVE BackupRows' = BackupRows
  BY <1>3 DEF BackupRows
<1>4. ASSUME main' = main, wal' = wal
      PROVE  RowsOf(View)' = RowsOf(View) /\ Whole(View)' = Whole(View)
  <2>1. View' = View
    BY <1>4, ViewStays
  <2> QED BY <2>1 DEF RowsOf, Whole
<1>5. CASE Launch
  <2>1. View' = Opened /\ main' # Zero /\ Whole(Opened)
    BY <1>2, <1>5, LaunchOpens
  <2>2. phase' \in {"off", "open"} \/ (phase' = "upgrade" /\ backups' = WithBackup(Opened))
    BY <1>5 DEF Launch
  <2>3. phase' = "upgrade" => RowsOf(View)' \subseteq BackupRows'
    <3>1. RowsOf(Opened) \subseteq RowsIn(WithBackup(Opened))
      BY RowsAdded
    <3> QED BY <2>1, <2>2, <3>1 DEF BackupRows, RowsOf
  <2>4. Whole(View)'
    BY <2>1 DEF Whole
  <2> QED BY <2>1, <2>2, <2>3, <2>4 DEF Covered
<1>6. CASE Upgrade
  <2>1. phase = "upgrade" /\ phase' \in {"off", "upgrade", "open"}
    BY <1>6 DEF Upgrade
  <2>2. RowsOf(View)' \subseteq RowsOf(View) /\ Whole(View)' /\ main' = main /\ backups' = backups
    BY <1>1, <1>6, <2>1, EffectRows
  <2> QED BY <1>1, <1>3, <2>1, <2>2 DEF Covered
<1>7. ASSUME NEW s \in Sales, Sell(s) PROVE Covered'
  <2>1. /\ phase = "open" /\ phase' = phase /\ main' = main /\ outcome' = outcome /\ Whole(View)
    BY <1>7 DEF Sell, Sellable, restore
  <2> QED BY <1>1, <2>1 DEF Covered
<1>8. CASE Sync
  <2>1. /\ phase' = phase /\ main' = main /\ outcome' = outcome /\ backups' = backups
        /\ phase # "upgrade"
    BY <1>8 DEF Sync, restore
  <2>2. View'.sales = View.sales /\ SameSchema
    BY <1>8, SyncView
  <2>3. RowsOf(View)' = RowsOf(View) /\ Whole(View)' = Whole(View)
    BY <2>2 DEF RowsOf, Whole, SameSchema
  <2> QED BY <1>1, <1>3, <2>1, <2>3 DEF Covered
<1>9. CASE Checkpoint
  <2>1. /\ phase' = phase /\ main' = View /\ outcome' = outcome /\ backups' = backups /\ View' = View
    BY <1>9, CheckpointView DEF Checkpoint, restore
  <2>2. RowsOf(View)' = RowsOf(View) /\ Whole(View)' = Whole(View)
    BY <2>1 DEF RowsOf, Whole
  <2>3. main' = Zero => RowsOf(View) = {} /\ ~ Whole(View)
    BY <1>2, <2>1
  <2> QED BY <1>1, <1>3, <2>1, <2>2, <2>3 DEF Covered
<1>10. CASE Age
  <2>1. /\ backups' = {[b EXCEPT !.old = TRUE] : b \in backups} /\ phase = "open" /\ phase' = phase
        /\ outcome' = outcome /\ main' = main /\ wal' = wal
    BY <1>10 DEF Age, restore
  <2>2. \A b \in backups : [b EXCEPT !.old = TRUE].content = b.content
    BY <1>2 DEF BackupsGood, Backup
  <2>3. BackupRows \subseteq BackupRows'
    <3> SUFFICES ASSUME NEW s \in BackupRows PROVE s \in BackupRows'
      OBVIOUS
    <3>1. PICK b \in backups : s \in RowsOf(b.content)
      BY RowsFound DEF BackupRows
    <3>2. PICK c \in backups' : c.content = b.content
      BY <2>1, <2>2, <3>1
    <3>3. s \in RowsOf(c.content)
      BY <3>1, <3>2
    <3>4. s \in RowsIn(backups')
      BY <3>2, <3>3, RowsFound
    <3> QED BY <3>4 DEF BackupRows
  <2> QED BY <1>1, <1>4, <2>1, <2>3 DEF Covered
<1>11. CASE BackUp
  <2>1. /\ phase = "open" /\ phase' = phase /\ outcome' = outcome /\ main' = main /\ wal' = wal
        /\ Whole(View)
    BY <1>11 DEF BackUp, Snapshot
  <2> QED BY <1>1, <1>4, <2>1 DEF Covered
<1>12. ASSUME NEW id \in listed, Restore(id) PROVE Covered'
  <2>1. /\ phase = "open" /\ outcome' = None /\ main' = main /\ wal' = wal /\ made \in 0 .. MaxBackups
    BY <1>12, PhaseFacts DEF Restore, TInv
  <2>2. CASE Whole(View) /\ backups' = Purged(WithBackup(View)) /\ phase' = "copy"
    <3> DEFINE new == [id |-> made + 1, content |-> View, old |-> FALSE]
    <3>1. new \in backups' /\ new.content = View
      BY <1>2, <2>1, <2>2, NewestIsKept
    <3> HIDE DEF new
    <3>2. RowsOf(View) \subseteq RowsIn(backups')
      BY <3>1, RowsFound
    <3>3. RowsOf(View)' \subseteq BackupRows'
      BY <1>4, <2>1, <3>2 DEF BackupRows
    <3> QED BY <2>2, <3>3 DEF Covered
  <2>3. CASE ~ Whole(View) /\ backups' = WithBackup(View) /\ phase' = phase
    <3>1. RowsOf(View) \subseteq RowsIn(backups')
      BY <2>3, RowsAdded
    <3>2. RowsOf(View)' \subseteq BackupRows'
      BY <1>4, <2>1, <3>1 DEF BackupRows
    <3> QED BY <1>4, <2>1, <2>3, <3>2 DEF Covered
  <2> QED BY <1>12, <2>2, <2>3 DEF Restore, Snapshot
<1>13. ASSUME NEW id \in Ids, wal' = wal, backups' = backups, RowsOf(View) \subseteq BackupRows,
              main' \in Written(WithId(id).content)
       PROVE  RowsOf(View)' \subseteq BackupRows'
  <2>1. RowsOf(WithId(id).content) \subseteq BackupRows
    BY <1>2, NumberedRows
  <2>2. CASE main' = main
    BY <1>3, <1>4, <1>13, <2>2
  <2>3. CASE main' # main
    <3>1. RowsOf(main)' \subseteq BackupRows
      BY <1>2, <1>13, <2>1, <2>3 DEF Written, RowsOf
    <3> QED BY <1>3, <1>13, <3>1, ReplacedRows
  <2> QED BY <2>2, <2>3
<1>14. CASE CopyBackup
  <2>1. /\ phase = "copy" /\ wal' = wal /\ backups' = backups /\ phase' \in {"check", "back"}
        /\ RowsOf(View) \subseteq BackupRows
        /\ chosen \in Ids => Whole(WithId(chosen).content)
    BY <1>1, <1>14 DEF CopyBackup, TInv, PhasesGood, Restoring
  <2>2. RowsOf(View)' \subseteq BackupRows'
    <3>1. CASE chosen \in Ids
      <4>1. main' \in Written(WithId(chosen).content)
        BY <1>14, <3>1 DEF CopyBackup, Written
      <4> QED BY <1>13, <2>1, <3>1, <4>1
    <3>2. CASE chosen \notin Ids
      <4>1. main' = main
        BY <1>14, <3>2 DEF CopyBackup
      <4> QED BY <1>3, <1>4, <2>1, <4>1
    <3> QED BY <3>1, <3>2
  <2>3. phase' = "check" => main' # Zero
    BY <1>2, <1>14, <2>1 DEF CopyBackup
  <2> QED BY <2>1, <2>2, <2>3 DEF Covered
<1>15. CASE FinishRestore \/ FailAudit
  <2>1. /\ phase = "check" /\ phase' \in {"open", "back"} /\ main' = main /\ wal' = wal
        /\ backups' = backups
    BY <1>15 DEF FinishRestore, FailAudit, files
  <2>2. outcome = None
    BY <2>1 DEF TInv, PhasesGood, Restoring
  <2>3. main = Zero => ~ Whole(View)
    BY <1>1, <2>1, <2>2, VaultBounds
  <2> QED BY <1>1, <1>3, <1>4, <2>1, <2>3 DEF Covered
<1>16. CASE CopyBack
  <2>1. /\ phase = "back" /\ phase' = "open"
        /\ main' = WithId(safety).content \/ outcome' = "failed"
    BY <1>16 DEF CopyBack
  <2>2. Whole(WithId(safety).content)
    BY <2>1 DEF TInv, PhasesGood, Restoring
  <2>3. main' # Zero \/ outcome' = "failed"
    BY <1>2, <2>1, <2>2
  <2> QED BY <2>1, <2>3 DEF Covered
<1>17. CASE Kill
  <2>1. /\ phase' = "off" /\ wal' = wal /\ backups' = backups /\ outcome' = outcome
    BY <1>17 DEF Kill, restore
  <2>2. CASE main' = main
    BY <1>1, <1>3, <1>4, <2>1, <2>2 DEF Covered
  <2>3. CASE main' # main
    <3>1. PICK id \in Ids : main' \in Written(WithId(id).content)
      BY <1>17, <2>3 DEF Kill, TInv, PhasesGood, Restoring
    <3>2. RowsOf(View) \subseteq BackupRows
      BY <1>1, <1>17, <2>3 DEF Kill
    <3>3. RowsOf(View)' \subseteq BackupRows'
      BY <1>13, <2>1, <3>1, <3>2
    <3> QED BY <2>1, <3>3 DEF Covered
  <2> QED BY <2>2, <2>3
<1> QED
  BY <1>5, <1>6, <1>7, <1>8, <1>9, <1>10, <1>11, <1>12, <1>14, <1>15, <1>16, <1>17 DEF Next

\* It is kept there from the start.
LEMMA CoveredAlways == Spec => []Covered
<1>1. Init => Covered
  <2> SUFFICES ASSUME Init PROVE Covered
    OBVIOUS
  <2>1. phase = "off" /\ View = main
    BY InitFacts
  <2>2. RowsOf(Zero) = {}
    BY Made
  <2> QED BY <2>1, <2>2 DEF Covered
<1>2. TInv /\ Covered /\ [Next]_vars => Covered'
  <2>1. ASSUME Covered, UNCHANGED vars PROVE Covered'
    <3>1. View' = View
      BY <2>1, ViewStays DEF vars, files
    <3>2. RowsOf(View)' = RowsOf(View) /\ Whole(View)' = Whole(View)
      BY <3>1 DEF RowsOf, Whole
    <3>3. BackupRows' = BackupRows
      BY <2>1 DEF BackupRows, vars, files
    <3> QED BY <2>1, <3>2, <3>3 DEF Covered, vars, files, restore
  <2> QED BY <2>1, CoveredInductive
<1> QED
  BY <1>1, <1>2, VaultTypes, PTL DEF Spec

\* One more backup makes every other one older by one.
LEMMA OneNewer ==
    ASSUME BackupsGood, made \in Nat, NEW content, NEW b \in backups
    PROVE  /\ Newer(WithBackup(content), b) = Newer(backups, b) + 1
           /\ Newer(backups, b) \in Nat
<1> DEFINE new == [id |-> made + 1, content |-> content, old |-> FALSE]
           before == {a \in backups : a.id > b.id}
<1>1. /\ IsFiniteSet(backups) /\ b.id <= made /\ b.id \in Int
      /\ \A a \in backups : a.id <= made /\ a.id \in Int
  BY DEF BackupsGood, Backup
<1>2. WithBackup(content) = backups \cup {new} /\ new.id = made + 1
  BY DEF WithBackup
<1> HIDE DEF new
<1>3. new \notin before /\ new.id > b.id
  BY <1>1, <1>2
<1>4. {a \in WithBackup(content) : a.id > b.id} = before \cup {new}
  BY <1>2, <1>3
<1>5. IsFiniteSet(before) /\ before = {a \in backups : a.id > b.id}
  BY <1>1, FS_Subset
<1> HIDE DEF before
<1>6. Cardinality(before \cup {new}) = Cardinality(before) + 1
  BY <1>3, <1>5, FS_AddElement
<1>7. Cardinality(before) \in Nat
  BY <1>5, FS_CardinalityType
<1> QED
  BY <1>4, <1>5, <1>6, <1>7 DEF Newer

\* Where a sale goes that a backup held: nowhere, or the backup was deleted, too old and
\* beyond the newest.
Discarded(s) ==
    \E b \in backups : /\ s \in RowsOf(b.content)
                      /\ b.id \notin Ids'
                      /\ b.old
                      /\ Keep > 0 /\ Newer(backups, b) + 1 >= Keep

\* The purge deletes only those.
LEMMA PurgeDiscards ==
    ASSUME TInv, made < MaxBackups, NEW content, Good(content),
           backups' = Purged(WithBackup(content)), NEW s \in BackupRows
    PROVE  s \in BackupRows' \/ Discarded(s)
<1>1. BackupsGood /\ made \in 0 .. MaxBackups /\ made \in Nat /\ Keep \in Int
  BY PhaseFacts, VaultBounds DEF TInv
<1>2. PICK b \in backups : s \in RowsOf(b.content)
  BY RowsFound DEF BackupRows
<1>3. b \in WithBackup(content)
  BY DEF WithBackup
<1>4. CASE b \in backups'
  <2>1. s \in RowsIn(backups')
    BY <1>2, <1>4, RowsFound
  <2> QED BY <2>1 DEF BackupRows
<1>5. CASE b \notin backups'
  <2>1. Expired(WithBackup(content), b)
    BY <1>3, <1>5 DEF Purged
  <2>2. Keep > 0 /\ Newer(backups, b) + 1 >= Keep /\ b.old
    BY <1>1, <2>1, OneNewer DEF Expired
  <2>3. b.id \notin Ids'
    <3> SUFFICES ASSUME b.id \in Ids' PROVE FALSE
      OBVIOUS
    <3>1. PICK c \in backups' : c.id = b.id
      BY DEF Ids
    <3>2. c \in WithBackup(content)
      BY DEF Purged
    <3>3. Folder(WithBackup(content), made + 1)
      BY <1>1, FolderAdded
    <3>4. c = b
      BY <1>3, <3>1, <3>2, <3>3 DEF Folder
    <3> QED BY <1>5, <3>4
  <2> QED BY <1>2, <2>2, <2>3 DEF Discarded
<1> QED
  BY <1>4, <1>5

\* No step loses a sale.
LEMMA StepKeeps ==
    ASSUME TInv, Covered, Next, NEW s \in Kept
    PROVE  s \in Kept' \/ outcome = "failed" \/ Discarded(s)
<1>1. /\ phase \in {"upgrade", "copy", "check", "back"} => RowsOf(View) \subseteq BackupRows
      /\ main = Zero => outcome = "failed" \/ RowsOf(View) \subseteq BackupRows
  BY DEF Covered
<1>2. Kept = RowsOf(View) \cup BackupRows /\ Kept' = RowsOf(View)' \cup BackupRows'
  BY DEF Kept, BackupRows, RowsIn
<1>3. ASSUME main' = main, wal' = wal PROVE RowsOf(View)' = RowsOf(View)
  <2>1. View' = View
    BY <1>3, ViewStays
  <2> QED BY <2>1 DEF RowsOf
<1>4. ASSUME backups' = backups PROVE BackupRows' = BackupRows
  BY <1>4 DEF BackupRows
<1>5. CASE Launch
  <2>1. View' = Opened /\ backups' \in {backups, WithBackup(Opened)}
    BY <1>5, LaunchOpens DEF Launch, TInv
  <2>2. BackupRows \subseteq BackupRows'
    <3>1. BackupRows \subseteq RowsIn(WithBackup(Opened))
      BY RowsAdded
    <3> QED BY <2>1, <3>1 DEF BackupRows
  <2>3. main # Zero => RowsOf(View)' = RowsOf(View)
    BY <2>1 DEF Opened, RowsOf
  <2> QED BY <1>1, <1>2, <2>2, <2>3
<1>6. CASE Upgrade
  <2>1. phase = "upgrade" /\ backups' = backups
    BY <1>6 DEF Upgrade, files
  <2> QED BY <1>1, <1>2, <1>4, <2>1
<1>7. ASSUME NEW t \in Sales, Sell(t) PROVE s \in Kept'
  <2>1. backups' = backups
    BY <1>7 DEF Sell
  <2>2. RowsOf(View) \subseteq RowsOf(View)'
    BY <1>7, SellView DEF RowsOf, SameSchema
  <2> QED BY <1>2, <1>4, <2>1, <2>2
<1>8. CASE Sync
  <2>1. backups' = backups
    BY <1>8 DEF Sync
  <2>2. RowsOf(View) \subseteq RowsOf(View)'
    BY <1>8, SyncView DEF RowsOf, SameSchema
  <2> QED BY <1>2, <1>4, <2>1, <2>2
<1>9. CASE Checkpoint
  <2>1. backups' = backups
    BY <1>9 DEF Checkpoint
  <2>2. RowsOf(View)' = RowsOf(View)
    BY <1>9, CheckpointView DEF RowsOf
  <2> QED BY <1>2, <1>4, <2>1, <2>2
<1>10. CASE Age
  <2>1. /\ backups' = {[b EXCEPT !.old = TRUE] : b \in backups} /\ main' = main /\ wal' = wal
    BY <1>10 DEF Age
  <2>2. BackupRows \subseteq BackupRows'
    <3> SUFFICES ASSUME NEW t \in BackupRows PROVE t \in BackupRows'
      OBVIOUS
    <3>1. PICK b \in backups : t \in RowsOf(b.content)
      BY RowsFound DEF BackupRows
    <3>2. [b EXCEPT !.old = TRUE].content = b.content
      BY DEF TInv, BackupsGood, Backup
    <3>3. PICK c \in backups' : c.content = b.content
      BY <2>1, <3>2
    <3>4. t \in RowsOf(c.content)
      BY <3>1, <3>3
    <3>5. t \in RowsIn(backups')
      BY <3>3, <3>4, RowsFound
    <3> QED BY <3>5 DEF BackupRows
  <2> QED BY <1>2, <1>3, <2>1, <2>2
<1>11. Good(View)
  BY OverGood DEF TInv, FilesGood, View
<1>12. CASE BackUp
  <2>1. /\ made < MaxBackups /\ backups' = Purged(WithBackup(View)) /\ main' = main /\ wal' = wal
    BY <1>12 DEF BackUp, Snapshot
  <2> QED BY <1>2, <1>3, <1>11, <2>1, PurgeDiscards
<1>13. ASSUME NEW id \in listed, Restore(id) PROVE s \in Kept' \/ Discarded(s)
  <2>1. made < MaxBackups /\ main' = main /\ wal' = wal
    BY <1>13 DEF Restore
  <2>2. CASE backups' = Purged(WithBackup(View))
    BY <1>2, <1>3, <1>11, <2>1, <2>2, PurgeDiscards
  <2>3. CASE backups' = WithBackup(View)
    <3>1. BackupRows \subseteq RowsIn(WithBackup(View))
      BY RowsAdded
    <3>2. BackupRows \subseteq BackupRows'
      BY <2>3, <3>1 DEF BackupRows
    <3> QED BY <1>2, <1>3, <2>1, <3>2
  <2> QED BY <1>13, <2>2, <2>3 DEF Restore, Snapshot
<1>14. CASE CopyBackup \/ FinishRestore \/ FailAudit \/ CopyBack
  <2>1. phase \in {"copy", "check", "back"} /\ backups' = backups
    BY <1>14 DEF CopyBackup, FinishRestore, FailAudit, CopyBack, files
  <2> QED BY <1>1, <1>2, <1>4, <2>1
<1>15. CASE Kill
  <2>1. backups' = backups /\ wal' = wal
    BY <1>15 DEF Kill
  <2>2. main' = main \/ phase \in {"copy", "back"}
    BY <1>15 DEF Kill
  <2> QED BY <1>1, <1>2, <1>3, <1>4, <2>1, <2>2
<1> QED
  BY <1>5, <1>6, <1>7, <1>8, <1>9, <1>10, <1>12, <1>13, <1>14, <1>15 DEF Next

\* Wherever the process is killed in an upgrade or a restore, and whatever fails there,
\* each sale that was booked is in the database or in a backup, until a backup is deleted
\* that was too old and beyond the newest (runner.py:167, backup_service.py:195).
THEOREM SalesAreKept == Spec => NothingVanishes
<1> DEFINE Step == \A s \in Kept : s \in Kept' \/ outcome = "failed" \/
                     \E b \in backups : /\ s \in RowsOf(b.content)
                                       /\ b.id \notin Ids'
                                       /\ b.old
                                       /\ Keep > 0 /\ Newer(backups, b) + 1 >= Keep
<1>1. TInv /\ Covered /\ [Next]_vars => [Step]_vars
  <2> SUFFICES ASSUME TInv, Covered, Next PROVE Step
    OBVIOUS
  <2>1. \A s \in Kept : s \in Kept' \/ outcome = "failed" \/ Discarded(s)
    BY StepKeeps
  <2> QED BY <2>1 DEF Discarded
<1>2. NothingVanishes <=> [][Step]_vars
  BY DEF NothingVanishes
<1> HIDE DEF Step
<1> QED
  BY <1>1, <1>2, VaultTypes, CoveredAlways, PTL DEF Spec

-------------------------------------------------------------------------------
\* A restore that is undone

\* The log of a restore holds no sales but those of the safety backup.
LEMMA SafeLogInductive ==
    ASSUME TInv, SafeLog, Next
    PROVE  SafeLog'
<1>1. ASSUME phase' \notin {"copy", "check", "back"} PROVE SafeLog'
  BY <1>1 DEF SafeLog, Restoring
<1>2. ASSUME UNCHANGED <<backups, safety>>, Restoring,
             wal' = NoLog \/ (wal'.sales = wal.sales /\ wal'.version = wal.version)
      PROVE  SafeLog'
  <2>1. WithId(safety)' = WithId(safety)
    BY <1>2 DEF WithId
  <2>2. NoLog.sales = None /\ NoLog.version = None
    BY DEF NoLog
  <2> QED BY <1>2, <2>1, <2>2 DEF SafeLog
<1>3. CASE phase \notin {"copy", "check", "back"} /\ phase' \in {"copy", "check", "back"}
  <2>1. PICK id \in listed : Restore(id)
    BY <1>3 DEF Next, Launch, Upgrade, Sell, Sync, Checkpoint, Age, BackUp, CopyBackup,
                FinishRestore, FailAudit, CopyBack, Kill
  <2>2. /\ backups' = Purged(WithBackup(View)) /\ safety' = made + 1 /\ wal' = wal
        /\ made < MaxBackups
    BY <1>3, <2>1 DEF Restore, Snapshot
  <2>3. BackupsGood /\ made \in 0 .. MaxBackups /\ Good(View)
    BY PhaseFacts, OverGood DEF TInv, FilesGood, View
  <2> DEFINE new == [id |-> made + 1, content |-> View, old |-> FALSE]
  <2>4. new \in backups' /\ new.id = made + 1 /\ new.content = View
    BY <2>2, <2>3, NewestIsKept
  <2> HIDE DEF new
  <2>5. Folder(backups', made + 1)
    <3>1. Purged(WithBackup(View)) \subseteq WithBackup(View)
      BY DEF Purged
    <3> QED BY <2>2, <2>3, <3>1, FolderAdded
  <2>6. (CHOOSE b \in backups' : b.id = new.id) = new
    BY <2>4, <2>5, OneOfThem DEF Folder
  <2>7. WithId(safety)' = new
    BY <2>2, <2>4, <2>6 DEF WithId
  <2>8. /\ wal.sales # None => wal.sales = View.sales
        /\ wal.version # None => wal.version = View.version
    BY Seen DEF View
  <2> QED BY <2>2, <2>4, <2>7, <2>8 DEF SafeLog
<1>4. CASE phase \in {"copy", "check", "back"} /\ phase' \in {"copy", "check", "back"}
  <2>1. CASE Sync
    <3>1. UNCHANGED <<backups, safety>>
      BY <2>1 DEF Sync, restore
    <3>2. wal'.sales = wal.sales /\ wal'.version = wal.version
      <4>1. PICK s \in View.queue : wal' = [wal EXCEPT !.queue = View.queue \ {s}]
        BY <2>1 DEF Sync
      <4>2. wal \in Log
        BY DEF TInv, FilesGood, GoodLog
      <4> QED BY <4>1, <4>2 DEF Log
    <3> QED BY <1>2, <1>4, <3>1, <3>2 DEF Restoring
  <2>2. CASE Checkpoint
    <3>1. UNCHANGED <<backups, safety>> /\ wal' = NoLog
      BY <2>2 DEF Checkpoint, restore
    <3> QED BY <1>2, <1>4, <3>1 DEF Restoring
  <2>3. CASE CopyBackup \/ FinishRestore \/ FailAudit
    <3>1. UNCHANGED <<backups, safety>> /\ wal' = wal
      BY <2>3 DEF CopyBackup, FinishRestore, FailAudit, restore, files
    <3> QED BY <1>2, <1>4, <3>1 DEF Restoring
  <2> QED
    BY <1>4, <2>1, <2>2, <2>3 DEF Next, Launch, Upgrade, Sell, Age, BackUp, Restore, CopyBack, Kill
<1> QED
  BY <1>1, <1>3, <1>4

\* It does so always.
LEMMA SafeLogAlways == Spec => []SafeLog
<1>1. Init => SafeLog
  BY InitFacts DEF SafeLog, Restoring
<1>2. TInv /\ SafeLog /\ [Next]_vars => SafeLog'
  <2>1. ASSUME SafeLog, UNCHANGED vars PROVE SafeLog'
    <3>1. WithId(safety)' = WithId(safety)
      BY <2>1 DEF WithId, vars, files, restore
    <3> QED BY <2>1, <3>1 DEF SafeLog, Restoring, vars, files
  <2> QED BY <2>1, SafeLogInductive
<1> QED
  BY <1>1, <1>2, VaultTypes, PTL DEF Spec

\* A restore that fails leaves the sales as they were when it began, whatever was in the
\* log, checkpoints and the worker's commits in between included, unless the copy back
\* fails as well (backup_service.py:353).
THEOREM RestoreIsUndone == Spec => FailedRestoreIsUndone
<1> DEFINE Step == outcome' = "undone" /\ outcome # "undone" =>
                     LET before == WithId(safety).content
                     IN  View'.sales = before.sales /\ View'.version = before.version
<1>1. TInv /\ SafeLog /\ [Next]_vars => [Step]_vars
  <2> SUFFICES ASSUME TInv, SafeLog, Next, outcome' = "undone", outcome # "undone"
               PROVE  /\ View'.sales = WithId(safety).content.sales
                      /\ View'.version = WithId(safety).content.version
    OBVIOUS
  <2>1. phase = "back" /\ main' = WithId(safety).content /\ wal' = wal
    <3>1. None # "undone"
      BY VaultBounds
    <3>2. CopyBack
      BY <3>1 DEF Next, Launch, Upgrade, Sell, Sync, Checkpoint, Age, BackUp, Restore,
                  CopyBackup, FinishRestore, FailAudit, Kill, restore
    <3> QED BY <3>2 DEF CopyBack
  <2>2. /\ wal.sales # None => wal.sales = WithId(safety).content.sales
        /\ wal.version # None => wal.version = WithId(safety).content.version
    BY <2>1 DEF SafeLog, Restoring
  <2>3. /\ View'.sales = IF wal.sales = None THEN main'.sales ELSE wal.sales
        /\ View'.version = IF wal.version = None THEN main'.version ELSE wal.version
    BY <2>1, Seen DEF View
  <2> QED BY <2>1, <2>2, <2>3
<1>2. FailedRestoreIsUndone <=> [][Step]_vars
  BY DEF FailedRestoreIsUndone
<1> HIDE DEF Step
<1> QED
  BY <1>1, <1>2, VaultTypes, SafeLogAlways, PTL DEF Spec

===============================================================================
