------------------------------- MODULE Import -------------------------------
(***************************************************************************)
(* CSV imports into the PostgreSQL database (services/.../import/).        *)
(*                                                                         *)
(* ZipHelper#import_zip runs Importer#run in one READ COMMITTED            *)
(* transaction and Importer#close, outside of it, in auto-committed        *)
(* statements.  Several imports (the threads of the worker) and the web    *)
(* requests that edit and delete records run at the same time.             *)
(*                                                                         *)
(* One action is one SQL statement, or a run of statements of which only   *)
(* one reads or writes a table that other sessions see.  What a running    *)
(* transaction has written is in own[i]; the database reads of import i    *)
(* go through View(i).  A row that a transaction has written is locked     *)
(* until the transaction ends.                                             *)
(***************************************************************************)
EXTENDS Naturals, FiniteSets

CONSTANTS
  Imports,      \* calls of ZipHelper#import_zip
  Ids,          \* primary keys, handed out in order and never twice
  Uuids, Values,
  Zips,         \* what an uploaded file may hold: numbered CSV rows
  InitialDbs,   \* the tables an import may find
  Workers,      \* number of worker threads that can run an import
  WebActions,   \* subset of {"edit", "destroy"}: what web requests do
  NoRow, NoId, NoUuid, NoValue, NoImport,
  Clean         \* own[i][r] = Clean: import i has not written row r

Tables == {"record", "relationship"}

(***************************************************************************)
(* A CSV row and a database row.  "from" and "to" are the endpoints of a   *)
(* relationship: uuids in a CSV row, primary keys in a database row.  "z"  *)
(* is the z_<model>_id column, the number of the CSV row a database row    *)
(* was written from (0 is NULL), and "import" its import_id.               *)
(***************************************************************************)
CsvRow == [table : Tables, uuid : Uuids \cup {NoUuid}, value : Values,
           from : Uuids \cup {NoUuid}, to : Uuids \cup {NoUuid}]

Row == [table : Tables, uuid : Uuids \cup (Imports \X (Nat \ {0})),
        value : Values, from : Ids \cup {NoId}, to : Ids \cup {NoId},
        z : Nat, import : Imports \cup {NoImport}]

\* What other sessions see of a row: its z column and import_id are the importer's
\* bookkeeping.
PublicRow == [table : Tables, uuid : Uuids \cup (Imports \X (Nat \ {0})),
              value : Values, from : Ids \cup {NoId}, to : Ids \cup {NoId}]

IsCsv(rows) == /\ DOMAIN rows \subseteq Nat \ {0}
               /\ \A n \in DOMAIN rows : rows[n] \in CsvRow

ASSUME ConstantsAssumption ==
  /\ Ids \subseteq Nat /\ IsFiniteSet(Imports)
  /\ NoRow \notin Row \cup PublicRow /\ Clean \notin Row \cup {NoRow}
  /\ NoId \notin Ids /\ NoUuid \notin Uuids /\ NoValue \notin Values
  /\ \A rows \in Zips : IsCsv(rows)
  /\ InitialDbs \subseteq [Ids -> Row \cup {NoRow}]

\* Importer.new gives every import an id of its own (SecureRandom.uuid), and every
\* row without a uuid gets a new one (gen_random_uuid): no stored row or file can
\* hold them yet.
ASSUME ImportIdAssumption ==
  /\ \A rows \in InitialDbs, r \in Ids :
       rows[r] # NoRow => rows[r].import \notin Imports /\ rows[r].uuid \in Uuids
  /\ Uuids \cap (Imports \X (Nat \ {0})) = {}

VARIABLES
  db,        \* the committed rows
  used,      \* primary keys handed out so far
  versions,  \* core_data_connector_versions, as a set
  step,      \* step[i]: the next statement of import i
  table,     \* table[i]: the importer that import i is running
  zip,       \* zip[i]: the CSV rows of import i
  staged,    \* staged[i][n]: the staging-table columns of CSV row n
  own,       \* own[i]: uncommitted rows of import i
  audit,     \* audit[i]: the audit table of import i
  editing,   \* the web requests between loading and saving a record
  deleting   \* those between loading and deleting one

vars == <<db, used, versions, step, table, zip, staged, own, audit, editing, deleting>>

ImportVars == <<step, table, zip, staged, own, audit>>

Steps == {"idle", "match", "snapshot", "load", "commit", "cleanup",
          "closed", "failed", "leaked"}

InTransaction == {"match", "snapshot", "load", "commit"}
Running       == InTransaction \cup {"cleanup"}

View(i) == [r \in Ids |-> IF own[i][r] = Clean THEN db[r] ELSE own[i][r]]

Locked(r, i) == \E j \in Imports \ {i} : own[j][r] # Clean

\* The CSV rows of import i that go to table t, and the uuid that row n has
\* once Base#transform has generated the missing ones.
RowsOf(i, t) == {n \in DOMAIN zip[i] : zip[i][n].table = t}

UuidOfTheFile(i, n) == zip[i][n].uuid   \* mutant: no uuid is generated

UuidOf(i, n) == IF zip[i][n].uuid = NoUuid THEN <<i, n>> ELSE zip[i][n].uuid

NoTarget == [id |-> NoId, value |-> NoValue, from |-> NoId, to |-> NoId]

-----------------------------------------------------------------------------
(* Setup, extract and transform                                            *)

\* Importer.new, audit.setup and the CREATE TABLE and COPY of the staging
\* tables: nothing another session sees before the commit.
Start(i) ==
  /\ step[i] = "idle"
  /\ Cardinality({j \in Imports : step[j] \in Running}) < Workers
  /\ \E rows \in Zips :
       /\ zip' = [zip EXCEPT ![i] = rows]
       /\ staged' = [staged EXCEPT ![i] = [n \in DOMAIN rows |-> NoTarget]]
  /\ step' = [step EXCEPT ![i] = "match"]
  /\ table' = [table EXCEPT ![i] = "record"]
  /\ UNCHANGED <<db, used, versions, own, audit, editing, deleting>>

\* mutant: only rows of an import in progress are matched
SameUuidImported(i, n, t) ==
  {r \in Ids : /\ View(i)[r] # NoRow
               /\ View(i)[r].table = t
               /\ View(i)[r].uuid = UuidOf(i, n)
               /\ View(i)[r].z # 0}

\* The rows of table t that carry the uuid of CSV row n.
SameUuid(i, n, t) ==
  {r \in Ids : /\ View(i)[r] # NoRow
               /\ View(i)[r].table = t
               /\ View(i)[r].uuid = UuidOf(i, n)}

\* An UPDATE ... FROM that finds several rows takes any of them; one that finds
\* none leaves the column NULL.
AnyOf(found) == IF found = {} THEN {NoId} ELSE found

\* transform of the record importers: match the CSV rows to existing records
\* by uuid.  The CSV columns are merged over the record's own afterwards.
MatchedRecord(i, n) ==
  {[id |-> r, value |-> zip[i][n].value, from |-> NoId, to |-> NoId] :
     r \in AnyOf(IF zip[i][n].uuid = NoUuid THEN {} ELSE SameUuid(i, n, "record"))}

\* The records an endpoint resolves to: only those some import has written
\* and no cleanup has reset since.
Imported(i, uuid) ==
  {r \in Ids : /\ View(i)[r] # NoRow
               /\ View(i)[r].table = "record"
               /\ View(i)[r].uuid = uuid
               /\ View(i)[r].z # 0}

SameEndsNever(i, n, from, to) == {}   \* mutant: relationships match by uuid only

\* The relationships that connect the same two records with the same values.
SameEnds(i, n, from, to) ==
  {r \in Ids : /\ View(i)[r] # NoRow
               /\ View(i)[r].table = "relationship"
               /\ View(i)[r].from = from /\ View(i)[r].to = to
               /\ View(i)[r].value = zip[i][n].value}

\* Both endpoints are resolved or neither is.
Endpoints(i, n) ==
  LET froms == Imported(i, zip[i][n].from)
      tos   == Imported(i, zip[i][n].to)
  IN  IF froms = {} \/ tos = {} THEN {<<NoId, NoId>>} ELSE froms \X tos

\* transform of the relationship importer: resolve the endpoints, then match
\* by uuid, then by endpoints.  The values of a matched relationship are taken
\* from the database, after and over those of the CSV.
MatchedRelationship(i, n) ==
  UNION {{[id    |-> r,
           value |-> IF r = NoId THEN zip[i][n].value ELSE View(i)[r].value,
           from  |-> e[1],
           to    |-> e[2]] :
            r \in AnyOf(IF SameUuid(i, n, "relationship") # {}
                          THEN SameUuid(i, n, "relationship")
                          ELSE SameEnds(i, n, e[1], e[2]))} :
         e \in Endpoints(i, n)}

Matched(i, n) == IF table[i] = "record" THEN MatchedRecord(i, n)
                                        ELSE MatchedRelationship(i, n)

Match(i) ==
  /\ step[i] = "match"
  /\ LET rows == RowsOf(i, table[i])
     IN  \E s \in [rows -> UNION {Matched(i, n) : n \in rows}] :
           /\ \A n \in rows : s[n] \in Matched(i, n)
           /\ staged' = [staged EXCEPT ![i] =
                [n \in DOMAIN zip[i] |-> IF n \in rows THEN s[n] ELSE staged[i][n]]]
  /\ step' = [step EXCEPT ![i] = "snapshot"]
  /\ UNCHANGED <<db, used, versions, table, zip, own, audit, editing, deleting>>

-----------------------------------------------------------------------------
(* Load                                                                    *)

\* The rows that the UPDATE of the current importer changes: matched, and
\* still there.
ToUpdate(i) ==
  {r \in Ids : /\ View(i)[r] # NoRow
               /\ \E n \in RowsOf(i, table[i]) : staged[i][n].id = r}

\* mutant: the snapshot holds the values that the UPDATE writes
LateAuditUpdates(i) ==
  {[id |-> staged[i][n].id, event |-> "update", object |-> staged[i][n].value] :
     n \in {m \in RowsOf(i, table[i]) : staged[i][m].id \in ToUpdate(i)}}

\* Base#audit_updates: a copy of the rows about to be updated.
AuditUpdates(i) ==
  {[id |-> r, event |-> "update", object |-> View(i)[r].value] : r \in ToUpdate(i)}

Snapshot(i) ==
  /\ step[i] = "snapshot"
  /\ audit' = [audit EXCEPT ![i] = @ \cup AuditUpdates(i)]
  /\ step' = [step EXCEPT ![i] = "load"]
  /\ UNCHANGED <<db, used, versions, table, zip, staged, own, editing, deleting>>

\* The CSV rows that become new database rows.  A relationship whose endpoints
\* are not resolved is dropped.
ToInsert(i) ==
  {n \in RowsOf(i, table[i]) :
     /\ staged[i][n].id = NoId
     /\ table[i] = "relationship" => staged[i][n].from # NoId}

Updated(i, r, n) ==
  [View(i)[r] EXCEPT !.value = staged[i][n].value, !.z = n, !.import = i]

Inserted(i, n) ==
  [table |-> table[i], uuid |-> UuidOf(i, n), value |-> staged[i][n].value,
   from |-> staged[i][n].from, to |-> staged[i][n].to, z |-> n, import |-> i]

AuditNothing(keys) == {}   \* mutant: an importer that does not audit its INSERT

AuditCreates(keys) == {[id |-> r, event |-> "create", object |-> NoValue] : r \in keys}

FreshKeys == Ids \ used

\* The UPDATE waits for the row locks of other transactions; the INSERT takes
\* new keys from the sequence, writes them back to the staging table and adds
\* a "create" row to the audit table.
Load(i) ==
  /\ step[i] = "load"
  /\ \A r \in ToUpdate(i) : ~Locked(r, i)
  /\ \E row \in [ToUpdate(i) -> DOMAIN zip[i]], key \in [ToInsert(i) -> FreshKeys] :
       /\ \A r \in ToUpdate(i) : row[r] \in RowsOf(i, table[i]) /\ staged[i][row[r]].id = r
       /\ \A m, n \in ToInsert(i) : key[m] = key[n] => m = n
       /\ \A n \in ToInsert(i), r \in FreshKeys :
            r < key[n] => \E m \in ToInsert(i) : key[m] = r
       /\ LET keys == {key[n] : n \in ToInsert(i)}
          IN  /\ own' = [own EXCEPT ![i] = [r \in Ids |->
                    IF r \in ToUpdate(i) THEN Updated(i, r, row[r])
                    ELSE IF r \in keys
                      THEN Inserted(i, CHOOSE n \in ToInsert(i) : key[n] = r)
                      ELSE own[i][r]]]
              /\ staged' = [staged EXCEPT ![i] = [n \in DOMAIN zip[i] |->
                    IF n \in ToInsert(i) THEN [staged[i][n] EXCEPT !.id = key[n]]
                                         ELSE staged[i][n]]]
              /\ audit' = [audit EXCEPT ![i] = @ \cup AuditCreates(keys)]
              /\ used' = used \cup keys
  /\ \/ /\ table[i] = "record"
        /\ table' = [table EXCEPT ![i] = "relationship"]
        /\ step' = [step EXCEPT ![i] = "match"]
     \/ /\ table[i] = "relationship"
        /\ step' = [step EXCEPT ![i] = "commit"]
        /\ UNCHANGED table
  /\ UNCHANGED <<db, versions, zip, editing, deleting>>

-----------------------------------------------------------------------------
(* Versions, commit and close                                              *)

Version(r, by, event, before, after) ==
  [item |-> r, by |-> by, event |-> event, before |-> before, after |-> after]

\* Audit#create_versions: one version per created row, and one per updated row
\* that was not also created and whose value is no longer the snapshot's.
\* The DISTINCT ON of versions_sql is the set: a relationship is audited once
\* for each of its two records.
CreateVersions(i) ==
  {Version(a.id, i, "create", NoValue, View(i)[a.id].value) :
     a \in {x \in audit[i] : x.event = "create"}}

UpdateVersions(i) ==
  {Version(a.id, i, "update", a.object, View(i)[a.id].value) :
     a \in {x \in audit[i] : /\ x.event = "update"
                             /\ View(i)[x.id] # NoRow
                             /\ View(i)[x.id].value # x.object
                             /\ \A c \in audit[i] : ~(c.id = x.id /\ c.event = "create")}}

KeepOwn(i) == own   \* mutant: the transaction is left open

\* The end of a transaction gives up its rows and their locks.
Released(i) == [own EXCEPT ![i] = [r \in Ids |-> Clean]]

\* The versions are written, the media files are uploaded, and the transaction
\* commits.
Commit(i) ==
  /\ step[i] = "commit"
  /\ db' = View(i)
  /\ versions' = versions \cup CreateVersions(i) \cup UpdateVersions(i)
  /\ own' = Released(i)
  /\ step' = [step EXCEPT ![i] = "cleanup"]
  /\ table' = [table EXCEPT ![i] = "record"]
  /\ UNCHANGED <<used, zip, staged, audit, editing, deleting>>

\* An exception in the transaction: a bad file, a lost connection, a database
\* error, the deadlock detector.  PostgreSQL undoes everything but the
\* sequences, the staging tables included.
RollBack(i) ==
  /\ step[i] \in InTransaction
  /\ own' = Released(i)
  /\ step' = [step EXCEPT ![i] = "failed"]
  /\ staged' = [staged EXCEPT ![i] = <<>>]
  /\ audit' = [audit EXCEPT ![i] = {}]
  /\ UNCHANGED <<db, used, versions, table, zip, editing, deleting>>

\* mutant: the relationship importer has no cleanup of its own
ToResetRecords(i) ==
  {r \in Ids : /\ RowsOf(i, table[i]) # {} /\ db[r] # NoRow
               /\ db[r].table = table[i] /\ table[i] = "record"}

\* An importer that ran resets every row of its table, whoever wrote it.
ToReset(i) ==
  {r \in Ids : RowsOf(i, table[i]) # {} /\ db[r] # NoRow /\ db[r].table = table[i]}

\* cleanup of the current importer: drop its staging table and set the z column
\* of the rows to NULL; the UPDATE waits for row locks.
Cleanup(i) ==
  /\ step[i] = "cleanup"
  /\ \A r \in ToReset(i) : ~Locked(r, i)
  /\ db' = [r \in Ids |-> IF r \in ToReset(i) THEN [db[r] EXCEPT !.z = 0] ELSE db[r]]
  /\ \/ /\ table[i] = "record"
        /\ table' = [table EXCEPT ![i] = "relationship"]
        /\ UNCHANGED <<step, audit>>
     \/ /\ table[i] = "relationship"
        /\ step' = [step EXCEPT ![i] = "closed"]
        /\ audit' = [audit EXCEPT ![i] = {}]
        /\ UNCHANGED table
  /\ staged' = [staged EXCEPT ![i] = [n \in DOMAIN @ \ RowsOf(i, table[i]) |-> @[n]]]
  /\ UNCHANGED <<used, versions, zip, own, editing, deleting>>

\* An exception after the commit: the import is reported as failed, its data
\* stay, and so do the z columns and the staging tables not yet cleaned up.
CloseFails(i) ==
  /\ step[i] = "cleanup"
  /\ step' = [step EXCEPT ![i] = "leaked"]
  /\ UNCHANGED <<db, used, versions, table, zip, staged, own, audit, editing, deleting>>

-----------------------------------------------------------------------------
(* Web requests                                                            *)

LockedByAny(r) == \E j \in Imports : own[j][r] # Clean

\* What a request has loaded of a row.
Copy(r) == [item |-> r, value |-> db[r].value]

\* ResourceController#update finds the record ...
BeginEdit(r) ==
  /\ "edit" \in WebActions
  /\ db[r] # NoRow /\ db[r].table = "record"
  /\ editing' = editing \cup {Copy(r)}
  /\ UNCHANGED <<db, used, versions, ImportVars, deleting>>

\* ... and saves it, if the new value is not the one it has loaded.  The UPDATE
\* waits for the row lock; it writes over what others have committed since, or
\* finds no row any more.  PaperTrail's version has the loaded value as its object.
Edit(e, value) ==
  /\ e \in editing /\ value # e.value
  /\ ~LockedByAny(e.item)
  /\ db' = IF db[e.item] = NoRow THEN db ELSE [db EXCEPT ![e.item].value = value]
  /\ versions' = versions \cup {Version(e.item, "web", "update", e.value, value)}
  /\ editing' = editing \ {e}
  /\ UNCHANGED <<used, ImportVars, deleting>>

\* Destroying a record first loads and destroys its dependent relationships,
\* those committed by then, and deletes the record last.
Dependents(r) ==
  {x \in Ids : /\ db[x] # NoRow
               /\ db[x].table = "relationship"
               /\ r \in {db[x].from, db[x].to}}

BeginDestroy(r) ==
  /\ "destroy" \in WebActions
  /\ db[r] # NoRow /\ db[r].table = "record"
  /\ deleting' = deleting \cup
       {[record |-> r, loaded |-> {Copy(x) : x \in {r} \cup Dependents(r)}]}
  /\ UNCHANGED <<db, used, versions, ImportVars, editing>>

\* mutant: delete_all, which has no callbacks, instead of destroy
DestroyVersionsOfRecord(d) ==
  {Version(c.item, "web", "destroy", c.value, NoValue) : c \in {x \in d.loaded : x.item = d.record}}

\* PaperTrail's versions of all that was loaded, whether a row is still there or not.
DestroyVersions(d) ==
  {Version(c.item, "web", "destroy", c.value, NoValue) : c \in d.loaded}

Destroy(d) ==
  /\ d \in deleting
  /\ LET gone == {c.item : c \in d.loaded}
     IN  /\ \A x \in gone : ~LockedByAny(x)
         /\ db' = [r \in Ids |-> IF r \in gone THEN NoRow ELSE db[r]]
  /\ versions' = versions \cup DestroyVersions(d)
  /\ deleting' = deleting \ {d}
  /\ UNCHANGED <<used, ImportVars, editing>>

-----------------------------------------------------------------------------
Init ==
  /\ db \in InitialDbs
  /\ used = {r \in Ids : db[r] # NoRow}
  /\ versions = {}
  /\ step = [i \in Imports |-> "idle"]
  /\ table = [i \in Imports |-> "record"]
  /\ zip = [i \in Imports |-> <<>>]
  /\ staged = [i \in Imports |-> <<>>]
  /\ own = [i \in Imports |-> [r \in Ids |-> Clean]]
  /\ audit = [i \in Imports |-> {}]
  /\ editing = {}
  /\ deleting = {}

Proceed(i) == Start(i) \/ Match(i) \/ Snapshot(i) \/ Load(i) \/ Commit(i) \/ Cleanup(i)
Fail(i)    == RollBack(i) \/ CloseFails(i)

Web == \/ \E r \in Ids : BeginEdit(r)
       \/ \E e \in editing, value \in Values : Edit(e, value)
       \/ \E r \in Ids : BeginDestroy(r)
       \/ \E d \in deleting : Destroy(d)

Next == (\E i \in Imports : Proceed(i) \/ Fail(i)) \/ Web

Spec == Init /\ [][Next]_vars

\* The worker runs every job it has taken, PostgreSQL grants a lock once its
\* holder is gone and detects deadlocks.  Web requests, failures and the start
\* of an import are not fair.
Fairness == \A i \in Imports : WF_vars(Match(i) \/ Snapshot(i) \/ Load(i) \/ Commit(i) \/ Cleanup(i))

FairSpec == Spec /\ Fairness

-----------------------------------------------------------------------------
(* Properties                                                              *)

StagedRow == [id : Ids \cup {NoId}, value : Values \cup {NoValue},
              from : Ids \cup {NoId}, to : Ids \cup {NoId}]
LoadedCopy == [item : Ids, value : Values]
AuditRow  == [id : Ids, event : {"create", "update"}, object : Values \cup {NoValue}]

\* The staging table of a running import has the import's CSV rows; those of the
\* current importer have their values once they are matched.
StagingOK(i) ==
  /\ step[i] \in InTransaction => staged[i] \in [DOMAIN zip[i] -> StagedRow]
  /\ step[i] \in {"snapshot", "load"} =>
       \A n \in RowsOf(i, table[i]) : staged[i][n].value \in Values

TypeOK ==
  /\ db \in [Ids -> Row \cup {NoRow}]
  /\ used \subseteq Ids
  /\ step \in [Imports -> Steps]
  /\ table \in [Imports -> Tables]
  /\ zip \in [Imports -> Zips \cup {<<>>}]
  /\ DOMAIN staged = Imports /\ \A i \in Imports : StagingOK(i)
  /\ own \in [Imports -> [Ids -> Row \cup {Clean}]]
  /\ audit \in [Imports -> SUBSET AuditRow]
  /\ editing \subseteq LoadedCopy
  /\ deleting \subseteq [record : Ids, loaded : SUBSET LoadedCopy]

Committed == {i \in Imports : step[i] \in {"cleanup", "closed", "leaked"}}

Public(row) == [table |-> row.table, uuid |-> row.uuid, value |-> row.value,
                from |-> row.from, to |-> row.to]

PublicRows == [r \in Ids |-> IF db[r] = NoRow THEN NoRow ELSE Public(db[r])]

Copies == editing \cup UNION {d.loaded : d \in deleting}

Contract == INSTANCE Catalogue WITH
  Absent  <- NoRow,
  rows    <- PublicRows,
  history <- versions,
  copies  <- Copies,
  applied <- Committed

\* Imports, with all their statements, failures and web requests in between,
\* implement the contract of Catalogue: all or nothing, at most once, one
\* "create" version per new row, no identity ever changed, and a version of what
\* a web request had loaded for all that it overwrites or deletes
\* (zip_helper.rb's transaction, audit.rb's create_versions, auditable.rb).
ImplementsContract == Contract!Contract

LockOK(i, r) ==
  own[i][r] # Clean =>
    /\ step[i] \in InTransaction
    /\ r \in used
    /\ ~Locked(r, i)
    /\ db[r] # NoRow => Contract!SameIdentity(db[r], own[i][r])

\* What a running import has written is invisible and locked: no other import
\* has written the same row, and the identity of a row that was there before has
\* not changed underneath (the UPDATE statements of load, under READ COMMITTED).
RowLocks ==
  /\ \A r \in Ids : db[r] # NoRow => r \in used
  /\ \A i \in Imports, r \in Ids : LockOK(i, r)

AuditedAs(i, r, event) == \E a \in audit[i] : a.id = r /\ a.event = event

AuditOK(i, r) ==
  /\ AuditedAs(i, r, "create") <=> own[i][r] # Clean /\ db[r] = NoRow
  /\ AuditedAs(i, r, "update") =>
       /\ r \in used
       /\ db[r] = NoRow => ~Locked(r, i)
       /\ \/ own[i][r] # Clean
          \/ db[r] = NoRow
          \/ step[i] = "load" /\ \E n \in RowsOf(i, table[i]) : staged[i][n].id = r

\* The audit table is in step with what the import has written: every new row
\* is in it as a "create" and nothing else is, and a row in it as an "update"
\* has been written, or is about to be, or has been deleted meanwhile for good
\* ("writes a row into a temporary audit table for every record it creates or
\* updates", audit.rb).
AuditMatchesWrites ==
  \A i \in Imports :
    /\ step[i] = "idle" => audit[i] = {}
    /\ step[i] \in InTransaction => \A r \in Ids : AuditOK(i, r)

\* Once an import is closed, no row that it wrote last still carries the number
\* of one of its CSV rows: such a row would be taken for an imported one when a
\* later file's relationships are resolved (the cleanup methods).
ClosedLeavesNoStagingIds ==
  \A i \in Imports, r \in Ids :
    step[i] = "closed" /\ db[r] # NoRow /\ db[r].import = i => db[r].z = 0

Replaces(i, r) == /\ step[i] = "commit" /\ step'[i] = "cleanup"
                  /\ db[r] # NoRow /\ db[r].value # db'[r].value

Versioned(i, r) == \E v \in versions' : v.item = r /\ v.by = i /\ v.event = "update"

\* A value that an import replaces has an "update" version by that import, where
\* imports run one at a time and no web request writes between the snapshot and
\* the UPDATE: "Records PaperTrail versions for the records added and modified by
\* an import" (audit.rb).
ImportsAloneAreVersioned ==
  [][\A i \in Imports, r \in Ids : Replaces(i, r) => Versioned(i, r)]_vars

UuidsUnique(rows) ==
  \A r, x \in Ids :
    rows[r] # NoRow /\ rows[x] # NoRow /\ rows[r].table = "record" /\ rows[x].table = "record"
    /\ rows[r].uuid = rows[x].uuid => r = x

SameLink(a, b) == a.from = b.from /\ a.to = b.to /\ a.value = b.value

RelationshipsUnique(rows) ==
  \A r, x \in Ids :
    rows[r] # NoRow /\ rows[x] # NoRow
    /\ rows[r].table = "relationship" /\ rows[x].table = "relationship"
    /\ SameLink(rows[r], rows[x]) => r = x

\* Importing files one after the other, in part again or after a failure, never
\* gives one uuid to two records, by which the public API and the next import look
\* them up, nor stores one relationship twice with the same values, with or without
\* uuids (transform of items.rb and relationships.rb, which match before they
\* insert).
ImportingAgainDuplicatesNothing == UuidsUnique(db) /\ RelationshipsUnique(db)

\* An import that has begun ends, whatever the others lock meanwhile.
EveryImportEnds ==
  \A i \in Imports : step[i] = "match" ~> step[i] \in {"closed", "failed", "leaked"}
=============================================================================
