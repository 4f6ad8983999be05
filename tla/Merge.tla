-------------------------------- MODULE Merge --------------------------------
(***************************************************************************)
(* Merging records (services/.../merge/merger.rb).                         *)
(*                                                                         *)
(* A merge request builds a new record out of the records a user chose; a  *)
(* job that removes duplicates (ImportAnalyze::Import#remove_duplicates)   *)
(* merges every group of equally named records into the oldest of them.    *)
(* Both run Merger#merge, which is not one transaction: the records and    *)
(* their links are loaded, the target is saved, its manifests are reset,   *)
(* and each merged record is destroyed in a transaction of its own, with   *)
(* the links that were loaded.  One action is one of these steps.          *)
(*                                                                         *)
(* The uuid generated for the record with primary key n is n.  The names,  *)
(* web identifiers and other values that a merge copies are left out.      *)
(***************************************************************************)
EXTENDS Naturals, FiniteSets

CONSTANTS
  Merges,         \* requests to MergeableController#merge
  Jobs,           \* runs of ImportAnalyze::Import#remove_duplicates
  MaxId,          \* bound: primary keys handed out
  Names,          \* what find_duplicates groups by
  Kinds,          \* project model relationships
  MediaKinds,     \* those whose related model is a published MediaContent
  InverseKinds,   \* those with an inverse whose primary model is one
  Settings,       \* the settings to run in
  NoSession, NoTarget,
  NoId            \* the primary key and the uuid of a record not saved yet

Sessions == Merges \cup Jobs
Ids      == 1 .. MaxId

Record       == [id : Ids, uuid : Ids, name : Names]
RecordMerge  == [record : Ids, uuid : Ids]      \* mergeable_id, merged_uuid
Manifest     == [record : Ids, kind : Kinds]
\* "by" tells apart rows with equal columns: the merge that built the row.
Relationship == [kind : Kinds, primary : Ids, related : Ids,
                 by : Sessions \cup {NoSession}]
\* A record to merge into: an existing one, or one that is not saved yet.
Target       == [id : Ids \cup {NoId}, uuid : Ids \cup {NoId}, name : Names]
Group        == [primary : Ids, duplicates : SUBSET Ids]
Tables       == [records : SUBSET Record, relationships : SUBSET Relationship,
                 manifests : SUBSET Manifest, nextId : 1 .. MaxId + 1]

(***************************************************************************)
(* What a behaviour starts from and meets: the tables, the merges and jobs *)
(* that may run, how many of them at a time and whether a job beside a     *)
(* request, whether a session may fail or crash at any step, and the       *)
(* relationships that users may add meanwhile.                             *)
(***************************************************************************)
Setting == [tables : Tables, sessions : SUBSET Sessions, threads : Nat, beside : BOOLEAN,
            failures : BOOLEAN,
            added : SUBSET [kind : Kinds, primary : Ids, related : Ids, by : {NoSession}]]

ASSUME MergeAssumption ==
  /\ MaxId \in Nat
  /\ IsFiniteSet(Sessions)
  /\ Merges \cap Jobs = {} /\ NoSession \notin Sessions /\ NoTarget \notin Target
  /\ NoId \notin Ids
  /\ MediaKinds \cup InverseKinds \subseteq Kinds
  /\ Settings \subseteq Setting
  /\ \A t \in {w.tables : w \in Settings} :
       /\ \A r \in t.records : r.uuid = r.id
       /\ \A r, q \in t.records : r.id = q.id => r = q
       /\ \A r \in t.records : r.id < t.nextId

VARIABLES
  setting,  \* the setting of this behaviour, which never changes
  records, recordMerges, relationships, manifests,
  nextId,   \* the next primary key of the record table
  step,     \* step[s]: what session s does next
  groups,   \* groups[s]: duplicates a job has found and not merged yet
  target,   \* target[s]: the record merged into
  ids,      \* ids[s]: params[:ids], or the duplicates of a group
  merged,   \* merged[s]: the loaded records that are still to be destroyed
  links,    \* links[s]: relationships loaded with them
  rest      \* rest[s]: record_merges and manifests loaded with them

tables == <<records, recordMerges, relationships, manifests, nextId>>
cache  == <<target, ids, merged, links, rest>>
vars   == <<setting, tables, step, groups, cache>>

Nothing == [merges |-> {}, manifests |-> {}]

Live       == {r.id : r \in records}
Steps      == {"idle", "groups", "load", "collect", "save", "reset", "destroy",
               "done", "refused", "failed"}
InMerger   == {"load", "collect", "save", "reset", "destroy"}
Written    == {"reset", "destroy"}
Active     == InMerger \cup {"groups"}
Go(s, next) == step' = [step EXCEPT ![s] = next]

IsJob(s) == s \in Jobs

Running == {s \in Sessions : step[s] \in Active}

MayStart(s) ==
  /\ s \in setting.sessions /\ step[s] = "idle"
  /\ Cardinality(Running) < setting.threads
  /\ setting.beside \/ \A q \in Running : IsJob(q) <=> IsJob(s)

\* What a session does when Merger#merge has returned: a job goes on.
Returned(s, answer) == IF IsJob(s) THEN "groups" ELSE answer

-----------------------------------------------------------------------------
(* The two callers                                                         *)

\* MergeableController#merge: the ids of the records to merge, and the
\* new record, which may take the uuid of one of them.
Request(m) ==
  /\ MayStart(m)
  /\ \E chosen \in SUBSET records :
       /\ chosen # {}
       /\ \E uuid \in {r.uuid : r \in chosen} \cup {NoId}, name \in {r.name : r \in chosen} :
            target' = [target EXCEPT ![m] = [id |-> NoId, uuid |-> uuid, name |-> name]]
       /\ ids' = [ids EXCEPT ![m] = {r.id : r \in chosen}]
  /\ Go(m, "load")
  /\ UNCHANGED <<tables, groups, merged, links, rest>>

Least(S) == CHOOSE x \in S : \A y \in S : x <= y

Named(name) == {r.id : r \in {q \in records : q.name = name}}

\* mutant: only the oldest duplicate
OneDuplicateOf(name) ==
  [primary    |-> Least(Named(name)),
   duplicates |-> {Least(Named(name) \ {Least(Named(name))})}]

DuplicatesOf(name) ==
  [primary |-> Least(Named(name)), duplicates |-> Named(name) \ {Least(Named(name))}]

FindDuplicates(j) ==
  /\ MayStart(j)
  /\ groups' = [groups EXCEPT ![j] =
       {DuplicatesOf(name) : name \in {n \in Names : Cardinality(Named(n)) > 1}}]
  /\ Go(j, "groups")
  /\ UNCHANGED <<tables, cache>>

\* The next group; a primary that is gone raises RecordNotFound.
NextGroup(j) ==
  /\ step[j] = "groups"
  /\ \E g \in groups[j] :
       /\ groups' = [groups EXCEPT ![j] = @ \ {g}]
       /\ IF g.primary \in Live
          THEN /\ \E r \in records : /\ r.id = g.primary
                                     /\ target' = [target EXCEPT ![j] = r]
               /\ ids' = [ids EXCEPT ![j] = g.duplicates]
               /\ Go(j, "load")
          ELSE /\ Go(j, "failed")
               /\ UNCHANGED <<target, ids>>
  /\ UNCHANGED <<tables, merged, links, rest>>

NoMoreGroups(j) ==
  /\ step[j] = "groups" /\ groups[j] = {}
  /\ Go(j, "done")
  /\ UNCHANGED <<tables, groups, cache>>

-----------------------------------------------------------------------------
(* Merger#merge                                                            *)

Touches(l, r) == l.primary = r.id \/ l.related = r.id

\* The records and, by Helper::PRELOADS, their relationships on both sides.
Load(s) ==
  /\ step[s] = "load"
  /\ LET found == {r \in records : r.id \in ids[s]}
     IN /\ merged' = [merged EXCEPT ![s] = found]
        /\ links' = [links EXCEPT ![s] = {l \in relationships : \E r \in found : Touches(l, r)}]
  /\ Go(s, "collect")
  /\ UNCHANGED <<tables, groups, target, ids, rest>>

\* record_merges and manifests are not preloaded: they are read as the merged
\* records are iterated.
Collect(s) ==
  /\ step[s] = "collect"
  /\ LET read == {r.id : r \in merged[s]}
     IN rest' = [rest EXCEPT ![s] =
          [merges    |-> {m \in recordMerges : m.record \in read},
           manifests |-> {m \in manifests : m.record \in read}]]
  /\ Go(s, "save")
  /\ UNCHANGED <<tables, groups, target, ids, merged, links>>

\* mutant: the merges of a merged record are not passed on
OwnUuids(s) == {r.uuid : r \in merged[s]} \ {target[s].uuid}

\* The uuids that become record_merges of the target.
MergedUuids(s) ==
  {m.uuid : m \in rest[s].merges} \cup
  ({r.uuid : r \in merged[s]} \ {target[s].uuid})

\* mutant: the row is looked up by a key that is not there yet
SavedWithoutKey(s) == target[s]

\* The target as it is saved: the INSERT gives a new record its primary key,
\* and a uuid unless it took one over.
Saved(s) ==
  IF IsJob(s) THEN target[s]
  ELSE [target[s] EXCEPT !.id = nextId, !.uuid = IF @ = NoId THEN nextId ELSE @]

LinksFrom(s) == {l \in links[s] : \E r \in merged[s] : l.primary = r.id}
LinksTo(s)   == {l \in links[s] : \E r \in merged[s] : l.related = r.id}

CopiedFrom(s) ==
  {[kind |-> l.kind, primary |-> Saved(s).id, related |-> l.related, by |-> s] : l \in LinksFrom(s)}

\* mutant: related_relationships are not copied
CopiedToNone(s) == {}

CopiedTo(s) ==
  {[kind |-> l.kind, primary |-> l.primary, related |-> Saved(s).id, by |-> s] : l \in LinksTo(s)}

CopiedManifests(s) == {[record |-> Saved(s).id, kind |-> m.kind] : m \in rest[s].manifests}

\* belongs_to requires the other record of a copied relationship; a manifest
\* is unique for its record and relationship.
Valid(s) ==
  /\ {l.related : l \in LinksFrom(s)} \cup {l.primary : l \in LinksTo(s)} \subseteq Live
  /\ CopiedManifests(s) \cap manifests = {}

\* new_record.save, one transaction.  The primary record of a job is stored
\* already and does not change, even if it is gone by now.  add_item keeps one
\* of several equal rows.
Save(s) ==
  /\ step[s] = "save" /\ Valid(s)
  /\ IsJob(s) \/ nextId <= MaxId
  /\ records' = IF IsJob(s) THEN records ELSE records \cup {Saved(s)}
  /\ nextId' = IF IsJob(s) THEN nextId ELSE nextId + 1
  /\ recordMerges' = recordMerges \cup {[record |-> Saved(s).id, uuid |-> u] : u \in MergedUuids(s)}
  /\ relationships' = relationships \cup CopiedFrom(s) \cup CopiedTo(s)
  /\ manifests' = manifests \cup CopiedManifests(s)
  /\ target' = [target EXCEPT ![s] = Saved(s)]
  /\ Go(s, "reset")
  /\ UNCHANGED <<groups, ids, merged, links, rest>>

\* save answers false: nothing is destroyed, a job goes on to the next group.
Refuse(s) ==
  /\ step[s] = "save" /\ ~Valid(s)
  /\ Go(s, Returned(s, "refused"))
  /\ UNCHANGED <<tables, groups, cache>>

\* The relationships by which a record has media, on either side of them.
MediaOf(r) ==
  {l.kind : l \in {k \in relationships : \/ (k.primary = r /\ k.kind \in MediaKinds)
                                       \/ (k.related = r /\ k.kind \in InverseKinds)}}

\* Iiif::Manifest#reset_manifests_by_type for the target, if it is still there:
\* one manifest for each kind of media it is related to.
ResetManifests(s) ==
  /\ step[s] = "reset"
  /\ manifests' =
       IF target[s].id \in Live
       THEN {m \in manifests : m.record # target[s].id} \cup
            {[record |-> target[s].id, kind |-> k] : k \in MediaOf(target[s].id)}
       ELSE manifests
  /\ Go(s, "destroy")
  /\ UNCHANGED <<records, recordMerges, relationships, nextId, groups, cache>>

\* destroy of one record: the rows that were loaded with it, and the record.
Destroy(s) ==
  /\ step[s] = "destroy"
  /\ \E r \in merged[s] :
       /\ records' = {q \in records : q.id # r.id}
       /\ recordMerges' = {m \in recordMerges : ~(m \in rest[s].merges /\ m.record = r.id)}
       /\ relationships' = {l \in relationships : ~(l \in links[s] /\ Touches(l, r))}
       /\ manifests' = {m \in manifests : ~(m \in rest[s].manifests /\ m.record = r.id)}
       /\ merged' = [merged EXCEPT ![s] = @ \ {r}]
  /\ UNCHANGED <<nextId, step, groups, target, ids, links, rest>>

\* mutant: the merge may return before every merged record is destroyed
FinishEarly(s) ==
  /\ step[s] = "destroy"
  /\ Go(s, Returned(s, "done"))
  /\ UNCHANGED <<tables, groups, cache>>

Finish(s) ==
  /\ step[s] = "destroy" /\ merged[s] = {}
  /\ Go(s, Returned(s, "done"))
  /\ UNCHANGED <<tables, groups, cache>>

\* The process stops, the database refuses a statement or the IIIF service does
\* not answer.  What was committed stays.
Fail(s) ==
  /\ setting.failures /\ step[s] \in Active
  /\ Go(s, "failed")
  /\ UNCHANGED <<tables, groups, cache>>

-----------------------------------------------------------------------------

\* RelationshipsController#create, by any user.
AddLink ==
  /\ \E l \in setting.added \ relationships :
       /\ {l.primary, l.related} \subseteq Live
       /\ relationships' = relationships \cup {l}
  /\ UNCHANGED <<records, recordMerges, manifests, nextId, step, groups, cache>>

Init ==
  /\ setting \in Settings
  /\ records = setting.tables.records
  /\ relationships = setting.tables.relationships
  /\ manifests = setting.tables.manifests
  /\ nextId = setting.tables.nextId
  /\ recordMerges = {}
  /\ step = [s \in Sessions |-> "idle"]
  /\ groups = [s \in Sessions |-> {}]
  /\ target = [s \in Sessions |-> NoTarget]
  /\ ids = [s \in Sessions |-> {}]
  /\ merged = [s \in Sessions |-> {}]
  /\ links = [s \in Sessions |-> {}]
  /\ rest = [s \in Sessions |-> Nothing]

Merger(s) == \/ Load(s)
             \/ Collect(s)
             \/ Save(s)
             \/ Refuse(s)
             \/ ResetManifests(s)
             \/ Destroy(s)
             \/ Finish(s)
             \/ Fail(s)

Next == /\ \/ \E m \in Merges : Request(m)
           \/ \E j \in Jobs : FindDuplicates(j) \/ NextGroup(j) \/ NoMoreGroups(j)
           \/ \E s \in Sessions : Merger(s)
           \/ AddLink
        /\ UNCHANGED setting

Spec == Init /\ [][Next]_vars

-----------------------------------------------------------------------------
(* Properties                                                              *)

TypeOK ==
  /\ setting \in Settings
  /\ records \subseteq Record /\ recordMerges \subseteq RecordMerge
  /\ relationships \subseteq Relationship /\ manifests \subseteq Manifest
  /\ nextId \in 1 .. MaxId + 1
  /\ step \in [Sessions -> Steps]
  /\ groups \in [Sessions -> SUBSET Group]
  /\ target \in [Sessions -> Target \cup {NoTarget}]
  /\ ids \in [Sessions -> SUBSET Ids]
  /\ merged \in [Sessions -> SUBSET Record]
  /\ links \in [Sessions -> SUBSET Relationship]
  /\ rest \in [Sessions -> [merges : SUBSET RecordMerge, manifests : SUBSET Manifest]]
  /\ \A s \in Sessions : step[s] \in InMerger => target[s] \in Target
  /\ \A s \in Sessions : (step[s] \in InMerger /\ (IsJob(s) \/ step[s] \in Written))
                           => target[s] \in Record

\* The uuids that lead to record r: its own and those of the records it was
\* merged from (search_merged_uuid).
Holds(r) == {r.uuid} \cup {m.uuid : m \in {k \in recordMerges : k.record = r.id}}

Resolves(uuid) == {r \in records : uuid \in Holds(r)}

\* A uuid that leads to a record never stops leading to one: a merged record is
\* destroyed only when another record has its uuid and those it was merged from.
\* Requests may overlap with requests, and jobs with jobs, and each may fail or
\* stop half-way; but where no job runs beside a request, since a job may merge
\* into a record that a request is destroying (Merger#merge).
UuidsStayResolvable ==
  [][~setting.beside => \A u \in Ids : Resolves(u) # {} => Resolves(u)' # {}]_vars

\* One merge or job at a time, none of which fails.
OneByOne == setting.threads = 1 /\ ~setting.failures

\* Once merges that ran one after the other are done, a uuid leads to one record
\* only: the records merged are all gone, and their uuids are with one of the
\* new records (Merger#merge).
UuidsAreUnambiguous ==
  OneByOne /\ (\A s \in Sessions : step[s] \notin Active)
     => \A u \in Ids : Cardinality(Resolves(u)) <= 1

\* Records u and v are related, whichever records the uuids lead to by now.
Related(u, v, kind) ==
  \E l \in relationships : /\ l.kind = kind
                           /\ \E r \in Resolves(u) : l.primary = r.id
                           /\ \E r \in Resolves(v) : l.related = r.id

Follows(u, v, kind) ==
  Related(u, v, kind) => Related(u, v, kind)' \/ (Resolves(u) \cap Resolves(v))' # {}

\* Records that are related stay related through merges one after the other,
\* unless they have become one record (Merger#merge), where users add no
\* relationship meanwhile.
LinksFollowMerges ==
  [][OneByOne /\ setting.added = {} => \A u, v \in Ids, k \in Kinds : Follows(u, v, k)]_vars

\* What keeps the records of one name apart: merging them is refused when one
\* of them has a relationship without its other record, or two have a manifest
\* of one kind.
Obstacle(name) ==
  \/ \E l \in relationships, r \in records :
       r.name = name /\ Touches(l, r) /\ ~ ({l.primary, l.related} \subseteq Live)
  \/ \E m, n \in manifests :
       /\ m # n /\ m.kind = n.kind
       /\ \E r, q \in records : r.name = name /\ q.name = name /\ m.record = r.id /\ n.record = q.id

Deduplicated == \A r, q \in records : r.name = q.name => r = q \/ Obstacle(r.name)

\* When a job that removes duplicates ends, and nothing else has run beside it,
\* no two records have one name, unless merging them is refused
\* (Import#remove_duplicates).
JobsRemoveDuplicates ==
  [][\A j \in Jobs : OneByOne /\ step[j] # "done" /\ step'[j] = "done" => Deduplicated]_vars
=============================================================================
