----------------------------- MODULE MergeProofs -----------------------------
(***************************************************************************)
(* Theorems about Merge.  No uuid is lost where requests overlap (MInv) or *)
(* jobs do (JobsInv), but not one with the other (KindsInv).  Where merges *)
(* and jobs run one after the other and none fails, uuids lead to one      *)
(* record each (SerialInv), relationships follow it (LinksInv), and a job  *)
(* leaves no duplicates (GroupsInv).                                       *)
(***************************************************************************)
EXTENDS Merge, FiniteSetTheorems, WellFoundedInduction, TLAPS

LEMMA LeastIsMember ==
  ASSUME NEW S \in SUBSET Nat, S # {}
  PROVE  Least(S) \in S /\ \A y \in S : Least(S) <= y
<1> DEFINE R == {ss \in Nat \X Nat : ss[1] < ss[2]}
<1>1. IsWellFoundedOn(R, Nat)
  BY NatLessThanWellFounded, Zenon DEF OpToRel
<1> HIDE DEF R
<1>2. PICK x \in S : \A y \in S : ~(<<y, x>> \in R)
  BY <1>1, WFMin
<1>3. \A m, n \in Nat : m < n => <<m, n>> \in R
  BY Zenon DEF R
<1>4. \A y \in S : ~(y < x)
  BY <1>2, <1>3
<1>5. \A y \in S : x <= y
  BY <1>4
<1> QED
  BY <1>5 DEF Least

-----------------------------------------------------------------------------
(***************************************************************************)
(* The inductive invariant.  A record that is about to be destroyed may be *)
(* the target of an older merge, which relies on it.  Merges among new     *)
(* records only ever point to later ones, so that another record, with a   *)
(* later key than the target, has the uuids when it goes.                  *)
(***************************************************************************)

\* Some record from key b on has the uuid.
Holder(uuid, b) == \E r \in records : r.id >= b /\ uuid \in Holds(r)

KeysUnique ==
  /\ \A r \in records : r.id < nextId
  /\ \A r, q \in records : r.id = q.id => r = q

\* What a merge has loaded is the record that is stored, if it still is.
Loaded == {"collect", "save", "reset", "destroy"}
LoadedIsStored ==
  \A s \in Sessions : step[s] \in Loaded =>
    \A r \in merged[s] : r.id < nextId /\ (r.id \in Live => r \in records)

\* The uuids that a merge has read from a record are all that it has.
Cached(s, r) == {r.uuid} \cup {m.uuid : m \in {k \in rest[s].merges : k.record = r.id}}
CacheIsComplete ==
  \A s \in Sessions : step[s] \in Loaded \ {"collect"} =>
    \A r \in merged[s] : r \in records => Holds(r) \subseteq Cached(s, r)

\* Once the target is saved, every uuid of the records to be destroyed is with
\* the target or with a later record.
OthersHold ==
  \A s \in Sessions : step[s] \in Written =>
    /\ target[s].id < nextId
    /\ \A r \in merged[s] : /\ r.id < target[s].id
                            /\ \A u \in Cached(s, r) : Holder(u, target[s].id)

MInv == TypeOK /\ KeysUnique /\ LoadedIsStored /\ CacheIsComplete /\ OthersHold

\* Which kind of session is at work.
NoJobRuns     == \A s \in Sessions : step[s] \in Active => ~IsJob(s)
NoRequestRuns == \A s \in Sessions : step[s] \in Active => IsJob(s)

-----------------------------------------------------------------------------
(* Type correctness, of merges and jobs                                    *)

LEMMA SavedIsRecord ==
  ASSUME TypeOK, NEW s \in Sessions, step[s] = "save", IsJob(s) \/ nextId <= MaxId
  PROVE  Saved(s) \in Record
<1>1. target[s] \in Target /\ nextId \in Nat /\ MaxId \in Nat
  BY MergeAssumption DEF TypeOK, InMerger
<1>2. CASE IsJob(s)
  BY <1>2 DEF TypeOK, InMerger, Saved
<1>3. CASE ~IsJob(s)
  <2>1. nextId \in Ids
    BY <1>1, <1>3 DEF TypeOK, Ids
  <2>2. target[s].uuid # NoId => target[s].uuid \in Ids
    BY <1>1 DEF Target
  <2> QED
    BY <1>1, <1>3, <2>1, <2>2 DEF Saved, Target, Record
<1> QED
  BY <1>2, <1>3

LEMMA InitType == Init => TypeOK
<1> SUFFICES ASSUME Init PROVE TypeOK
  OBVIOUS
<1>1. setting \in Settings
  BY DEF Init
<1>2. setting.tables \in Tables
  BY <1>1, MergeAssumption DEF Setting
<1>3. /\ records \subseteq Record /\ recordMerges \subseteq RecordMerge
      /\ relationships \subseteq Relationship /\ manifests \subseteq Manifest
      /\ nextId \in 1 .. MaxId + 1
  BY <1>1, <1>2 DEF Init, Tables
<1>4. Nothing \in [merges : SUBSET RecordMerge, manifests : SUBSET Manifest]
  BY DEF Nothing
<1> QED
  BY <1>3, <1>4 DEF Init, TypeOK, Steps, InMerger

\* The tables after a save.
LEMMA SaveTypes ==
  ASSUME TypeOK, NEW s \in Sessions, Save(s)
  PROVE  /\ records' \subseteq Record /\ recordMerges' \subseteq RecordMerge
         /\ relationships' \subseteq Relationship /\ manifests' \subseteq Manifest
         /\ nextId' \in 1 .. MaxId + 1
<1>1. Saved(s) \in Record /\ Saved(s).id \in Ids
  BY SavedIsRecord DEF Save, Record
<1>2. MergedUuids(s) \subseteq Ids
  BY DEF TypeOK, MergedUuids, RecordMerge, Record
<1>3. CopiedFrom(s) \subseteq Relationship /\ CopiedTo(s) \subseteq Relationship
  <2>1. LinksFrom(s) \subseteq Relationship /\ LinksTo(s) \subseteq Relationship
    BY DEF TypeOK, LinksFrom, LinksTo
  <2>2. \A l \in Relationship : l.kind \in Kinds /\ l.primary \in Ids /\ l.related \in Ids
    BY DEF Relationship
  <2>3. \A k \in Kinds, p, r \in Ids :
          [kind |-> k, primary |-> p, related |-> r, by |-> s] \in Relationship
    BY DEF Relationship
  <2> QED
    BY <1>1, <2>1, <2>2, <2>3 DEF CopiedFrom, CopiedTo
<1>4. CopiedManifests(s) \subseteq Manifest
  BY <1>1 DEF TypeOK, CopiedManifests, Manifest
<1>5. nextId' \in 1 .. MaxId + 1
  BY MergeAssumption DEF TypeOK, Save
<1>6. records' \subseteq Record
  BY <1>1 DEF TypeOK, Save
<1>7. recordMerges' \subseteq RecordMerge
  BY <1>1, <1>2 DEF TypeOK, Save, RecordMerge
<1> QED
  BY <1>3, <1>4, <1>5, <1>6, <1>7 DEF TypeOK, Save

LEMMA GroupsAreTyped ==
  ASSUME TypeOK, NEW name \in Names, Cardinality(Named(name)) > 1
  PROVE  DuplicatesOf(name) \in Group
<1>1. Named(name) \subseteq Ids
  BY DEF TypeOK, Named, Record
<1>2. Named(name) # {}
  BY FS_EmptySet
<1>3. Least(Named(name)) \in Ids
  BY <1>1, <1>2, LeastIsMember DEF Ids
<1> QED
  BY <1>1, <1>3 DEF DuplicatesOf, Group

LEMMA StepType == TypeOK /\ [Next]_vars => TypeOK'
<1> SUFFICES ASSUME TypeOK, [Next]_vars PROVE TypeOK'
  OBVIOUS
<1>0. setting' = setting
  BY DEF Next, vars
<1> USE <1>0 DEF tables, cache, Go, Steps, InMerger, Written
<1>1. ASSUME NEW m \in Merges, Request(m) PROVE TypeOK'
  <2>0. PICK chosen \in SUBSET records :
          /\ \E uuid \in {r.uuid : r \in chosen} \cup {NoId}, name \in {r.name : r \in chosen} :
               target' = [target EXCEPT ![m] = [id |-> NoId, uuid |-> uuid, name |-> name]]
          /\ ids' = [ids EXCEPT ![m] = {r.id : r \in chosen}]
    BY <1>1 DEF Request
  <2>r. \A r \in chosen : r.id \in Ids /\ r.uuid \in Ids /\ r.name \in Names
    BY DEF TypeOK, Record
  <2>1. PICK t \in Target : target' = [target EXCEPT ![m] = t]
    <3>1. PICK uuid \in {r.uuid : r \in chosen} \cup {NoId}, name \in {r.name : r \in chosen} :
            target' = [target EXCEPT ![m] = [id |-> NoId, uuid |-> uuid, name |-> name]]
      BY <2>0
    <3>2. [id |-> NoId, uuid |-> uuid, name |-> name] \in Target
      BY <2>r DEF Target
    <3> QED
      BY <3>1, <3>2
  <2>2. {r.id : r \in chosen} \in SUBSET Ids
    BY <2>r
  <2>3. m \in Sessions /\ ~IsJob(m)
    BY MergeAssumption DEF Sessions, IsJob
  <2> QED
    BY <1>1, <2>0, <2>1, <2>2, <2>3 DEF Request, TypeOK
<1>2. ASSUME NEW j \in Jobs, FindDuplicates(j) PROVE TypeOK'
  <2>1. {DuplicatesOf(n) : n \in {k \in Names : Cardinality(Named(k)) > 1}} \in SUBSET Group
    BY GroupsAreTyped
  <2> QED
    BY <1>2, <2>1 DEF FindDuplicates, TypeOK
<1>3. ASSUME NEW j \in Jobs, NextGroup(j) PROVE TypeOK'
  <2>1. PICK g \in groups[j] :
           /\ groups' = [groups EXCEPT ![j] = @ \ {g}]
           /\ IF g.primary \in Live
              THEN /\ \E r \in records : /\ r.id = g.primary
                                         /\ target' = [target EXCEPT ![j] = r]
                   /\ ids' = [ids EXCEPT ![j] = g.duplicates]
                   /\ Go(j, "load")
              ELSE /\ Go(j, "failed")
                   /\ UNCHANGED <<target, ids>>
    BY <1>3 DEF NextGroup
  <2>2. j \in Sessions /\ g \in Group
    BY <2>1 DEF Sessions, TypeOK
  <2>3. CASE g.primary \in Live
    <3>1. PICK r \in records : target' = [target EXCEPT ![j] = r]
      BY <2>1, <2>3
    <3>2. r \in Record /\ r \in Target
      BY <3>1 DEF TypeOK, Record, Target
    <3>3. g.duplicates \in SUBSET Ids
      BY <2>2 DEF Group
    <3> QED
      BY SMTT(20), <1>3, <2>1, <2>2, <2>3, <3>1, <3>2, <3>3 DEF NextGroup, TypeOK
  <2>4. CASE g.primary \notin Live
    BY ZenonT(30), <1>3, <2>1, <2>2, <2>4 DEF NextGroup, TypeOK
  <2> QED
    BY <2>3, <2>4
<1>4. ASSUME NEW j \in Jobs, NoMoreGroups(j) PROVE TypeOK'
  BY <1>4 DEF NoMoreGroups, TypeOK
<1>5. ASSUME NEW s \in Sessions, Load(s) PROVE TypeOK'
  BY <1>5 DEF Load, TypeOK
<1>6. ASSUME NEW s \in Sessions, Collect(s) PROVE TypeOK'
  BY <1>6 DEF Collect, TypeOK
<1>7. ASSUME NEW s \in Sessions, Save(s) PROVE TypeOK'
  <2>1. Saved(s) \in Record /\ Saved(s) \in Target
    BY <1>7, SavedIsRecord DEF Save, Record, Target
  <2> QED
    BY <1>7, <2>1, SaveTypes DEF Save, TypeOK
<1>8. ASSUME NEW s \in Sessions, Refuse(s) PROVE TypeOK'
  BY <1>8 DEF Refuse, Returned, TypeOK
<1>9. ASSUME NEW s \in Sessions, ResetManifests(s) PROVE TypeOK'
  <2>1. MediaOf(target[s].id) \subseteq Kinds
    BY MergeAssumption DEF MediaOf
  <2>2. target[s].id \in Ids
    BY <1>9 DEF ResetManifests, TypeOK, Record
  <2>3. manifests' \subseteq Manifest
    BY <1>9, <2>1, <2>2 DEF ResetManifests, TypeOK, Manifest
  <2> QED
    BY <1>9, <2>3 DEF ResetManifests, TypeOK
<1>10. ASSUME NEW s \in Sessions, Destroy(s) PROVE TypeOK'
  <2>1. /\ records' \subseteq records /\ recordMerges' \subseteq recordMerges
        /\ relationships' \subseteq relationships /\ manifests' \subseteq manifests
    BY <1>10 DEF Destroy
  <2>2. merged' \in [Sessions -> SUBSET Record]
    BY <1>10 DEF Destroy, TypeOK
  <2> QED
    BY <1>10, <2>1, <2>2 DEF Destroy, TypeOK
<1>11. ASSUME NEW s \in Sessions, Finish(s) PROVE TypeOK'
  BY <1>11 DEF Finish, Returned, TypeOK
<1>12. ASSUME NEW s \in Sessions, Fail(s) PROVE TypeOK'
  BY <1>12 DEF Fail, TypeOK
<1>13. ASSUME AddLink PROVE TypeOK'
  <2>1. relationships' \subseteq Relationship
    BY <1>13, MergeAssumption DEF AddLink, TypeOK, Relationship, Setting
  <2> QED
    BY <1>13, <2>1 DEF AddLink, TypeOK
<1>14. ASSUME UNCHANGED vars PROVE TypeOK'
  BY <1>14 DEF vars, TypeOK
<1> QED
  BY <1>1, <1>2, <1>3, <1>4, <1>5, <1>6, <1>7, <1>8, <1>9, <1>10, <1>11, <1>12, <1>13, <1>14
     DEF Next, Merger

\* Merge requests and jobs keep the types of the tables and of what they hold
\* in memory, whatever the tables to start from.
THEOREM MergeTypeCorrect == Spec => []TypeOK
<1>1. Init => TypeOK
  BY InitType
<1>2. TypeOK /\ [Next]_vars => TypeOK'
  BY StepType
<1> QED
  BY <1>1, <1>2, PTL DEF Spec

-----------------------------------------------------------------------------
(* While merge requests run and no job does                                *)

\* A step that removes neither records nor record_merges leaves every holder.
LEMMA HoldersStay ==
  ASSUME records \subseteq records', recordMerges \subseteq recordMerges',
         NEW u, NEW b \in Nat, Holder(u, b)
  PROVE  Holder(u, b)'
BY DEF Holder, Holds

\* A record that is destroyed leaves its uuids with later records.
LEMMA DestroyLeavesHolders ==
  ASSUME MInv, NEW s \in Sessions, Destroy(s), NEW u, NEW b \in Nat, Holder(u, b)
  PROVE  Holder(u, b)'
<1>1. PICK r \in merged[s] :
         /\ records' = {q \in records : q.id # r.id}
         /\ recordMerges' = {m \in recordMerges : ~(m \in rest[s].merges /\ m.record = r.id)}
  BY DEF Destroy
<1>2. \A q \in records : q.id # r.id /\ u \in Holds(q) => q \in records' /\ u \in Holds(q)'
  BY <1>1 DEF Holds
<1>3. PICK q \in records : q.id >= b /\ u \in Holds(q)
  BY DEF Holder
<1>4. CASE q.id # r.id
  BY <1>2, <1>3, <1>4 DEF Holder
<1>5. CASE q.id = r.id
  <2>1. step[s] = "destroy" /\ step[s] \in Written /\ step[s] \in Loaded \ {"collect"}
    BY DEF Destroy, Written, Loaded
  <2>2. r \in records /\ q = r
    BY <1>3, <1>5, <2>1 DEF MInv, LoadedIsStored, KeysUnique, Live, Loaded
  <2>3. u \in Cached(s, r)
    BY <1>3, <2>1, <2>2 DEF MInv, CacheIsComplete
  <2>4. Holder(u, target[s].id) /\ r.id < target[s].id
    BY <2>1, <2>3 DEF MInv, OthersHold
  <2>5. PICK x \in records : x.id >= target[s].id /\ u \in Holds(x)
    BY <2>4 DEF Holder
  <2>6. /\ x.id \in Nat /\ r.id \in Nat /\ target[s].id \in Nat
    <3>1. target[s] \in Record
      BY <2>1 DEF MInv, TypeOK, Written, InMerger
    <3>2. x \in Record /\ r \in Record
      BY DEF MInv, TypeOK
    <3> QED
      BY <3>1, <3>2 DEF Record, Ids
  <2>7. x.id # r.id /\ x.id >= b
    BY <1>3, <1>5, <2>4, <2>5, <2>6
  <2> QED
    BY <1>2, <2>5, <2>7 DEF Holder
<1> QED
  BY <1>4, <1>5

LEMMA StepKeepsHolders ==
  ASSUME MInv, Next, NEW u, NEW b \in Nat, Holder(u, b)
  PROVE  Holder(u, b)'
<1>1. ASSUME NEW s \in Sessions, Destroy(s) PROVE Holder(u, b)'
  BY <1>1, DestroyLeavesHolders
<1>2. ASSUME NEW s \in Sessions, ~Destroy(s), Merger(s) PROVE Holder(u, b)'
  <2>1. records \subseteq records' /\ recordMerges \subseteq recordMerges'
    BY <1>2 DEF Merger, Load, Collect, Save, Refuse, ResetManifests, Finish, Fail, tables
  <2> QED
    BY <2>1, HoldersStay
<1>3. ASSUME ~(\E s \in Sessions : Merger(s)) PROVE Holder(u, b)'
  <2>1. records \subseteq records' /\ recordMerges \subseteq recordMerges'
    BY <1>3 DEF Next, Request, FindDuplicates, NextGroup, NoMoreGroups, AddLink, tables
  <2> QED
    BY <2>1, HoldersStay
<1> QED
  BY <1>1, <1>2, <1>3

LEMMA InitInv == Init => MInv
<1> SUFFICES ASSUME Init PROVE MInv
  OBVIOUS
<1>1. TypeOK
  BY InitType
<1>2. KeysUnique
  BY MergeAssumption DEF Init, KeysUnique
<1> QED
  BY <1>1, <1>2 DEF Init, MInv, LoadedIsStored, CacheIsComplete, OthersHold, Loaded, Written

LEMMA KeysStayUnique ==
  ASSUME TypeOK, KeysUnique, [Next]_vars
  PROVE  KeysUnique'
<1>1. ASSUME NEW s \in Sessions, Save(s), ~IsJob(s) PROVE KeysUnique'
  <2>1. Saved(s).id = nextId /\ Saved(s) \in Record /\ nextId \in Nat
    <3>1. Saved(s) \in Record
      BY <1>1, SavedIsRecord DEF Save
    <3>2. target[s] \in Target
      BY <1>1 DEF Save, TypeOK, InMerger
    <3> QED
      BY <1>1, <3>1, <3>2 DEF Saved, Target, TypeOK
  <2>2. \A r \in records : r.id \in Nat
    BY DEF TypeOK, Record, Ids
  <2> QED
    BY <1>1, <2>1, <2>2 DEF Save, KeysUnique
<1>2. ASSUME NEW s \in Sessions, Destroy(s) PROVE KeysUnique'
  BY <1>2 DEF Destroy, KeysUnique
<1>3. CASE UNCHANGED <<records, nextId>>
  BY <1>3 DEF KeysUnique
<1>4. ASSUME NEW s \in Sessions, Save(s), IsJob(s) PROVE UNCHANGED <<records, nextId>>
  BY <1>4 DEF Save
<1> QED
  BY <1>1, <1>2, <1>3, <1>4
  DEF Next, Merger, Request, FindDuplicates, NextGroup, NoMoreGroups, Load, Collect,
      Refuse, ResetManifests, Finish, Fail, AddLink, tables, vars

\* Which merges have loaded or saved what is decided by their own steps only.
LEMMA WhoHasLoaded ==
  ASSUME TypeOK, [Next]_vars,
         NEW s \in Sessions, step'[s] \in Loaded, ~Load(s)
  PROVE  /\ step[s] \in Loaded
         /\ merged'[s] \subseteq merged[s]
         /\ Collect(s) \/ (rest'[s] = rest[s] /\ (step[s] = "collect" => step'[s] = "collect"))
         /\ Save(s) \/ (target'[s] = target[s] /\ (step[s] = "save" => step'[s] = "save"))
<1> USE DEF Go, Loaded, Sessions
<1>0. /\ step \in [Sessions -> Steps] /\ merged \in [Sessions -> SUBSET Record]
      /\ target \in [Sessions -> Target \cup {NoTarget}]
      /\ rest \in [Sessions -> [merges : SUBSET RecordMerge, manifests : SUBSET Manifest]]
  BY DEF TypeOK
<1>1. ASSUME NEW m \in Merges, Request(m)
      PROVE  s # m /\ UNCHANGED <<step[s], merged[s], rest[s], target[s]>>
  BY <1>0, <1>1 DEF Request
<1>9. ASSUME NEW j \in Jobs, FindDuplicates(j) \/ NextGroup(j) \/ NoMoreGroups(j)
      PROVE  s # j /\ UNCHANGED <<step[s], merged[s], rest[s], target[s]>>
  BY <1>0, <1>9 DEF FindDuplicates, NextGroup, NoMoreGroups, cache
<1>2. ASSUME NEW q \in Sessions, Load(q)
      PROVE  UNCHANGED <<step[s], merged[s], rest[s], target[s]>>
  BY <1>0, <1>2 DEF Load
<1>3. ASSUME NEW q \in Sessions, q # s, Merger(q)
      PROVE  UNCHANGED <<step[s], merged[s], rest[s], target[s]>>
  BY <1>0, <1>3
  DEF Merger, Load, Collect, Save, Refuse, ResetManifests, Destroy, Finish, Fail, cache, tables
<1>4. ASSUME Collect(s)
      PROVE  /\ step[s] \in Loaded /\ merged' = merged
             /\ UNCHANGED target /\ step[s] # "save"
  BY <1>0, <1>4 DEF Collect
<1>5. ASSUME Save(s)
      PROVE  /\ step[s] \in Loaded /\ merged' = merged
             /\ UNCHANGED rest /\ step[s] # "collect"
  BY <1>0, <1>5 DEF Save
<1>6. ASSUME Refuse(s) \/ Finish(s) \/ Fail(s) PROVE FALSE
  BY <1>0, <1>6 DEF Refuse, Finish, Fail, Returned, IsJob
<1>7. ASSUME ResetManifests(s) \/ Destroy(s)
      PROVE  /\ step[s] \in Loaded /\ merged'[s] \subseteq merged[s]
             /\ UNCHANGED <<rest, target>> /\ step[s] \notin {"collect", "save"}
  BY <1>0, <1>7 DEF ResetManifests, Destroy, cache
<1>8. ASSUME AddLink \/ UNCHANGED vars
      PROVE  UNCHANGED <<step[s], merged[s], rest[s], target[s]>>
  BY <1>8 DEF AddLink, vars, cache
<1> QED
  BY <1>1, <1>2, <1>3, <1>4, <1>5, <1>6, <1>7, <1>8, <1>9 DEF Next, Merger

LEMMA LoadedStaysStored ==
  ASSUME MInv, NoJobRuns, [Next]_vars
  PROVE  LoadedIsStored'
<1> SUFFICES ASSUME NEW s \in Sessions, step'[s] \in Loaded, NEW r \in merged'[s]
             PROVE  r.id < nextId' /\ (r.id \in Live' => r \in records')
  BY DEF LoadedIsStored
<1>0. TypeOK /\ KeysUnique /\ nextId \in Nat
  BY DEF MInv, TypeOK
<1>1. CASE Load(s)
  <2>1. merged'[s] \subseteq records /\ UNCHANGED <<records, nextId>>
    BY <1>0, <1>1 DEF Load, tables, TypeOK
  <2> QED
    BY <1>0, <2>1 DEF KeysUnique
<1>2. CASE ~Load(s)
  <2>1. r \in merged[s] /\ step[s] \in Loaded
    BY <1>0, <1>2, WhoHasLoaded
  <2>2. r.id < nextId /\ (r.id \in Live => r \in records) /\ r.id \in Nat
    BY <1>0, <2>1 DEF MInv, LoadedIsStored, TypeOK, Record, Ids
  <2>3. ASSUME NEW q \in Sessions, Save(q)
        PROVE  nextId' = nextId + 1 /\ records' = records \cup {Saved(q)} /\ Saved(q).id = nextId
    BY <1>0, <2>3 DEF NoJobRuns, Active, Save, Saved, TypeOK, InMerger, Target
  <2>4. ASSUME NEW q \in Sessions, Save(q)
        PROVE  r.id < nextId' /\ (r.id \in Live' => r \in records')
    BY <1>0, <2>2, <2>3, <2>4 DEF Live
  <2>5. ASSUME NEW q \in Sessions, Destroy(q)
        PROVE  r.id < nextId' /\ (r.id \in Live' => r \in records')
    BY <2>2, <2>5 DEF Destroy, Live
  <2>6. CASE UNCHANGED <<records, nextId>>
    BY <2>2, <2>6 DEF Live
  <2> QED
    BY <2>4, <2>5, <2>6
    DEF Next, Merger, Request, FindDuplicates, NextGroup, NoMoreGroups, Load, Collect,
        Refuse, ResetManifests, Finish, Fail, AddLink, tables, vars
<1> QED
  BY <1>1, <1>2

LEMMA CacheStaysComplete ==
  ASSUME MInv, NoJobRuns, [Next]_vars
  PROVE  CacheIsComplete'
<1> SUFFICES ASSUME NEW s \in Sessions, step'[s] \in Loaded \ {"collect"},
                    NEW r \in merged'[s], r \in records'
             PROVE  Holds(r)' \subseteq Cached(s, r)'
  BY DEF CacheIsComplete
<1>0. TypeOK /\ KeysUnique /\ step \in [Sessions -> Steps] /\ nextId \in Nat
  BY DEF MInv, TypeOK
<1>1. ~Load(s)
  BY <1>0 DEF Load, Go
<1>2. r \in merged[s] /\ step[s] \in Loaded /\ r.id < nextId
  BY <1>0, <1>1, WhoHasLoaded DEF MInv, LoadedIsStored
<1>3. CASE Collect(s)
  <2>1. UNCHANGED <<recordMerges, records>>
    BY <1>3 DEF Collect, tables
  <2>2. rest'[s].merges = {m \in recordMerges : m.record \in {q.id : q \in merged[s]}}
    BY <1>0, <1>3 DEF Collect, TypeOK
  <2> QED
    BY <1>2, <2>1, <2>2 DEF Holds, Cached
<1>4. CASE ~Collect(s)
  <2>1. rest'[s] = rest[s] /\ step[s] # "collect"
    BY <1>0, <1>1, <1>4, WhoHasLoaded
  <2>2. r \in records
    <3>1. ASSUME NEW q \in Sessions, Save(q) PROVE r.id # Saved(q).id
      <4>1. Saved(q).id = nextId
        BY <1>0, <3>1 DEF NoJobRuns, Active, Save, Saved, TypeOK, InMerger, Target
      <4> QED
        BY <1>0, <1>2, <4>1
    <3>2. ASSUME NEW q \in Sessions, Save(q) PROVE r \in records
      BY <3>1, <3>2 DEF Save
    <3>3. ~(\E q \in Sessions : Save(q)) => records' \subseteq records
      BY DEF Next, Merger, Request, FindDuplicates, NextGroup, NoMoreGroups, Load, Collect,
             Refuse, ResetManifests, Destroy, Finish, Fail, AddLink, tables, vars
    <3> QED
      BY <3>2, <3>3
  <2>3. Holds(r) \subseteq Cached(s, r)
    BY <1>2, <2>1, <2>2 DEF MInv, CacheIsComplete
  <2>4. Cached(s, r)' = Cached(s, r)
    BY <2>1 DEF Cached
  <2>5. Holds(r)' \subseteq Holds(r)
    <3>1. ASSUME NEW q \in Sessions, Save(q), NEW m \in recordMerges', m.record = r.id
          PROVE  m \in recordMerges
      <4>1. Saved(q).id = nextId
        BY <1>0, <3>1 DEF NoJobRuns, Active, Save, Saved, TypeOK, InMerger, Target
      <4> QED
        BY <1>0, <1>2, <3>1, <4>1 DEF Save
    <3>2. ~(\E q \in Sessions : Save(q)) => recordMerges' \subseteq recordMerges
      BY DEF Next, Merger, Request, FindDuplicates, NextGroup, NoMoreGroups, Load, Collect,
             Refuse, ResetManifests, Destroy, Finish, Fail, AddLink, tables, vars
    <3>3. \A m \in recordMerges' : m.record = r.id => m \in recordMerges
      BY <3>1, <3>2
    <3> QED
      BY <3>3 DEF Holds
  <2> QED
    BY <2>3, <2>4, <2>5
<1> QED
  BY <1>3, <1>4

\* A save passes every cached uuid on to the target.
LEMMA SaveHolds ==
  ASSUME MInv, NoJobRuns, NEW s \in Sessions, Save(s), NEW r \in merged[s],
         NEW u \in Cached(s, r), NEW b, b = nextId
  PROVE  Holder(u, b)' /\ r.id < b
<1>0. TypeOK /\ ~IsJob(s) /\ nextId \in Nat
  BY DEF MInv, TypeOK, NoJobRuns, Save, Active, InMerger
<1>1. target[s] \in Target /\ step[s] \in Loaded
  BY <1>0 DEF Save, TypeOK, InMerger, Loaded
<1>2. PICK n : n = Saved(s)
  OBVIOUS
<1>3. n.id = b /\ (target[s].uuid # NoId => n.uuid = target[s].uuid)
  BY <1>0, <1>1, <1>2 DEF Saved, Target
<1>4. n \in records'
  BY <1>0, <1>2 DEF Save
<1>5. \A v \in MergedUuids(s) : v \in Holds(n)'
  <2>1. \A m \in recordMerges' : m.record = n.id => m.uuid \in Holds(n)'
    BY DEF Holds
  <2> SUFFICES ASSUME NEW v \in MergedUuids(s) PROVE v \in Holds(n)'
    OBVIOUS
  <2>2. PICK m : m = [record |-> n.id, uuid |-> v]
    OBVIOUS
  <2>3. m \in recordMerges'
    BY <1>2, <2>2 DEF Save
  <2> QED
    BY <2>1, <2>2, <2>3
<1>6. ASSUME u = r.uuid PROVE u \in Holds(n)'
  <2>1. r.uuid # NoId
    BY <1>0, MergeAssumption DEF TypeOK, Record
  <2>2. CASE r.uuid = target[s].uuid
    BY <1>3, <1>6, <2>1, <2>2 DEF Holds
  <2>3. CASE r.uuid # target[s].uuid
    BY <1>5, <1>6, <2>3 DEF MergedUuids
  <2> QED
    BY <2>2, <2>3
<1>7. ASSUME u \in {m.uuid : m \in {k \in rest[s].merges : k.record = r.id}}
      PROVE  u \in Holds(n)'
  BY <1>5, <1>7 DEF MergedUuids
<1>8. u \in Holds(n)'
  BY <1>6, <1>7 DEF Cached
<1>9. r.id < b
  BY <1>1 DEF MInv, LoadedIsStored
<1> QED
  BY <1>0, <1>3, <1>4, <1>8, <1>9 DEF Holder

LEMMA OthersStillHold ==
  ASSUME MInv, NoJobRuns, [Next]_vars, TypeOK'
  PROVE  OthersHold'
<1> SUFFICES ASSUME NEW s \in Sessions, step'[s] \in Written
             PROVE  /\ target'[s].id < nextId'
                    /\ \A r \in merged'[s] : /\ r.id < target'[s].id
                                             /\ \A u \in Cached(s, r)' : Holder(u, target[s].id)'
  BY DEF OthersHold
<1>0. TypeOK /\ step \in [Sessions -> Steps] /\ nextId \in Nat
  BY DEF MInv, TypeOK
<1>1. ~Load(s) /\ ~Collect(s) /\ step'[s] \in Loaded
  BY <1>0 DEF Load, Collect, Go, Written, Loaded
<1>2. rest'[s] = rest[s] /\ merged'[s] \subseteq merged[s] /\ step[s] \in Loaded
  BY <1>0, <1>1, WhoHasLoaded
<1>3. \A r \in merged'[s] : Cached(s, r)' = Cached(s, r)
  BY <1>2 DEF Cached
<1>4. CASE Save(s)
  <2>1. target'[s].id = nextId /\ nextId' = nextId + 1
    BY <1>0, <1>4 DEF NoJobRuns, Active, Save, Saved, TypeOK, InMerger, Target
  <2>2. \A r \in merged'[s] : r.id < nextId
    BY <1>2 DEF MInv, LoadedIsStored
  <2>3. PICK b : b = nextId
    OBVIOUS
  <2>4. \A r \in merged'[s] : \A u \in Cached(s, r) : Holder(u, b)'
    BY <1>2, <1>4, <2>3, SaveHolds
  <2>5. \A r \in merged'[s] : \A u \in Cached(s, r)' : Holder(u, target[s].id)'
    BY <1>3, <2>1, <2>3, <2>4 DEF Holder
  <2> QED
    BY <1>0, <2>1, <2>2, <2>5
<1>5. CASE ~Save(s)
  <2>1. target'[s] = target[s] /\ step[s] # "save" /\ step[s] # "collect"
    BY <1>0, <1>1, <1>5, WhoHasLoaded DEF Written
  <2>2. step[s] \in Written
    BY <1>2, <2>1 DEF Loaded, Written
  <2>3. /\ target[s].id < nextId /\ target[s].id \in Nat
        /\ \A r \in merged'[s] : /\ r.id < target[s].id
                                 /\ \A u \in Cached(s, r) : Holder(u, target[s].id)
    BY <1>0, <1>2, <2>2 DEF MInv, OthersHold, TypeOK, Written, InMerger, Record, Ids
  <2>4. nextId' >= nextId
    <3>1. ASSUME NEW q \in Sessions, Save(q) PROVE nextId' >= nextId
      BY <1>0, <3>1 DEF Save
    <3>2. ~(\E q \in Sessions : Save(q)) => UNCHANGED nextId
      BY DEF Next, Merger, Request, FindDuplicates, NextGroup, NoMoreGroups, Load, Collect,
             Refuse, ResetManifests, Destroy, Finish, Fail, AddLink, tables, vars
    <3> QED
      BY <1>0, <3>1, <3>2
  <2>5. PICK b \in Nat : b = target[s].id
    BY <2>3
  <2>6. \A u : Holder(u, b) => Holder(u, b)'
    <3>1. CASE Next
      BY <3>1, StepKeepsHolders
    <3>2. CASE UNCHANGED vars
      BY <3>2, HoldersStay DEF vars, tables
    <3> QED
      BY <3>1, <3>2
  <2>7. \A r \in merged'[s] : \A u \in Cached(s, r) : Holder(u, b)'
    BY <2>3, <2>5, <2>6
  <2>8. \A r \in merged'[s] : \A u \in Cached(s, r)' : Holder(u, target[s].id)'
    BY <1>3, <2>1, <2>5, <2>7 DEF Holder
  <2> QED
    BY <1>0, <2>1, <2>3, <2>4, <2>8, TypeOK' DEF TypeOK
<1> QED
  BY <1>4, <1>5

LEMMA MInvStep == MInv /\ NoJobRuns /\ [Next]_vars => MInv'
<1> SUFFICES ASSUME MInv, NoJobRuns, [Next]_vars PROVE MInv'
  OBVIOUS
<1>1. TypeOK'
  BY StepType DEF MInv
<1> QED
  BY <1>1, KeysStayUnique, LoadedStaysStored, CacheStaysComplete, OthersStillHold DEF MInv

LEMMA MergesKeepUuids ==
  ASSUME MInv, Next, NEW u \in Ids, Resolves(u) # {}
  PROVE  Resolves(u)' # {}
<1>1. Holder(u, 0)
  BY DEF Holder, Resolves, MInv, TypeOK, Record, Ids
<1>2. Holder(u, 0)'
  BY <1>1, StepKeepsHolders
<1> QED
  BY <1>2 DEF Holder, Resolves

-----------------------------------------------------------------------------
(***************************************************************************)
(* While jobs run and no merge request does.  Every job merges into the    *)
(* oldest record of a name, which no job ever destroys.                    *)
(***************************************************************************)
Oldest(r) == r \in records /\ \A q \in records : q.name = r.name => r.id <= q.id

\* The records taken have the name of r, and r is not one of them.
AlikeTo(r, taken) == \A q \in records : q.id \in taken => q.name = r.name /\ q.id # r.id

GroupsOfOldest ==
  \A s \in Sessions : step[s] \in Active => \A g \in groups[s] :
    \E r \in records : r.id = g.primary /\ Oldest(r) /\ AlikeTo(r, g.duplicates)

TargetsAreOldest ==
  \A s \in Sessions : step[s] \in InMerger => Oldest(target[s]) /\ AlikeTo(target[s], ids[s])

LoadedAreAlike ==
  \A s \in Sessions : step[s] \in Loaded =>
    \A r \in merged[s] : /\ r.name = target[s].name /\ r.id # target[s].id
                         /\ r.id \in Live => r \in records

TargetsHold ==
  \A s \in Sessions : step[s] \in Written =>
    \A r \in merged[s] : Cached(s, r) \subseteq Holds(target[s])

JobsInv == /\ TypeOK /\ KeysUnique /\ GroupsOfOldest /\ TargetsAreOldest /\ LoadedAreAlike
           /\ CacheIsComplete /\ TargetsHold

LEMMA InitJobs == Init => JobsInv
<1> SUFFICES ASSUME Init PROVE JobsInv
  OBVIOUS
<1>1. TypeOK
  BY InitType
<1>2. KeysUnique
  BY MergeAssumption DEF Init, KeysUnique
<1> QED
  BY <1>1, <1>2 DEF Init, JobsInv, GroupsOfOldest, TargetsAreOldest, LoadedAreAlike, CacheIsComplete,
                    TargetsHold, Loaded, Written, Active, InMerger

\* What a job has loaded to destroy is not the oldest record of any name.
LEMMA NotOldest ==
  ASSUME JobsInv, NEW s \in Sessions, step[s] \in Loaded, NEW r \in merged[s], NEW x, Oldest(x)
  PROVE  r.id # x.id
<1>1. TypeOK /\ KeysUnique
  BY DEF JobsInv
<1>2. Oldest(target[s])
  BY DEF JobsInv, TargetsAreOldest, Loaded, InMerger
<1>3. /\ r.name = target[s].name /\ r.id # target[s].id
      /\ r.id \in Live => r \in records
  BY DEF JobsInv, LoadedAreAlike
<1>4. SUFFICES ASSUME r.id = x.id PROVE FALSE
  OBVIOUS
<1>5. r = x
  BY <1>1, <1>3, <1>4 DEF KeysUnique, Live, Oldest
<1>6. x.id <= target[s].id /\ target[s].id <= x.id
  BY <1>2, <1>3, <1>5 DEF Oldest
<1>7. x.id \in Nat /\ target[s].id \in Nat
  BY <1>1, <1>2 DEF Oldest, TypeOK, Record, Ids
<1> QED
  BY <1>3, <1>4, <1>6, <1>7

\* Jobs store no record.
LEMMA JobsOnlyDestroy ==
  ASSUME JobsInv, NoRequestRuns, [Next]_vars
  PROVE  /\ records' \subseteq records /\ nextId' = nextId
         /\ \A s \in Sessions : Save(s) => IsJob(s) /\ Saved(s) = target[s]
         /\ (\A s \in Sessions : ~Destroy(s)) => records' = records
<1>1. \A s \in Sessions : Save(s) => IsJob(s) /\ Saved(s) = target[s]
  BY DEF NoRequestRuns, Save, Saved, Active, InMerger
<1> QED
  BY <1>1 DEF Next, Merger, Request, FindDuplicates, NextGroup, NoMoreGroups, Load, Collect, Save,
              Refuse, ResetManifests, Destroy, Finish, Fail, AddLink, tables, vars

\* A session is at work because it was, or because it may start.
LEMMA WhoStarts ==
  ASSUME TypeOK, [Next]_vars, NEW q \in Sessions, step'[q] \in Active, step[q] \notin Active
  PROVE  /\ (q \in Merges /\ Request(q)) \/ (q \in Jobs /\ FindDuplicates(q))
         /\ MayStart(q)
         /\ \A p \in Sessions \ {q} : step'[p] = step[p]
<1>1. step \in [Sessions -> Steps]
  BY DEF TypeOK
<1>2. (q \in Merges /\ Request(q)) \/ (q \in Jobs /\ FindDuplicates(q))
  BY <1>1 DEF Next, Merger, Request, FindDuplicates, NextGroup, NoMoreGroups, Load, Collect, Save,
              Refuse, ResetManifests, Destroy, Finish, Fail, AddLink, Go, Active, InMerger, Sessions,
              tables, cache, vars
<1> QED
  BY <1>1, <1>2 DEF Request, FindDuplicates, Go

\* The oldest record of a name stays, and loses no uuid.
LEMMA OldestStays ==
  ASSUME JobsInv, NoRequestRuns, [Next]_vars, NEW r, Oldest(r)
  PROVE  Oldest(r)' /\ Holds(r) \subseteq Holds(r)'
<1>1. records' \subseteq records
  BY JobsOnlyDestroy
<1>2. ASSUME NEW s \in Sessions, Destroy(s)
      PROVE  r \in records' /\ \A m \in recordMerges : m.record = r.id => m \in recordMerges'
  <2>1. PICK x \in merged[s] :
          /\ records' = {q \in records : q.id # x.id}
          /\ recordMerges' = {m \in recordMerges : ~(m \in rest[s].merges /\ m.record = x.id)}
    BY <1>2 DEF Destroy
  <2>2. x.id # r.id
    BY <1>2, NotOldest DEF Destroy, Loaded
  <2> QED
    BY <2>1, <2>2 DEF Oldest
<1>3. ASSUME \A s \in Sessions : ~Destroy(s)
      PROVE  r \in records' /\ recordMerges \subseteq recordMerges'
  <2>1. records' = records
    BY <1>3, JobsOnlyDestroy
  <2>2. recordMerges \subseteq recordMerges'
    BY <1>3 DEF Next, Merger, Request, FindDuplicates, NextGroup, NoMoreGroups, Load, Collect, Save,
                Refuse, ResetManifests, Finish, Fail, AddLink, tables, vars
  <2> QED
    BY <2>1, <2>2 DEF Oldest
<1>4. r \in records' /\ \A m \in recordMerges : m.record = r.id => m \in recordMerges'
  BY <1>2, <1>3
<1> QED
  BY <1>1, <1>4 DEF Oldest, Holds

LEMMA AlikeStays ==
  ASSUME records' \subseteq records, NEW r, NEW taken, AlikeTo(r, taken)
  PROVE  AlikeTo(r, taken)'
BY DEF AlikeTo

LEMMA GroupsStayOldest ==
  ASSUME JobsInv, NoRequestRuns, NoRequestRuns', [Next]_vars
  PROVE  GroupsOfOldest'
<1> SUFFICES ASSUME NEW s \in Sessions, step'[s] \in Active, NEW g \in groups'[s]
             PROVE  \E r \in records' : r.id = g.primary /\ Oldest(r)' /\ AlikeTo(r, g.duplicates)'
  BY DEF GroupsOfOldest
<1>0. TypeOK /\ KeysUnique /\ groups \in [Sessions -> SUBSET Group]
  BY DEF JobsInv, TypeOK
<1>1. CASE step[s] \in Active /\ g \in groups[s]
  <2>1. PICK r \in records : r.id = g.primary /\ Oldest(r) /\ AlikeTo(r, g.duplicates)
    BY <1>1 DEF JobsInv, GroupsOfOldest
  <2>2. Oldest(r)' /\ AlikeTo(r, g.duplicates)'
    BY <2>1, OldestStays, AlikeStays, JobsOnlyDestroy
  <2> QED
    BY <2>1, <2>2 DEF Oldest
<1>2. CASE ~(step[s] \in Active /\ g \in groups[s])
  <2>1. s \in Jobs /\ FindDuplicates(s)
    <3>1. CASE step[s] \notin Active
      BY <1>0, <3>1, WhoStarts, MergeAssumption DEF NoRequestRuns, IsJob
    <3>2. CASE g \notin groups[s]
      BY <1>0, <3>2 DEF Next, Merger, Request, FindDuplicates, NextGroup, NoMoreGroups, Load, Collect,
                        Save, Refuse, ResetManifests, Destroy, Finish, Fail, AddLink, tables, cache, vars
    <3> QED
      BY <1>2, <3>1, <3>2
  <2>2. PICK name \in Names : Cardinality(Named(name)) > 1 /\ g = DuplicatesOf(name)
    BY <1>0, <2>1 DEF FindDuplicates
  <2>3. Named(name) \in SUBSET Nat /\ Named(name) # {}
    <3>1. Named(name) \in SUBSET Nat
      BY <1>0 DEF TypeOK, Named, Record, Ids
    <3>2. Named(name) # {}
      BY <2>2, FS_EmptySet
    <3> QED
      BY <3>1, <3>2
  <2>4. Least(Named(name)) \in Named(name) /\ \A y \in Named(name) : Least(Named(name)) <= y
    BY <2>3, LeastIsMember
  <2>5. PICK r \in records : r.name = name /\ r.id = Least(Named(name))
    BY <2>4 DEF Named
  <2>6. Oldest(r)
    BY <2>4, <2>5 DEF Oldest, Named
  <2>7. AlikeTo(r, Named(name) \ {r.id})
    BY <1>0, <2>5 DEF AlikeTo, Named, KeysUnique
  <2>8. g.primary = r.id /\ g.duplicates = Named(name) \ {r.id}
    BY <2>2, <2>5 DEF DuplicatesOf
  <2>9. Oldest(r)' /\ AlikeTo(r, g.duplicates)'
    BY <2>6, <2>7, <2>8, OldestStays, AlikeStays, JobsOnlyDestroy
  <2> QED
    BY <2>8, <2>9 DEF Oldest
<1> QED
  BY <1>1, <1>2

LEMMA TargetsStayOldest ==
  ASSUME JobsInv, NoRequestRuns, NoRequestRuns', [Next]_vars
  PROVE  TargetsAreOldest'
<1> SUFFICES ASSUME NEW s \in Sessions, step'[s] \in InMerger
             PROVE  Oldest(target[s])' /\ AlikeTo(target[s], ids[s])'
  BY DEF TargetsAreOldest
<1>0. /\ TypeOK /\ KeysUnique /\ target \in [Sessions -> Target \cup {NoTarget}]
      /\ ids \in [Sessions -> SUBSET Ids] /\ step \in [Sessions -> Steps]
  BY DEF JobsInv, TypeOK
<1>1. PICK r, taken : r = target'[s] /\ taken = ids'[s]
  OBVIOUS
<1>2. Oldest(r) /\ AlikeTo(r, taken)
  <2>1. CASE step[s] \in InMerger /\ target'[s] = target[s] /\ ids'[s] = ids[s]
    BY <1>1, <2>1 DEF JobsInv, TargetsAreOldest
  <2>2. CASE ~(step[s] \in InMerger /\ target'[s] = target[s] /\ ids'[s] = ids[s])
    <3>1. ASSUME NEW q \in Sessions, Save(q) PROVE FALSE
      <4>1. Saved(q) = target[q] /\ step[q] \in InMerger
        BY <3>1, JobsOnlyDestroy DEF Save, InMerger
      <4> QED
        BY <1>0, <2>2, <3>1, <4>1 DEF Save, Go
    <3>2. s \in Jobs /\ NextGroup(s)
      <4>1. ASSUME NEW m \in Merges, Request(m) PROVE s # m
        BY <4>1, MergeAssumption DEF NoRequestRuns, IsJob, Active
      <4> QED
        BY ZenonT(30), <1>0, <2>2, <3>1, <4>1
        DEF Next, Merger, Request, FindDuplicates, NextGroup, NoMoreGroups, Load, Collect, Refuse, Go,
            Returned, ResetManifests, Destroy, Finish, Fail, AddLink, InMerger, tables, cache, vars
    <3>3. PICK g \in groups[s] :
             IF g.primary \in Live
             THEN /\ \E x \in records : x.id = g.primary /\ target' = [target EXCEPT ![s] = x]
                  /\ ids' = [ids EXCEPT ![s] = g.duplicates]
             ELSE Go(s, "failed")
      BY <3>2 DEF NextGroup
    <3>4. PICK x \in records : x.id = g.primary /\ target' = [target EXCEPT ![s] = x]
      BY <1>0, <3>2, <3>3 DEF NextGroup, Go, InMerger
    <3>5. PICK y \in records : y.id = g.primary /\ Oldest(y) /\ AlikeTo(y, g.duplicates)
      BY <3>2 DEF JobsInv, GroupsOfOldest, NextGroup, Active
    <3>6. ids'[s] = g.duplicates
      BY <1>0, <3>2, <3>3 DEF NextGroup, Go, InMerger
    <3>7. r = x /\ x = y /\ taken = g.duplicates
      BY <1>0, <1>1, <3>4, <3>5, <3>6 DEF KeysUnique
    <3> QED
      BY <3>5, <3>7
  <2> QED
    BY <2>1, <2>2
<1>3. Oldest(r)' /\ AlikeTo(r, taken)'
  BY <1>2, OldestStays, AlikeStays, JobsOnlyDestroy
<1> QED
  BY <1>1, <1>3 DEF Oldest, AlikeTo

\* What a job holds of a group while it merges it.
LEMMA JobTarget ==
  ASSUME JobsInv, NoRequestRuns, [Next]_vars, NEW s \in Sessions, step'[s] \in Loaded
  PROVE  target'[s] = target[s]
<1>0. TypeOK
  BY DEF JobsInv
<1>1. CASE Load(s)
  BY <1>1 DEF Load
<1>2. CASE Save(s)
  <2>1. Saved(s) = target[s]
    BY <1>2, JobsOnlyDestroy
  <2> QED
    BY <1>0, <1>2, <2>1 DEF Save, TypeOK
<1> QED
  BY <1>0, <1>1, <1>2, WhoHasLoaded

LEMMA LoadedStayAlike ==
  ASSUME JobsInv, NoRequestRuns, [Next]_vars
  PROVE  LoadedAreAlike'
<1> SUFFICES ASSUME NEW s \in Sessions, step'[s] \in Loaded, NEW r \in merged'[s]
             PROVE  /\ r.name = target'[s].name /\ r.id # target'[s].id
                    /\ r.id \in Live' => r \in records'
  BY DEF LoadedAreAlike
<1>0. TypeOK /\ KeysUnique /\ records' \subseteq records /\ target'[s] = target[s]
  BY JobTarget, JobsOnlyDestroy DEF JobsInv
<1>1. r.name = target[s].name /\ r.id # target[s].id /\ (r.id \in Live => r \in records)
  <2>1. CASE Load(s)
    <3>1. merged'[s] = {x \in records : x.id \in ids[s]}
      BY <1>0, <2>1 DEF Load, TypeOK
    <3>2. AlikeTo(target[s], ids[s])
      BY <2>1 DEF Load, JobsInv, TargetsAreOldest, InMerger
    <3> QED
      BY <3>1, <3>2 DEF AlikeTo
  <2>2. CASE ~Load(s)
    BY <1>0, <2>2, WhoHasLoaded DEF JobsInv, LoadedAreAlike
  <2> QED
    BY <2>1, <2>2
<1>2. r.id \in Live' => r \in records'
  BY <1>0, <1>1 DEF Live, KeysUnique
<1> QED
  BY <1>0, <1>1, <1>2

LEMMA JobsCacheComplete ==
  ASSUME JobsInv, NoRequestRuns, [Next]_vars
  PROVE  CacheIsComplete'
<1> SUFFICES ASSUME NEW s \in Sessions, step'[s] \in Loaded \ {"collect"},
                    NEW r \in merged'[s], r \in records'
             PROVE  Holds(r)' \subseteq Cached(s, r)'
  BY DEF CacheIsComplete
<1>0. TypeOK /\ step \in [Sessions -> Steps] /\ records' \subseteq records
  BY JobsOnlyDestroy DEF JobsInv, TypeOK
<1>1. ~Load(s)
  BY <1>0 DEF Load, Go
<1>2. r \in merged[s] /\ step[s] \in Loaded
  BY <1>0, <1>1, WhoHasLoaded
<1>3. CASE Collect(s)
  <2>1. UNCHANGED <<recordMerges, records>>
    BY <1>3 DEF Collect, tables
  <2>2. rest'[s].merges = {m \in recordMerges : m.record \in {q.id : q \in merged[s]}}
    BY <1>0, <1>3 DEF Collect, TypeOK
  <2> QED
    BY <1>2, <2>1, <2>2 DEF Holds, Cached
<1>4. CASE ~Collect(s)
  <2>1. rest'[s] = rest[s] /\ step[s] # "collect"
    BY <1>0, <1>1, <1>4, WhoHasLoaded
  <2>2. Holds(r) \subseteq Cached(s, r) /\ Cached(s, r)' = Cached(s, r)
    BY <1>0, <1>2, <2>1 DEF JobsInv, CacheIsComplete, Cached
  <2>3. ASSUME NEW q \in Sessions, Save(q), NEW m \in recordMerges', m.record = r.id
        PROVE  m \in recordMerges
    <3>1. Saved(q).id = target[q].id
      BY <2>3, JobsOnlyDestroy
    <3>2. Oldest(target[q])
      BY <2>3 DEF Save, JobsInv, TargetsAreOldest, InMerger
    <3>3. r.id # target[q].id
      BY <1>2, <3>2, NotOldest
    <3> QED
      BY <2>3, <3>1, <3>3 DEF Save
  <2>4. ~(\E q \in Sessions : Save(q)) => recordMerges' \subseteq recordMerges
    BY DEF Next, Merger, Request, FindDuplicates, NextGroup, NoMoreGroups, Load, Collect,
           Refuse, ResetManifests, Destroy, Finish, Fail, AddLink, tables, vars
  <2>5. \A m \in recordMerges' : m.record = r.id => m \in recordMerges
    BY <2>3, <2>4
  <2> QED
    BY <2>2, <2>5 DEF Holds
<1> QED
  BY <1>3, <1>4

\* A save gives the oldest record every uuid that was read from the others.
LEMMA JobSaveHolds ==
  ASSUME JobsInv, NEW s \in Sessions, Save(s), IsJob(s),
         NEW r \in merged[s], NEW u \in Cached(s, r), NEW x, x = target[s]
  PROVE  u \in Holds(x)'
<1>1. Saved(s) = x
  BY DEF Saved
<1>2. \A v \in MergedUuids(s) : v \in Holds(x)'
  <2> SUFFICES ASSUME NEW v \in MergedUuids(s) PROVE v \in Holds(x)'
    OBVIOUS
  <2>1. PICK m : m = [record |-> x.id, uuid |-> v]
    OBVIOUS
  <2>2. m \in recordMerges'
    BY <1>1, <2>1 DEF Save
  <2> QED
    BY <2>1, <2>2 DEF Holds
<1>3. CASE u = r.uuid
  <2>1. CASE r.uuid = x.uuid
    BY <1>3, <2>1 DEF Holds
  <2>2. CASE r.uuid # x.uuid
    BY <1>2, <1>3, <2>2 DEF MergedUuids
  <2> QED
    BY <2>1, <2>2
<1>4. CASE u # r.uuid
  BY <1>2, <1>4 DEF Cached, MergedUuids
<1> QED
  BY <1>3, <1>4

LEMMA TargetsStillHold ==
  ASSUME JobsInv, NoRequestRuns, [Next]_vars
  PROVE  TargetsHold'
<1> SUFFICES ASSUME NEW s \in Sessions, step'[s] \in Written, NEW r \in merged'[s]
             PROVE  Cached(s, r)' \subseteq Holds(target[s])'
  BY DEF TargetsHold
<1>0. TypeOK /\ step \in [Sessions -> Steps]
  BY DEF JobsInv, TypeOK
<1>1. ~Load(s) /\ ~Collect(s) /\ step'[s] \in Loaded
  BY <1>0 DEF Load, Collect, Go, Written, Loaded
<1>2. rest'[s] = rest[s] /\ r \in merged[s] /\ step[s] \in Loaded /\ target'[s] = target[s]
  BY <1>0, <1>1, WhoHasLoaded, JobTarget
<1>3. Cached(s, r)' = Cached(s, r)
  BY <1>2 DEF Cached
<1>4. PICK x : x = target[s]
  OBVIOUS
<1>5. CASE Save(s)
  BY <1>2, <1>3, <1>4, <1>5, JobSaveHolds, JobsOnlyDestroy DEF Holds
<1>6. CASE ~Save(s)
  <2>1. step[s] \in Written
    BY <1>0, <1>1, <1>2, <1>6, WhoHasLoaded DEF Loaded, Written
  <2>2. Cached(s, r) \subseteq Holds(x)
    BY <1>2, <1>4, <2>1 DEF JobsInv, TargetsHold
  <2>3. Oldest(x)
    BY <1>2, <1>4 DEF JobsInv, TargetsAreOldest, Loaded, InMerger
  <2>4. Holds(x) \subseteq Holds(x)'
    BY <2>3, OldestStays
  <2> QED
    BY <1>2, <1>3, <1>4, <2>2, <2>4 DEF Holds
<1> QED
  BY <1>5, <1>6

LEMMA JobsInvStep == JobsInv /\ NoRequestRuns /\ NoRequestRuns' /\ [Next]_vars => JobsInv'
<1> SUFFICES ASSUME JobsInv, NoRequestRuns, NoRequestRuns', [Next]_vars PROVE JobsInv'
  OBVIOUS
<1>1. TypeOK'
  BY StepType DEF JobsInv
<1>2. KeysUnique'
  BY JobsOnlyDestroy DEF JobsInv, KeysUnique
<1> QED
  BY <1>1, <1>2, GroupsStayOldest, TargetsStayOldest, LoadedStayAlike, JobsCacheComplete,
     TargetsStillHold DEF JobsInv

LEMMA JobsKeepUuids ==
  ASSUME JobsInv, NoRequestRuns, Next, NEW u \in Ids, Resolves(u) # {}
  PROVE  Resolves(u)' # {}
<1> SUFFICES ASSUME NEW r \in Resolves(u) PROVE \E q \in records' : u \in Holds(q)'
  BY DEF Resolves
<1>0. r \in records /\ u \in Holds(r) /\ TypeOK /\ KeysUnique
  BY DEF Resolves, JobsInv
<1>1. ASSUME NEW s \in Sessions, Destroy(s) PROVE \E q \in records' : u \in Holds(q)'
  <2>1. PICK x \in merged[s] :
          /\ records' = {q \in records : q.id # x.id}
          /\ recordMerges' = {m \in recordMerges : ~(m \in rest[s].merges /\ m.record = x.id)}
    BY <1>1 DEF Destroy
  <2>2. step[s] \in Loaded \ {"collect"} /\ step[s] \in Written
    BY <1>1 DEF Destroy, Loaded, Written
  <2>3. CASE r.id # x.id
    BY <1>0, <2>1, <2>3 DEF Holds
  <2>4. CASE r.id = x.id
    <3>1. r = x
      BY <1>0, <2>2, <2>4 DEF JobsInv, LoadedAreAlike, KeysUnique, Live
    <3>2. u \in Holds(target[s])
      BY <1>0, <2>2, <3>1 DEF JobsInv, CacheIsComplete, TargetsHold
    <3>3. Oldest(target[s])
      BY <2>2 DEF JobsInv, TargetsAreOldest, Written, InMerger
    <3>4. PICK y : y = target[s]
      OBVIOUS
    <3>5. Oldest(y)' /\ Holds(y) \subseteq Holds(y)'
      BY <3>3, <3>4, OldestStays
    <3> QED
      BY <3>2, <3>4, <3>5 DEF Oldest, Holds
  <2> QED
    BY <2>3, <2>4
<1>2. ASSUME \A s \in Sessions : ~Destroy(s) PROVE \E q \in records' : u \in Holds(q)'
  <2>1. records' = records
    BY <1>2, JobsOnlyDestroy
  <2>2. recordMerges \subseteq recordMerges'
    BY <1>2 DEF Next, Merger, Request, FindDuplicates, NextGroup, NoMoreGroups, Load, Collect, Save,
                Refuse, ResetManifests, Finish, Fail, AddLink, tables, vars
  <2> QED
    BY <1>0, <2>1, <2>2 DEF Holds
<1> QED
  BY <1>1, <1>2

-----------------------------------------------------------------------------
(***************************************************************************)
(* Requests and jobs, but not a job beside a request.  When one kind takes *)
(* over from the other, nobody is at work, and the invariants hold anew.   *)
(***************************************************************************)

KindsInv ==
  ~setting.beside => /\ TypeOK /\ KeysUnique
                     /\ NoJobRuns \/ NoRequestRuns
                     /\ NoJobRuns => MInv
                     /\ NoRequestRuns => JobsInv

LEMMA NobodyAtWork ==
  ASSUME TypeOK, KeysUnique, NoJobRuns, NoRequestRuns
  PROVE  MInv /\ JobsInv
<1>1. \A s \in Sessions : step[s] \notin Active
  BY DEF NoJobRuns, NoRequestRuns
<1> QED
  BY <1>1 DEF MInv, LoadedIsStored, CacheIsComplete, OthersHold, JobsInv, GroupsOfOldest,
              TargetsAreOldest, LoadedAreAlike, TargetsHold, Loaded, Written, Active, InMerger

LEMMA KindsStayApart ==
  ASSUME TypeOK, ~setting.beside, [Next]_vars, NoJobRuns \/ NoRequestRuns
  PROVE  /\ NoJobRuns' \/ NoRequestRuns'
         /\ NoJobRuns \/ NoRequestRuns'
         /\ NoRequestRuns \/ NoJobRuns'
<1>1. ASSUME NEW p \in Sessions, NEW q \in Sessions, step[p] \in Active, step'[q] \in Active
      PROVE  IsJob(p) <=> IsJob(q)
  <2>1. CASE step[q] \in Active
    BY <1>1, <2>1 DEF NoJobRuns, NoRequestRuns
  <2>2. CASE step[q] \notin Active
    BY <1>1, <2>2, WhoStarts DEF MayStart, Running
  <2> QED
    BY <2>1, <2>2
<1>2. ASSUME NEW p \in Sessions, NEW q \in Sessions, step'[p] \in Active, step'[q] \in Active
      PROVE  IsJob(p) <=> IsJob(q)
  <2>1. CASE step[p] \in Active
    BY <1>1, <1>2, <2>1
  <2>2. CASE step[p] \notin Active /\ p # q
    <3>1. step'[q] = step[q]
      BY <1>2, <2>2, WhoStarts
    <3> QED
      BY <1>1, <1>2, <3>1
  <2> QED
    BY <2>1, <2>2
<1> QED
  BY <1>1, <1>2 DEF NoJobRuns, NoRequestRuns

LEMMA KindsStep ==
  ASSUME KindsInv, [Next]_vars
  PROVE  KindsInv'
<1>1. setting' = setting
  BY DEF Next, vars
<1> SUFFICES ASSUME ~setting.beside PROVE KindsInv'
  BY <1>1 DEF KindsInv
<1>2. TypeOK /\ KeysUnique /\ TypeOK' /\ KeysUnique'
  BY StepType, KeysStayUnique DEF KindsInv
<1>3. /\ NoJobRuns' \/ NoRequestRuns'
      /\ NoJobRuns \/ NoRequestRuns'
      /\ NoRequestRuns \/ NoJobRuns'
  BY <1>2, KindsStayApart DEF KindsInv
<1>4. ASSUME NoJobRuns' PROVE MInv'
  <2>1. CASE NoJobRuns
    BY <2>1, MInvStep DEF KindsInv
  <2>2. CASE NoRequestRuns'
    BY <1>2, <1>4, <2>2, NobodyAtWork, PTL
  <2> QED
    BY <1>3, <2>1, <2>2
<1>5. ASSUME NoRequestRuns' PROVE JobsInv'
  <2>1. CASE NoRequestRuns
    BY <1>5, <2>1, JobsInvStep DEF KindsInv
  <2>2. CASE NoJobRuns'
    BY <1>2, <1>5, <2>2, NobodyAtWork, PTL
  <2> QED
    BY <1>3, <2>1, <2>2
<1> QED
  BY <1>2, <1>3, <1>4, <1>5 DEF KindsInv

\* No uuid that leads to a record ever stops leading to one, however many
\* requests, or however many jobs, overlap, whatever they merge and at whatever
\* step they fail, where no job runs beside a request (Merger#merge).
THEOREM UuidsAreNotLost == Spec => UuidsStayResolvable
<1>1. Init => KindsInv
  BY InitInv, InitJobs DEF KindsInv, MInv, NoJobRuns, Init, Active, InMerger
<1>2. KindsInv /\ [Next]_vars => KindsInv'
  BY KindsStep
<1>3. KindsInv /\ [Next]_vars
      => [~setting.beside => \A u \in Ids : Resolves(u) # {} => Resolves(u)' # {}]_vars
  BY MergesKeepUuids, JobsKeepUuids DEF KindsInv
<1> QED
  BY <1>1, <1>2, <1>3, PTL DEF Spec, UuidsStayResolvable

-----------------------------------------------------------------------------
(***************************************************************************)
(* Merges and jobs one after the other that do not fail (OneByOne).        *)
(* Only the session that is active changes anything, so that what it has   *)
(* loaded is what there is.                                                *)
(***************************************************************************)

OneActive == \A s, q \in Sessions : step[s] \in Active /\ step[q] \in Active => s = q

\* Keys, and with them uuids, are handed out in order.
UuidsKnown ==
  /\ \A r \in records : r.uuid < nextId
  /\ \A m \in recordMerges : m.record < nextId /\ m.uuid < nextId

\* The records a session merges: found by their ids until they are loaded.
Taken(s) == IF step[s] = "load" THEN {r \in records : r.id \in ids[s]} ELSE merged[s]

\* The target is another record, or a new one that may take a uuid over.
TargetOK(s) ==
  IF IsJob(s) THEN target[s] \in records \ Taken(s)
  ELSE target[s].uuid \in {NoId} \cup {r.uuid : r \in Taken(s)}

GroupsApart == \A s \in Sessions : \A g \in groups[s] : g.primary \notin g.duplicates

Of(rows, taken) == {m \in rows : \E r \in taken : m.record = r.id}

TakenOK(s) ==
  /\ step[s] \in {"load", "collect", "save"} => TargetOK(s)
  /\ step[s] \in Loaded => merged[s] \subseteq records
  /\ step[s] \in {"collect", "save"} => links[s] \subseteq relationships
  /\ step[s] = "save" => rest[s] = [merges    |-> Of(recordMerges, merged[s]),
                                    manifests |-> Of(manifests, merged[s])]
  /\ step[s] \in Written => /\ target[s] \in records \ merged[s]
                            /\ \A r \in merged[s] : Holds(r) \subseteq Holds(target[s])

\* Once the target has their uuids, the merged records no longer count.
Leaving(r) == \E s \in Sessions : step[s] \in Written /\ r \in merged[s]
UuidsApart ==
  \A r, q \in records : Holds(r) \cap Holds(q) # {} => r = q \/ Leaving(r) \/ Leaving(q)

SerialInv ==
  /\ TypeOK /\ KeysUnique /\ OneActive /\ UuidsKnown /\ UuidsApart /\ GroupsApart
  /\ \A s \in Sessions : step[s] \in Active => TakenOK(s)

LEMMA SameSetting ==
  ASSUME [Next]_vars
  PROVE  /\ OneByOne' = OneByOne
         /\ setting.added' = setting.added
  BY DEF Next, vars, OneByOne

LEMMA NobodyActive ==
  ASSUME OneByOne, NEW s \in Sessions, MayStart(s)
  PROVE  \A q \in Sessions : step[q] \notin Active
<1>1. IsFiniteSet(Running)
  BY MergeAssumption, FS_Subset DEF Running
<1>2. Cardinality(Running) \in Nat /\ Cardinality(Running) < 1
  BY <1>1, FS_CardinalityType DEF MayStart, OneByOne
<1>3. Running = {}
  BY <1>1, <1>2, FS_EmptySet
<1> QED
  BY <1>3 DEF Running

\* Who is active moves, and nobody else does.
Moves(s) ==
  \/ s \in Merges /\ Request(s)
  \/ s \in Jobs /\ (FindDuplicates(s) \/ NextGroup(s) \/ NoMoreGroups(s))
  \/ Load(s) \/ Collect(s) \/ Save(s) \/ Refuse(s) \/ ResetManifests(s) \/ Destroy(s) \/ Finish(s)

OthersRest(s) == \A q \in Sessions \ {s} : step[q] \notin Active

LEMMA OneMoves ==
  ASSUME OneByOne, TypeOK, OneActive, Next, ~AddLink
  PROVE  \E s \in Sessions : Moves(s) /\ OthersRest(s) /\ OthersRest(s)'
<1>1. PICK s \in Sessions : Moves(s)
  BY DEF Next, Merger, Moves, Fail, Sessions, OneByOne
<1>2. MayStart(s) \/ step[s] \in Active
  BY <1>1 DEF Moves, Request, FindDuplicates, NextGroup, NoMoreGroups, Load, Collect, Save, Refuse,
              ResetManifests, Destroy, Finish, Active, InMerger
<1>3. OthersRest(s)
  BY <1>2, NobodyActive DEF OneActive, OthersRest
<1>4. \A q \in Sessions \ {s} : step'[q] = step[q]
  BY <1>1 DEF Moves, Request, FindDuplicates, NextGroup, NoMoreGroups, Load, Collect, Save, Refuse,
              ResetManifests, Destroy, Finish, Go, TypeOK
<1> QED
  BY <1>1, <1>3, <1>4 DEF OthersRest

\* Steps that leave the records alone.
LEMMA RecordsRest ==
  ASSUME SerialInv, NEW s \in Sessions, OthersRest(s), OthersRest(s)',
         UNCHANGED <<records, recordMerges, nextId>>,
         \A r \in records : step[s] \in Written /\ r \in merged[s]
                              <=> step'[s] \in Written /\ r \in merged'[s]
  PROVE  KeysUnique' /\ UuidsKnown' /\ UuidsApart'
<1>1. KeysUnique' /\ UuidsKnown'
  BY DEF SerialInv, KeysUnique, UuidsKnown
<1>2. \A r : Holds(r)' = Holds(r)
  BY DEF Holds
<1>3. \A r \in records : Leaving(r) => Leaving(r)'
  BY DEF Leaving, OthersRest, Written, Active, InMerger
<1> QED
  BY <1>1, <1>2, <1>3 DEF SerialInv, UuidsApart

LEMMA StartsSerial ==
  ASSUME SerialInv, TypeOK', NEW s \in Sessions, OthersRest(s), OthersRest(s)',
         \/ s \in Merges /\ Request(s)
         \/ s \in Jobs /\ (FindDuplicates(s) \/ NoMoreGroups(s))
  PROVE  KeysUnique' /\ UuidsKnown' /\ UuidsApart' /\ TakenOK(s)'
<1>1. UNCHANGED tables /\ step[s] \notin Written /\ step'[s] \notin Written
  BY DEF Request, FindDuplicates, NoMoreGroups, MayStart, Go, Written, SerialInv, TypeOK
<1>2. KeysUnique' /\ UuidsKnown' /\ UuidsApart'
  BY <1>1, RecordsRest DEF tables
<1>3. CASE s \in Merges /\ Request(s)
  <2>1. PICK chosen \in SUBSET records :
          /\ \E uuid \in {r.uuid : r \in chosen} \cup {NoId}, name \in {r.name : r \in chosen} :
               target' = [target EXCEPT ![s] = [id |-> NoId, uuid |-> uuid, name |-> name]]
          /\ ids' = [ids EXCEPT ![s] = {r.id : r \in chosen}]
    BY <1>3 DEF Request
  <2>2. step'[s] = "load" /\ ~IsJob(s) /\ ids'[s] = {r.id : r \in chosen}
    BY <1>3, <2>1, MergeAssumption DEF Request, Go, SerialInv, TypeOK, IsJob
  <2>3. target'[s].uuid \in {NoId} \cup {r.uuid : r \in chosen}
    BY <2>1 DEF SerialInv, TypeOK
  <2>4. chosen \subseteq Taken(s)'
    BY <1>1, <2>2 DEF Taken, tables
  <2> QED
    BY <1>2, <2>2, <2>3, <2>4 DEF TakenOK, TargetOK, Loaded, Written
<1>4. CASE FindDuplicates(s) \/ NoMoreGroups(s)
  BY <1>2, <1>4 DEF FindDuplicates, NoMoreGroups, Go, TakenOK, Loaded, Written, SerialInv, TypeOK
<1> QED
  BY <1>2, <1>3, <1>4

LEMMA NextGroupSerial ==
  ASSUME SerialInv, TypeOK', NEW s \in Sessions, OthersRest(s), OthersRest(s)',
         s \in Jobs, NextGroup(s)
  PROVE  KeysUnique' /\ UuidsKnown' /\ UuidsApart' /\ TakenOK(s)'
<1>1. UNCHANGED tables /\ step[s] \notin Written /\ step'[s] \notin Written
  BY DEF NextGroup, Go, Written, SerialInv, TypeOK
<1>2. KeysUnique' /\ UuidsKnown' /\ UuidsApart'
  BY <1>1, RecordsRest DEF tables
<1>3. PICK g \in groups[s] :
         IF g.primary \in Live
         THEN /\ \E r \in records : /\ r.id = g.primary
                                    /\ target' = [target EXCEPT ![s] = r]
              /\ ids' = [ids EXCEPT ![s] = g.duplicates]
              /\ Go(s, "load")
         ELSE /\ Go(s, "failed")
              /\ UNCHANGED <<target, ids>>
  BY DEF NextGroup
<1>4. CASE g.primary \in Live
  <2>1. PICK r \in records : r.id = g.primary /\ target' = [target EXCEPT ![s] = r]
    BY <1>3, <1>4
  <2>2. step'[s] = "load" /\ IsJob(s) /\ target'[s] = r /\ ids'[s] = g.duplicates
    BY <1>3, <1>4, <2>1 DEF Go, SerialInv, TypeOK, IsJob
  <2>3. r \notin Taken(s)'
    BY <2>1, <2>2 DEF Taken, SerialInv, GroupsApart
  <2> QED
    BY <1>1, <1>2, <2>1, <2>2, <2>3 DEF TakenOK, TargetOK, Loaded, Written, tables
<1>5. CASE g.primary \notin Live
  BY <1>2, <1>3, <1>5 DEF Go, TakenOK, Loaded, Written, SerialInv, TypeOK
<1> QED
  BY <1>2, <1>4, <1>5

LEMMA LoadSerial ==
  ASSUME SerialInv, TypeOK', NEW s \in Sessions, OthersRest(s), OthersRest(s)',
         Load(s) \/ Collect(s) \/ Refuse(s)
  PROVE  KeysUnique' /\ UuidsKnown' /\ UuidsApart' /\ (step'[s] \in Active => TakenOK(s)')
<1>1. /\ UNCHANGED <<tables, target>> /\ step[s] \in Active
      /\ step[s] \notin Written /\ step'[s] \notin Written
  BY DEF Load, Collect, Refuse, Returned, Go, Written, Active, InMerger, SerialInv, TypeOK, cache
<1>2. KeysUnique' /\ UuidsKnown' /\ UuidsApart' /\ TakenOK(s)
  BY <1>1, RecordsRest DEF tables, SerialInv
<1>3. CASE Load(s)
  <2>1. /\ step[s] = "load" /\ step'[s] = "collect"
        /\ merged'[s] = Taken(s)
        /\ links'[s] \subseteq relationships
    BY <1>3 DEF Load, Go, SerialInv, TypeOK, Taken
  <2>2. merged'[s] \subseteq records /\ Taken(s)' = merged'[s]
    BY <2>1 DEF Taken
  <2> QED
    BY <1>1, <1>2, <2>1, <2>2 DEF TakenOK, TargetOK, Loaded, Written, tables
<1>4. CASE Collect(s)
  <2>1. /\ step[s] = "collect" /\ step'[s] = "save" /\ UNCHANGED <<merged, links>>
    BY <1>4 DEF Collect, Go, SerialInv, TypeOK
  <2>2. /\ rest'[s] = [merges    |-> Of(recordMerges, merged[s]),
                       manifests |-> Of(manifests, merged[s])]
    BY ZenonT(30), <1>4 DEF Collect, SerialInv, TypeOK, Of
  <2>3. Taken(s)' = Taken(s)
    BY <2>1 DEF Taken
  <2> QED
    BY <1>1, <1>2, <2>1, <2>2, <2>3 DEF TakenOK, TargetOK, Loaded, Written, tables, Of
<1>5. CASE Refuse(s)
  BY <1>2, <1>5 DEF Refuse, Returned, Go, TakenOK, Loaded, Written, SerialInv, TypeOK, Active,
                    InMerger
<1> QED
  BY <1>3, <1>4, <1>5

\* What leads to a target that was saved led to it before, or to a merged record,
\* or is new; and it has everything that led to a merged record.
LEMMA SaveHoldsExactly ==
  ASSUME SerialInv, TypeOK', NEW s \in Sessions, OthersRest(s), Save(s), NEW n, n = Saved(s)
  PROVE  /\ \A r \in merged[s] : Holds(r) \subseteq Holds(n)'
         /\ \A v \in Holds(n)' : \/ n \in records \ merged[s] /\ v \in Holds(n)
                                 \/ \E r \in merged[s] : v \in Holds(r)
                                 \/ ~IsJob(s) /\ v = nextId
         /\ \A r \in records : r.id # n.id => Holds(r)' = Holds(r)
         /\ n \in records' /\ n.id \in {r.id : r \in records \ merged[s]} \cup {nextId}
         /\ IF IsJob(s) THEN n \in records \ merged[s] ELSE n.id = nextId
<1>0. TypeOK /\ KeysUnique /\ UuidsKnown /\ TakenOK(s) /\ step[s] = "save" /\ step[s] \in Active
  BY DEF SerialInv, Save, Active, InMerger
<1>1. /\ merged[s] \subseteq records /\ TargetOK(s) /\ Taken(s) = merged[s]
      /\ rest[s].merges = Of(recordMerges, merged[s])
  BY <1>0 DEF TakenOK, Loaded, Taken
<1>2. recordMerges' = recordMerges \cup {[record |-> n.id, uuid |-> u] : u \in MergedUuids(s)}
  BY DEF Save
<1>3. MergedUuids(s) = {m.uuid : m \in Of(recordMerges, merged[s])}
                         \cup ({r.uuid : r \in merged[s]} \ {target[s].uuid})
  BY <1>1 DEF MergedUuids
<1>4. nextId \in Nat /\ \A r \in records : r.uuid # NoId /\ r.uuid \in Ids
  BY <1>0, MergeAssumption DEF TypeOK, Record
<1>5. n = Saved(s) /\ target[s] \in Target
  BY <1>0 DEF TypeOK, InMerger
<1>6. target[s].uuid # NoId => n.uuid = target[s].uuid
  BY <1>5 DEF Saved, Target
<1>7. ASSUME NEW v PROVE v \in Holds(n)' <=>
                           \/ v = n.uuid \/ v \in MergedUuids(s)
                           \/ \E m \in recordMerges : m.record = n.id /\ v = m.uuid
  <2>1. v \in Holds(n)' <=> v = n.uuid \/ \E m \in recordMerges' : m.record = n.id /\ v = m.uuid
    BY DEF Holds
  <2>2. \A m \in recordMerges' : m.record = n.id => m \in recordMerges \/ m.uuid \in MergedUuids(s)
    BY <1>2
  <2>3. ASSUME v \in MergedUuids(s) PROVE \E m \in recordMerges' : m.record = n.id /\ v = m.uuid
    <3>1. PICK m : m = [record |-> n.id, uuid |-> v]
      OBVIOUS
    <3>2. m \in recordMerges'
      BY <1>2, <2>3, <3>1
    <3> QED
      BY <3>1, <3>2
  <2>4. recordMerges \subseteq recordMerges'
    BY <1>2
  <2> QED
    BY <2>1, <2>2, <2>3, <2>4
<1>8. ASSUME NEW v \in MergedUuids(s) PROVE \E r \in merged[s] : v \in Holds(r)
  BY <1>3, <1>8 DEF Holds, Of
<1>9. ASSUME NEW r \in merged[s], NEW v \in Holds(r) PROVE v \in Holds(n)'
  <2>1. v = r.uuid \/ \E m \in recordMerges : m.record = r.id /\ v = m.uuid
    BY <1>9 DEF Holds
  <2>2. v \in MergedUuids(s) \/ (v = r.uuid /\ r.uuid = target[s].uuid)
    BY <1>3, <2>1 DEF Of
  <2>3. r.uuid # NoId
    BY <1>1, <1>4
  <2> QED
    BY <1>6, <1>7, <2>2, <2>3
<1>10. ASSUME NEW r \in records, r.id # n.id PROVE Holds(r)' = Holds(r)
  <2>1. \A m \in recordMerges' : m.record = r.id => m \in recordMerges
    BY <1>2, <1>10
  <2>2. recordMerges \subseteq recordMerges'
    BY <1>2
  <2> QED
    BY <2>1, <2>2 DEF Holds
<1>11. CASE IsJob(s)
  <2>1. n \in records \ merged[s] /\ n \in records'
    BY <1>1, <1>5, <1>11 DEF Saved, TargetOK, Save
  <2>2. \A v \in Holds(n)' : v \in Holds(n) \/ \E r \in merged[s] : v \in Holds(r)
    BY <1>7, <1>8 DEF Holds
  <2> QED
    BY <1>9, <1>10, <1>11, <2>1, <2>2
<1>12. CASE ~IsJob(s)
  <2>1. n.id = nextId /\ n \in records'
    BY <1>5, <1>12 DEF Saved, Save, Target
  <2>2. n.uuid = nextId \/ \E r \in merged[s] : n.uuid = r.uuid
    BY <1>1, <1>5, <1>6, <1>12 DEF TargetOK, Saved, Target
  <2>3. \A m \in recordMerges : m.record # n.id
    BY <1>0, <1>4, <2>1 DEF UuidsKnown, TypeOK, RecordMerge, Ids
  <2>4. \A v \in Holds(n)' : v = nextId \/ \E r \in merged[s] : v \in Holds(r)
    BY <1>7, <1>8, <2>2, <2>3 DEF Holds
  <2> QED
    BY <1>9, <1>10, <1>12, <2>1, <2>4
<1> QED
  BY <1>11, <1>12

LEMMA SaveSerial ==
  ASSUME SerialInv, TypeOK', NEW s \in Sessions, OthersRest(s), OthersRest(s)', Save(s)
  PROVE  KeysUnique' /\ UuidsKnown' /\ UuidsApart' /\ TakenOK(s)'
<1>0. /\ TypeOK /\ KeysUnique /\ UuidsKnown /\ TakenOK(s)
      /\ step[s] = "save" /\ step'[s] = "reset" /\ UNCHANGED merged
  BY DEF SerialInv, Save, Active, InMerger, Go, TypeOK
<1>1. PICK n : n = Saved(s)
  OBVIOUS
<1>2. /\ \A r \in merged[s] : Holds(r) \subseteq Holds(n)'
      /\ \A v \in Holds(n)' : \/ n \in records \ merged[s] /\ v \in Holds(n)
                              \/ \E r \in merged[s] : v \in Holds(r)
                              \/ ~IsJob(s) /\ v = nextId
      /\ \A r \in records : r.id # n.id => Holds(r)' = Holds(r)
      /\ n \in records' /\ n.id \in {r.id : r \in records \ merged[s]} \cup {nextId}
      /\ IF IsJob(s) THEN n \in records \ merged[s] ELSE n.id = nextId
  BY <1>1, SaveHoldsExactly
<1>3. merged[s] \subseteq records
  BY <1>0 DEF TakenOK, Loaded
<1>4. /\ nextId \in Nat /\ MaxId \in Nat
      /\ \A r \in records : r.id \in Nat /\ r.uuid \in Nat
      /\ \A m \in recordMerges : m.record \in Nat /\ m.uuid \in Nat
  BY <1>0, MergeAssumption DEF TypeOK, Record, RecordMerge, Ids
<1>5. \A r \in records : r.id = n.id => r = n
  BY <1>0, <1>2, <1>4 DEF KeysUnique
<1>6. /\ records' = records \cup {n}
      /\ nextId' \in Nat /\ nextId' >= nextId /\ (~IsJob(s) => nextId' = nextId + 1)
  <2>1. CASE IsJob(s)
    BY <1>2, <1>4, <2>1 DEF Save
  <2>2. CASE ~IsJob(s)
    BY <1>1, <1>4, <2>2 DEF Save
  <2> QED
    BY <2>1, <2>2
<1>7. n \notin merged[s]
  BY <1>0, <1>2, <1>3, <1>4 DEF KeysUnique
<1>8. n.id < nextId'
  BY <1>0, <1>2, <1>4, <1>6 DEF KeysUnique
<1>9. KeysUnique'
  BY <1>0, <1>4, <1>5, <1>6, <1>8 DEF KeysUnique
<1>10. ASSUME NEW r \in records, NEW v \in Holds(r) PROVE v \in Nat /\ v < nextId
  BY <1>0, <1>4, <1>10 DEF Holds, UuidsKnown
<1>11. \A v \in Holds(n)' : v < nextId'
  <2> SUFFICES ASSUME NEW v \in Holds(n)' PROVE v < nextId'
    OBVIOUS
  <2>1. (~IsJob(s) /\ v = nextId) \/ \E r \in records : v \in Holds(r)
    BY <1>2, <1>3
  <2>2. (~IsJob(s) /\ v = nextId) \/ (v \in Nat /\ v < nextId)
    BY <1>10, <2>1
  <2> QED
    BY <1>4, <1>6, <2>2
<1>12. UuidsKnown'
  <2>1. n.uuid \in Holds(n)' /\ \A m \in recordMerges' : m.record = n.id => m.uuid \in Holds(n)'
    BY DEF Holds
  <2>2. recordMerges' = recordMerges \cup {[record |-> n.id, uuid |-> u] : u \in MergedUuids(s)}
    BY <1>1 DEF Save
  <2>3. \A r \in records' : r.uuid < nextId'
    BY <1>0, <1>4, <1>6, <1>11, <2>1 DEF UuidsKnown
  <2>4. \A m \in recordMerges' : m.record < nextId' /\ m.uuid < nextId'
    BY <1>0, <1>4, <1>6, <1>8, <1>11, <2>1, <2>2 DEF UuidsKnown
  <2> QED
    BY <2>3, <2>4 DEF UuidsKnown
<1>13. ASSUME NEW r \in records', NEW q \in records', NEW v, v \in Holds(r)', v \in Holds(q)',
              r \notin merged[s], q \notin merged[s]
       PROVE  r = q
  <2>1. \A x, y \in records : Holds(x) \cap Holds(y) # {} => x = y
    BY <1>0 DEF SerialInv, UuidsApart, Leaving, OthersRest, Written, Active, InMerger
  <2>2. ASSUME NEW x \in records, x # n, x \notin merged[s], v \in Holds(x)', v \in Holds(n)'
        PROVE  FALSE
    <3>1. v \in Holds(x)
      BY <1>2, <1>5, <2>2
    <3>2. v # nextId
      BY <1>4, <1>10, <3>1
    <3> QED
      BY <1>2, <1>3, <2>1, <2>2, <3>1, <3>2
  <2>3. ASSUME r # n, q # n PROVE r = q
    BY <1>2, <1>5, <1>6, <1>13, <2>1, <2>3
  <2> QED
    BY <1>6, <1>13, <2>2, <2>3
<1>14. UuidsApart'
  <2>1. \A r \in merged[s] : Leaving(r)'
    BY <1>0 DEF Leaving, Written
  <2> QED
    BY <1>13, <2>1 DEF UuidsApart
<1>15. TakenOK(s)'
  <2>1. target'[s] = n
    BY <1>0, <1>1 DEF Save, TypeOK
  <2>2. \A r \in merged[s] : Holds(r)' = Holds(r)
    BY <1>2, <1>3, <1>5, <1>7
  <2>3. \A r \in merged[s] : Holds(r)' \subseteq Holds(n)'
    BY <1>2, <2>2
  <2>4. \A r \in merged'[s] : Holds(r)' \subseteq Holds(target[s])'
    BY <1>0, <2>1, <2>3 DEF Holds
  <2> QED
    BY <1>0, <1>2, <1>3, <1>6, <1>7, <2>1, <2>4 DEF TakenOK, Loaded, Written
<1> QED
  BY <1>9, <1>12, <1>14, <1>15

LEMMA DestroySerial ==
  ASSUME SerialInv, TypeOK', NEW s \in Sessions, OthersRest(s), OthersRest(s)', Destroy(s)
  PROVE  KeysUnique' /\ UuidsKnown' /\ UuidsApart' /\ TakenOK(s)'
<1>0. /\ TypeOK /\ KeysUnique /\ UuidsKnown /\ TakenOK(s) /\ UuidsApart
      /\ step[s] = "destroy" /\ UNCHANGED <<step, target, nextId>>
  BY DEF SerialInv, Destroy, Active, InMerger
<1>1. PICK r \in merged[s] :
         /\ records' = {q \in records : q.id # r.id}
         /\ recordMerges' = {m \in recordMerges : ~(m \in rest[s].merges /\ m.record = r.id)}
         /\ merged' = [merged EXCEPT ![s] = @ \ {r}]
  BY DEF Destroy
<1>2. /\ r \in records /\ merged[s] \subseteq records /\ target[s] \in records \ merged[s]
      /\ merged'[s] = merged[s] \ {r}
      /\ \A q \in merged[s] : Holds(q) \subseteq Holds(target[s])
  BY <1>0, <1>1 DEF TakenOK, Loaded, Written, TypeOK
<1>3. \A q \in records : q # r => q.id # r.id
  BY <1>0, <1>2 DEF KeysUnique
<1>4. ASSUME NEW q \in records, q # r PROVE Holds(q)' = Holds(q) /\ q \in records'
  <2>1. \A m \in recordMerges : m.record = q.id => m \in recordMerges'
    BY <1>1, <1>3, <1>4
  <2>2. recordMerges' \subseteq recordMerges
    BY <1>1
  <2> QED
    BY <1>1, <1>3, <1>4, <2>1, <2>2 DEF Holds
<1>5. KeysUnique' /\ UuidsKnown'
  BY <1>0, <1>1 DEF KeysUnique, UuidsKnown
<1>6. \A q \in records' : q \in records /\ q # r
  BY <1>1
<1>7. UuidsApart'
  <2>1. ASSUME NEW q \in records', Leaving(q) PROVE Leaving(q)'
    BY <1>0, <1>2, <1>6, <2>1 DEF Leaving, OthersRest, Written, Active, InMerger
  <2> QED
    BY <1>0, <1>4, <1>6, <2>1 DEF UuidsApart
<1>8. TakenOK(s)'
  <2>1. target[s] \in records' /\ merged'[s] \subseteq records' /\ target[s] \notin merged'[s]
    BY <1>2, <1>4
  <2>2. \A q \in merged'[s] : Holds(q)' \subseteq Holds(target[s])'
    <3>1. PICK t : t = target[s]
      OBVIOUS
    <3>2. \A q \in merged'[s] : Holds(q)' \subseteq Holds(t)'
      BY <1>2, <1>4, <3>1
    <3> QED
      BY <1>0, <3>1, <3>2 DEF Holds
  <2> QED
    BY <1>0, <2>1, <2>2 DEF TakenOK, Loaded, Written
<1> QED
  BY <1>5, <1>7, <1>8

LEMMA LastSerial ==
  ASSUME SerialInv, TypeOK', NEW s \in Sessions, OthersRest(s), OthersRest(s)',
         ResetManifests(s) \/ Finish(s)
  PROVE  KeysUnique' /\ UuidsKnown' /\ UuidsApart' /\ (step'[s] \in Active => TakenOK(s)')
<1>1. /\ UNCHANGED <<records, recordMerges, nextId, merged, target>>
      /\ step[s] \in Active /\ step[s] \in Written
      /\ step'[s] \in Written \/ merged[s] = {}
  BY DEF ResetManifests, Finish, Returned, Go, Written, Active, InMerger, SerialInv, TypeOK, cache,
         tables
<1>2. KeysUnique' /\ UuidsKnown' /\ UuidsApart' /\ TakenOK(s)
  BY <1>1, RecordsRest DEF SerialInv
<1>3. CASE ResetManifests(s)
  <2>1. step'[s] = "destroy"
    BY <1>3 DEF ResetManifests, Go, SerialInv, TypeOK
  <2> QED
    BY <1>1, <1>2, <2>1 DEF TakenOK, Loaded, Written, Holds
<1>4. CASE Finish(s)
  <2>1. step'[s] \in {"groups", "done"}
    BY <1>4 DEF Finish, Returned, Go, SerialInv, TypeOK
  <2> QED
    BY <1>2, <2>1 DEF TakenOK, Loaded, Written
<1> QED
  BY <1>3, <1>4

LEMMA GroupsStayApart ==
  ASSUME SerialInv, [Next]_vars
  PROVE  GroupsApart'
<1>1. CASE UNCHANGED groups
  BY <1>1 DEF SerialInv, GroupsApart
<1>2. ASSUME NEW j \in Jobs, FindDuplicates(j) PROVE GroupsApart'
  <2>1. \A g \in groups'[j] : g.primary \notin g.duplicates
    BY <1>2 DEF FindDuplicates, DuplicatesOf, SerialInv, TypeOK, Sessions
  <2>2. \A s \in Sessions \ {j} : groups'[s] = groups[s]
    BY <1>2 DEF FindDuplicates, SerialInv, TypeOK
  <2> QED
    BY <2>1, <2>2 DEF SerialInv, GroupsApart
<1>3. ASSUME NEW j \in Jobs, NextGroup(j) PROVE GroupsApart'
  <2>1. \A s \in Sessions : groups'[s] \subseteq groups[s]
    BY <1>3 DEF NextGroup, SerialInv, TypeOK
  <2> QED
    BY <2>1 DEF SerialInv, GroupsApart
<1> QED
  BY <1>1, <1>2, <1>3
  DEF Next, Merger, Request, NoMoreGroups, Load, Collect, Save, Refuse, ResetManifests, Destroy,
      Finish, Fail, AddLink, vars

LEMMA SerialStep ==
  ASSUME OneByOne
  PROVE  SerialInv /\ [Next]_vars => SerialInv'
<1> SUFFICES ASSUME SerialInv, [Next]_vars PROVE SerialInv'
  OBVIOUS
<1>0. TypeOK /\ TypeOK' /\ OneActive /\ GroupsApart'
  BY StepType, GroupsStayApart DEF SerialInv
<1>1. CASE UNCHANGED <<records, recordMerges, nextId, manifests, step, cache, groups>>
           /\ relationships \subseteq relationships'
  <2>1. KeysUnique' /\ UuidsKnown' /\ UuidsApart' /\ OneActive'
    BY <1>1 DEF SerialInv, KeysUnique, UuidsKnown, UuidsApart, OneActive, Leaving, Holds, cache
  <2>2. ASSUME NEW s \in Sessions, step'[s] \in Active PROVE TakenOK(s)'
    <3>1. TakenOK(s)
      BY <1>1, <2>2 DEF SerialInv
    <3> QED
      BY <1>1, <3>1 DEF TakenOK, TargetOK, Taken, Holds, Of, cache
  <2> QED
    BY <1>0, <2>1, <2>2 DEF SerialInv
<1>2. CASE Next /\ ~AddLink
  <2>1. PICK s \in Sessions : Moves(s) /\ OthersRest(s) /\ OthersRest(s)'
    BY <1>0, <1>2, OneMoves
  <2>2. KeysUnique' /\ UuidsKnown' /\ UuidsApart' /\ (step'[s] \in Active => TakenOK(s)')
    BY <1>0, <2>1, StartsSerial, NextGroupSerial, LoadSerial, SaveSerial, DestroySerial, LastSerial
    DEF Moves
  <2>3. OneActive' /\ \A q \in Sessions : step'[q] \in Active => TakenOK(q)'
    BY <2>1, <2>2 DEF OneActive, OthersRest
  <2> QED
    BY <1>0, <2>2, <2>3 DEF SerialInv
<1> QED
  BY <1>1, <1>2 DEF AddLink, vars, cache, tables

LEMMA InitSerial == Init => SerialInv
<1> SUFFICES ASSUME Init PROVE SerialInv
  OBVIOUS
<1>1. TypeOK /\ KeysUnique
  BY InitType, MergeAssumption DEF Init, KeysUnique
<1>2. UuidsKnown /\ recordMerges = {} /\ \A r \in records : r.uuid = r.id
  BY MergeAssumption DEF Init, UuidsKnown
<1>3. UuidsApart
  BY <1>1, <1>2 DEF UuidsApart, Holds, KeysUnique
<1> QED
  BY <1>1, <1>2, <1>3 DEF Init, SerialInv, OneActive, GroupsApart, Active, InMerger

\* Where merges and jobs run one after the other and do not fail, a uuid leads to
\* one record once they are done, however often records are merged again.
THEOREM MergedUuidsLeadToOne == Spec => []UuidsAreUnambiguous
<1>1. (OneByOne => SerialInv) => UuidsAreUnambiguous
  <2> SUFFICES ASSUME SerialInv, \A s \in Sessions : step[s] \notin Active, NEW u \in Ids
               PROVE  Cardinality(Resolves(u)) <= 1
    BY DEF UuidsAreUnambiguous
  <2>1. \A r, q \in Resolves(u) : r = q
    BY DEF SerialInv, UuidsApart, Leaving, Resolves, Written, Active, InMerger
  <2>2. CASE Resolves(u) = {}
    BY <2>2, FS_EmptySet
  <2>3. CASE Resolves(u) # {}
    <3>1. PICK r : Resolves(u) = {r}
      BY <2>1, <2>3
    <3>2. Cardinality({r}) = 1
      BY FS_Singleton
    <3> QED
      BY <3>1, <3>2
  <2> QED
    BY <2>2, <2>3
<1>2. (OneByOne => SerialInv) /\ [Next]_vars => (OneByOne => SerialInv)'
  BY SerialStep, SameSetting
<1> QED
  BY <1>1, <1>2, InitSerial, PTL DEF Spec

-----------------------------------------------------------------------------
(* Relationships, where users add none meanwhile                           *)

\* The target has the relationships of a merged record to records that stay.
PassedOn(s, l) ==
  \A r \in merged[s], q \in records \ (merged[s] \cup {target[s]}) :
    /\ l.primary = r.id /\ l.related = q.id =>
         \E c \in relationships : c.kind = l.kind /\ c.primary = target[s].id /\ c.related = q.id
    /\ l.primary = q.id /\ l.related = r.id =>
         \E c \in relationships : c.kind = l.kind /\ c.primary = q.id /\ c.related = target[s].id

LinksOK(s) ==
  /\ step[s] \in {"collect", "save"} =>
       \A l \in relationships : (\E r \in merged[s] : Touches(l, r)) => l \in links[s]
  /\ step[s] \in Written => \A l \in relationships : PassedOn(s, l)

LinksInv == SerialInv /\ \A s \in Sessions : step[s] \in Active => LinksOK(s)


\* What the destruction of record r leaves.
LEMMA DestroyLeaves ==
  ASSUME SerialInv, NEW s \in Sessions, Destroy(s)
  PROVE  \E r \in merged[s], t \in records \ merged[s] :
           /\ t = target[s] /\ UNCHANGED target
           /\ r \in records /\ merged[s] \subseteq records /\ merged'[s] = merged[s] \ {r}
           /\ records' = records \ {r} /\ relationships' \subseteq relationships
           /\ \A l \in relationships : ~Touches(l, r) => l \in relationships'
           /\ \A q \in records \ {r} : q.id # r.id /\ Holds(q)' = Holds(q)
           /\ \A q \in merged[s] : Holds(q) \subseteq Holds(t)
<1>0. TypeOK /\ KeysUnique /\ TakenOK(s) /\ step[s] = "destroy"
  BY DEF SerialInv, Destroy, Active, InMerger
<1>1. PICK r \in merged[s] :
         /\ records' = {q \in records : q.id # r.id}
         /\ recordMerges' = {m \in recordMerges : ~(m \in rest[s].merges /\ m.record = r.id)}
         /\ relationships' = {l \in relationships : ~(l \in links[s] /\ Touches(l, r))}
         /\ merged' = [merged EXCEPT ![s] = @ \ {r}]
  BY DEF Destroy
<1>2. PICK t : t = target[s]
  OBVIOUS
<1>3. /\ merged[s] \subseteq records /\ t \in records \ merged[s]
      /\ \A q \in merged[s] : Holds(q) \subseteq Holds(t)
  BY <1>0, <1>2 DEF TakenOK, Loaded, Written
<1>4. \A q \in records : q # r => q.id # r.id
  BY <1>0, <1>3 DEF KeysUnique
<1>5. ASSUME NEW q \in records \ {r} PROVE Holds(q)' = Holds(q)
  <2>1. \A m \in recordMerges : m.record = q.id => m \in recordMerges'
    BY <1>1, <1>4
  <2>2. recordMerges' \subseteq recordMerges
    BY <1>1
  <2> QED
    BY <2>1, <2>2 DEF Holds
<1>6. records' = records \ {r} /\ merged'[s] = merged[s] \ {r}
  BY <1>0, <1>1, <1>3, <1>4 DEF TypeOK
<1>7. /\ relationships' \subseteq relationships
      /\ \A l \in relationships : ~Touches(l, r) => l \in relationships'
  BY <1>1
<1> QED
  BY <1>1, <1>2, <1>3, <1>4, <1>5, <1>6, <1>7 DEF Destroy

LEMMA SaveLinks ==
  ASSUME LinksInv, SerialInv', NEW s \in Sessions, Save(s)
  PROVE  LinksOK(s)'
<1>0. /\ TypeOK /\ KeysUnique' /\ TakenOK(s) /\ LinksOK(s) /\ TakenOK(s)'
      /\ step[s] = "save" /\ step'[s] = "reset" /\ UNCHANGED <<merged, links>>
  BY DEF LinksInv, SerialInv, Save, Active, InMerger, Go, TypeOK
<1>1. PICK n : n = Saved(s)
  OBVIOUS
<1>2. /\ target'[s] = n /\ n \in records' /\ n \notin merged[s] /\ merged[s] \subseteq records'
      /\ relationships' = relationships \cup CopiedFrom(s) \cup CopiedTo(s)
  BY <1>0, <1>1 DEF Save, TypeOK, TakenOK, Loaded, Written
<1>3. ASSUME NEW l \in relationships', NEW r \in merged[s], NEW q \in records' \ (merged[s] \cup {n})
      PROVE  /\ l.primary = r.id /\ l.related = q.id =>
                  \E c \in relationships' : c.kind = l.kind /\ c.primary = n.id /\ c.related = q.id
             /\ l.primary = q.id /\ l.related = r.id =>
                  \E c \in relationships' : c.kind = l.kind /\ c.primary = q.id /\ c.related = n.id
  <2>1. q.id # n.id /\ r.id # n.id
    BY <1>0, <1>2 DEF KeysUnique
  <2>2. l \in CopiedFrom(s) => l.primary = n.id
    BY <1>1 DEF CopiedFrom
  <2>3. l \in CopiedTo(s) => l.related = n.id
    BY <1>1 DEF CopiedTo
  <2>4. ASSUME Touches(l, r), l \in relationships PROVE l \in links[s]
    BY <1>0, <2>4 DEF LinksOK
  <2>5. ASSUME l.primary = r.id, l.related = q.id
        PROVE  \E c \in relationships' : c.kind = l.kind /\ c.primary = n.id /\ c.related = q.id
    <3>1. l \in LinksFrom(s)
      BY <1>2, <2>1, <2>2, <2>3, <2>4, <2>5 DEF LinksFrom, Touches
    <3>2. PICK c : c = [kind |-> l.kind, primary |-> n.id, related |-> l.related, by |-> s]
      OBVIOUS
    <3>3. c \in relationships'
      BY <1>1, <1>2, <3>1, <3>2 DEF CopiedFrom
    <3> QED
      BY <2>5, <3>2, <3>3
  <2>6. ASSUME l.primary = q.id, l.related = r.id
        PROVE  \E c \in relationships' : c.kind = l.kind /\ c.primary = q.id /\ c.related = n.id
    <3>1. l \in LinksTo(s)
      BY <1>2, <2>1, <2>2, <2>3, <2>4, <2>6 DEF LinksTo, Touches
    <3>2. PICK c : c = [kind |-> l.kind, primary |-> l.primary, related |-> n.id, by |-> s]
      OBVIOUS
    <3>3. c \in relationships'
      BY <1>1, <1>2, <3>1, <3>2 DEF CopiedTo
    <3> QED
      BY <2>6, <3>2, <3>3
  <2> QED
    BY <2>5, <2>6
<1> QED
  BY <1>0, <1>2, <1>3 DEF LinksOK, PassedOn, Written

LEMMA DestroyLinks ==
  ASSUME LinksInv, NEW s \in Sessions, Destroy(s)
  PROVE  LinksOK(s)'
<1>0. SerialInv /\ LinksOK(s) /\ step[s] = "destroy" /\ UNCHANGED step
  BY DEF LinksInv, Destroy, Active, InMerger
<1>1. PICK x \in merged[s], t \in records \ merged[s] :
           /\ t = target[s] /\ UNCHANGED target
           /\ x \in records /\ merged[s] \subseteq records /\ merged'[s] = merged[s] \ {x}
           /\ records' = records \ {x} /\ relationships' \subseteq relationships
           /\ \A l \in relationships : ~Touches(l, x) => l \in relationships'
           /\ \A q \in records \ {x} : q.id # x.id /\ Holds(q)' = Holds(q)
           /\ \A q \in merged[s] : Holds(q) \subseteq Holds(t)
  BY <1>0, DestroyLeaves
<1>2. ASSUME NEW l \in relationships', NEW r \in merged'[s],
             NEW q \in records' \ (merged'[s] \cup {t})
      PROVE  /\ l.primary = r.id /\ l.related = q.id =>
                  \E c \in relationships' : c.kind = l.kind /\ c.primary = t.id /\ c.related = q.id
             /\ l.primary = q.id /\ l.related = r.id =>
                  \E c \in relationships' : c.kind = l.kind /\ c.primary = q.id /\ c.related = t.id
  <2>1. /\ l \in relationships /\ r \in merged[s] /\ q \in records \ (merged[s] \cup {t})
        /\ t \in records \ {x} /\ q.id # x.id /\ t.id # x.id
    BY <1>1
  <2>2. PassedOn(s, l)
    BY <1>0, <2>1 DEF LinksOK, Written
  <2> QED
    BY <1>1, <2>1, <2>2 DEF PassedOn, Touches
<1> QED
  BY <1>0, <1>1, <1>2 DEF LinksOK, PassedOn, Written

LEMMA LinksStep ==
  ASSUME OneByOne, setting.added = {}
  PROVE  LinksInv /\ [Next]_vars => LinksInv'
<1> SUFFICES ASSUME LinksInv, [Next]_vars PROVE LinksInv'
  OBVIOUS
<1>0. SerialInv /\ SerialInv' /\ TypeOK /\ OneActive
  BY SerialStep DEF LinksInv, SerialInv
<1>1. CASE UNCHANGED vars
  BY <1>0, <1>1 DEF LinksInv, LinksOK, PassedOn, vars, tables, cache
<1>2. CASE Next
  <2>0. ~AddLink
    BY DEF AddLink
  <2>1. PICK s \in Sessions : Moves(s) /\ OthersRest(s) /\ OthersRest(s)'
    BY <1>0, <1>2, <2>0, OneMoves
  <2>2. ASSUME step'[s] \in Active PROVE LinksOK(s)'
    <3>1. CASE Save(s)
      BY <1>0, <3>1, SaveLinks
    <3>2. CASE Destroy(s)
      BY <3>2, DestroyLinks
    <3>3. CASE Load(s)
      <4>1. step'[s] = "collect"
            /\ merged'[s] = {r \in records : r.id \in ids[s]}
            /\ links'[s] = {l \in relationships : \E r \in merged'[s] : Touches(l, r)}
        BY <1>0, <3>3 DEF Load, Go, TypeOK
      <4> QED
        BY <3>3, <4>1 DEF LinksOK, Written, Load, tables
    <3>4. CASE Collect(s) \/ ResetManifests(s)
      <4>1. /\ UNCHANGED <<records, relationships, target, merged, links>>
            /\ step[s] \in {"collect", "reset"}
            /\ step[s] = "collect" => step'[s] = "save"
            /\ step[s] = "reset" => step'[s] = "destroy"
        BY <1>0, <3>4 DEF Collect, ResetManifests, Go, TypeOK, tables, cache
      <4>2. LinksOK(s)
        BY <4>1 DEF LinksInv, Active, InMerger
      <4> QED
        BY <4>1, <4>2 DEF LinksOK, PassedOn, Written
    <3>5. CASE ~(Save(s) \/ Destroy(s) \/ Load(s) \/ Collect(s) \/ ResetManifests(s))
      <4>1. step'[s] \notin {"collect", "save", "reset", "destroy"}
        BY <1>0, <2>1, <3>5 DEF Moves, Request, FindDuplicates, NextGroup, NoMoreGroups, Refuse,
           Finish, Returned, Go, TypeOK
      <4> QED
        BY <4>1 DEF LinksOK, Written
    <3> QED
      BY <3>1, <3>2, <3>3, <3>4, <3>5
  <2> QED
    BY <1>0, <2>1, <2>2 DEF LinksInv, OthersRest
<1> QED
  BY <1>1, <1>2

\* No relationship is lost by the destruction of a record.
LEMMA DestroyFollows ==
  ASSUME LinksInv, NEW s \in Sessions, Destroy(s), NEW u, NEW v, NEW kind
  PROVE  Follows(u, v, kind)
<1> SUFFICES ASSUME Related(u, v, kind)
             PROVE  Related(u, v, kind)' \/ (Resolves(u) \cap Resolves(v))' # {}
  BY DEF Follows
<1>0. SerialInv /\ LinksOK(s) /\ step[s] = "destroy"
  BY DEF LinksInv, Destroy, Active, InMerger
<1>1. PICK x \in merged[s], t \in records \ merged[s] :
           /\ t = target[s] /\ UNCHANGED target
           /\ x \in records /\ merged[s] \subseteq records /\ merged'[s] = merged[s] \ {x}
           /\ records' = records \ {x} /\ relationships' \subseteq relationships
           /\ \A l \in relationships : ~Touches(l, x) => l \in relationships'
           /\ \A q \in records \ {x} : q.id # x.id /\ Holds(q)' = Holds(q)
           /\ \A q \in merged[s] : Holds(q) \subseteq Holds(t)
  BY <1>0, DestroyLeaves
<1>2. PICK l \in relationships, r \in records, q \in records :
         /\ l.kind = kind /\ l.primary = r.id /\ l.related = q.id
         /\ u \in Holds(r) /\ v \in Holds(q)
  BY DEF Related, Resolves
<1>3. \A w, y : y \in Resolves(w)' <=> y \in records' /\ w \in Holds(y)'
  BY DEF Resolves, Holds
<1>4. \A w, y : y \in records \ {x} /\ w \in Holds(y) => y \in Resolves(w)'
  BY <1>1, <1>3
<1>5. \A w, y : y \in merged[s] \cup {t} /\ w \in Holds(y) => t \in Resolves(w)'
  BY <1>1, <1>4
<1>6. PassedOn(s, l)
  BY <1>0, <1>2 DEF LinksOK, Written
<1>7. ASSUME r \in merged[s] \cup {t}, q \in merged[s] \cup {t} PROVE (Resolves(u) \cap Resolves(v))' # {}
  BY <1>2, <1>5, <1>7
<1>8. ASSUME r # x, q # x PROVE Related(u, v, kind)'
  <2>1. l \in relationships'
    BY <1>1, <1>2, <1>8 DEF Touches
  <2>2. r \in Resolves(u)' /\ q \in Resolves(v)'
    BY <1>2, <1>4, <1>8
  <2> QED
    BY <1>2, <2>1, <2>2 DEF Related
<1>9. ASSUME r = x, q \notin merged[s] \cup {t} PROVE Related(u, v, kind)'
  <2>1. PICK c \in relationships : c.kind = kind /\ c.primary = t.id /\ c.related = q.id
    BY <1>1, <1>2, <1>6, <1>9 DEF PassedOn
  <2>2. c \in relationships'
    BY <1>1, <1>9, <2>1 DEF Touches
  <2>3. t \in Resolves(u)' /\ q \in Resolves(v)'
    BY <1>1, <1>2, <1>4, <1>5, <1>9
  <2> QED
    BY <2>1, <2>2, <2>3 DEF Related
<1>10. ASSUME q = x, r \notin merged[s] \cup {t} PROVE Related(u, v, kind)'
  <2>1. PICK c \in relationships : c.kind = kind /\ c.primary = r.id /\ c.related = t.id
    BY <1>1, <1>2, <1>6, <1>10 DEF PassedOn
  <2>2. c \in relationships'
    BY <1>1, <1>10, <2>1 DEF Touches
  <2>3. r \in Resolves(u)' /\ t \in Resolves(v)'
    BY <1>1, <1>2, <1>4, <1>5, <1>10
  <2> QED
    BY <2>1, <2>2, <2>3 DEF Related
<1> QED
  BY <1>1, <1>7, <1>8, <1>9, <1>10

LEMMA StepFollows ==
  ASSUME OneByOne, setting.added = {}, LinksInv, Next, NEW u, NEW v, NEW kind
  PROVE  Follows(u, v, kind)
<1>0. SerialInv /\ TypeOK /\ OneActive /\ ~AddLink
  BY DEF LinksInv, SerialInv, AddLink
<1>1. PICK s \in Sessions : Moves(s)
  BY <1>0, OneMoves
<1>2. CASE Destroy(s)
  BY <1>2, DestroyFollows
<1>3. CASE ~Destroy(s)
  <2>1. records \subseteq records' /\ recordMerges \subseteq recordMerges'
        /\ relationships \subseteq relationships'
    BY <1>1, <1>3 DEF Moves, Request, FindDuplicates, NextGroup, NoMoreGroups, Load, Collect, Save,
       Refuse, ResetManifests, Finish, tables
  <2>2. \A w : Resolves(w) \subseteq Resolves(w)'
    BY <2>1 DEF Resolves, Holds
  <2>3. Related(u, v, kind) => Related(u, v, kind)'
    BY <2>1, <2>2 DEF Related
  <2> QED
    BY <2>3 DEF Follows
<1> QED
  BY <1>2, <1>3

\* Where nothing else runs or is added meanwhile, merges never lose a
\* relationship: the records it was between stay related or become one.
THEOREM MergesKeepRelationships == Spec => LinksFollowMerges
<1> DEFINE Inv == OneByOne /\ setting.added = {} => LinksInv
<1>1. Init => Inv
  BY InitSerial DEF Init, LinksInv, Active, InMerger
<1>2. Inv /\ [Next]_vars => Inv'
  BY LinksStep, SameSetting
<1>3. Inv /\ [Next]_vars
        => [OneByOne /\ setting.added = {} => \A u, v \in Ids, k \in Kinds : Follows(u, v, k)]_vars
  BY StepFollows
<1> HIDE DEF Inv
<1> QED
  BY <1>1, <1>2, <1>3, PTL DEF Spec, LinksFollowMerges

-----------------------------------------------------------------------------
(* Jobs that remove duplicates                                             *)

\* The groups a job has still to merge are all the records of a name, the names
\* differ, and none is that of the records it is merging.
Members(g) == {g.primary} \cup g.duplicates

GroupsOK(j) ==
  /\ \A g \in groups[j] : g.primary \notin g.duplicates /\ \E n \in Names : Members(g) = Named(n)
  /\ \A g, h \in groups[j] : Members(g) = Members(h) => g = h
  /\ step[j] \in InMerger => /\ \A g \in groups[j] : Members(g) # Named(target[j].name)
                             /\ \A r \in records : r.name = target[j].name <=>
                                                     r \in Taken(j) \cup {target[j]}

\* One record has the name, or merging was refused.
Settled(n) == Obstacle(n) \/ \A r, q \in records : r.name = n /\ q.name = n => r = q

AllSettled(j) ==
  \A n \in Names : \/ \E g \in groups[j] : Members(g) = Named(n)
                   \/ step[j] \in InMerger /\ target[j].name = n
                   \/ Settled(n)

GroupsInv ==
  /\ SerialInv
  /\ \A j \in Jobs : step[j] \in Active => GroupsOK(j) /\ AllSettled(j)

LEMMA NamedById ==
  ASSUME KeysUnique, NEW r \in records, NEW n
  PROVE  r.id \in Named(n) <=> r.name = n
BY DEF KeysUnique, Named

\* Nothing that is added removes an obstacle.
LEMMA SettledStays ==
  ASSUME UNCHANGED records, relationships \subseteq relationships', manifests \subseteq manifests',
         NEW n
  PROVE  (Settled(n) => Settled(n)') /\ (Obstacle(n) => Obstacle(n)')
<1>1. Obstacle(n) => Obstacle(n)'
  BY DEF Obstacle, Live
<1> QED
  BY <1>1 DEF Settled

LEMMA GroupsStay ==
  ASSUME GroupsInv, NEW j \in Jobs, step[j] \in Active,
         step'[j] = step[j] \/ (step[j] \in InMerger /\ step'[j] \in InMerger),
         UNCHANGED <<records, groups>>, target'[j] = target[j], Taken(j)' = Taken(j),
         relationships \subseteq relationships', manifests \subseteq manifests'
  PROVE  GroupsOK(j)' /\ AllSettled(j)'
<1>0. GroupsOK(j) /\ AllSettled(j)
  BY DEF GroupsInv
<1>1. \A n : Named(n)' = Named(n)
  BY DEF Named
<1>2. PICK t : t = target[j]
  OBVIOUS
<1>3. step'[j] \in InMerger <=> step[j] \in InMerger
  OBVIOUS
<1>4. step'[j] \in InMerger => \A g \in groups'[j] : Members(g) # Named(t.name)'
  BY <1>0, <1>1, <1>2, <1>3 DEF GroupsOK
<1>5. GroupsOK(j)'
  BY <1>0, <1>1, <1>2, <1>3, <1>4 DEF GroupsOK, Members, Named
<1>6. AllSettled(j)'
  BY <1>0, <1>1, <1>3, SettledStays DEF AllSettled, Members
<1> QED
  BY <1>5, <1>6

LEMMA FindGroups ==
  ASSUME GroupsInv, NEW j \in Jobs, FindDuplicates(j)
  PROVE  GroupsOK(j)' /\ AllSettled(j)'
<1>0. /\ SerialInv /\ TypeOK /\ KeysUnique /\ UNCHANGED tables
      /\ groups'[j] = {DuplicatesOf(n) : n \in {m \in Names : Cardinality(Named(m)) > 1}}
      /\ step'[j] = "groups"
  BY DEF GroupsInv, SerialInv, FindDuplicates, Go, TypeOK, Sessions
<1>1. \A n : Named(n)' = Named(n)
  BY <1>0 DEF Named, tables
<1>2. ASSUME NEW n \in Names PROVE Named(n) \subseteq Nat /\ IsFiniteSet(Named(n))
  <2>1. Named(n) \subseteq Ids
    BY <1>0 DEF TypeOK, Record, Named
  <2>2. IsFiniteSet(Ids)
    BY MergeAssumption, FS_Interval DEF Ids
  <2>3. IsFiniteSet(Named(n))
    BY <2>1, <2>2, FS_Subset
  <2>4. Named(n) \subseteq Nat
    BY <2>1 DEF Ids
  <2> QED
    BY <2>3, <2>4
<1>3. ASSUME NEW n \in Names, Cardinality(Named(n)) > 1
      PROVE  LET g == DuplicatesOf(n) IN g.primary \notin g.duplicates /\ Members(g) = Named(n)
  <2>1. Named(n) # {}
    BY <1>3, FS_EmptySet
  <2>2. Least(Named(n)) \in Named(n)
    BY <1>2, <2>1, LeastIsMember
  <2> QED
    BY <2>2 DEF DuplicatesOf, Members
<1>4. \A n, m \in Names : Named(n) = Named(m) => DuplicatesOf(n) = DuplicatesOf(m)
  BY DEF DuplicatesOf
<1>5. GroupsOK(j)'
  <2>1. ASSUME NEW g \in groups'[j]
        PROVE  g.primary \notin g.duplicates /\ \E n \in Names : g = DuplicatesOf(n) /\ Members(g) = Named(n)
    BY <1>0, <1>3
  <2>2. \A g, h \in groups'[j] : Members(g) = Members(h) => g = h
    BY <1>4, <2>1
  <2> QED
    BY <1>0, <1>1, <2>1, <2>2 DEF GroupsOK, InMerger, Members
<1>6. ASSUME NEW n \in Names PROVE (\E g \in groups'[j] : Members(g) = Named(n)) \/ Settled(n)
  <2>1. CASE Cardinality(Named(n)) > 1
    BY <1>0, <1>3, <2>1
  <2>2. CASE ~(Cardinality(Named(n)) > 1)
    <3>1. Cardinality(Named(n)) \in Nat
      BY <1>2, FS_CardinalityType
    <3>2. Cardinality(Named(n)) = 0 \/ Cardinality(Named(n)) = 1
      BY <2>2, <3>1
    <3>3. Named(n) = {} \/ \E x : Named(n) = {x}
      BY <1>2, <3>2, FS_EmptySet, FS_Singleton
    <3>4. \A r, q \in records : r.name = n /\ q.name = n => r.id = q.id
      BY <3>3 DEF Named
    <3> QED
      BY <1>0, <3>4 DEF KeysUnique, Settled
  <2> QED
    BY <2>1, <2>2
<1>7. AllSettled(j)'
  <2>1. \A n : Settled(n) => Settled(n)'
    BY <1>0, SettledStays DEF tables
  <2> QED
    BY <1>1, <1>6, <2>1 DEF AllSettled, Members
<1> QED
  BY <1>5, <1>7

LEMMA TakeGroup ==
  ASSUME GroupsInv, NEW j \in Jobs, NextGroup(j), step'[j] \in Active
  PROVE  GroupsOK(j)' /\ AllSettled(j)'
<1>0. /\ SerialInv /\ TypeOK /\ KeysUnique /\ UNCHANGED tables /\ step[j] = "groups"
      /\ GroupsOK(j) /\ AllSettled(j) /\ j \in Sessions
  BY DEF GroupsInv, SerialInv, NextGroup, TypeOK, Sessions, Active
<1>1. \A n : Named(n)' = Named(n)
  BY <1>0 DEF Named, tables
<1>2. PICK g \in groups[j] :
         /\ groups' = [groups EXCEPT ![j] = @ \ {g}]
         /\ IF g.primary \in Live
            THEN /\ \E r \in records : /\ r.id = g.primary
                                       /\ target' = [target EXCEPT ![j] = r]
                 /\ ids' = [ids EXCEPT ![j] = g.duplicates]
                 /\ Go(j, "load")
            ELSE /\ Go(j, "failed")
                 /\ UNCHANGED <<target, ids>>
  BY DEF NextGroup
<1>3. g.primary \in Live
  BY <1>0, <1>2 DEF Go, TypeOK, Active, InMerger
<1>4. PICK r \in records : r.id = g.primary /\ target' = [target EXCEPT ![j] = r]
  BY <1>2, <1>3
<1>5. /\ step'[j] = "load" /\ target'[j] = r /\ ids'[j] = g.duplicates
      /\ groups'[j] = groups[j] \ {g}
  BY <1>0, <1>2, <1>3, <1>4 DEF Go, TypeOK
<1>6. PICK n \in Names : Members(g) = Named(n)
  BY <1>0 DEF GroupsOK
<1>7. \A m : Named(m) = Named(n) => r.name = m
  BY <1>0, <1>4, <1>6, NamedById DEF Members
<1>8. r.name = n
  BY <1>7
<1>9. ASSUME NEW q \in records PROVE q.name = n <=> q \in Taken(j)' \cup {r}
  <2>1. q.name = n <=> q.id = r.id \/ q.id \in g.duplicates
    BY <1>0, <1>4, <1>6, NamedById DEF Members
  <2>2. q \in Taken(j)' <=> q.id \in g.duplicates
    BY <1>0, <1>5 DEF Taken, tables
  <2> QED
    BY <1>0, <2>1, <2>2 DEF KeysUnique
<1>10. \A h \in groups'[j] : Members(h) # Named(r.name)'
  BY <1>0, <1>1, <1>5, <1>6, <1>8 DEF GroupsOK
<1>11. /\ \A h \in groups'[j] : h.primary \notin h.duplicates /\ \E m \in Names : Members(h) = Named(m)'
       /\ \A h, i \in groups'[j] : Members(h) = Members(i) => h = i
       /\ \A q \in records' : q.name = r.name <=> q \in Taken(j)' \cup {r}
  BY <1>0, <1>1, <1>5, <1>8, <1>9 DEF GroupsOK, tables
<1>12. GroupsOK(j)'
  BY <1>5, <1>10, <1>11 DEF GroupsOK, Members, Named
<1>13. AllSettled(j)'
  <2>1. \A m : Settled(m) => Settled(m)'
    BY <1>0, SettledStays DEF tables
  <2>2. ASSUME NEW m \in Names
        PROVE \/ \E h \in groups'[j] : Members(h) = Named(m)'
              \/ r.name = m
              \/ Settled(m)'
    BY <1>0, <1>1, <1>5, <1>6, <1>7, <2>1 DEF AllSettled, InMerger
  <2> QED
    BY <1>5, <2>2 DEF AllSettled, Members, InMerger
<1> QED
  BY <1>12, <1>13

\* A merge that is refused has met an obstacle.
LEMMA RefusedHasObstacle ==
  ASSUME GroupsInv, NEW j \in Jobs, Refuse(j)
  PROVE  Obstacle(target[j].name)
<1>0. /\ SerialInv /\ TypeOK /\ KeysUnique /\ step[j] = "save" /\ ~Valid(j)
      /\ GroupsOK(j) /\ TakenOK(j) /\ j \in Sessions /\ IsJob(j)
  BY DEF GroupsInv, SerialInv, Refuse, TypeOK, Sessions, Active, InMerger, IsJob
<1>1. /\ links[j] \subseteq relationships /\ merged[j] \subseteq records /\ Taken(j) = merged[j]
      /\ rest[j].manifests = Of(manifests, merged[j])
      /\ target[j] \in records \ merged[j] /\ Saved(j) = target[j]
  BY <1>0 DEF TakenOK, TargetOK, Taken, Loaded, Saved
<1>2. \A r \in merged[j] \cup {target[j]} : r.name = target[j].name
  BY <1>0, <1>1 DEF GroupsOK, InMerger
<1>3. CASE ~({l.related : l \in LinksFrom(j)} \cup {l.primary : l \in LinksTo(j)} \subseteq Live)
  <2>1. PICK l \in links[j] : /\ \E r \in merged[j] : Touches(l, r)
                              /\ ~({l.primary, l.related} \subseteq Live)
    BY <1>3 DEF LinksFrom, LinksTo, Touches
  <2> QED
    BY <1>1, <1>2, <2>1 DEF Obstacle
<1>4. CASE CopiedManifests(j) \cap manifests # {}
  <2>1. PICK m \in rest[j].manifests : [record |-> target[j].id, kind |-> m.kind] \in manifests
    BY <1>1, <1>4 DEF CopiedManifests
  <2>2. PICK c \in manifests : c = [record |-> target[j].id, kind |-> m.kind]
    BY <2>1
  <2>3. m \in manifests /\ \E r \in merged[j] : m.record = r.id
    BY <1>1, <2>1 DEF Of
  <2>4. PICK r \in merged[j] : m.record = r.id
    BY <2>3
  <2>5. m # c
    BY <1>0, <1>1, <2>2, <2>4 DEF KeysUnique
  <2> QED
    BY <1>1, <1>2, <2>2, <2>3, <2>4, <2>5 DEF Obstacle
<1> QED
  BY <1>0, <1>3, <1>4 DEF Valid

\* When a group is done, its name is settled.
LEMMA GroupDone ==
  ASSUME GroupsInv, NEW j \in Jobs, Refuse(j) \/ Finish(j)
  PROVE  GroupsOK(j)' /\ AllSettled(j)'
<1>0. /\ SerialInv /\ TypeOK /\ step[j] \in InMerger /\ GroupsOK(j) /\ AllSettled(j)
      /\ UNCHANGED <<tables, groups, cache>> /\ step'[j] = "groups" /\ j \in Sessions
  BY DEF GroupsInv, SerialInv, Refuse, Finish, Returned, Go, TypeOK, Sessions, Active, InMerger, IsJob
<1>1. \A n : Named(n)' = Named(n) /\ (Settled(n) => Settled(n)')
  BY <1>0, SettledStays DEF Named, tables
<1>2. Settled(target[j].name)
  <2>1. CASE Refuse(j)
    BY <2>1, RefusedHasObstacle DEF Settled
  <2>2. CASE Finish(j)
    <3>1. Taken(j) = {}
      BY <2>2 DEF Finish, Taken
    <3> QED
      BY <1>0, <3>1 DEF GroupsOK, Settled
  <2> QED
    BY <2>1, <2>2
<1>3. GroupsOK(j)'
  BY <1>0, <1>1 DEF GroupsOK, InMerger, Members
<1>4. AllSettled(j)'
  BY <1>0, <1>1, <1>2 DEF AllSettled, Members
<1> QED
  BY <1>3, <1>4

LEMMA ResetGroups ==
  ASSUME GroupsInv, NEW j \in Jobs, ResetManifests(j)
  PROVE  GroupsOK(j)' /\ AllSettled(j)'
<1>0. /\ SerialInv /\ TypeOK /\ KeysUnique /\ step[j] = "reset" /\ GroupsOK(j) /\ AllSettled(j)
      /\ TakenOK(j) /\ j \in Sessions /\ step'[j] = "destroy"
      /\ UNCHANGED <<records, relationships, groups, cache>>
  BY DEF GroupsInv, SerialInv, ResetManifests, Go, TypeOK, Sessions, Active, InMerger
<1>1. \A n : Named(n)' = Named(n)
  BY <1>0 DEF Named
<1>2. PICK t \in records : t = target[j]
  BY <1>0 DEF TakenOK, Written
<1>3. \A m \in manifests : m.record # t.id => m \in manifests'
  BY <1>2 DEF ResetManifests
<1>4. ASSUME NEW n, n # t.name, Obstacle(n) PROVE Obstacle(n)'
  <2>1. \A r \in records : r.name = n => r.id # t.id
    BY <1>0, <1>4 DEF KeysUnique
  <2>2. CASE \E l \in relationships, r \in records :
               r.name = n /\ Touches(l, r) /\ ~ ({l.primary, l.related} \subseteq Live)
    BY <1>0, <2>2 DEF Obstacle, Live
  <2>3. CASE \E m, k \in manifests :
               /\ m # k /\ m.kind = k.kind
               /\ \E r, q \in records : r.name = n /\ q.name = n /\ m.record = r.id /\ k.record = q.id
    <3>1. PICK m \in manifests, k \in manifests :
               /\ m # k /\ m.kind = k.kind
               /\ \E r, q \in records : r.name = n /\ q.name = n /\ m.record = r.id /\ k.record = q.id
      BY <2>3
    <3>2. m \in manifests' /\ k \in manifests'
      BY <1>3, <2>1, <3>1
    <3> QED
      BY <1>0, <3>1, <3>2 DEF Obstacle
  <2> QED
    BY <1>4, <2>2, <2>3 DEF Obstacle
<1>5. \A n : n # t.name /\ Settled(n) => Settled(n)'
  BY <1>0, <1>4 DEF Settled
<1>6. target'[j] = t /\ Taken(j)' = Taken(j)
  BY <1>0, <1>2 DEF cache, Taken
<1>7. GroupsOK(j)'
  <2>1. \A g \in groups'[j] : Members(g) # Named(t.name)'
    BY <1>0, <1>1, <1>2 DEF GroupsOK, InMerger
  <2> QED
    BY <1>0, <1>1, <1>2, <1>6, <2>1 DEF GroupsOK, InMerger, Members, Named
<1>8. AllSettled(j)'
  BY <1>0, <1>1, <1>2, <1>5, <1>6 DEF AllSettled, InMerger, Members
<1> QED
  BY <1>7, <1>8

\* The destruction of a record touches no record of another name.
LEMMA DestroyGroups ==
  ASSUME GroupsInv, NEW j \in Jobs, Destroy(j)
  PROVE  GroupsOK(j)' /\ AllSettled(j)'
<1>0. /\ SerialInv /\ TypeOK /\ KeysUnique /\ step[j] = "destroy" /\ GroupsOK(j) /\ AllSettled(j)
      /\ j \in Sessions /\ UNCHANGED <<step, groups>>
  BY DEF GroupsInv, SerialInv, Destroy, Go, TypeOK, Sessions, Active, InMerger
<1>1. PICK x \in merged[j] :
         /\ records' = {q \in records : q.id # x.id}
         /\ relationships' = {l \in relationships : ~(l \in links[j] /\ Touches(l, x))}
         /\ manifests' = {m \in manifests : ~(m \in rest[j].manifests /\ m.record = x.id)}
         /\ merged' = [merged EXCEPT ![j] = @ \ {x}]
         /\ UNCHANGED target
  BY DEF Destroy
<1>2. PICK t : t = target[j]
  OBVIOUS
<1>3. /\ merged[j] \subseteq records /\ t \in records \ merged[j] /\ Taken(j) = merged[j]
      /\ Taken(j)' = merged[j] \ {x} /\ target'[j] = t
  <2>1. TakenOK(j)
    BY <1>0 DEF SerialInv, Active, InMerger
  <2> QED
    BY <1>0, <1>1, <1>2, <2>1 DEF TakenOK, Loaded, Written, Taken, TypeOK
<1>4. /\ \A q \in records : q.name = t.name <=> q \in merged[j] \cup {t}
      /\ \A g \in groups[j] : Members(g) # Named(t.name)
  BY <1>0, <1>2, <1>3 DEF GroupsOK, InMerger
<1>5. records' = records \ {x} /\ x.name = t.name /\ x \in records
  BY <1>0, <1>1, <1>3, <1>4 DEF KeysUnique
<1>6. ASSUME NEW n, n # t.name PROVE Named(n)' = Named(n) /\ t.id \notin Named(n)
  <2>1. \A q \in records : q.name = n => q \in records'
    BY <1>5, <1>6
  <2>2. Named(n)' = Named(n)
    BY <1>5, <2>1 DEF Named
  <2> QED
    BY <1>0, <1>3, <1>6, <2>2, NamedById
<1>7. t.id \in Named(t.name)'
  BY <1>3, <1>5 DEF Named
<1>8. GroupsOK(j)'
  <2>1. \A g \in groups[j] : \E n \in Names : Members(g) = Named(n)' /\ t.id \notin Members(g)
    BY <1>0, <1>4, <1>6 DEF GroupsOK
  <2>2. \A g \in groups[j] : Members(g) # Named(t.name)'
    BY <1>7, <2>1
  <2>3. \A q \in records' : q.name = t.name <=> q \in (merged[j] \ {x}) \cup {t}
    BY <1>3, <1>4, <1>5
  <2> QED
    BY <1>0, <1>3, <2>1, <2>2, <2>3 DEF GroupsOK, Members, Named
<1>9. ASSUME NEW n, n # t.name, Obstacle(n) PROVE Obstacle(n)'
  <2>1. \A q \in records : q.name = n => q.id # x.id /\ q \in records'
    BY <1>0, <1>5, <1>9 DEF KeysUnique
  <2>2. CASE \E l \in relationships, r \in records :
               r.name = n /\ Touches(l, r) /\ ~ ({l.primary, l.related} \subseteq Live)
    <3>1. PICK l \in relationships, r \in records :
               r.name = n /\ Touches(l, r) /\ ~ ({l.primary, l.related} \subseteq Live)
      BY <2>2
    <3>2. r.id \in Live /\ x.id \in Live
      BY <1>5 DEF Live
    <3>3. ~Touches(l, x)
      BY <2>1, <3>1, <3>2 DEF Touches
    <3>4. l \in relationships' /\ r \in records' /\ ~ ({l.primary, l.related} \subseteq Live')
      BY <1>1, <1>5, <2>1, <3>1, <3>3 DEF Live
    <3> QED
      BY <3>1, <3>4 DEF Obstacle
  <2>3. CASE \E m, k \in manifests :
               /\ m # k /\ m.kind = k.kind
               /\ \E r, q \in records : r.name = n /\ q.name = n /\ m.record = r.id /\ k.record = q.id
    <3>1. PICK m \in manifests, k \in manifests :
               /\ m # k /\ m.kind = k.kind
               /\ \E r, q \in records : r.name = n /\ q.name = n /\ m.record = r.id /\ k.record = q.id
      BY <2>3
    <3>2. m \in manifests' /\ k \in manifests'
      BY <1>1, <2>1, <3>1
    <3>3. \E r, q \in records' : r.name = n /\ q.name = n /\ m.record = r.id /\ k.record = q.id
      BY <2>1, <3>1
    <3> QED
      BY <3>1, <3>2, <3>3 DEF Obstacle
  <2> QED
    BY <1>9, <2>2, <2>3 DEF Obstacle
<1>10. \A n : n # t.name /\ Settled(n) => Settled(n)'
  BY <1>5, <1>9 DEF Settled
<1>11. AllSettled(j)'
  <2> SUFFICES ASSUME NEW n \in Names
               PROVE  \/ \E g \in groups'[j] : Members(g) = Named(n)'
                      \/ t.name = n
                      \/ Settled(n)'
    BY <1>0, <1>3 DEF AllSettled, Members, InMerger
  <2>1. CASE n = t.name
    BY <2>1
  <2>2. CASE n # t.name
    BY <1>0, <1>2, <1>6, <1>10, <2>2 DEF AllSettled
  <2> QED
    BY <2>1, <2>2
<1> QED
  BY <1>8, <1>11

LEMMA GroupsStep ==
  ASSUME OneByOne
  PROVE  GroupsInv /\ [Next]_vars => GroupsInv'
<1> SUFFICES ASSUME GroupsInv, [Next]_vars PROVE GroupsInv'
  OBVIOUS
<1>0. SerialInv /\ SerialInv' /\ TypeOK /\ OneActive
  BY SerialStep DEF GroupsInv, SerialInv
<1>1. CASE AddLink \/ UNCHANGED vars
  <2>1. /\ UNCHANGED <<records, manifests, step, groups, target, ids, merged>>
        /\ relationships \subseteq relationships'
    BY <1>1 DEF AddLink, vars, tables, cache
  <2>2. \A j \in Jobs : Taken(j)' = Taken(j)
    BY <2>1 DEF Taken
  <2> QED
    BY <1>0, <2>1, <2>2, GroupsStay DEF GroupsInv
<1>2. CASE Next /\ ~AddLink
  <2>1. PICK s \in Sessions : Moves(s) /\ OthersRest(s) /\ OthersRest(s)'
    BY <1>0, <1>2, OneMoves
  <2>2. ASSUME s \in Jobs, step'[s] \in Active PROVE GroupsOK(s)' /\ AllSettled(s)'
    <3>1. CASE Load(s) \/ Collect(s) \/ Save(s)
      <4>1. CASE Load(s)
        <5>1. /\ step[s] = "load" /\ step'[s] = "collect" /\ UNCHANGED <<tables, groups, target>>
              /\ merged'[s] = Taken(s)
          BY <1>0, <4>1 DEF Load, Go, TypeOK, Taken
        <5>2. Taken(s)' = Taken(s)
          BY <5>1 DEF Taken
        <5> QED
          BY <2>2, <5>1, <5>2, GroupsStay DEF tables, Active, InMerger
      <4>2. CASE Collect(s)
        <5>1. /\ step[s] = "collect" /\ step'[s] = "save" /\ UNCHANGED <<tables, groups, target, merged>>
          BY <1>0, <4>2 DEF Collect, Go, TypeOK
        <5>2. Taken(s)' = Taken(s)
          BY <5>1 DEF Taken
        <5> QED
          BY <2>2, <5>1, <5>2, GroupsStay DEF tables, Active, InMerger
      <4>3. CASE Save(s)
        <5>1. /\ step[s] = "save" /\ step'[s] = "reset" /\ UNCHANGED <<records, groups, merged>>
              /\ relationships \subseteq relationships' /\ manifests \subseteq manifests'
              /\ target'[s] = target[s]
          BY <1>0, <2>2, <4>3 DEF Save, Saved, IsJob, Go, TypeOK
        <5>2. Taken(s)' = Taken(s)
          BY <5>1 DEF Taken
        <5> QED
          BY <2>2, <5>1, <5>2, GroupsStay DEF Active, InMerger
      <4> QED
        BY <3>1, <4>1, <4>2, <4>3
    <3>2. CASE Request(s) /\ s \in Merges
      BY <2>2, <3>2, MergeAssumption
    <3>3. CASE NoMoreGroups(s)
      BY <1>0, <2>2, <3>3 DEF NoMoreGroups, Go, TypeOK, Active, InMerger
    <3> QED
      BY <2>1, <2>2, <3>1, <3>2, <3>3, FindGroups, TakeGroup, GroupDone, ResetGroups, DestroyGroups
      DEF Moves
  <2>3. \A q \in Sessions \ {s} : step'[q] \notin Active
    BY <2>1 DEF OthersRest
  <2> QED
    BY <1>0, <2>2, <2>3 DEF GroupsInv, Sessions
<1> QED
  BY <1>1, <1>2

\* Whatever relationships users add meanwhile, a job that removes duplicates
\* leaves no two records of a name, where nothing else runs and nothing fails,
\* unless merging them was refused.
THEOREM JobsLeaveNoDuplicates == Spec => JobsRemoveDuplicates
<1> DEFINE Inv == OneByOne => GroupsInv
<1>1. Init => Inv
  BY InitSerial DEF Init, GroupsInv, Active, InMerger, Sessions
<1>2. Inv /\ [Next]_vars => Inv'
  BY GroupsStep, SameSetting
<1>3. Inv /\ [Next]_vars
        => [\A j \in Jobs : OneByOne /\ step[j] # "done" /\ step'[j] = "done" => Deduplicated]_vars
  <2> SUFFICES ASSUME OneByOne, GroupsInv, Next, NEW j \in Jobs, step[j] # "done", step'[j] = "done"
               PROVE  Deduplicated
    OBVIOUS
  <2>0. TypeOK /\ OneActive
    BY DEF GroupsInv, SerialInv
  <2>1. NoMoreGroups(j)
    <3>1. ~AddLink
      BY DEF AddLink
    <3>2. PICK s \in Sessions : Moves(s)
      BY <2>0, <3>1, OneMoves
    <3>3. s = j
      BY <2>0, <3>2 DEF Moves, Request, FindDuplicates, NextGroup, NoMoreGroups, Load, Collect,
         Save, Refuse, ResetManifests, Destroy, Finish, Go, TypeOK, Sessions
    <3> QED
      BY <2>0, <3>2, <3>3, MergeAssumption
      DEF Moves, FindDuplicates, NextGroup, Load, Collect,
         Save, Refuse, ResetManifests, Destroy, Finish, Returned, IsJob, Go, TypeOK, Sessions
  <2>2. AllSettled(j) /\ step[j] = "groups" /\ groups[j] = {}
    BY <2>1 DEF NoMoreGroups, GroupsInv, Active
  <2>3. \A n \in Names : Settled(n)
    BY <2>2 DEF AllSettled, InMerger
  <2> QED
    BY <2>0, <2>3 DEF Deduplicated, Settled, TypeOK, Record
<1> HIDE DEF Inv
<1> QED
  BY <1>1, <1>2, <1>3, PTL DEF Spec, JobsRemoveDuplicates
=============================================================================
