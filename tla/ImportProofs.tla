---------------------------- MODULE ImportProofs ----------------------------
(***************************************************************************)
(* Proofs about Import, for every set of imports, files and rows: its type *)
(* invariant, the inductive invariant of the row locks and the audit       *)
(* table, that it implements the contract of Catalogue, and that closed    *)
(* imports leave no staging numbers (ZInv). Imports one at a time          *)
(* duplicate nothing (UniqueInv) and version what they replace             *)
(* (ReplacedInv).                                                          *)
(***************************************************************************)
EXTENDS Import, FiniteSetTheorems, TLAPS

-----------------------------------------------------------------------------
(* What the operators of Import return, in a state of the right types.     *)

LEMMA ZipsAreCsv ==
  ASSUME TypeOK, NEW i \in Imports
  PROVE  IsCsv(zip[i])
<1>1. IsCsv(<<>>)
  BY DEF IsCsv
<1>2. zip[i] \in Zips \cup {<<>>}
  BY DEF TypeOK
<1> QED
  BY <1>1, <1>2, ConstantsAssumption

LEMMA ViewType ==
  ASSUME TypeOK, NEW i \in Imports
  PROVE  View(i) \in [Ids -> Row \cup {NoRow}]
BY ConstantsAssumption DEF TypeOK, View

LEMMA UuidOfType ==
  ASSUME TypeOK, NEW i \in Imports, NEW n \in DOMAIN zip[i]
  PROVE  UuidOf(i, n) \in Uuids \cup (Imports \X (Nat \ {0}))
<1>1. n \in Nat \ {0} /\ zip[i][n] \in CsvRow
  BY ZipsAreCsv DEF IsCsv
<1> QED
  BY <1>1 DEF UuidOf, CsvRow

LEMMA MatchedType ==
  ASSUME TypeOK, NEW i \in Imports, NEW n \in DOMAIN zip[i], NEW s \in Matched(i, n)
  PROVE  s \in StagedRow /\ s.value \in Values
<1>1. zip[i][n] \in CsvRow
  BY ZipsAreCsv DEF IsCsv
<1>2. zip[i][n].value \in Values
  BY <1>1 DEF CsvRow
<1>3. ASSUME NEW found \in SUBSET Ids
      PROVE  AnyOf(found) \subseteq Ids \cup {NoId}
  BY DEF AnyOf
<1>4. CASE table[i] = "record"
  <2>1. PICK r \in AnyOf(IF zip[i][n].uuid = NoUuid THEN {} ELSE SameUuid(i, n, "record")) :
          s = [id |-> r, value |-> zip[i][n].value, from |-> NoId, to |-> NoId]
    BY <1>4 DEF Matched, MatchedRecord
  <2>2. r \in Ids \cup {NoId}
    BY <2>1, <1>3 DEF SameUuid
  <2> QED
    BY <1>2, <2>1, <2>2 DEF StagedRow
<1>5. CASE table[i] # "record"
  <2>1. PICK e \in Endpoints(i, n) :
          \E r \in AnyOf(IF SameUuid(i, n, "relationship") # {}
                           THEN SameUuid(i, n, "relationship")
                           ELSE SameEnds(i, n, e[1], e[2])) :
             s = [id    |-> r,
                  value |-> IF r = NoId THEN zip[i][n].value ELSE View(i)[r].value,
                  from  |-> e[1],
                  to    |-> e[2]]
    BY <1>5 DEF Matched, MatchedRelationship
  <2>2. PICK r \in AnyOf(IF SameUuid(i, n, "relationship") # {}
                           THEN SameUuid(i, n, "relationship")
                           ELSE SameEnds(i, n, e[1], e[2])) :
             s = [id    |-> r,
                  value |-> IF r = NoId THEN zip[i][n].value ELSE View(i)[r].value,
                  from  |-> e[1],
                  to    |-> e[2]]
    BY <2>1
  <2>3. e[1] \in Ids \cup {NoId} /\ e[2] \in Ids \cup {NoId}
    BY <2>1 DEF Endpoints, Imported
  <2>4. /\ r \in Ids \cup {NoId}
        /\ r # NoId => View(i)[r] # NoRow
    BY <2>2 DEF AnyOf, SameUuid, SameEnds
  <2>5. r # NoId => View(i)[r].value \in Values
    BY <2>4, ViewType DEF Row
  <2> QED
    BY <1>2, <2>2, <2>3, <2>4, <2>5 DEF StagedRow
<1> QED
  BY <1>4, <1>5

\* The rows that a load writes have the right types; an updated one keeps its
\* identity.
LEMMA LoadedRows ==
  ASSUME TypeOK, NEW i \in Imports, step[i] = "load",
         NEW n \in RowsOf(i, table[i])
  PROVE  /\ n \in ToInsert(i) => Inserted(i, n) \in Row
         /\ \A r \in ToUpdate(i) :
              /\ Updated(i, r, n) \in Row
              /\ Contract!SameIdentity(View(i)[r], Updated(i, r, n))
<1>1. n \in Nat \ {0} /\ n \in DOMAIN zip[i]
  BY ZipsAreCsv DEF IsCsv, RowsOf
<1>2. staged[i][n] \in StagedRow /\ staged[i][n].value \in Values
  BY <1>1 DEF TypeOK, StagingOK, InTransaction
<1>3. table[i] \in Tables
  BY DEF TypeOK
<1>4. UuidOf(i, n) \in Uuids \cup (Imports \X (Nat \ {0}))
  BY <1>1, UuidOfType
<1>5. Inserted(i, n) \in Row
  BY <1>1, <1>2, <1>3, <1>4 DEF Inserted, Row, StagedRow
<1>6. ASSUME NEW r \in ToUpdate(i)
      PROVE  /\ Updated(i, r, n) \in Row
             /\ Contract!SameIdentity(View(i)[r], Updated(i, r, n))
  <2>1. View(i)[r] \in Row
    BY ViewType DEF ToUpdate
  <2> QED
    BY <1>1, <1>2, <2>1 DEF Updated, Row, Contract!SameIdentity
<1> QED
  BY <1>5, <1>6

-----------------------------------------------------------------------------
(* Type correctness                                                        *)

LEMMA MatchTypeOK ==
  ASSUME TypeOK, NEW i \in Imports, Match(i)
  PROVE  TypeOK'
<1> DEFINE rows == RowsOf(i, table[i])
<1>1. PICK s \in [rows -> UNION {Matched(i, n) : n \in rows}] :
        /\ \A n \in rows : s[n] \in Matched(i, n)
        /\ staged' = [staged EXCEPT ![i] =
             [n \in DOMAIN zip[i] |-> IF n \in rows THEN s[n] ELSE staged[i][n]]]
  BY DEF Match
<1>2. \A n \in rows : s[n] \in StagedRow /\ s[n].value \in Values
  BY <1>1, MatchedType DEF RowsOf
<1>3. staged[i] \in [DOMAIN zip[i] -> StagedRow]
  BY DEF TypeOK, StagingOK, Match, InTransaction
<1>4. DOMAIN staged' = Imports
  BY <1>1 DEF TypeOK
<1>5. ASSUME NEW j \in Imports
      PROVE  StagingOK(j)'
  <2>1. CASE j = i
    <3>1. staged'[i] = [n \in DOMAIN zip[i] |-> IF n \in rows THEN s[n] ELSE staged[i][n]]
      BY <1>1 DEF TypeOK
    <3>2. staged'[i] \in [DOMAIN zip'[i] -> StagedRow]
      BY <1>2, <1>3, <3>1 DEF Match
    <3>3. \A n \in RowsOf(i, table[i])' : staged'[i][n].value \in Values
      BY <1>2, <3>1 DEF Match, RowsOf
    <3> QED
      BY <2>1, <3>2, <3>3 DEF StagingOK
  <2>2. CASE j # i
    <3>1. StagingOK(j) /\ staged'[j] = staged[j] /\ step'[j] = step[j]
      BY <1>1, <2>2 DEF TypeOK, Match
    <3> QED
      BY <3>1 DEF StagingOK, RowsOf, Match
  <2> QED
    BY <2>1, <2>2
<1>6. step' \in [Imports -> Steps]
  BY DEF TypeOK, Match, Steps
<1> QED
  BY <1>4, <1>5, <1>6 DEF TypeOK, Match

\* An import's StagingOK depends on its own variables only.
LEMMA StagingOfOthers ==
  ASSUME NEW j \in Imports, StagingOK(j),
         step'[j] = step[j], table'[j] = table[j], zip'[j] = zip[j], staged'[j] = staged[j]
  PROVE  StagingOK(j)'
BY DEF StagingOK, RowsOf

LEMMA LoadTypeOK ==
  ASSUME TypeOK, NEW i \in Imports, Load(i)
  PROVE  TypeOK'
<1>1. PICK row \in [ToUpdate(i) -> DOMAIN zip[i]], key \in [ToInsert(i) -> FreshKeys] :
        LET keys == {key[n] : n \in ToInsert(i)}
        IN  /\ \A r \in ToUpdate(i) : row[r] \in RowsOf(i, table[i]) /\ staged[i][row[r]].id = r
            /\ own' = [own EXCEPT ![i] = [r \in Ids |->
                 IF r \in ToUpdate(i) THEN Updated(i, r, row[r])
                 ELSE IF r \in keys
                   THEN Inserted(i, CHOOSE n \in ToInsert(i) : key[n] = r)
                   ELSE own[i][r]]]
            /\ staged' = [staged EXCEPT ![i] = [n \in DOMAIN zip[i] |->
                 IF n \in ToInsert(i) THEN [staged[i][n] EXCEPT !.id = key[n]]
                                      ELSE staged[i][n]]]
            /\ audit' = [audit EXCEPT ![i] = @ \cup AuditCreates(keys)]
            /\ used' = used \cup keys
  BY ZenonT(30) DEF Load
<1> DEFINE keys == {key[n] : n \in ToInsert(i)}
<1>2. step[i] = "load"
  BY DEF Load
<1>3. keys \subseteq Ids
  BY DEF FreshKeys
<1>4. own' \in [Imports -> [Ids -> Row \cup {Clean}]]
  <2>1. \A r \in ToUpdate(i) : Updated(i, r, row[r]) \in Row
    BY <1>1, <1>2, LoadedRows
  <2>2. ASSUME NEW r \in keys
        PROVE  Inserted(i, CHOOSE n \in ToInsert(i) : key[n] = r) \in Row
    <3>1. (CHOOSE n \in ToInsert(i) : key[n] = r) \in ToInsert(i)
      BY <2>2
    <3> QED
      BY <1>2, <3>1, LoadedRows DEF ToInsert
  <2> DEFINE new == [r \in Ids |->
               IF r \in ToUpdate(i) THEN Updated(i, r, row[r])
               ELSE IF r \in keys THEN Inserted(i, CHOOSE n \in ToInsert(i) : key[n] = r)
                    ELSE own[i][r]]
  <2>3. new \in [Ids -> Row \cup {Clean}]
    <3>1. ASSUME NEW r \in Ids
          PROVE  new[r] \in Row \cup {Clean}
      <4>1. own[i][r] \in Row \cup {Clean}
        BY DEF TypeOK
      <4>2. CASE r \in ToUpdate(i)
        BY <2>1, <4>2
      <4>3. CASE r \notin ToUpdate(i) /\ r \in keys
        BY <2>2, <4>3
      <4>4. CASE r \notin ToUpdate(i) /\ r \notin keys
        BY <4>1, <4>4
      <4> QED
        BY <4>2, <4>3, <4>4
    <3> QED
      BY <3>1
  <2>4. own' = [own EXCEPT ![i] = new]
    BY <1>1
  <2> HIDE DEF new
  <2> QED
    BY <2>3, <2>4 DEF TypeOK
<1>5. staged[i] \in [DOMAIN zip[i] -> StagedRow]
  BY <1>2 DEF TypeOK, StagingOK, InTransaction
<1>6. staged'[i] \in [DOMAIN zip[i] -> StagedRow]
  <2>1. ASSUME NEW n \in ToInsert(i)
        PROVE  n \in DOMAIN zip[i] /\ [staged[i][n] EXCEPT !.id = key[n]] \in StagedRow
    BY <1>5 DEF ToInsert, RowsOf, FreshKeys, StagedRow
  <2> QED
    BY <1>1, <1>5, <2>1 DEF TypeOK
<1>7. DOMAIN staged' = Imports /\ \A j \in Imports : StagingOK(j)'
  <2>1. StagingOK(i)'
    <3>1. step'[i] \in {"match", "commit"}
      BY DEF Load, TypeOK
    <3> QED
      BY <1>6, <3>1 DEF StagingOK, Load
  <2>2. ASSUME NEW j \in Imports \ {i}
        PROVE  StagingOK(j)'
    <3>1. /\ StagingOK(j) /\ staged'[j] = staged[j] /\ step'[j] = step[j]
          /\ table'[j] = table[j] /\ zip'[j] = zip[j]
      BY <1>1 DEF TypeOK, Load
    <3> QED
      BY <3>1, StagingOfOthers
  <2> QED
    BY <1>1, <2>1, <2>2 DEF TypeOK
<1>8. step' \in [Imports -> Steps] /\ table' \in [Imports -> Tables]
  <2>1. \/ step' = [step EXCEPT ![i] = "match"] /\ table' = [table EXCEPT ![i] = "relationship"]
        \/ step' = [step EXCEPT ![i] = "commit"] /\ table' = table
    BY DEF Load
  <2> QED
    BY <2>1 DEF TypeOK, Steps, Tables
<1>9. audit' \in [Imports -> SUBSET AuditRow]
  BY <1>1, <1>3 DEF TypeOK, AuditCreates, AuditRow
<1>10. used' \subseteq Ids
  BY <1>1, <1>3 DEF TypeOK
<1> QED
  BY <1>4, <1>7, <1>8, <1>9, <1>10 DEF TypeOK, Load

LEMMA StepTypeOK ==
  ASSUME TypeOK, [Next]_vars
  PROVE  TypeOK'
<1> USE ConstantsAssumption
<1>1. ASSUME NEW i \in Imports, Start(i)
      PROVE  TypeOK'
  <2>1. PICK rows \in Zips :
          /\ zip' = [zip EXCEPT ![i] = rows]
          /\ staged' = [staged EXCEPT ![i] = [n \in DOMAIN rows |-> NoTarget]]
    BY <1>1 DEF Start
  <2>2. NoTarget \in StagedRow
    BY DEF NoTarget, StagedRow
  <2>3. StagingOK(i)'
    BY <1>1, <2>1, <2>2 DEF StagingOK, Start, TypeOK
  <2>4. ASSUME NEW j \in Imports \ {i}
        PROVE  StagingOK(j)'
    BY <1>1, <2>1, StagingOfOthers DEF Start, TypeOK
  <2> QED
    BY <1>1, <2>1, <2>3, <2>4 DEF Start, TypeOK, Steps, Tables
<1>2. ASSUME NEW i \in Imports, Match(i)
      PROVE  TypeOK'
  BY <1>2, MatchTypeOK
<1>3. ASSUME NEW i \in Imports, Snapshot(i)
      PROVE  TypeOK'
  <2>1. AuditUpdates(i) \subseteq AuditRow
    BY ViewType DEF AuditUpdates, ToUpdate, AuditRow, Row
  <2>2. audit' \in [Imports -> SUBSET AuditRow]
    BY <1>3, <2>1 DEF Snapshot, TypeOK
  <2>3. StagingOK(i)'
    <3>1. StagingOK(i) /\ step[i] = "snapshot" /\ step'[i] = "load"
      BY <1>3 DEF TypeOK, Snapshot
    <3> QED
      BY <1>3, <3>1 DEF StagingOK, RowsOf, Snapshot, InTransaction
  <2>4. ASSUME NEW j \in Imports \ {i}
        PROVE  StagingOK(j)'
    BY <1>3, StagingOfOthers DEF Snapshot, TypeOK
  <2> QED
    BY <1>3, <2>2, <2>3, <2>4 DEF Snapshot, TypeOK, Steps
<1>4. ASSUME NEW i \in Imports, Load(i)
      PROVE  TypeOK'
  BY <1>4, LoadTypeOK
<1>5. ASSUME NEW i \in Imports, Commit(i)
      PROVE  TypeOK'
  <2>1. \A j \in Imports : StagingOK(j)'
    BY <1>5, StagingOfOthers DEF Commit, TypeOK, StagingOK, InTransaction
  <2>2. own' \in [Imports -> [Ids -> Row \cup {Clean}]]
    BY <1>5 DEF Commit, TypeOK, Released
  <2> QED
    BY <1>5, <2>1, <2>2, ViewType DEF Commit, TypeOK, Steps, Tables
<1>6. ASSUME NEW i \in Imports, Cleanup(i)
      PROVE  TypeOK'
  <2>1. ASSUME NEW r \in Ids, db[r] # NoRow
        PROVE  [db[r] EXCEPT !.z = 0] \in Row
    <3>1. db[r] \in Row
      BY <2>1 DEF TypeOK
    <3> QED
      BY <3>1 DEF Row
  <2>2. db' \in [Ids -> Row \cup {NoRow}]
    BY <1>6, <2>1 DEF Cleanup, TypeOK, ToReset
  <2>3. \A j \in Imports : StagingOK(j)'
    BY <1>6, StagingOfOthers DEF Cleanup, TypeOK, StagingOK, InTransaction
  <2>4. DOMAIN staged' = Imports
    BY <1>6 DEF Cleanup, TypeOK
  <2> QED
    BY <1>6, <2>2, <2>3, <2>4 DEF Cleanup, TypeOK, Steps, Tables
<1>7. ASSUME NEW i \in Imports, RollBack(i)
      PROVE  TypeOK'
  <2>1. \A j \in Imports : StagingOK(j)'
    BY <1>7, StagingOfOthers DEF RollBack, TypeOK, StagingOK, InTransaction
  <2>2. own' \in [Imports -> [Ids -> Row \cup {Clean}]]
    BY <1>7 DEF RollBack, TypeOK, Released
  <2> QED
    BY <1>7, <2>1, <2>2 DEF RollBack, TypeOK, Steps
<1>8. ASSUME NEW i \in Imports, CloseFails(i)
      PROVE  TypeOK'
  <2>1. \A j \in Imports : StagingOK(j)'
    BY <1>8, StagingOfOthers DEF CloseFails, TypeOK, StagingOK, InTransaction
  <2> QED
    BY <1>8, <2>1 DEF CloseFails, TypeOK, Steps
<1>9. CASE Web
  <2>1. \A j \in Imports : StagingOK(j)'
    BY <1>9, StagingOfOthers DEF Web, BeginEdit, Edit, BeginDestroy, Destroy, TypeOK, ImportVars
  <2>2. CASE \E e \in editing, value \in Values : Edit(e, value)
    <3>1. PICK e \in editing, value \in Values : Edit(e, value)
      BY <2>2
    <3>2. e.item \in Ids /\ db \in [Ids -> Row \cup {NoRow}]
      BY DEF TypeOK, LoadedCopy
    <3>3. \A row \in Row : [row EXCEPT !.value = value] \in Row
      BY DEF Row
    <3>4. db[e.item] # NoRow => [db[e.item] EXCEPT !.value = value] \in Row
      BY <3>2, <3>3
    <3>5. db' \in [Ids -> Row \cup {NoRow}]
      BY <3>1, <3>2, <3>4 DEF Edit
    <3> QED
      BY <2>1, <3>1, <3>5 DEF Edit, TypeOK, ImportVars
  <2>3. CASE \E r \in Ids : BeginDestroy(r)
    <3>1. \A x \in Ids : db[x] # NoRow => Copy(x) \in LoadedCopy
      BY DEF TypeOK, Row, Copy, LoadedCopy
    <3> QED
      BY <2>1, <2>3, <3>1 DEF BeginDestroy, Dependents, TypeOK, ImportVars
  <2>4. CASE \E r \in Ids : BeginEdit(r)
    <3>1. \A x \in Ids : db[x] # NoRow => Copy(x) \in LoadedCopy
      BY DEF TypeOK, Row, Copy, LoadedCopy
    <3> QED
      BY <2>1, <2>4, <3>1 DEF BeginEdit, TypeOK, ImportVars
  <2>5. CASE \E d \in deleting : Destroy(d)
    BY <2>1, <2>5 DEF Destroy, TypeOK, ImportVars
  <2> QED
    BY <1>9, <2>2, <2>3, <2>4, <2>5 DEF Web
<1>10. CASE UNCHANGED vars
  BY <1>10 DEF vars, TypeOK, StagingOK, RowsOf
<1> QED
  BY <1>1, <1>2, <1>3, <1>4, <1>5, <1>6, <1>7, <1>8, <1>9, <1>10
     DEF Next, Proceed, Fail

\* The variables of Import keep their types: what is stored is always a whole
\* row, whichever statements of whichever sessions wrote it.
THEOREM TypeCorrect == Spec => []TypeOK
<1>1. Init => TypeOK
  BY ConstantsAssumption DEF Init, TypeOK, StagingOK, InTransaction, Steps, Tables
<1>2. TypeOK /\ [Next]_vars => TypeOK'
  BY StepTypeOK
<1> QED
  BY <1>1, <1>2, PTL DEF Spec

-----------------------------------------------------------------------------
(* Row locks and the audit table                                           *)

\* What a request has loaded to edit is a record or is gone, and then for good.
EditsRecords ==
  \A e \in editing :
    /\ "edit" \in WebActions /\ e.item \in used
    /\ IF db[e.item] = NoRow THEN ~LockedByAny(e.item) ELSE db[e.item].table = "record"

IInv == TypeOK /\ RowLocks /\ AuditMatchesWrites /\ EditsRecords

\* What an edit does to a row: nothing, or the row is a record, which nobody has
\* locked and which gets another value.
LEMMA EditedRow ==
  ASSUME TypeOK, EditsRecords, NEW e \in editing, NEW value \in Values, Edit(e, value),
         NEW r \in Ids
  PROVE  \/ db'[r] = db[r]
         \/ /\ db[r] \in Row /\ db[r] # NoRow /\ db'[r] \in Row /\ db'[r] # NoRow
            /\ "edit" \in WebActions /\ db[r].table = "record" /\ ~LockedByAny(r)
            /\ db'[r].table = db[r].table /\ db'[r].uuid = db[r].uuid
            /\ db'[r].from = db[r].from /\ db'[r].to = db[r].to
            /\ db'[r].z = db[r].z /\ db'[r].import = db[r].import
            /\ db'[r].value = value
<1> USE ConstantsAssumption
<1>1. PICK row : row = [db[e.item] EXCEPT !.value = value]
  OBVIOUS
<1>0. db \in [Ids -> Row \cup {NoRow}]
  BY DEF TypeOK
<1>2. CASE db[e.item] # NoRow /\ r = e.item
  <2>1. /\ row \in Row /\ row.table = db[r].table /\ row.uuid = db[r].uuid
        /\ row.from = db[r].from /\ row.to = db[r].to
        /\ row.z = db[r].z /\ row.import = db[r].import /\ row.value = value
    <3>1. db[r] \in Row
      BY <1>2, <1>0
    <3> QED
      BY <1>1, <1>2, <3>1 DEF Row
  <2>2. db'[r] = row
    BY <1>1, <1>2, <1>0 DEF Edit
  <2> QED
    BY <1>2, <1>0, <2>1, <2>2 DEF Edit, EditsRecords
<1>3. CASE db[e.item] = NoRow \/ r # e.item
  BY <1>3, <1>0 DEF Edit
<1> QED
  BY <1>2, <1>3

\* What a load does, without how the keys are chosen.
LEMMA LoadEffect ==
  ASSUME TypeOK, NEW i \in Imports, Load(i)
  PROVE  \E keys \in SUBSET (Ids \ used) :
           /\ used' = used \cup keys
           /\ audit' = [audit EXCEPT ![i] = @ \cup AuditCreates(keys)]
           /\ \A r \in ToUpdate(i) : /\ own'[i][r] \in Row
                                     /\ Contract!SameIdentity(View(i)[r], own'[i][r])
           /\ \A r \in keys \ ToUpdate(i) : own'[i][r] \in Row
           /\ \A r \in Ids \ (keys \cup ToUpdate(i)) : own'[i][r] = own[i][r]
           /\ \A j \in Imports \ {i} : own'[j] = own[j] /\ staged'[j] = staged[j]
<1>1. PICK row \in [ToUpdate(i) -> DOMAIN zip[i]], key \in [ToInsert(i) -> FreshKeys] :
        LET keys == {key[n] : n \in ToInsert(i)}
        IN  /\ \A r \in ToUpdate(i) : row[r] \in RowsOf(i, table[i]) /\ staged[i][row[r]].id = r
            /\ own' = [own EXCEPT ![i] = [r \in Ids |->
                 IF r \in ToUpdate(i) THEN Updated(i, r, row[r])
                 ELSE IF r \in keys
                   THEN Inserted(i, CHOOSE n \in ToInsert(i) : key[n] = r)
                   ELSE own[i][r]]]
            /\ staged' = [staged EXCEPT ![i] = [n \in DOMAIN zip[i] |->
                 IF n \in ToInsert(i) THEN [staged[i][n] EXCEPT !.id = key[n]]
                                      ELSE staged[i][n]]]
            /\ audit' = [audit EXCEPT ![i] = @ \cup AuditCreates(keys)]
            /\ used' = used \cup keys
  BY ZenonT(30) DEF Load
<1> DEFINE keys == {key[n] : n \in ToInsert(i)}
<1>2. step[i] = "load"
  BY DEF Load
<1>3. keys \in SUBSET (Ids \ used)
  BY DEF FreshKeys
<1>4. \A r \in Ids : own'[i][r] =
        IF r \in ToUpdate(i) THEN Updated(i, r, row[r])
        ELSE IF r \in keys THEN Inserted(i, CHOOSE n \in ToInsert(i) : key[n] = r)
             ELSE own[i][r]
  BY <1>1 DEF TypeOK
<1>5. ASSUME NEW r \in ToUpdate(i)
      PROVE  /\ own'[i][r] \in Row
             /\ Contract!SameIdentity(View(i)[r], own'[i][r])
  <2>1. own'[i][r] = Updated(i, r, row[r])
    BY <1>4 DEF ToUpdate
  <2> QED
    BY <1>1, <1>2, <2>1, LoadedRows
<1>6. ASSUME NEW r \in keys \ ToUpdate(i)
      PROVE  own'[i][r] \in Row
  <2>1. (CHOOSE n \in ToInsert(i) : key[n] = r) \in ToInsert(i)
    BY <1>6
  <2>2. own'[i][r] = Inserted(i, CHOOSE n \in ToInsert(i) : key[n] = r)
    BY <1>3, <1>4
  <2> QED
    BY <1>2, <2>1, <2>2, LoadedRows DEF ToInsert
<1>7. \A r \in Ids \ (keys \cup ToUpdate(i)) : own'[i][r] = own[i][r]
  BY <1>4
<1>8. \A j \in Imports \ {i} : own'[j] = own[j] /\ staged'[j] = staged[j]
  BY <1>1 DEF TypeOK
<1>9. /\ used' = used \cup keys
      /\ audit' = [audit EXCEPT ![i] = @ \cup AuditCreates(keys)]
  BY <1>1
<1> HIDE DEF keys
<1> QED
  BY <1>3, <1>5, <1>6, <1>7, <1>8, <1>9

\* A load keeps the locks exclusive and audits what it inserts.
LEMMA LoadKeepsIInv ==
  ASSUME IInv, NEW i \in Imports, Load(i)
  PROVE  (RowLocks /\ AuditMatchesWrites)'
<1> USE ConstantsAssumption
<1>1. TypeOK /\ RowLocks /\ AuditMatchesWrites
  BY DEF IInv
<1>2. PICK keys \in SUBSET (Ids \ used) :
         /\ used' = used \cup keys
         /\ audit' = [audit EXCEPT ![i] = @ \cup AuditCreates(keys)]
         /\ \A r \in ToUpdate(i) : /\ own'[i][r] \in Row
                                   /\ Contract!SameIdentity(View(i)[r], own'[i][r])
         /\ \A r \in keys \ ToUpdate(i) : own'[i][r] \in Row
         /\ \A r \in Ids \ (keys \cup ToUpdate(i)) : own'[i][r] = own[i][r]
         /\ \A j \in Imports \ {i} : own'[j] = own[j] /\ staged'[j] = staged[j]
  BY <1>1, LoadEffect
<1>3. /\ step[i] = "load" /\ step'[i] \in {"match", "commit"}
      /\ \A r \in ToUpdate(i) : ~Locked(r, i)
      /\ db' = db /\ zip' = zip
      /\ \A j \in Imports \ {i} : step'[j] = step[j] /\ table'[j] = table[j]
  BY <1>1 DEF Load, TypeOK
<1>4. \A r \in ToUpdate(i) \cup keys : own'[i][r] # Clean
  BY <1>2
<1>5. ASSUME NEW r \in ToUpdate(i)
      PROVE  /\ r \in used
             /\ own[i][r] = Clean => db[r] # NoRow
             /\ db[r] # NoRow => Contract!SameIdentity(db[r], View(i)[r])
  BY <1>1 DEF ToUpdate, View, RowLocks, LockOK, Contract!SameIdentity
<1>6. ASSUME NEW r \in keys
      PROVE  db[r] = NoRow /\ \A j \in Imports : own[j][r] = Clean
  BY <1>1, <1>2 DEF RowLocks, LockOK
<1>7. ASSUME NEW r \in Ids
      PROVE  Locked(r, i)' <=> Locked(r, i)
  BY <1>2 DEF Locked
<1>8. ASSUME NEW j \in Imports \ {i}, NEW r \in Ids, r \in used, ~Locked(r, j),
             r \notin ToUpdate(i) \/ own[i][r] # Clean
      PROVE  ~Locked(r, j)'
  <2>1. own[i][r] = Clean
    BY <1>8 DEF Locked
  <2>2. own'[i][r] = Clean
    BY <1>2, <1>8, <2>1
  <2> QED
    BY <1>2, <1>8, <2>2 DEF Locked
<1>9. RowLocks'
  <2>1. ASSUME NEW r \in Ids, db'[r] # NoRow
        PROVE  r \in used'
    BY <1>1, <1>2, <1>3, <2>1 DEF RowLocks
  <2>2. ASSUME NEW r \in Ids
        PROVE  LockOK(i, r)'
    <3>1. CASE r \in ToUpdate(i)
      BY <1>2, <1>3, <1>5, <1>7, <3>1 DEF LockOK, InTransaction, Contract!SameIdentity
    <3>2. CASE r \in keys
      <4>1. ~Locked(r, i)
        BY <1>6, <3>2 DEF Locked
      <4> QED
        BY <1>2, <1>3, <1>6, <1>7, <3>2, <4>1 DEF LockOK, InTransaction
    <3>3. CASE r \notin ToUpdate(i) \cup keys
      BY <1>1, <1>2, <1>3, <1>7, <3>3 DEF RowLocks, LockOK, InTransaction
    <3> QED
      BY <3>1, <3>2, <3>3
  <2>3. ASSUME NEW j \in Imports \ {i}, NEW r \in Ids
        PROVE  LockOK(j, r)'
    <3>1. SUFFICES ASSUME own'[j][r] # Clean
                   PROVE  LockOK(j, r)'
      BY DEF LockOK
    <3>2. own[j][r] # Clean /\ own'[j][r] = own[j][r]
      BY <1>2, <3>1
    <3>3. /\ step[j] \in InTransaction /\ r \in used /\ ~Locked(r, j)
          /\ db[r] # NoRow => Contract!SameIdentity(db[r], own[j][r])
      BY <1>1, <3>2 DEF RowLocks, LockOK
    <3>4. r \notin ToUpdate(i)
      BY <1>3, <3>2 DEF Locked
    <3>5. ~Locked(r, j)'
      BY <1>8, <3>3, <3>4
    <3> QED
      BY <1>2, <1>3, <3>2, <3>3, <3>5 DEF LockOK, InTransaction
  <2> QED
    BY <2>1, <2>2, <2>3 DEF RowLocks
<1>10. AuditMatchesWrites'
  <2>1. ASSUME NEW r \in Ids
        PROVE  AuditOK(i, r)'
    <3>1. AuditOK(i, r)
      BY <1>1, <1>3 DEF AuditMatchesWrites, InTransaction
    <3>2. /\ AuditedAs(i, r, "create")' <=> AuditedAs(i, r, "create") \/ r \in keys
          /\ AuditedAs(i, r, "update")' <=> AuditedAs(i, r, "update")
      <4>1. audit'[i] = audit[i] \cup AuditCreates(keys)
        BY <1>1, <1>2 DEF TypeOK
      <4>2. ASSUME NEW a \in AuditCreates(keys)
            PROVE  a.event = "create" /\ a.id \in keys
        BY DEF AuditCreates
      <4>3. ASSUME r \in keys
            PROVE  \E a \in AuditCreates(keys) : a.id = r /\ a.event = "create"
        <5>1. [id |-> r, event |-> "create", object |-> NoValue] \in AuditCreates(keys)
          BY <4>3 DEF AuditCreates
        <5> QED
          BY <5>1
      <4> QED
        BY <4>1, <4>2, <4>3 DEF AuditedAs
    <3>3. own'[i][r] # Clean /\ db[r] = NoRow
            <=> (own[i][r] # Clean /\ db[r] = NoRow) \/ r \in keys
      <4>1. CASE r \in keys
        BY <1>4, <1>6, <4>1
      <4>2. CASE r \in ToUpdate(i) \ keys
        BY <1>4, <1>5, <4>2
      <4>3. CASE r \notin ToUpdate(i) \cup keys
        BY <1>2, <4>3
      <4> QED
        BY <4>1, <4>2, <4>3
    <3>4. AuditedAs(i, r, "update") => own'[i][r] # Clean \/ db[r] = NoRow
      <4>1. CASE own[i][r] # Clean
        BY <1>2, <1>4, <4>1
      <4>2. CASE own[i][r] = Clean /\ db[r] # NoRow /\ AuditedAs(i, r, "update")
        <5>1. r \in ToUpdate(i)
          BY <3>1, <4>2 DEF AuditOK, ToUpdate, View
        <5> QED
          BY <1>4, <5>1
      <4> QED
        BY <4>1, <4>2
    <3>5. AuditedAs(i, r, "update") => r \in used' /\ (db[r] = NoRow => ~Locked(r, i)')
      BY <1>2, <1>7, <3>1 DEF AuditOK
    <3> QED
      BY <1>3, <3>1, <3>2, <3>3, <3>4, <3>5 DEF AuditOK
  <2>2. ASSUME NEW j \in Imports \ {i}, step'[j] \in InTransaction, NEW r \in Ids
        PROVE  AuditOK(j, r)'
    <3>1. AuditOK(j, r)
      BY <1>1, <1>3, <2>2 DEF AuditMatchesWrites, InTransaction
    <3>2. audit'[j] = audit[j]
      BY <1>1, <1>2 DEF TypeOK
    <3>3. AuditedAs(j, r, "update") /\ db[r] = NoRow => ~Locked(r, j)'
      BY <1>5, <1>8, <3>1 DEF AuditOK
    <3> QED
      BY <1>2, <1>3, <3>1, <3>2, <3>3 DEF AuditOK, AuditedAs, RowsOf
  <2>3. ASSUME NEW j \in Imports, step'[j] = "idle"
        PROVE  audit'[j] = {}
    BY <1>1, <1>2, <1>3, <2>3 DEF AuditMatchesWrites, TypeOK
  <2> QED
    BY <2>1, <2>2, <2>3 DEF AuditMatchesWrites
<1> QED
  BY <1>9, <1>10

\* A step that leaves the audit table, the rows of an import and the existence of
\* all stored rows alone, and locks nothing more, keeps the import's audit table
\* in step.
LEMMA AuditOKKept ==
  ASSUME NEW j \in Imports, NEW r \in Ids, AuditOK(j, r),
         audit'[j] = audit[j], own'[j] = own[j], used' = used,
         db'[r] = NoRow <=> db[r] = NoRow,
         Locked(r, j)' => Locked(r, j),
         \/ step[j] # "load"
         \/ /\ step'[j] = "load" /\ staged'[j] = staged[j]
            /\ table'[j] = table[j] /\ zip'[j] = zip[j]
  PROVE  AuditOK(j, r)'
BY DEF AuditOK, AuditedAs, RowsOf

LEMMA CommitKeepsIInv ==
  ASSUME IInv, NEW i \in Imports, Commit(i)
  PROVE  (RowLocks /\ AuditMatchesWrites)'
<1> USE ConstantsAssumption
<1>1. TypeOK /\ RowLocks /\ AuditMatchesWrites
  BY DEF IInv
<1>2. /\ own'[i] = [r \in Ids |-> Clean]
      /\ \A j \in Imports \ {i} : own'[j] = own[j] /\ step'[j] = step[j] /\ table'[j] = table[j]
      /\ step[i] = "commit" /\ step'[i] = "cleanup"
      /\ used' = used /\ zip' = zip /\ staged' = staged /\ audit' = audit
      /\ \A r \in Ids : db'[r] = IF own[i][r] = Clean THEN db[r] ELSE own[i][r]
  BY <1>1 DEF Commit, Released, TypeOK, View
<1>3. ASSUME NEW j \in Imports \ {i}, NEW r \in Ids, own[i][r] # Clean
      PROVE  Locked(r, j)
  BY <1>3 DEF Locked
<1>4. ASSUME NEW j \in Imports, NEW r \in Ids, Locked(r, j)'
      PROVE  Locked(r, j)
  <2>1. PICK k \in Imports \ {j} : own'[k][r] # Clean
    BY <1>4 DEF Locked
  <2>2. own'[k] = own[k]
    BY <1>2, <2>1
  <2> QED
    BY <2>1, <2>2 DEF Locked
<1>5. RowLocks'
  <2>1. ASSUME NEW r \in Ids, db'[r] # NoRow
        PROVE  r \in used'
    BY <1>1, <1>2, <2>1 DEF RowLocks, LockOK
  <2>2. ASSUME NEW j \in Imports \ {i}, NEW r \in Ids
        PROVE  LockOK(j, r)'
    BY <1>1, <1>2, <1>3, <1>4 DEF RowLocks, LockOK
  <2>3. \A r \in Ids : LockOK(i, r)'
    BY <1>2 DEF LockOK
  <2> QED
    BY <2>1, <2>2, <2>3 DEF RowLocks
<1>6. AuditMatchesWrites'
  <2>1. ASSUME NEW j \in Imports, step'[j] \in InTransaction, NEW r \in Ids
        PROVE  AuditOK(j, r)'
    <3>1. j # i /\ AuditOK(j, r)
      BY <1>1, <1>2, <2>1 DEF AuditMatchesWrites, InTransaction
    <3>2. CASE own[i][r] = Clean
      BY <1>2, <1>4, <3>1, <3>2, AuditOKKept
    <3>3. CASE own[i][r] # Clean
      <4>1. own[j][r] = Clean /\ Locked(r, j)
        BY <1>1, <1>3, <3>1, <3>3 DEF RowLocks, LockOK
      <4>2. ~AuditedAs(j, r, "create") /\ (AuditedAs(j, r, "update") => r \in used /\ db[r] # NoRow)
        BY <3>1, <4>1 DEF AuditOK
      <4>3. db'[r] # NoRow
        BY <1>1, <1>2, <3>3 DEF TypeOK
      <4>4. AuditedAs(j, r, "update") =>
              step[j] = "load" /\ \E n \in RowsOf(j, table[j]) : staged[j][n].id = r
        BY <3>1, <4>1, <4>2 DEF AuditOK
      <4> QED
        BY <1>2, <3>1, <4>1, <4>2, <4>3, <4>4 DEF AuditOK, AuditedAs, RowsOf
    <3> QED
      BY <3>2, <3>3
  <2>2. ASSUME NEW j \in Imports, step'[j] = "idle"
        PROVE  audit'[j] = {}
    BY <1>1, <1>2, <2>2 DEF AuditMatchesWrites
  <2> QED
    BY <2>1, <2>2 DEF AuditMatchesWrites
<1> QED
  BY <1>5, <1>6

\* The rows that a transaction wrote are not those of any other, so giving them up
\* concerns nobody else.
LEMMA RollBackKeepsIInv ==
  ASSUME IInv, NEW i \in Imports, RollBack(i)
  PROVE  (RowLocks /\ AuditMatchesWrites)'
<1>1. TypeOK /\ RowLocks /\ AuditMatchesWrites
  BY DEF IInv
<1>2. /\ own'[i] = [r \in Ids |-> Clean]
      /\ \A j \in Imports \ {i} : /\ own'[j] = own[j] /\ step'[j] = step[j]
                                  /\ staged'[j] = staged[j] /\ audit'[j] = audit[j]
      /\ step'[i] = "failed"
      /\ used' = used /\ zip' = zip /\ table' = table /\ db' = db
  BY <1>1 DEF RollBack, Released, TypeOK
<1>3. ASSUME NEW j \in Imports, NEW r \in Ids, Locked(r, j)'
      PROVE  Locked(r, j)
  BY <1>2, <1>3 DEF Locked
<1>4. RowLocks'
  <2>1. ASSUME NEW j \in Imports, NEW r \in Ids
        PROVE  LockOK(j, r)'
    BY <1>1, <1>2, <1>3 DEF RowLocks, LockOK
  <2> QED
    BY <1>1, <1>2, <2>1 DEF RowLocks
<1>5. AuditMatchesWrites'
  <2>1. ASSUME NEW j \in Imports, step'[j] \in InTransaction, NEW r \in Ids
        PROVE  AuditOK(j, r)'
    <3>1. j # i /\ AuditOK(j, r)
      BY <1>1, <1>2, <2>1 DEF AuditMatchesWrites, InTransaction
    <3> QED
      BY <1>2, <1>3, <3>1, AuditOKKept
  <2> QED
    BY <1>1, <1>2, <2>1 DEF AuditMatchesWrites
<1> QED
  BY <1>4, <1>5

\* A cleanup changes the z columns only, and runs when its import has no
\* uncommitted rows.
LEMMA CleanupKeepsIInv ==
  ASSUME IInv, NEW i \in Imports, Cleanup(i)
  PROVE  (RowLocks /\ AuditMatchesWrites)'
<1> USE ConstantsAssumption
<1>1. TypeOK /\ RowLocks /\ AuditMatchesWrites
  BY DEF IInv
<1>2. /\ step[i] = "cleanup" /\ step'[i] \in {"cleanup", "closed"}
      /\ \A j \in Imports \ {i} : /\ step'[j] = step[j] /\ staged'[j] = staged[j]
                                  /\ audit'[j] = audit[j] /\ table'[j] = table[j]
      /\ used' = used /\ zip' = zip /\ own' = own
      /\ \A r \in Ids : db'[r] = IF r \in ToReset(i) THEN [db[r] EXCEPT !.z = 0] ELSE db[r]
  BY <1>1 DEF Cleanup, TypeOK
<1>3. ASSUME NEW r \in Ids
      PROVE  /\ db'[r] = NoRow <=> db[r] = NoRow
             /\ db[r] # NoRow => Contract!SameIdentity(db[r], db'[r])
  <2>1. CASE r \in ToReset(i)
    <3>1. db[r] \in Row /\ db[r] # NoRow
      BY <1>1, <2>1 DEF TypeOK, ToReset
    <3>2. [db[r] EXCEPT !.z = 0] \in Row /\ Contract!SameIdentity(db[r], [db[r] EXCEPT !.z = 0])
      BY <3>1 DEF Row, Contract!SameIdentity
    <3> QED
      BY <1>2, <2>1, <3>1, <3>2
  <2>2. CASE r \notin ToReset(i)
    BY <1>2, <2>2 DEF Contract!SameIdentity
  <2> QED
    BY <2>1, <2>2
<1>4. ASSUME NEW j \in Imports, NEW r \in Ids
      PROVE  Locked(r, j)' <=> Locked(r, j)
  BY <1>2 DEF Locked
<1>5. RowLocks'
  <2>1. ASSUME NEW j \in Imports, NEW r \in Ids
        PROVE  LockOK(j, r)'
    BY <1>1, <1>2, <1>3, <1>4 DEF RowLocks, LockOK, InTransaction, Contract!SameIdentity
  <2> QED
    BY <1>1, <1>2, <1>3, <2>1 DEF RowLocks
<1>6. AuditMatchesWrites'
  <2>1. ASSUME NEW j \in Imports, step'[j] \in InTransaction, NEW r \in Ids
        PROVE  AuditOK(j, r)'
    <3>1. j # i /\ AuditOK(j, r)
      BY <1>1, <1>2, <2>1 DEF AuditMatchesWrites, InTransaction
    <3> QED
      BY <1>2, <1>3, <1>4, <3>1, AuditOKKept
  <2> QED
    BY <1>1, <1>2, <2>1 DEF AuditMatchesWrites
<1> QED
  BY <1>5, <1>6

\* Reading steps: nothing is written but the import's own tables.
LEMMA ReadingKeepsIInv ==
  ASSUME IInv, NEW i \in Imports, Start(i) \/ Match(i) \/ Snapshot(i) \/ CloseFails(i)
  PROVE  (RowLocks /\ AuditMatchesWrites)'
<1> USE ConstantsAssumption
<1>1. TypeOK /\ RowLocks /\ AuditMatchesWrites
  BY DEF IInv
<1>2. /\ db' = db /\ used' = used /\ own' = own
      /\ \A j \in Imports \ {i} : /\ step'[j] = step[j] /\ staged'[j] = staged[j] /\ zip'[j] = zip[j]
                                  /\ audit'[j] = audit[j] /\ table'[j] = table[j]
      /\ step[i] \in InTransaction => step'[i] \in InTransaction
      /\ step'[i] # "idle"
  BY <1>1 DEF Start, Match, Snapshot, CloseFails, TypeOK, InTransaction
<1>3. ASSUME NEW j \in Imports, NEW r \in Ids
      PROVE  Locked(r, j)' <=> Locked(r, j)
  BY <1>2 DEF Locked
<1>4. RowLocks'
  BY <1>1, <1>2, <1>3 DEF RowLocks, LockOK
<1>5. ASSUME NEW r \in Ids, step'[i] \in InTransaction
      PROVE  AuditOK(i, r)'
  <2>1. CASE Start(i)
    <3>1. audit'[i] = {} /\ own'[i][r] = Clean
      BY <1>1, <1>2, <2>1 DEF Start, AuditMatchesWrites, RowLocks, LockOK, InTransaction
    <3> QED
      BY <3>1 DEF AuditOK, AuditedAs
  <2>2. CASE Match(i)
    <3>1. AuditOK(i, r) /\ step[i] # "load" /\ audit'[i] = audit[i]
      BY <1>1, <2>2 DEF Match, AuditMatchesWrites, InTransaction
    <3> QED
      BY <1>2, <1>3, <3>1 DEF AuditOK, AuditedAs
  <2>3. CASE Snapshot(i)
    <3>1. /\ AuditOK(i, r) /\ step[i] = "snapshot" /\ step'[i] = "load"
          /\ audit'[i] = audit[i] \cup AuditUpdates(i)
          /\ staged' = staged /\ table' = table /\ zip' = zip
      BY <1>1, <2>3 DEF Snapshot, AuditMatchesWrites, InTransaction, TypeOK
    <3>2. ASSUME NEW a \in AuditUpdates(i)
          PROVE  a.event = "update" /\ a.id \in ToUpdate(i)
      BY DEF AuditUpdates
    <3>3. AuditedAs(i, r, "create")' <=> AuditedAs(i, r, "create")
      BY <3>1, <3>2 DEF AuditedAs
    <3>4. AuditedAs(i, r, "update")' => AuditedAs(i, r, "update") \/ r \in ToUpdate(i)
      BY <3>1, <3>2 DEF AuditedAs
    <3>5. ASSUME r \in ToUpdate(i)
          PROVE  /\ r \in used
                 /\ db[r] = NoRow => ~Locked(r, i)
                 /\ \E n \in RowsOf(i, table[i]) : staged[i][n].id = r
      BY <1>1, <3>5 DEF ToUpdate, View, RowLocks, LockOK
    <3> QED
      BY <1>2, <1>3, <3>1, <3>3, <3>4, <3>5 DEF AuditOK, RowsOf
  <2>4. CASE CloseFails(i)
    <3>1. step'[i] = "leaked"
      BY <1>1, <2>4 DEF CloseFails, TypeOK
    <3> QED
      BY <1>5, <3>1 DEF InTransaction
  <2> QED
    BY <2>1, <2>2, <2>3, <2>4
<1>6. ASSUME NEW j \in Imports \ {i}, step'[j] \in InTransaction, NEW r \in Ids
      PROVE  AuditOK(j, r)'
  <2>1. AuditOK(j, r)
    BY <1>1, <1>2, <1>6 DEF AuditMatchesWrites
  <2> QED
    BY <1>2, <1>3, <2>1, AuditOKKept
<1>7. AuditMatchesWrites'
  BY <1>1, <1>2, <1>5, <1>6 DEF AuditMatchesWrites
<1> QED
  BY <1>4, <1>7

\* A web request waits for the locks, and so never meets a row that an import has
\* written.
LEMMA WebKeepsIInv ==
  ASSUME IInv, Web
  PROVE  (RowLocks /\ AuditMatchesWrites)'
<1> USE ConstantsAssumption
<1>1. TypeOK /\ RowLocks /\ AuditMatchesWrites
  BY DEF IInv
<1>2. UNCHANGED <<used, step, table, zip, staged, own, audit>>
  BY DEF Web, BeginEdit, Edit, BeginDestroy, Destroy, ImportVars
<1>3. ASSUME NEW r \in Ids
      PROVE  \/ /\ db'[r] = NoRow <=> db[r] = NoRow
                /\ db[r] # NoRow => Contract!SameIdentity(db[r], db'[r])
             \/ db'[r] = NoRow /\ ~LockedByAny(r)
  <2>1. CASE \E e \in editing, value \in Values : Edit(e, value)
    BY <2>1, EditedRow DEF IInv, Contract!SameIdentity
  <2>2. CASE \E x \in Ids : BeginEdit(x) \/ BeginDestroy(x)
    BY <2>2 DEF BeginEdit, BeginDestroy, Contract!SameIdentity
  <2>3. CASE \E d \in deleting : Destroy(d)
    BY <2>3 DEF Destroy, Contract!SameIdentity
  <2> QED
    BY <2>1, <2>2, <2>3 DEF Web
<1>4. ASSUME NEW j \in Imports, NEW r \in Ids
      PROVE  Locked(r, j)' <=> Locked(r, j)
  BY <1>2 DEF Locked
<1>5. RowLocks'
  <2>1. ASSUME NEW j \in Imports, NEW r \in Ids
        PROVE  LockOK(j, r)'
    <3>1. LockOK(j, r)
      BY <1>1 DEF RowLocks
    <3> QED
      BY <1>2, <1>3, <1>4, <3>1 DEF LockOK, LockedByAny, Contract!SameIdentity
  <2> QED
    BY <1>1, <1>2, <1>3, <2>1 DEF RowLocks
<1>6. AuditMatchesWrites'
  <2>1. ASSUME NEW j \in Imports, step'[j] \in InTransaction, NEW r \in Ids
        PROVE  AuditOK(j, r)'
    <3>1. AuditOK(j, r)
      BY <1>1, <1>2, <2>1 DEF AuditMatchesWrites
    <3>2. CASE db'[r] = NoRow <=> db[r] = NoRow
      BY <1>2, <1>4, <3>1, <3>2, AuditOKKept
    <3>3. CASE db'[r] = NoRow /\ ~LockedByAny(r)
      BY <1>2, <1>4, <3>1, <3>3 DEF AuditOK, AuditedAs, LockedByAny, Locked, RowsOf
    <3> QED
      BY <1>3, <3>2, <3>3
  <2> QED
    BY <1>1, <1>2, <2>1 DEF AuditMatchesWrites
<1> QED
  BY <1>5, <1>6

LEMMA EditsStayRecords ==
  ASSUME IInv, [Next]_vars
  PROVE  EditsRecords'
<1> USE ConstantsAssumption
<1>1. TypeOK /\ RowLocks /\ EditsRecords
  BY DEF IInv
<1>0. /\ db \in [Ids -> Row \cup {NoRow}] /\ own \in [Imports -> [Ids -> Row \cup {Clean}]]
      /\ \A e \in editing : e.item \in Ids
  BY <1>1 DEF TypeOK, LoadedCopy
<1>2. ASSUME NEW i \in Imports, Load(i)
      PROVE  EditsRecords'
  <2>1. PICK keys \in SUBSET (Ids \ used) :
           /\ used' = used \cup keys
           /\ \A r \in Ids \ (keys \cup ToUpdate(i)) : own'[i][r] = own[i][r]
           /\ \A j \in Imports \ {i} : own'[j] = own[j]
    BY <1>1, <1>2, LoadEffect
  <2>2. db' = db /\ editing' = editing
    BY <1>2 DEF Load
  <2>3. ASSUME NEW e \in editing, db[e.item] = NoRow
        PROVE  ~LockedByAny(e.item)'
    <3>1. e.item \in Ids /\ e.item \in used /\ ~LockedByAny(e.item)
      BY <1>1, <2>3 DEF EditsRecords, TypeOK
    <3>2. e.item \notin keys \cup ToUpdate(i)
      BY <2>3, <3>1 DEF ToUpdate, View, LockedByAny
    <3> QED
      BY <2>1, <3>1, <3>2 DEF LockedByAny
  <2> QED
    BY <1>1, <2>1, <2>2, <2>3 DEF EditsRecords
<1>3. ASSUME NEW i \in Imports, Commit(i)
      PROVE  EditsRecords'
  <2>1. /\ used' = used /\ editing' = editing
        /\ \A r \in Ids : own'[i][r] = Clean
        /\ \A j \in Imports \ {i} : own'[j] = own[j]
        /\ \A r \in Ids : db'[r] = IF own[i][r] = Clean THEN db[r] ELSE own[i][r]
    BY <1>1, <1>3 DEF Commit, Released, TypeOK, View
  <2>2. ASSUME NEW e \in editing
        PROVE  IF db'[e.item] = NoRow THEN ~LockedByAny(e.item)' ELSE db'[e.item].table = "record"
    <3>1. /\ e.item \in Ids
          /\ IF db[e.item] = NoRow THEN ~LockedByAny(e.item) ELSE db[e.item].table = "record"
      BY <1>1 DEF EditsRecords, TypeOK, LoadedCopy
    <3>2. CASE own[i][e.item] = Clean
      BY <2>1, <3>1, <3>2 DEF LockedByAny
    <3>3. CASE own[i][e.item] # Clean
      <4>1. db[e.item] # NoRow /\ db'[e.item] = own[i][e.item] /\ db'[e.item] # NoRow
        <5>1. LockedByAny(e.item)
          BY <3>3 DEF LockedByAny
        <5>2. own[i] \in [Ids -> Row \cup {Clean}] /\ e.item \in Ids
          BY <1>0
        <5>3. own[i][e.item] \in Row
          BY <3>3, <5>2
        <5> QED
          BY <2>1, <3>1, <3>3, <5>1, <5>2, <5>3
      <4> QED
        BY <1>1, <3>1, <3>3, <4>1 DEF RowLocks, LockOK, Contract!SameIdentity
    <3> QED
      BY <3>2, <3>3
  <2> QED
    BY <1>1, <2>1, <2>2 DEF EditsRecords
<1>4. ASSUME NEW i \in Imports, Cleanup(i)
      PROVE  EditsRecords'
  <2>1. /\ used' = used /\ editing' = editing /\ own' = own
        /\ \A r \in Ids : db'[r] = IF r \in ToReset(i) THEN [db[r] EXCEPT !.z = 0] ELSE db[r]
    BY <1>4 DEF Cleanup
  <2>2. ASSUME NEW r \in Ids
        PROVE  /\ db'[r] = NoRow <=> db[r] = NoRow
               /\ db[r] # NoRow => db'[r].table = db[r].table
    <3>1. PICK row : row = [db[r] EXCEPT !.z = 0]
      OBVIOUS
    <3>2. \A x \in Row : [x EXCEPT !.z = 0] \in Row /\ [x EXCEPT !.z = 0].table = x.table
      BY DEF Row
    <3>3. db[r] # NoRow => row \in Row /\ row.table = db[r].table
      BY <1>0, <3>1, <3>2
    <3> QED
      BY <2>1, <3>1, <3>3 DEF ToReset
  <2> QED
    BY <1>1, <1>0, <2>1, <2>2 DEF EditsRecords, LockedByAny
<1>5. ASSUME NEW i \in Imports, RollBack(i)
      PROVE  EditsRecords'
  <2>1. /\ used' = used /\ editing' = editing /\ db' = db
        /\ \A r \in Ids : own'[i][r] = Clean
        /\ \A j \in Imports \ {i} : own'[j] = own[j]
    BY <1>5, <1>0 DEF RollBack, Released
  <2>2. \A r \in Ids : ~LockedByAny(r) => ~LockedByAny(r)'
    BY <2>1 DEF LockedByAny
  <2> QED
    BY <1>1, <1>0, <2>1, <2>2 DEF EditsRecords
<1>6. CASE \/ \E i \in Imports : Start(i) \/ Match(i) \/ Snapshot(i) \/ CloseFails(i)
           \/ UNCHANGED vars
  <2>1. UNCHANGED <<db, used, own, editing>>
    BY <1>6 DEF Start, Match, Snapshot, CloseFails, vars
  <2> QED
    BY <1>1, <2>1 DEF EditsRecords, LockedByAny
<1>7. CASE Web
  <2>1. used' = used /\ own' = own
    BY <1>7 DEF Web, BeginEdit, Edit, BeginDestroy, Destroy, ImportVars
  <2>2. CASE \E r \in Ids : BeginEdit(r)
    <3>1. PICK r \in Ids :
             /\ "edit" \in WebActions /\ db' = db
             /\ db[r] # NoRow /\ db[r].table = "record" /\ editing' = editing \cup {Copy(r)}
      BY <2>2 DEF BeginEdit
    <3>2. r \in used /\ Copy(r).item = r
      BY <1>1, <3>1 DEF RowLocks, Copy
    <3>3. ASSUME NEW e \in editing'
          PROVE  e \in editing \/ e.item = r
      BY <3>1, <3>2
    <3>4. \A x \in Ids : LockedByAny(x)' <=> LockedByAny(x)
      BY <2>1 DEF LockedByAny
    <3> QED
      BY <1>1, <1>0, <2>1, <3>1, <3>2, <3>3, <3>4 DEF EditsRecords
  <2>3. CASE \E e \in editing, value \in Values : Edit(e, value)
    <3>1. editing' \subseteq editing
      BY <2>3 DEF Edit
    <3>2. ASSUME NEW r \in Ids
          PROVE  /\ db'[r] = NoRow <=> db[r] = NoRow
                 /\ db[r] # NoRow => db'[r].table = db[r].table
      BY <1>1, <2>3, EditedRow
    <3> QED
      BY <1>1, <1>0, <2>1, <3>1, <3>2 DEF EditsRecords, LockedByAny
  <2>4. CASE \E r \in Ids : BeginDestroy(r)
    BY <1>1, <2>1, <2>4 DEF BeginDestroy, EditsRecords, LockedByAny
  <2>5. CASE \E d \in deleting : Destroy(d)
    <3>1. editing' = editing
          /\ \A r \in Ids : db'[r] = db[r] \/ (db'[r] = NoRow /\ ~LockedByAny(r))
      BY <2>5 DEF Destroy
    <3> QED
      BY <1>1, <1>0, <2>1, <3>1 DEF EditsRecords, LockedByAny
  <2> QED
    BY <1>7, <2>2, <2>3, <2>4, <2>5 DEF Web
<1> QED
  BY <1>2, <1>3, <1>4, <1>5, <1>6, <1>7 DEF Next, Proceed, Fail

LEMMA StepKeepsIInv ==
  ASSUME IInv, [Next]_vars
  PROVE  IInv'
<1>1. TypeOK' /\ EditsRecords'
  BY StepTypeOK, EditsStayRecords DEF IInv
<1>2. CASE \E i \in Imports : Start(i) \/ Match(i) \/ Snapshot(i) \/ CloseFails(i)
  BY <1>1, <1>2, ReadingKeepsIInv DEF IInv
<1>3. CASE \E i \in Imports : Load(i)
  BY <1>1, <1>3, LoadKeepsIInv DEF IInv
<1>4. CASE \E i \in Imports : Commit(i)
  BY <1>1, <1>4, CommitKeepsIInv DEF IInv
<1>5. CASE \E i \in Imports : Cleanup(i)
  BY <1>1, <1>5, CleanupKeepsIInv DEF IInv
<1>6. CASE \E i \in Imports : RollBack(i)
  BY <1>1, <1>6, RollBackKeepsIInv DEF IInv
<1>7. CASE Web
  BY <1>1, <1>7, WebKeepsIInv DEF IInv
<1>8. CASE UNCHANGED vars
  <2>1. RowLocks'
    BY <1>8 DEF IInv, RowLocks, LockOK, Locked, vars
  <2>2. AuditMatchesWrites'
    BY <1>8 DEF IInv, AuditMatchesWrites, AuditOK, AuditedAs, Locked, RowsOf, vars
  <2> QED
    BY <1>1, <2>1, <2>2 DEF IInv
<1> QED
  BY <1>2, <1>3, <1>4, <1>5, <1>6, <1>7, <1>8 DEF Next, Proceed, Fail

LEMMA Invariance == Spec => []IInv
<1>1. Init => IInv
  <2>1. Init => TypeOK
    BY ConstantsAssumption DEF Init, TypeOK, StagingOK, InTransaction, Steps, Tables
  <2>2. Init => RowLocks
    BY DEF Init, RowLocks, LockOK
  <2>3. Init => AuditMatchesWrites
    BY DEF Init, AuditMatchesWrites, InTransaction
  <2>4. Init => EditsRecords
    BY DEF Init, EditsRecords
  <2> QED
    BY <2>1, <2>2, <2>3, <2>4 DEF IInv
<1>2. IInv /\ [Next]_vars => IInv'
  BY StepKeepsIInv
<1> QED
  BY <1>1, <1>2, PTL DEF Spec

\* No two transactions ever hold uncommitted versions of the same row, every one
\* of them is of an import inside its transaction, and keeps the identity of the
\* committed row (the UPDATE and INSERT statements of the load methods).
THEOREM LocksExclusive == Spec => []RowLocks
<1>1. IInv => RowLocks
  BY DEF IInv
<1> QED
  BY <1>1, Invariance, PTL

\* The audit table of a running import lists exactly the rows it has created, and
\* no update of a row that it is not going to write (audit.rb).
THEOREM AuditComplete == Spec => []AuditMatchesWrites
<1>1. IInv => AuditMatchesWrites
  BY DEF IInv
<1> QED
  BY <1>1, Invariance, PTL

-----------------------------------------------------------------------------
(* Import implements Catalogue                                             *)

LEMMA PublicOfRow ==
  ASSUME NEW row \in Row
  PROVE  /\ Public(row) # NoRow
         /\ Public(row).value = row.value
<1>1. Public(row) \in PublicRow
  BY DEF Public, PublicRow, Row
<1> QED
  BY <1>1, ConstantsAssumption DEF Public

LEMMA SameIdentityOfPublic ==
  ASSUME NEW x \in Row, NEW y \in Row, Contract!SameIdentity(x, y)
  PROVE  Contract!SameIdentity(Public(x), Public(y))
BY DEF Contract!SameIdentity, Public

\* A commit applies the import: the rows it has created are those of its audit
\* table, the others it has written are updates.
LEMMA CommitApplies ==
  ASSUME IInv, NEW i \in Imports, Commit(i)
  PROVE  Contract!Apply(i)
<1> USE ConstantsAssumption
<1>1. TypeOK /\ RowLocks /\ AuditMatchesWrites
  BY DEF IInv
<1> DEFINE created == {r \in Ids : own[i][r] # Clean /\ db[r] = NoRow}
           updated == {r \in Ids : own[i][r] # Clean /\ db[r] # NoRow}
<1>2. /\ step[i] = "commit" /\ step'[i] = "cleanup"
      /\ \A j \in Imports \ {i} : step'[j] = step[j]
      /\ versions' = versions \cup CreateVersions(i) \cup UpdateVersions(i)
      /\ \A r \in Ids : db'[r] = View(i)[r]
  BY <1>1 DEF Commit, TypeOK, View
<1>3. i \notin Committed /\ Committed' = Committed \cup {i}
  BY <1>2 DEF Committed
<1>4. ASSUME NEW r \in Ids
      PROVE  /\ PublicRows[r] = IF db[r] = NoRow THEN NoRow ELSE Public(db[r])
             /\ PublicRows'[r] = IF View(i)[r] = NoRow THEN NoRow ELSE Public(View(i)[r])
  BY <1>2 DEF PublicRows
<1>5. ASSUME NEW r \in created
      PROVE  PublicRows[r] = NoRow /\ PublicRows'[r] # NoRow /\ PublicRows'[r].value = View(i)[r].value
  <2>1. View(i)[r] = own[i][r] /\ own[i][r] \in Row
    BY <1>1 DEF View, TypeOK
  <2> QED
    BY <1>4, <2>1, PublicOfRow
<1>6. ASSUME NEW r \in updated
      PROVE  /\ PublicRows[r] # NoRow /\ PublicRows'[r] # NoRow
             /\ PublicRows'[r].value = View(i)[r].value
             /\ Contract!SameIdentity(PublicRows[r], PublicRows'[r])
  <2>1. View(i)[r] = own[i][r] /\ own[i][r] \in Row /\ db[r] \in Row
    BY <1>1 DEF View, TypeOK
  <2>2. Contract!SameIdentity(db[r], own[i][r])
    BY <1>1, <1>6 DEF RowLocks, LockOK
  <2> QED
    BY <1>4, <2>1, <2>2, PublicOfRow, SameIdentityOfPublic
<1>7. \A r \in Ids \ (created \cup updated) : PublicRows'[r] = PublicRows[r]
  BY <1>4 DEF View
<1>8. ASSUME NEW r \in Ids
      PROVE  AuditOK(i, r)
  BY <1>1, <1>2 DEF AuditMatchesWrites, InTransaction
<1>9. CreateVersions(i) = {Contract!Entry(r, i, "create", NoValue, PublicRows'[r].value) : r \in created}
  <2>1. {a.id : a \in {x \in audit[i] : x.event = "create"}} = created
    <3>1. ASSUME NEW r \in created
          PROVE  \E a \in {x \in audit[i] : x.event = "create"} : a.id = r
      BY <1>8 DEF AuditOK, AuditedAs
    <3>2. ASSUME NEW a \in audit[i], a.event = "create"
          PROVE  a.id \in created
      <4>1. a.id \in Ids
        BY <1>1 DEF TypeOK, AuditRow
      <4> QED
        BY <1>8, <3>2, <4>1 DEF AuditOK, AuditedAs
    <3> HIDE DEF created
    <3>3. \A r : r \in {a.id : a \in {x \in audit[i] : x.event = "create"}} <=> r \in created
      BY <3>1, <3>2
    <3> QED
      BY <3>3
  <2>2. CreateVersions(i) = {Version(r, i, "create", NoValue, View(i)[r].value) :
                               r \in {a.id : a \in {x \in audit[i] : x.event = "create"}}}
    BY DEF CreateVersions
  <2>3. \A r \in created : Version(r, i, "create", NoValue, View(i)[r].value)
                            = Contract!Entry(r, i, "create", NoValue, PublicRows'[r].value)
    BY <1>5 DEF Version, Contract!Entry
  <2> HIDE DEF created
  <2> QED
    BY <2>1, <2>2, <2>3
<1>10. ASSUME NEW e \in UpdateVersions(i)
       PROVE  \E r \in updated :
                /\ e = Contract!Entry(r, i, "update", e.before, PublicRows'[r].value)
                /\ e.before # PublicRows'[r].value
  <2>1. PICK a \in audit[i] :
          /\ a.event = "update"
          /\ View(i)[a.id] # NoRow
          /\ View(i)[a.id].value # a.object
          /\ \A c \in audit[i] : ~(c.id = a.id /\ c.event = "create")
          /\ e = Version(a.id, i, "update", a.object, View(i)[a.id].value)
    BY DEF UpdateVersions
  <2>2. a.id \in Ids /\ ~AuditedAs(i, a.id, "create") /\ AuditedAs(i, a.id, "update")
    BY <1>1, <2>1 DEF TypeOK, AuditRow, AuditedAs
  <2>3. own[i][a.id] # Clean \/ db[a.id] = NoRow
    BY <1>2, <1>8, <2>2 DEF AuditOK
  <2>4. ~(own[i][a.id] # Clean /\ db[a.id] = NoRow)
    BY <1>8, <2>2 DEF AuditOK
  <2>5. a.id \in updated
    BY <2>1, <2>2, <2>3, <2>4 DEF View
  <2>6. PublicRows'[a.id].value = View(i)[a.id].value
    BY <1>6, <2>5
  <2>7. e = Contract!Entry(a.id, i, "update", a.object, PublicRows'[a.id].value) /\ e.before = a.object
    BY <2>1, <2>6 DEF Version, Contract!Entry
  <2> QED
    BY <2>1, <2>5, <2>6, <2>7
<1> HIDE DEF created, updated
<1>11. created \in SUBSET Ids /\ updated \in SUBSET Ids
  BY DEF created, updated
<1>12. /\ versions \cup Contract!Creates(i, created) \subseteq versions'
       /\ \A e \in versions' \ (versions \cup Contract!Creates(i, created)) :
            Contract!IsUpdate(i, updated, e)
  <2>1. Contract!Creates(i, created) = CreateVersions(i)
    BY <1>9 DEF Contract!Creates
  <2> QED
    BY <1>2, <1>10, <2>1 DEF Contract!IsUpdate
<1>13. Copies' = Copies
  BY DEF Commit, Copies
<1> QED
  BY <1>3, <1>5, <1>6, <1>7, <1>11, <1>12, <1>13 DEF Contract!Apply

\* Every other step of an import is invisible.
LEMMA OthersStutter ==
  ASSUME IInv, NEW i \in Imports,
         Start(i) \/ Match(i) \/ Snapshot(i) \/ Load(i) \/ RollBack(i) \/ Cleanup(i) \/ CloseFails(i)
  PROVE  UNCHANGED Contract!cvars
<1>1. TypeOK
  BY DEF IInv
<1>2. PublicRows' = PublicRows
  <2>1. CASE Cleanup(i)
    <3>1. ASSUME NEW r \in Ids
          PROVE  /\ db'[r] = NoRow <=> db[r] = NoRow
                 /\ db[r] # NoRow => Public(db'[r]) = Public(db[r])
      <4>1. db'[r] = IF r \in ToReset(i) THEN [db[r] EXCEPT !.z = 0] ELSE db[r]
        BY <2>1 DEF Cleanup
      <4>2. CASE r \in ToReset(i)
        <5>1. db[r] \in Row /\ db[r] # NoRow
          BY <1>1, <4>2 DEF TypeOK, ToReset
        <5>2. [db[r] EXCEPT !.z = 0] \in Row /\ Public([db[r] EXCEPT !.z = 0]) = Public(db[r])
          BY <5>1 DEF Row, Public
        <5> QED
          BY <4>1, <4>2, <5>1, <5>2, ConstantsAssumption
      <4> QED
        BY <4>1, <4>2
    <3> QED
      BY <3>1 DEF PublicRows
  <2>2. CASE ~Cleanup(i)
    <3>1. db' = db
      BY <2>2 DEF Start, Match, Snapshot, Load, RollBack, CloseFails
    <3> QED
      BY <3>1 DEF PublicRows
  <2> QED
    BY <2>1, <2>2
<1>3. versions' = versions
  BY DEF Start, Match, Snapshot, Load, RollBack, Cleanup, CloseFails
<1>4. Committed' = Committed
  <2>1. /\ \A j \in Imports \ {i} : step'[j] = step[j]
        /\ step[i] \in {"cleanup", "closed", "leaked"} <=> step'[i] \in {"cleanup", "closed", "leaked"}
    BY <1>1 DEF TypeOK, Start, Match, Snapshot, Load, RollBack, Cleanup, CloseFails, InTransaction
  <2> QED
    BY <2>1 DEF Committed
<1>5. Copies' = Copies
  BY DEF Start, Match, Snapshot, Load, RollBack, Cleanup, CloseFails, Copies
<1> QED
  BY <1>2, <1>3, <1>4, <1>5 DEF Contract!cvars

LEMMA WebImplements ==
  ASSUME IInv, Web
  PROVE  [Contract!Step]_(Contract!cvars)
<1> USE ConstantsAssumption
<1>1. TypeOK
  BY DEF IInv
<1>2. Committed' = Committed
  BY DEF Web, BeginEdit, Edit, BeginDestroy, Destroy, ImportVars, Committed
<1>3. CASE \E e \in editing, value \in Values : Edit(e, value)
  <2>1. PICK e \in editing, value \in Values : Edit(e, value)
    BY <1>3
  <2>2. /\ e \in Copies /\ Copies' \subseteq Copies
        /\ e.item \in Ids /\ value # e.value
        /\ versions' = versions \cup {Version(e.item, "web", "update", e.value, value)}
    BY <1>1, <2>1 DEF Edit, Copies, TypeOK, LoadedCopy
  <2>3. PICK entry : entry = Version(e.item, "web", "update", e.value, value)
    OBVIOUS
  <2>4. /\ entry \in versions' /\ versions' = versions \cup {entry} /\ entry.after = value
        /\ entry = Contract!Entry(e.item, "web", "update", e.value, entry.after)
    BY <2>2, <2>3 DEF Version, Contract!Entry
  <2>5. PublicRows' = IF PublicRows[e.item] = NoRow THEN PublicRows
                      ELSE [PublicRows EXCEPT ![e.item].value = value]
    <3>1. CASE db[e.item] = NoRow
      <4>1. PublicRows[e.item] = NoRow /\ db' = db
        BY <2>1, <2>2, <3>1 DEF Edit, PublicRows
      <4> QED
        BY <4>1 DEF PublicRows
    <3>2. CASE db[e.item] # NoRow
      <4>1. /\ db[e.item] \in Row
            /\ db' = [db EXCEPT ![e.item] = [db[e.item] EXCEPT !.value = value]]
        BY <1>1, <2>1, <2>2, <3>2 DEF Edit, TypeOK
      <4>2. PICK row : row = [db[e.item] EXCEPT !.value = value]
        OBVIOUS
      <4>3. row \in Row /\ Public(row) = [Public(db[e.item]) EXCEPT !.value = value]
        BY <4>1, <4>2 DEF Row, Public
      <4>4. db'[e.item] = row /\ \A x \in Ids \ {e.item} : db'[x] = db[x]
        BY <1>1, <2>2, <4>1, <4>2 DEF TypeOK
      <4>5. PublicRows[e.item] = Public(db[e.item]) /\ PublicRows[e.item] # NoRow
        BY <2>2, <3>2, <4>1, PublicOfRow DEF PublicRows
      <4>6. ASSUME NEW x \in Ids
            PROVE  PublicRows'[x] = [PublicRows EXCEPT ![e.item].value = value][x]
        <5>1. CASE x = e.item
          BY <2>2, <4>3, <4>4, <4>5, <5>1 DEF PublicRows
        <5>2. CASE x # e.item
          BY <2>2, <4>4, <5>2 DEF PublicRows
        <5> QED
          BY <5>1, <5>2
      <4>7. PublicRows' = [PublicRows EXCEPT ![e.item].value = value]
        BY <4>6 DEF PublicRows
      <4> QED
        BY <4>5, <4>7
    <3> QED
      BY <3>1, <3>2
  <2>6. Contract!Change(e)
    BY <1>2, <2>2, <2>4, <2>5 DEF Contract!Change
  <2> QED
    BY <2>2, <2>6 DEF Contract!Step
<1>4. CASE \E r \in Ids : BeginEdit(r) \/ BeginDestroy(r)
  <2>1. PICK r \in Ids : BeginEdit(r) \/ BeginDestroy(r)
    BY <1>4
  <2>2. db' = db /\ versions' = versions
    BY <2>1 DEF BeginEdit, BeginDestroy
  <2>3. ASSUME NEW x \in Ids, db[x] # NoRow
        PROVE  PublicRows[x] # NoRow /\ Copy(x) = [item |-> x, value |-> PublicRows[x].value]
    BY <1>1, <2>3, PublicOfRow DEF PublicRows, Copy, TypeOK
  <2>4. Copies' \subseteq Copies \cup {Copy(x) : x \in {y \in Ids : db[y] # NoRow}}
    BY <2>1 DEF BeginEdit, BeginDestroy, Dependents, Copies
  <2>5. Contract!See
    BY <1>2, <2>2, <2>3, <2>4 DEF Contract!See, PublicRows
  <2> QED
    BY <2>5 DEF Contract!Step
<1>5. CASE \E d \in deleting : Destroy(d)
  <2>1. PICK d \in deleting : Destroy(d)
    BY <1>5
  <2>2. /\ d.loaded \in SUBSET Copies /\ Copies' \subseteq Copies
        /\ versions' = versions \cup DestroyVersions(d)
    BY <2>1 DEF Destroy, Copies
  <2>3. PublicRows' =
          [r \in Ids |-> IF \E c \in d.loaded : c.item = r THEN NoRow ELSE PublicRows[r]]
    BY <2>1 DEF Destroy, PublicRows
  <2>4. DestroyVersions(d)
          = {Contract!Entry(c.item, "web", "destroy", c.value, NoValue) : c \in d.loaded}
    BY DEF DestroyVersions, Version, Contract!Entry
  <2>5. Contract!Remove(d.loaded)
    BY <1>2, <2>2, <2>3, <2>4 DEF Contract!Remove
  <2> QED
    BY <2>2, <2>5 DEF Contract!Step
<1> QED
  BY <1>3, <1>4, <1>5 DEF Web

\* Whatever the imports and the web requests do, in whatever order and with
\* whatever failures, everybody else sees the contract of Catalogue: an import is
\* applied whole or not at all, at most once, and logs one "create" version for
\* each new row, and of what a request overwrites or deletes the log says what it
\* had loaded (zip_helper.rb, audit.rb, auditable.rb).
THEOREM ImportImplementsCatalogue == Spec => ImplementsContract
<1>1. Init => Contract!Begin
  BY DEF Init, Contract!Begin, Committed, Copies
<1>2. IInv /\ [Next]_vars => [Contract!Step]_(Contract!cvars)
  <2> SUFFICES ASSUME IInv, [Next]_vars
               PROVE  [Contract!Step]_(Contract!cvars)
    OBVIOUS
  <2>1. ASSUME NEW i \in Imports, Commit(i)
        PROVE  Contract!Step
    BY <2>1, CommitApplies DEF Contract!Step
  <2>2. ASSUME NEW i \in Imports, Proceed(i) \/ Fail(i), ~Commit(i)
        PROVE  UNCHANGED Contract!cvars
    BY <2>2, OthersStutter DEF Proceed, Fail
  <2>3. CASE Web
    BY <2>3, WebImplements
  <2>4. CASE UNCHANGED vars
    BY <2>4 DEF vars, Contract!cvars, PublicRows, Committed, Copies
  <2> QED
    BY <2>1, <2>2, <2>3, <2>4 DEF Next
<1> QED
  BY <1>1, <1>2, Invariance, PTL DEF Spec, ImplementsContract, Contract!Contract

-----------------------------------------------------------------------------
(* The z columns                                                           *)

\* What a row that is matched stays, as long as it is there.
Target(i, r) ==
  /\ r \in used
  /\ db[r] = NoRow => ~Locked(r, i)
  /\ View(i)[r] # NoRow => View(i)[r].table = table[i]

StagedTargets(i) ==
  step[i] \in {"snapshot", "load"} =>
    \A n \in RowsOf(i, table[i]) : staged[i][n].id # NoId => Target(i, staged[i][n].id)

\* The import and the importer that write a row ...
WrittenBy(i, r) ==
  own[i][r] # Clean => own[i][r].import = i /\ RowsOf(i, own[i][r].table) # {}

\* ... whose cleanup is still to come or has reset it.
WasReset(i, t) ==
  step[i] = "closed" \/ (step[i] = "cleanup" /\ table[i] = "relationship" /\ t = "record")

StoredBy(i, r) ==
  (db[r] # NoRow /\ db[r].import = i) =>
    /\ i \in Committed /\ RowsOf(i, db[r].table) # {}
    /\ WasReset(i, db[r].table) => db[r].z = 0

ZInv ==
  \A i \in Imports :
    /\ StagedTargets(i)
    /\ \A r \in Ids : WrittenBy(i, r) /\ StoredBy(i, r)

LEMMA TargetKept ==
  ASSUME NEW j \in Imports, NEW r \in Ids, Target(j, r), used \subseteq used',
         own'[j] = own[j], table'[j] = table[j],
         db'[r] # NoRow => db[r] # NoRow /\ db'[r].table = db[r].table,
         db'[r] = NoRow => (db[r] = NoRow /\ (Locked(r, j)' => Locked(r, j))) \/ ~Locked(r, j)'
  PROVE  Target(j, r)'
<1>1. r \in used'
  BY DEF Target
<1>2. db'[r] = NoRow => ~Locked(r, j)'
  BY DEF Target
<1>3. /\ View(j)[r] = IF own[j][r] = Clean THEN db[r] ELSE own[j][r]
      /\ View(j)'[r] = IF own'[j][r] = Clean THEN db'[r] ELSE own'[j][r]
  BY DEF View
<1>4. View(j)'[r] # NoRow => View(j)'[r].table = table'[j]
  BY <1>3 DEF Target
<1> QED
  BY <1>1, <1>2, <1>4 DEF Target

\* An import that waits for its UPDATE still finds the rows it has matched.
LEMMA TargetsKept ==
  ASSUME NEW j \in Imports, TypeOK, StagedTargets(j), used \subseteq used',
         own'[j] = own[j], table'[j] = table[j], zip'[j] = zip[j], staged'[j] = staged[j],
         step'[j] \in {"snapshot", "load"} => step[j] \in {"snapshot", "load"},
         \A r \in Ids : Target(j, r) =>
           /\ db'[r] # NoRow => db[r] # NoRow /\ db'[r].table = db[r].table
           /\ db'[r] = NoRow => (db[r] = NoRow /\ (Locked(r, j)' => Locked(r, j))) \/ ~Locked(r, j)'
  PROVE  StagedTargets(j)'
<1>1. SUFFICES ASSUME step'[j] \in {"snapshot", "load"}, NEW n \in RowsOf(j, table[j]),
                      staged[j][n].id # NoId
               PROVE  Target(j, staged[j][n].id)'
  BY DEF StagedTargets, RowsOf
<1>2. staged[j] \in [DOMAIN zip[j] -> StagedRow]
  BY <1>1 DEF TypeOK, StagingOK, InTransaction
<1>3. PICK r \in Ids : r = staged[j][n].id
  BY <1>1, <1>2 DEF RowsOf, StagedRow
<1>4. Target(j, r)
  BY <1>1, <1>3 DEF StagedTargets
<1>5. Target(j, r)'
  BY <1>4, TargetKept
<1> QED
  BY <1>3, <1>5

LEMMA StoredByKept ==
  ASSUME NEW j \in Imports, NEW r \in Ids, StoredBy(j, r),
         step'[j] = step[j], table'[j] = table[j], zip'[j] = zip[j],
         (db'[r] # NoRow /\ db'[r].import = j) =>
           /\ db[r] # NoRow /\ db[r].import = j /\ db'[r].table = db[r].table
           /\ db[r].z = 0 => db'[r].z = 0
  PROVE  StoredBy(j, r)'
BY DEF StoredBy, WasReset, Committed, RowsOf

LEMMA WrittenByKept ==
  ASSUME NEW j \in Imports, NEW r \in Ids, WrittenBy(j, r),
         own'[j] = own[j], zip'[j] = zip[j] \/ own[j][r] = Clean
  PROVE  WrittenBy(j, r)'
BY DEF WrittenBy, RowsOf

\* A load writes rows of the current importer's table, in its own name.
LEMMA LoadWrites ==
  ASSUME IInv, ZInv, NEW i \in Imports, Load(i), NEW r \in Ids
  PROVE  \/ own'[i][r] = own[i][r]
         \/ /\ own'[i][r] # Clean
            /\ own'[i][r].import = i /\ RowsOf(i, own'[i][r].table) # {}
<1>1. TypeOK
  BY DEF IInv
<1>2. PICK row \in [ToUpdate(i) -> DOMAIN zip[i]], key \in [ToInsert(i) -> FreshKeys] :
        LET keys == {key[n] : n \in ToInsert(i)}
        IN  /\ \A x \in ToUpdate(i) : row[x] \in RowsOf(i, table[i]) /\ staged[i][row[x]].id = x
            /\ own' = [own EXCEPT ![i] = [x \in Ids |->
                 IF x \in ToUpdate(i) THEN Updated(i, x, row[x])
                 ELSE IF x \in keys
                   THEN Inserted(i, CHOOSE n \in ToInsert(i) : key[n] = x)
                   ELSE own[i][x]]]
            /\ staged' = [staged EXCEPT ![i] = [n \in DOMAIN zip[i] |->
                 IF n \in ToInsert(i) THEN [staged[i][n] EXCEPT !.id = key[n]]
                                      ELSE staged[i][n]]]
            /\ audit' = [audit EXCEPT ![i] = @ \cup AuditCreates(keys)]
            /\ used' = used \cup keys
  BY ZenonT(30) DEF Load
<1> USE ConstantsAssumption
<1> DEFINE keys == {key[n] : n \in ToInsert(i)}
<1>3. own'[i][r] =
        IF r \in ToUpdate(i) THEN Updated(i, r, row[r])
        ELSE IF r \in keys THEN Inserted(i, CHOOSE n \in ToInsert(i) : key[n] = r)
             ELSE own[i][r]
  BY <1>1, <1>2 DEF TypeOK
<1>4. step[i] = "load"
  BY DEF Load
<1>5. CASE r \in ToUpdate(i)
  <2>1. row[r] \in RowsOf(i, table[i]) /\ staged[i][row[r]].id = r /\ View(i)[r] # NoRow
    BY <1>2, <1>5 DEF ToUpdate
  <2>2. Target(i, r)
    BY <1>4, <2>1 DEF ZInv, StagedTargets
  <2>3. View(i)[r].table = table[i] /\ View(i)[r] \in Row
    BY <1>1, <2>1, <2>2, ViewType DEF Target
  <2>4. Updated(i, r, row[r]).import = i /\ Updated(i, r, row[r]).table = table[i]
    BY <2>3 DEF Updated, Row
  <2>5. Updated(i, r, row[r]) # Clean
    BY <1>1, <1>4, <1>5, <2>1, LoadedRows
  <2> QED
    BY <1>3, <1>5, <2>1, <2>4, <2>5
<1>6. CASE r \notin ToUpdate(i) /\ r \in keys
  <2>1. PICK n : n = CHOOSE m \in ToInsert(i) : key[m] = r
    OBVIOUS
  <2>2. n \in ToInsert(i)
    BY <1>6, <2>1
  <2>3. n \in RowsOf(i, table[i]) /\ Inserted(i, n) \in Row
    BY <1>1, <1>4, <2>2, LoadedRows DEF ToInsert
  <2>4. Inserted(i, n).import = i /\ Inserted(i, n).table = table[i]
    BY DEF Inserted
  <2> QED
    BY <1>3, <1>6, <2>1, <2>3, <2>4
<1>7. CASE r \notin ToUpdate(i) /\ r \notin keys
  BY <1>3, <1>7
<1> QED
  BY <1>5, <1>6, <1>7

LEMMA LoadKeepsZInv ==
  ASSUME IInv, ZInv, NEW i \in Imports, Load(i)
  PROVE  ZInv'
<1>1. TypeOK /\ RowLocks /\ AuditMatchesWrites
  BY DEF IInv
<1>2. PICK keys \in SUBSET (Ids \ used) :
         /\ used' = used \cup keys
         /\ audit' = [audit EXCEPT ![i] = @ \cup AuditCreates(keys)]
         /\ \A r \in ToUpdate(i) : /\ own'[i][r] \in Row
                                   /\ Contract!SameIdentity(View(i)[r], own'[i][r])
         /\ \A r \in keys \ ToUpdate(i) : own'[i][r] \in Row
         /\ \A r \in Ids \ (keys \cup ToUpdate(i)) : own'[i][r] = own[i][r]
         /\ \A j \in Imports \ {i} : own'[j] = own[j] /\ staged'[j] = staged[j]
  BY <1>1, LoadEffect
<1>3. /\ step[i] = "load" /\ step'[i] \in {"match", "commit"} /\ db' = db /\ zip' = zip
      /\ \A j \in Imports \ {i} : step'[j] = step[j] /\ table'[j] = table[j]
  BY <1>1 DEF Load, TypeOK
<1>4. StagedTargets(i)'
  BY <1>3 DEF StagedTargets
<1>5. ASSUME NEW j \in Imports \ {i}
      PROVE  StagedTargets(j)'
  <2>1. ASSUME NEW r \in Ids, Target(j, r), db[r] = NoRow, Locked(r, j)'
        PROVE  FALSE
    <3>1. r \in used /\ ~Locked(r, j)
      BY <2>1 DEF Target
    <3>2. PICK k \in Imports \ {j} : own'[k][r] # Clean
      BY <2>1 DEF Locked
    <3>3. own[k][r] = Clean
      BY <3>1, <3>2 DEF Locked
    <3>4. k = i /\ r \in ToUpdate(i)
      BY <1>2, <3>1, <3>2, <3>3
    <3>5. View(i)[r] = NoRow
      BY <2>1, <3>3, <3>4 DEF View
    <3> QED
      BY <3>4, <3>5 DEF ToUpdate
  <2>2. StagedTargets(j)
    BY DEF ZInv
  <2> QED
    BY <1>1, <1>2, <1>3, <2>1, <2>2, TargetsKept
<1>6. ASSUME NEW r \in Ids
      PROVE  WrittenBy(i, r)' /\ StoredBy(i, r)'
  <2>1. WrittenBy(i, r) /\ StoredBy(i, r)
    BY DEF ZInv
  <2>2. WrittenBy(i, r)'
    BY <1>3, <2>1, LoadWrites DEF WrittenBy, RowsOf
  <2>3. StoredBy(i, r)'
    BY <1>3, <2>1 DEF StoredBy, Committed
  <2> QED
    BY <2>2, <2>3
<1>7. ASSUME NEW j \in Imports \ {i}, NEW r \in Ids
      PROVE  WrittenBy(j, r)' /\ StoredBy(j, r)'
  <2>1. WrittenBy(j, r) /\ StoredBy(j, r)
    BY DEF ZInv
  <2> QED
    BY <1>2, <1>3, <2>1, WrittenByKept, StoredByKept
<1> QED
  BY <1>4, <1>5, <1>6, <1>7 DEF ZInv

LEMMA CommitKeepsZInv ==
  ASSUME IInv, ZInv, NEW i \in Imports, Commit(i)
  PROVE  ZInv'
<1> USE ConstantsAssumption
<1>1. TypeOK /\ RowLocks /\ AuditMatchesWrites
  BY DEF IInv
<1>2. /\ own'[i] = [r \in Ids |-> Clean]
      /\ \A j \in Imports \ {i} : own'[j] = own[j] /\ step'[j] = step[j] /\ table'[j] = table[j]
      /\ step[i] = "commit" /\ step'[i] = "cleanup" /\ table'[i] = "record"
      /\ used' = used /\ zip' = zip /\ staged' = staged
      /\ \A r \in Ids : db'[r] = IF own[i][r] = Clean THEN db[r] ELSE own[i][r]
  BY <1>1 DEF Commit, Released, TypeOK, View
<1>3. StagedTargets(i)'
  BY <1>2 DEF StagedTargets
<1>4. ASSUME NEW j \in Imports \ {i}
      PROVE  StagedTargets(j)'
  <2>1. ASSUME NEW r \in Ids, Target(j, r)
        PROVE  /\ db'[r] # NoRow => db[r] # NoRow /\ db'[r].table = db[r].table
               /\ db'[r] = NoRow => db[r] = NoRow /\ (Locked(r, j)' => Locked(r, j))
    <3>1. Locked(r, j)' => Locked(r, j)
      BY <1>2 DEF Locked
    <3>2. CASE own[i][r] = Clean
      BY <1>2, <3>1, <3>2
    <3>3. CASE own[i][r] # Clean
      <4>1. Locked(r, j)
        BY <3>3 DEF Locked
      <4>2. db[r] # NoRow
        BY <2>1, <4>1 DEF Target
      <4>3. Contract!SameIdentity(db[r], own[i][r]) /\ own[i][r] \in Row
        BY <1>1, <3>3, <4>2 DEF RowLocks, LockOK, TypeOK
      <4>4. db'[r] = own[i][r] /\ own[i][r] # NoRow
        BY <1>2, <3>3, <4>3
      <4> QED
        BY <4>2, <4>3, <4>4 DEF Contract!SameIdentity
    <3> QED
      BY <3>2, <3>3
  <2>2. StagedTargets(j)
    BY DEF ZInv
  <2> QED
    BY <1>1, <1>2, <2>1, <2>2, TargetsKept
<1>5. ASSUME NEW r \in Ids
      PROVE  WrittenBy(i, r)' /\ StoredBy(i, r)'
  <2>1. WrittenBy(i, r) /\ StoredBy(i, r)
    BY DEF ZInv
  <2>2. i \notin Committed /\ i \in Committed' /\ \A t : ~WasReset(i, t)'
    BY <1>2 DEF Committed, WasReset
  <2>3. (db'[r] # NoRow /\ db'[r].import = i) => RowsOf(i, db[r].table)' # {}
    <3>1. SUFFICES ASSUME db'[r] # NoRow, db'[r].import = i
                   PROVE  RowsOf(i, db[r].table)' # {}
      OBVIOUS
    <3>2. own[i][r] # Clean /\ db'[r] = own[i][r]
      BY <1>2, <2>1, <2>2, <3>1 DEF StoredBy
    <3>3. RowsOf(i, own[i][r].table) # {}
      BY <2>1, <3>2 DEF WrittenBy
    <3> QED
      BY <1>2, <3>2, <3>3 DEF RowsOf
  <2>4. StoredBy(i, r)'
    BY <2>2, <2>3 DEF StoredBy
  <2> QED
    BY <1>2, <2>4 DEF WrittenBy
<1>6. ASSUME NEW j \in Imports \ {i}, NEW r \in Ids
      PROVE  WrittenBy(j, r)' /\ StoredBy(j, r)'
  <2>1. WrittenBy(j, r) /\ StoredBy(j, r) /\ WrittenBy(i, r)
    BY DEF ZInv
  <2>2. db'[r].import = j /\ db'[r] # NoRow => db'[r] = db[r]
    BY <1>2, <2>1 DEF WrittenBy
  <2> QED
    BY <1>2, <2>1, <2>2, WrittenByKept, StoredByKept
<1> QED
  BY <1>3, <1>4, <1>5, <1>6 DEF ZInv

\* A cleanup resets the rows that its import has left, because an importer that
\* wrote a row had one in its file.
LEMMA CleanupKeepsZInv ==
  ASSUME IInv, ZInv, NEW i \in Imports, Cleanup(i)
  PROVE  ZInv'
<1> USE ConstantsAssumption
<1>1. TypeOK /\ RowLocks /\ AuditMatchesWrites
  BY DEF IInv
<1>2. /\ step[i] = "cleanup"
      /\ \/ table[i] = "record" /\ step'[i] = "cleanup" /\ table'[i] = "relationship"
         \/ table[i] = "relationship" /\ step'[i] = "closed"
      /\ \A j \in Imports \ {i} : step'[j] = step[j] /\ staged'[j] = staged[j] /\ table'[j] = table[j]
      /\ used' = used /\ zip' = zip /\ own' = own
      /\ \A r \in Ids : db'[r] = IF r \in ToReset(i) THEN [db[r] EXCEPT !.z = 0] ELSE db[r]
  BY <1>1 DEF Cleanup, TypeOK
<1>3. ASSUME NEW r \in Ids
      PROVE  /\ db'[r] = NoRow <=> db[r] = NoRow
             /\ db[r] # NoRow => /\ db'[r].table = db[r].table /\ db'[r].import = db[r].import
                                 /\ r \in ToReset(i) \/ db[r].z = 0 => db'[r].z = 0
  <2>1. CASE r \in ToReset(i)
    <3>1. db[r] \in Row /\ db[r] # NoRow
      BY <1>1, <2>1 DEF TypeOK, ToReset
    <3>2. /\ [db[r] EXCEPT !.z = 0] \in Row /\ [db[r] EXCEPT !.z = 0].z = 0
          /\ [db[r] EXCEPT !.z = 0].table = db[r].table /\ [db[r] EXCEPT !.z = 0].import = db[r].import
      BY <3>1 DEF Row
    <3> QED
      BY <1>2, <2>1, <3>1, <3>2
  <2>2. CASE r \notin ToReset(i)
    BY <1>2, <2>2
  <2> QED
    BY <2>1, <2>2
<1>4. ASSUME NEW j \in Imports
      PROVE  StagedTargets(j)'
  <2>1. CASE j = i
    BY <1>2, <2>1 DEF StagedTargets
  <2>2. CASE j # i
    <3>1. StagedTargets(j)
      BY DEF ZInv
    <3>2. \A r \in Ids : Locked(r, j)' = Locked(r, j)
      BY <1>2 DEF Locked
    <3> QED
      BY <1>1, <1>2, <1>3, <2>2, <3>1, <3>2, TargetsKept
  <2> QED
    BY <2>1, <2>2
<1>5. ASSUME NEW j \in Imports, NEW r \in Ids
      PROVE  WrittenBy(j, r)' /\ StoredBy(j, r)'
  <2>1. WrittenBy(j, r) /\ StoredBy(j, r)
    BY DEF ZInv
  <2>2. WrittenBy(j, r)'
    BY <1>2, <2>1, WrittenByKept
  <2>3. CASE j # i
    BY <1>2, <1>3, <2>1, <2>2, <2>3, StoredByKept
  <2>4. CASE j = i
    <3>1. SUFFICES ASSUME db[r] # NoRow, db[r].import = i
                   PROVE  StoredBy(i, r)'
      BY <1>3, <2>2, <2>4 DEF StoredBy
    <3>2. RowsOf(i, db[r].table) # {} /\ (WasReset(i, db[r].table) => db[r].z = 0)
      BY <2>1, <2>4, <3>1 DEF StoredBy
    <3>3. db[r].table = table[i] => r \in ToReset(i)
      BY <3>1, <3>2 DEF ToReset
    <3>4. db[r].table \in {"record", "relationship"}
      BY <1>1, <3>1 DEF TypeOK, Row, Tables
    <3>5. WasReset(i, db[r].table)' => WasReset(i, db[r].table) \/ db[r].table = table[i]
      BY <1>2, <1>3, <3>1, <3>4 DEF WasReset
    <3>6. WasReset(i, db[r].table)' => db'[r].z = 0
      BY <1>3, <3>1, <3>2, <3>3, <3>5
    <3>7. RowsOf(i, db[r].table)' = RowsOf(i, db[r].table) /\ db'[r].table = db[r].table
      BY <1>2, <1>3, <3>1 DEF RowsOf
    <3>8. i \in Committed'
      BY <1>2 DEF Committed
    <3> QED
      BY <3>2, <3>6, <3>7, <3>8 DEF StoredBy
  <2> QED
    BY <2>2, <2>3, <2>4
<1> QED
  BY <1>4, <1>5 DEF ZInv

LEMMA RollBackKeepsZInv ==
  ASSUME IInv, ZInv, NEW i \in Imports, RollBack(i)
  PROVE  ZInv'
<1>1. TypeOK
  BY DEF IInv
<1>2. /\ own'[i] = [r \in Ids |-> Clean]
      /\ \A j \in Imports \ {i} : own'[j] = own[j] /\ step'[j] = step[j] /\ staged'[j] = staged[j]
      /\ step[i] \in InTransaction /\ step'[i] = "failed"
      /\ used' = used /\ zip' = zip /\ table' = table /\ db' = db
  BY <1>1 DEF RollBack, Released, TypeOK
<1>3. ASSUME NEW j \in Imports
      PROVE  StagedTargets(j)'
  <2>1. CASE j = i
    BY <1>2, <2>1 DEF StagedTargets
  <2>2. CASE j # i
    <3>1. StagedTargets(j)
      BY DEF ZInv
    <3>2. \A r \in Ids : Locked(r, j)' => Locked(r, j)
      BY <1>2 DEF Locked
    <3> QED
      BY <1>1, <1>2, <2>2, <3>1, <3>2, TargetsKept
  <2> QED
    BY <2>1, <2>2
<1>4. ASSUME NEW j \in Imports, NEW r \in Ids
      PROVE  WrittenBy(j, r)' /\ StoredBy(j, r)'
  <2>1. WrittenBy(j, r) /\ StoredBy(j, r)
    BY DEF ZInv
  <2>2. CASE j = i
    BY <1>2, <2>1, <2>2 DEF WrittenBy, StoredBy, Committed, InTransaction
  <2>3. CASE j # i
    BY <1>2, <2>1, <2>3, WrittenByKept, StoredByKept
  <2> QED
    BY <2>2, <2>3
<1> QED
  BY <1>3, <1>4 DEF ZInv

\* What is matched is there, in the current importer's table.
LEMMA MatchedTarget ==
  ASSUME IInv, NEW i \in Imports, NEW n \in DOMAIN zip[i], NEW s \in Matched(i, n), s.id # NoId
  PROVE  Target(i, s.id)
<1>1. TypeOK /\ RowLocks
  BY DEF IInv
<1>2. s.id \in Ids /\ View(i)[s.id] # NoRow /\ View(i)[s.id].table = table[i]
  <2>1. CASE table[i] = "record"
    <3>1. s.id \in AnyOf(IF zip[i][n].uuid = NoUuid THEN {} ELSE SameUuid(i, n, "record"))
      BY <2>1 DEF Matched, MatchedRecord
    <3> QED
      BY <2>1, <3>1 DEF AnyOf, SameUuid
  <2>2. CASE table[i] = "relationship"
    <3>1. \E e \in Endpoints(i, n) :
            s.id \in AnyOf(IF SameUuid(i, n, "relationship") # {}
                             THEN SameUuid(i, n, "relationship")
                             ELSE SameEnds(i, n, e[1], e[2]))
      BY <2>2 DEF Matched, MatchedRelationship
    <3> QED
      BY <2>2, <3>1 DEF AnyOf, SameUuid, SameEnds
  <2> QED
    BY <1>1, <2>1, <2>2 DEF TypeOK, Tables
<1>3. PICK r \in Ids : r = s.id
  BY <1>2
<1>4. View(i)[r] = IF own[i][r] = Clean THEN db[r] ELSE own[i][r]
  BY DEF View
<1>5. r \in used /\ (db[r] = NoRow => ~Locked(r, i))
  BY <1>1, <1>2, <1>3, <1>4 DEF RowLocks, LockOK
<1> QED
  BY <1>2, <1>3, <1>5 DEF Target

LEMMA ReadingKeepsZInv ==
  ASSUME IInv, ZInv, NEW i \in Imports, Start(i) \/ Match(i) \/ Snapshot(i) \/ CloseFails(i)
  PROVE  ZInv'
<1>1. TypeOK /\ RowLocks
  BY DEF IInv
<1>2. /\ db' = db /\ used' = used /\ own' = own
      /\ \A j \in Imports \ {i} : /\ step'[j] = step[j] /\ staged'[j] = staged[j] /\ zip'[j] = zip[j]
                                  /\ table'[j] = table[j]
  BY <1>1 DEF Start, Match, Snapshot, CloseFails, TypeOK
<1>3. db' = db /\ used' = used /\ own' = own
  BY DEF Start, Match, Snapshot, CloseFails
<1>4. \A j \in Imports, r \in Ids : /\ Locked(r, j)' = Locked(r, j)
                                    /\ Target(j, r) /\ table'[j] = table[j] => Target(j, r)'
  BY <1>3 DEF Locked, Target, View
<1>5. ASSUME NEW j \in Imports \ {i}
      PROVE  StagedTargets(j)'
  <2>1. StagedTargets(j)
    BY DEF ZInv
  <2> QED
    BY <1>1, <1>2, <1>3, <1>4, <2>1, TargetsKept
<1>6. StagedTargets(i)'
  <2>1. CASE Start(i) \/ CloseFails(i)
    <3>1. step'[i] \in {"match", "leaked"}
      BY <1>1, <2>1 DEF Start, CloseFails, TypeOK
    <3> QED
      BY <3>1 DEF StagedTargets
  <2>2. CASE Match(i)
    <3> DEFINE rows == RowsOf(i, table[i])
    <3>1. PICK s \in [rows -> UNION {Matched(i, n) : n \in rows}] :
            /\ \A n \in rows : s[n] \in Matched(i, n)
            /\ staged' = [staged EXCEPT ![i] =
                 [n \in DOMAIN zip[i] |-> IF n \in rows THEN s[n] ELSE staged[i][n]]]
      BY <2>2 DEF Match
    <3>2. zip' = zip /\ table' = table
      BY <2>2 DEF Match
    <3>3. SUFFICES ASSUME NEW n \in RowsOf(i, table[i]), staged'[i][n].id # NoId
                   PROVE  Target(i, staged[i][n].id)'
      BY <3>2 DEF StagedTargets, RowsOf
    <3>4. staged'[i][n] = s[n] /\ s[n] \in Matched(i, n) /\ n \in DOMAIN zip[i]
      BY <1>1, <3>1 DEF RowsOf, TypeOK
    <3>5. Target(i, s[n].id) /\ s[n].id \in Ids
      BY <1>1, <3>3, <3>4, MatchedTarget, MatchedType DEF StagedRow
    <3>6. PICK r \in Ids : r = s[n].id
      BY <3>5
    <3>7. Target(i, r)'
      BY <1>4, <3>2, <3>5, <3>6
    <3> QED
      BY <3>4, <3>6, <3>7
  <2>3. CASE Snapshot(i)
    <3>1. step[i] = "snapshot" /\ zip' = zip /\ table' = table /\ staged' = staged
      BY <2>3 DEF Snapshot
    <3>2. StagedTargets(i)
      BY DEF ZInv
    <3> QED
      BY <1>1, <1>3, <1>4, <3>1, <3>2, TargetsKept
  <2> QED
    BY <2>1, <2>2, <2>3
<1>7. ASSUME NEW r \in Ids
      PROVE  WrittenBy(i, r)' /\ StoredBy(i, r)'
  <2>1. WrittenBy(i, r) /\ StoredBy(i, r)
    BY DEF ZInv
  <2>2. CASE Start(i)
    <3>1. step[i] = "idle" /\ own[i][r] = Clean
      BY <1>1, <2>2 DEF Start, RowLocks, LockOK, InTransaction
    <3>2. ~(db[r] # NoRow /\ db[r].import = i)
      BY <2>1, <3>1 DEF StoredBy, Committed
    <3> QED
      BY <1>3, <3>1, <3>2 DEF WrittenBy, StoredBy
  <2>3. CASE Match(i) \/ Snapshot(i)
    <3>1. step[i] \notin {"cleanup", "closed", "leaked"} /\ zip' = zip
      BY <2>3 DEF Match, Snapshot
    <3>2. ~(db[r] # NoRow /\ db[r].import = i)
      BY <2>1, <3>1 DEF StoredBy, Committed
    <3> QED
      BY <1>3, <2>1, <3>1, <3>2, WrittenByKept DEF StoredBy
  <2>4. CASE CloseFails(i)
    <3>1. /\ step[i] = "cleanup" /\ step'[i] = "leaked" /\ zip' = zip /\ table' = table
      BY <1>1, <2>4 DEF CloseFails, TypeOK
    <3> QED
      BY <1>3, <2>1, <3>1, WrittenByKept DEF StoredBy, Committed, WasReset, RowsOf
  <2> QED
    BY <2>2, <2>3, <2>4
<1>8. ASSUME NEW j \in Imports \ {i}, NEW r \in Ids
      PROVE  WrittenBy(j, r)' /\ StoredBy(j, r)'
  <2>1. WrittenBy(j, r) /\ StoredBy(j, r)
    BY DEF ZInv
  <2> QED
    BY <1>2, <1>3, <2>1, WrittenByKept, StoredByKept
<1> QED
  BY <1>5, <1>6, <1>7, <1>8 DEF ZInv

\* A web request keeps the table and the import of a row, and deletes only what
\* nobody has locked.
LEMMA WebKeepsZInv ==
  ASSUME IInv, ZInv, Web
  PROVE  ZInv'
<1> USE ConstantsAssumption
<1>1. TypeOK
  BY DEF IInv
<1>2. UNCHANGED <<used, step, table, zip, staged, own>>
  BY DEF Web, BeginEdit, Edit, BeginDestroy, Destroy, ImportVars
<1>3. ASSUME NEW r \in Ids
      PROVE  \/ /\ db'[r] = NoRow <=> db[r] = NoRow
                /\ db[r] # NoRow => /\ db'[r].table = db[r].table
                                    /\ db'[r].import = db[r].import /\ db'[r].z = db[r].z
             \/ db'[r] = NoRow /\ ~LockedByAny(r)
  <2>1. CASE \E e \in editing, value \in Values : Edit(e, value)
    BY <2>1, EditedRow DEF IInv
  <2>2. CASE \E x \in Ids : BeginEdit(x) \/ BeginDestroy(x)
    BY <2>2 DEF BeginEdit, BeginDestroy
  <2>3. CASE \E d \in deleting : Destroy(d)
    BY <2>3 DEF Destroy
  <2> QED
    BY <2>1, <2>2, <2>3 DEF Web
<1>4. ASSUME NEW j \in Imports, NEW r \in Ids
      PROVE  /\ Locked(r, j)' = Locked(r, j)
             /\ ~LockedByAny(r) => ~Locked(r, j)
  BY <1>2 DEF Locked, LockedByAny
<1>5. ASSUME NEW j \in Imports
      PROVE  StagedTargets(j)'
  <2>1. StagedTargets(j)
    BY DEF ZInv
  <2> QED
    BY <1>1, <1>2, <1>3, <1>4, <2>1, TargetsKept
<1>6. ASSUME NEW j \in Imports, NEW r \in Ids
      PROVE  WrittenBy(j, r)' /\ StoredBy(j, r)'
  <2>1. WrittenBy(j, r) /\ StoredBy(j, r)
    BY DEF ZInv
  <2> QED
    BY <1>2, <1>3, <2>1, WrittenByKept, StoredByKept
<1> QED
  BY <1>5, <1>6 DEF ZInv

LEMMA StepKeepsZInv ==
  ASSUME IInv, ZInv, [Next]_vars
  PROVE  ZInv'
<1>1. CASE \E i \in Imports : Start(i) \/ Match(i) \/ Snapshot(i) \/ CloseFails(i)
  BY <1>1, ReadingKeepsZInv
<1>2. CASE \E i \in Imports : Load(i) \/ Commit(i) \/ Cleanup(i) \/ RollBack(i)
  BY <1>2, LoadKeepsZInv, CommitKeepsZInv, CleanupKeepsZInv, RollBackKeepsZInv
<1>3. CASE Web
  BY <1>3, WebKeepsZInv
<1>4. CASE UNCHANGED vars
  <2>1. UNCHANGED <<db, used, step, table, zip, staged, own>>
    BY <1>4 DEF vars
  <2> QED
    BY <2>1 DEF ZInv, StagedTargets, Target, Locked, View, WrittenBy, StoredBy, WasReset,
                Committed, RowsOf
<1> QED
  BY <1>1, <1>2, <1>3, <1>4 DEF Next, Proceed, Fail

LEMMA AlwaysZInv == Spec => []ZInv
<1>1. Init => ZInv
  <2>1. SUFFICES ASSUME Init, NEW i \in Imports
                 PROVE  /\ StagedTargets(i)
                        /\ \A r \in Ids : WrittenBy(i, r) /\ StoredBy(i, r)
    BY DEF ZInv
  <2>2. step[i] = "idle" /\ \A r \in Ids : own[i][r] = Clean
    BY <2>1 DEF Init
  <2>3. \A r \in Ids : db[r] # NoRow => db[r].import # i
    BY <2>1, ImportIdAssumption DEF Init
  <2> QED
    BY <2>2, <2>3 DEF StagedTargets, WrittenBy, StoredBy
<1> QED
  BY <1>1, StepKeepsZInv, Invariance, PTL DEF Spec

\* Once an import is closed, no row that it wrote last still carries the number of
\* one of its CSV rows, whatever other imports, failed cleanups and web requests
\* did before and after (the cleanup methods of items.rb and relationships.rb).
THEOREM ClosedImportsLeaveNoNumbers == Spec => []ClosedLeavesNoStagingIds
<1>1. ZInv => ClosedLeavesNoStagingIds
  BY DEF ZInv, StoredBy, WasReset, ClosedLeavesNoStagingIds
<1> QED
  BY <1>1, AlwaysZInv, PTL

-----------------------------------------------------------------------------
(***************************************************************************)
(* Imports one at a time (Workers = 1), beside web requests.               *)
(***************************************************************************)

OneRunning == \A i, j \in Imports : step[i] \in Running /\ step[j] \in Running => i = j

\* What is stored, or is once an import has committed.
Contents == {db} \cup {View(i) : i \in Imports}

Unique(rows) == UuidsUnique(rows) /\ RelationshipsUnique(rows)

\* No uuid has been generated for a record of the import.
Early(i) == step[i] = "idle" \/ (step[i] \in {"match", "snapshot", "load"} /\ table[i] = "record")

NotGenerated(i, rows) == \A r \in Ids : rows[r] # NoRow => rows[r].uuid \notin {i} \X (Nat \ {0})

\* A CSV row that has no match in the staging table has none among the rows, not
\* even among those its import is about to insert; a relationship that has one
\* changes none of its values.
StagedOK(i) ==
  \A n \in RowsOf(i, table[i]) :
    LET s == staged[i][n] IN
    /\ (s.id = NoId /\ table[i] = "record") =>
         \A r \in Ids : (View(i)[r] # NoRow /\ View(i)[r].table = "record")
                          => View(i)[r].uuid # UuidOf(i, n)
    /\ (s.id = NoId /\ table[i] = "relationship" /\ s.from # NoId) =>
         /\ \A r \in Ids : (View(i)[r] # NoRow /\ View(i)[r].table = "relationship")
                             => ~SameLink(View(i)[r], s)
         /\ \A m \in RowsOf(i, table[i]) :
              staged[i][m].id = NoId /\ SameLink(staged[i][m], s) => m = n
    /\ (s.id # NoId /\ table[i] = "relationship" /\ View(i)[s.id] # NoRow) =>
         View(i)[s.id].value = s.value

UniqueInv ==
  /\ OneRunning
  /\ \A rows \in Contents : /\ Unique(rows)
                            /\ \A i \in Imports : Early(i) => NotGenerated(i, rows)
  /\ \A i \in Imports : step[i] \in {"snapshot", "load"} => StagedOK(i)

\* No file names a record twice, or a relationship with the same values, and the
\* tables did not either.
PlainFiles ==
  \A rows \in Zips : \A m, n \in DOMAIN rows :
    rows[m].table = rows[n].table /\ m # n =>
      IF rows[m].table = "record" THEN rows[m].uuid # rows[n].uuid \/ rows[m].uuid = NoUuid
      ELSE ~SameLink(rows[m], rows[n])

PlainTables == \A rows \in InitialDbs : Unique(rows)

\* The value an import is about to replace, or has replaced, is in its audit table.
Snapshotted(i, r) ==
  db[r] # NoRow => [id |-> r, event |-> "update", object |-> db[r].value] \in audit[i]

ReplacesOK(i) ==
  /\ step[i] = "load" => \A r \in ToUpdate(i) : Snapshotted(i, r)
  /\ step[i] \in InTransaction => \A r \in Ids : own[i][r] # Clean => Snapshotted(i, r)

ReplacedInv == OneRunning /\ \A i \in Imports : ReplacesOK(i)

LEMMA NoneRuns ==
  ASSUME Workers = 1, NEW i \in Imports, Start(i)
  PROVE  \A j \in Imports : step[j] \notin Running
<1> DEFINE A == {j \in Imports : step[j] \in Running}
<1>1. IsFiniteSet(A)
  BY ConstantsAssumption, FS_Subset
<1>2. Cardinality(A) \in Nat /\ Cardinality(A) < 1
  BY <1>1, FS_CardinalityType DEF Start
<1>3. A = {}
  BY <1>1, <1>2, FS_EmptySet
<1> QED
  BY <1>3

LEMMA OneStaysRunning ==
  ASSUME Workers = 1, TypeOK, OneRunning, [Next]_vars
  PROVE  OneRunning'
<1>1. ASSUME NEW i \in Imports, Proceed(i) \/ Fail(i)
      PROVE  OneRunning'
  <2>1. \A j \in Imports \ {i} : step'[j] = step[j]
    BY <1>1 DEF Proceed, Fail, Start, Match, Snapshot, Load, Commit, Cleanup, RollBack, CloseFails,
                TypeOK
  <2>2. step[i] \in Running \/ Start(i)
    BY <1>1 DEF Proceed, Fail, Match, Snapshot, Load, Commit, Cleanup, RollBack, CloseFails,
                Running, InTransaction
  <2>3. CASE Start(i)
    BY <2>1, <2>3, NoneRuns DEF OneRunning
  <2>4. CASE step[i] \in Running
    BY <2>1, <2>4 DEF OneRunning
  <2> QED
    BY <2>2, <2>3, <2>4
<1>2. CASE Web \/ UNCHANGED vars
  BY <1>2 DEF Web, BeginEdit, Edit, BeginDestroy, Destroy, ImportVars, vars, OneRunning
<1> QED
  BY <1>1, <1>2 DEF Next

\* While one import runs, no other one does anything.
LEMMA OnlyOneMoves ==
  ASSUME Workers = 1, OneRunning, NEW i \in Imports, step[i] \in Running,
         NEW j \in Imports, Proceed(j) \/ Fail(j)
  PROVE  j = i
<1>1. step[j] \in Running \/ Start(j)
  BY DEF Proceed, Fail, Match, Snapshot, Load, Commit, Cleanup, RollBack, CloseFails,
     Running, InTransaction
<1> QED
  BY <1>1, NoneRuns DEF OneRunning

\* While one import runs, the others have written nothing and do nothing.
LEMMA OthersAreClean ==
  ASSUME IInv, OneRunning, NEW i \in Imports, step[i] \in Running, NEW j \in Imports \ {i}
  PROVE  step[j] \notin Running /\ \A r \in Ids : own[j][r] = Clean
BY DEF OneRunning, IInv, RowLocks, LockOK, Running

LEMMA CleanView ==
  ASSUME TypeOK, NEW i \in Imports, \A r \in Ids : own[i][r] = Clean
  PROVE  View(i) = db
BY DEF TypeOK, View

\* Rows of which some are gone, some have another number and some another value,
\* but for relationships.
Kept(old, new, r) ==
  new[r] # NoRow =>
    /\ old[r] # NoRow
    /\ new[r].table = old[r].table /\ new[r].uuid = old[r].uuid
    /\ new[r].from = old[r].from /\ new[r].to = old[r].to
    /\ new[r].table = "relationship" => new[r].value = old[r].value

Less(old, new) == \A r \in Ids : Kept(old, new, r)

LEMMA LessIsUnique ==
  ASSUME NEW old, NEW new, Less(old, new)
  PROVE  /\ Unique(old) => Unique(new)
         /\ \A i : NotGenerated(i, old) => NotGenerated(i, new)
<1>1. Unique(old) => UuidsUnique(new)
  BY DEF Less, Kept, Unique, UuidsUnique
<1>2. Unique(old) => RelationshipsUnique(new)
  BY DEF Less, Kept, Unique, RelationshipsUnique, SameLink
<1>3. \A i : NotGenerated(i, old) => NotGenerated(i, new)
  BY DEF Less, Kept, NotGenerated
<1> QED
  BY <1>1, <1>2, <1>3 DEF Unique

\* What a web request does to a row.
LEMMA WebRow ==
  ASSUME IInv, Web
  PROVE  /\ UNCHANGED ImportVars /\ used' = used
         /\ Less(db, db')
         /\ \A r \in Ids : db'[r] = db[r] \/ (~LockedByAny(r) /\ ("edit" \notin WebActions => db'[r] = NoRow))
<1> USE ConstantsAssumption
<1>1. UNCHANGED ImportVars /\ used' = used
  BY DEF Web, BeginEdit, Edit, BeginDestroy, Destroy, ImportVars
<1>2. ASSUME NEW r \in Ids
      PROVE  /\ Kept(db, db', r)
             /\ db'[r] = db[r] \/ (~LockedByAny(r) /\ ("edit" \notin WebActions => db'[r] = NoRow))
  <2>1. CASE \E e \in editing, value \in Values : Edit(e, value)
    BY <2>1, EditedRow DEF IInv, Kept
  <2>2. CASE \E x \in Ids : BeginEdit(x) \/ BeginDestroy(x)
    BY <2>2 DEF BeginEdit, BeginDestroy, Kept
  <2>3. CASE \E d \in deleting : Destroy(d)
    BY <2>3 DEF Destroy, Kept
  <2> QED
    BY <2>1, <2>2, <2>3 DEF Web
<1> QED
  BY <1>1, <1>2 DEF Less

LEMMA WebView ==
  ASSUME IInv, Web, NEW i \in Imports
  PROVE  Less(View(i), View(i)')
<1>1. UNCHANGED own /\ Less(db, db')
  BY WebRow DEF ImportVars
<1>2. ASSUME NEW r \in Ids PROVE Kept(View(i), View(i)', r)
  <2>1. /\ View(i)[r] = IF own[i][r] = Clean THEN db[r] ELSE own[i][r]
        /\ View(i)'[r] = IF own[i][r] = Clean THEN db'[r] ELSE own[i][r]
    BY <1>1 DEF View
  <2> QED
    BY <1>1, <2>1 DEF Kept, Less
<1> QED
  BY <1>2 DEF Less

\* Every step but a load leaves what was there, or less.
LEMMA OldContents ==
  ASSUME IInv, OneRunning, [Next]_vars, \A i \in Imports : ~Load(i), TypeOK', NEW rows \in Contents'
  PROVE  \E old \in Contents : Less(old, rows)
<1>0. TypeOK /\ RowLocks
  BY DEF IInv
<1>1. \A x : Less(x, x)
  BY DEF Less, Kept
<1>2. CASE UNCHANGED <<db, own>>
  BY <1>1, <1>2 DEF Contents, View
<1>3. ASSUME NEW i \in Imports, Commit(i)
      PROVE  \E old \in Contents : Less(old, rows)
  <2>1. db' = View(i) /\ own' = Released(i) /\ step[i] \in Running
    BY <1>3 DEF Commit, Running, InTransaction
  <2>2. \A k \in Imports, r \in Ids : own'[k][r] = Clean
    BY <1>0, <2>1, OthersAreClean DEF Released, TypeOK
  <2>3. \A k \in Imports : View(k)' = db'
    BY <2>2 DEF TypeOK, View
  <2>4. rows = View(i)
    BY <2>1, <2>3 DEF Contents
  <2> QED
    BY <1>1, <2>4 DEF Contents
<1>4. ASSUME NEW i \in Imports, RollBack(i)
      PROVE  \E old \in Contents : Less(old, rows)
  <2>1. db' = db /\ own' = Released(i)
    BY <1>4 DEF RollBack
  <2>2. /\ \A r \in Ids : own'[i][r] = Clean
        /\ \A k \in Imports \ {i} : own'[k] = own[k]
    BY <1>0, <2>1 DEF Released, TypeOK
  <2>3. View(i)' = db /\ \A k \in Imports \ {i} : View(k)' = View(k)
    BY <2>1, <2>2 DEF TypeOK, View
  <2>4. rows \in Contents
    BY <2>1, <2>3 DEF Contents
  <2> QED
    BY <1>1, <2>4
<1>5. ASSUME NEW i \in Imports, Cleanup(i)
      PROVE  \E old \in Contents : Less(old, rows)
  <2>1. /\ own' = own /\ step[i] = "cleanup" /\ step[i] \in Running
        /\ \A r \in Ids : db'[r] = IF r \in ToReset(i) THEN [db[r] EXCEPT !.z = 0] ELSE db[r]
    BY <1>5 DEF Cleanup, Running
  <2>2. \A k \in Imports, r \in Ids : own[k][r] = Clean
    BY <1>0, <2>1, OthersAreClean DEF RowLocks, LockOK, InTransaction
  <2>3. \A k \in Imports : View(k)' = db'
    BY <2>1, <2>2 DEF TypeOK, View
  <2>4. rows = db'
    BY <2>3 DEF Contents
  <2>5. ASSUME NEW r \in Ids PROVE Kept(db, db', r)
    <3>1. PICK row : row = [db[r] EXCEPT !.z = 0]
      OBVIOUS
    <3>2. r \in ToReset(i) => db[r] \in Row /\ db[r] # NoRow
      BY <1>0 DEF ToReset, TypeOK
    <3>3. r \in ToReset(i) => /\ row.table = db[r].table /\ row.uuid = db[r].uuid
                              /\ row.from = db[r].from /\ row.to = db[r].to
                              /\ row.value = db[r].value
      BY <3>1, <3>2 DEF Row
    <3> QED
      BY <2>1, <3>1, <3>2, <3>3 DEF Kept
  <2> QED
    BY <2>4, <2>5 DEF Contents, Less
<1>6. CASE Web
  BY <1>0, <1>6, WebRow, WebView DEF Contents
<1>7. ASSUME NEW i \in Imports, Start(i) \/ Match(i) \/ Snapshot(i) \/ CloseFails(i)
      PROVE  UNCHANGED <<db, own>>
  BY <1>7 DEF Start, Match, Snapshot, CloseFails
<1> QED
  BY <1>2, <1>3, <1>4, <1>5, <1>6, <1>7 DEF Next, Proceed, Fail, vars

LEMMA EarlierIsEarly ==
  ASSUME IInv, NEW i \in Imports, [Next]_vars, Early(i)'
  PROVE  Early(i)
<1>1. ASSUME NEW j \in Imports, Proceed(j) \/ Fail(j)
      PROVE  Early(i)
  <2>1. CASE j # i
    <3>1. step'[i] = step[i] /\ table'[i] = table[i]
      BY <1>1, <2>1 DEF Proceed, Fail, Start, Match, Snapshot, Load, Commit, Cleanup, RollBack,
                        CloseFails, IInv, TypeOK
    <3> QED
      BY <3>1 DEF Early
  <2>2. CASE j = i
    BY <1>1, <2>2 DEF Proceed, Fail, Start, Match, Snapshot, Load, Commit, Cleanup, RollBack,
                      CloseFails, IInv, TypeOK, Early
  <2> QED
    BY <2>1, <2>2
<1>2. CASE Web \/ UNCHANGED vars
  BY <1>2, WebRow DEF ImportVars, vars, Early
<1> QED
  BY <1>1, <1>2 DEF Next

\* What the match of a relationship finds.
LEMMA MatchedLink ==
  ASSUME TypeOK, NEW i \in Imports, NEW n \in DOMAIN zip[i], NEW s \in MatchedRelationship(i, n)
  PROVE  /\ s.from # NoId => s.from \in Imported(i, zip[i][n].from) /\ s.to \in Imported(i, zip[i][n].to)
         /\ s.id = NoId => /\ s.value = zip[i][n].value
                           /\ SameEnds(i, n, s.from, s.to) = {}
         /\ s.id # NoId => s.value = View(i)[s.id].value
<1>1. PICK e \in Endpoints(i, n) :
        \E r \in AnyOf(IF SameUuid(i, n, "relationship") # {}
                         THEN SameUuid(i, n, "relationship")
                         ELSE SameEnds(i, n, e[1], e[2])) :
          s = [id |-> r, value |-> IF r = NoId THEN zip[i][n].value ELSE View(i)[r].value,
               from |-> e[1], to |-> e[2]]
  BY DEF MatchedRelationship
<1>2. PICK r \in AnyOf(IF SameUuid(i, n, "relationship") # {}
                         THEN SameUuid(i, n, "relationship")
                         ELSE SameEnds(i, n, e[1], e[2])) :
          s = [id |-> r, value |-> IF r = NoId THEN zip[i][n].value ELSE View(i)[r].value,
               from |-> e[1], to |-> e[2]]
  BY <1>1
<1>3. /\ s.id = r /\ s.from = e[1] /\ s.to = e[2]
      /\ s.value = IF r = NoId THEN zip[i][n].value ELSE View(i)[r].value
  BY <1>2
<1>4. SameUuid(i, n, "relationship") \subseteq Ids /\ SameEnds(i, n, e[1], e[2]) \subseteq Ids
  BY DEF SameUuid, SameEnds
<1>5. r = NoId => SameEnds(i, n, e[1], e[2]) = {}
  BY <1>2, <1>4, ConstantsAssumption DEF AnyOf
<1>6. e[1] # NoId => e[1] \in Imported(i, zip[i][n].from) /\ e[2] \in Imported(i, zip[i][n].to)
  <2>1. \/ e = <<NoId, NoId>>
        \/ e \in Imported(i, zip[i][n].from) \X Imported(i, zip[i][n].to)
    BY DEF Endpoints
  <2> QED
    BY <2>1
<1> QED
  BY <1>3, <1>5, <1>6

LEMMA MatchStages ==
  ASSUME IInv, UniqueInv, PlainFiles, NEW i \in Imports, Match(i)
  PROVE  StagedOK(i)'
<1> DEFINE rows == RowsOf(i, table[i])
<1>0. TypeOK /\ step[i] = "match" /\ UNCHANGED <<db, own, zip, table>>
  BY DEF IInv, Match
<1>1. PICK s \in [rows -> UNION {Matched(i, n) : n \in rows}] :
        /\ \A n \in rows : s[n] \in Matched(i, n)
        /\ staged' = [staged EXCEPT ![i] =
             [n \in DOMAIN zip[i] |-> IF n \in rows THEN s[n] ELSE staged[i][n]]]
  BY DEF Match
<1>2. \A n \in rows : n \in DOMAIN zip[i] /\ staged'[i][n] = s[n] /\ s[n] \in Matched(i, n)
  BY <1>0, <1>1 DEF RowsOf, TypeOK
<1>3. RowsOf(i, table[i])' = rows /\ View(i)' = View(i) /\ \A n : UuidOf(i, n)' = UuidOf(i, n)
  BY <1>0 DEF RowsOf, View, UuidOf
<1>4. zip[i] \in Zips \cup {<<>>} /\ table[i] \in Tables
  BY <1>0 DEF TypeOK
<1>5. CASE table[i] = "record"
  <2>1. ASSUME NEW n \in rows, s[n].id = NoId, NEW r \in Ids, View(i)[r] # NoRow,
               View(i)[r].table = "record"
        PROVE  View(i)[r].uuid # UuidOf(i, n)
    <3>1. s[n].id \in AnyOf(IF zip[i][n].uuid = NoUuid THEN {} ELSE SameUuid(i, n, "record"))
      BY <1>2, <1>5 DEF Matched, MatchedRecord
    <3>2. zip[i][n].uuid = NoUuid \/ SameUuid(i, n, "record") = {}
      BY <2>1, <3>1, ConstantsAssumption DEF AnyOf, SameUuid
    <3>3. CASE zip[i][n].uuid = NoUuid
      <4>1. UuidOf(i, n) \in {i} \X (Nat \ {0})
        BY <1>0, <1>2, <3>3, ZipsAreCsv DEF UuidOf, IsCsv
      <4>2. NotGenerated(i, View(i))
        BY <1>0, <1>5 DEF UniqueInv, Contents, Early
      <4> QED
        BY <2>1, <4>1, <4>2 DEF NotGenerated
    <3>4. CASE SameUuid(i, n, "record") = {}
      BY <2>1, <3>4 DEF SameUuid
    <3> QED
      BY <3>2, <3>3, <3>4
  <2> QED
    BY <1>0, <1>2, <1>3, <1>5, <2>1 DEF StagedOK
<1>6. CASE table[i] = "relationship"
  <2>1. \A n \in rows : s[n] \in MatchedRelationship(i, n)
    BY <1>2, <1>6 DEF Matched
  <2>2. ASSUME NEW n \in rows, s[n].id = NoId, s[n].from # NoId, NEW r \in Ids, View(i)[r] # NoRow,
               View(i)[r].table = "relationship"
        PROVE  ~SameLink(View(i)[r], s[n])
    BY <1>0, <1>2, <2>1, <2>2, MatchedLink DEF SameLink, SameEnds
  <2>3. ASSUME NEW n \in rows, NEW m \in rows, s[n].id = NoId, s[m].id = NoId, s[n].from # NoId,
               SameLink(s[m], s[n])
        PROVE  m = n
    <3>1. /\ s[n].from \in Imported(i, zip[i][n].from) /\ s[n].to \in Imported(i, zip[i][n].to)
          /\ s[n].value = zip[i][n].value
      BY <1>0, <1>2, <2>1, <2>3, MatchedLink
    <3>2. /\ s[m].from \in Imported(i, zip[i][m].from) /\ s[m].to \in Imported(i, zip[i][m].to)
          /\ s[m].value = zip[i][m].value
      BY <1>0, <1>2, <2>1, <2>3, MatchedLink DEF SameLink
    <3>3. SameLink(zip[i][m], zip[i][n])
      BY <2>3, <3>1, <3>2 DEF SameLink, Imported
    <3>4. zip[i] \in Zips /\ zip[i][m].table = "relationship" /\ zip[i][n].table = "relationship"
      BY <1>2, <1>4, <1>6 DEF RowsOf
    <3> QED
      BY <1>2, <3>3, <3>4 DEF PlainFiles
  <2>4. ASSUME NEW n \in rows, s[n].id # NoId
        PROVE  s[n].value = View(i)[s[n].id].value
    BY <1>0, <1>2, <2>1, <2>4, MatchedLink
  <2> QED
    BY <1>0, <1>2, <1>3, <1>6, <2>2, <2>3, <2>4 DEF StagedOK
<1> QED
  BY <1>4, <1>5, <1>6 DEF Tables

\* A web request leaves the staging table as good as it was.
LEMMA WebStages ==
  ASSUME IInv, Web, NEW i \in Imports, step[i] \in {"snapshot", "load"}, StagedOK(i),
         StagedTargets(i)
  PROVE  StagedOK(i)'
<1>1. Less(View(i), View(i)') /\ UNCHANGED <<table, zip, staged>>
  BY WebRow, WebView DEF ImportVars
<1>2. RowsOf(i, table[i])' = RowsOf(i, table[i]) /\ \A n : UuidOf(i, n)' = UuidOf(i, n)
  BY <1>1 DEF RowsOf, UuidOf
<1>3. PICK new : new = View(i)'
  OBVIOUS
<1>4. ASSUME NEW n \in RowsOf(i, table[i])
      PROVE  /\ (staged[i][n].id = NoId /\ table[i] = "record") =>
                  \A r \in Ids : (new[r] # NoRow /\ new[r].table = "record")
                                   => new[r].uuid # UuidOf(i, n)
             /\ (staged[i][n].id = NoId /\ table[i] = "relationship" /\ staged[i][n].from # NoId) =>
                  /\ \A r \in Ids : (new[r] # NoRow /\ new[r].table = "relationship")
                                      => ~SameLink(new[r], staged[i][n])
                  /\ \A m \in RowsOf(i, table[i]) :
                       staged[i][m].id = NoId /\ SameLink(staged[i][m], staged[i][n]) => m = n
             /\ (staged[i][n].id # NoId /\ table[i] = "relationship" /\ new[staged[i][n].id] # NoRow) =>
                  new[staged[i][n].id].value = staged[i][n].value
  <2>1. staged[i][n].id \in Ids \cup {NoId}
    BY DEF IInv, TypeOK, StagingOK, InTransaction, StagedRow, RowsOf
  <2>2. /\ (staged[i][n].id = NoId /\ table[i] = "record") =>
                  \A r \in Ids : (View(i)[r] # NoRow /\ View(i)[r].table = "record")
                                   => View(i)[r].uuid # UuidOf(i, n)
        /\ (staged[i][n].id = NoId /\ table[i] = "relationship" /\ staged[i][n].from # NoId) =>
                  /\ \A r \in Ids : (View(i)[r] # NoRow /\ View(i)[r].table = "relationship")
                                      => ~SameLink(View(i)[r], staged[i][n])
                  /\ \A m \in RowsOf(i, table[i]) :
                       staged[i][m].id = NoId /\ SameLink(staged[i][m], staged[i][n]) => m = n
        /\ (staged[i][n].id # NoId /\ table[i] = "relationship" /\ View(i)[staged[i][n].id] # NoRow) =>
                  View(i)[staged[i][n].id].value = staged[i][n].value
    BY DEF StagedOK
  <2>3. \A r \in Ids : Kept(View(i), new, r)
    BY <1>1, <1>3 DEF Less
  <2>4. staged[i][n].id # NoId /\ View(i)[staged[i][n].id] # NoRow
          => View(i)[staged[i][n].id].table = table[i]
    BY DEF StagedTargets, Target
  <2> QED
    BY <2>1, <2>2, <2>3, <2>4 DEF Kept, SameLink
<1> QED
  BY <1>1, <1>2, <1>3, <1>4 DEF StagedOK

\* What a load does to the rows: it keeps the identity of old ones, and the values
\* of relationships, and inserts one for each CSV row without a match.
LEMMA LoadContents ==
  ASSUME IInv, ZInv, UniqueInv, NEW i \in Imports, Load(i)
  PROVE  \E key \in [ToInsert(i) -> Ids] :
           \A r \in Ids : \/ Kept(View(i), View(i)', r)
                          \/ \E n \in ToInsert(i) : key[n] = r /\ View(i)'[r] = Inserted(i, n)
<1>1. TypeOK /\ step[i] = "load" /\ db' = db
  BY DEF IInv, Load
<1>2. PICK row \in [ToUpdate(i) -> DOMAIN zip[i]], key \in [ToInsert(i) -> FreshKeys] :
        LET keys == {key[n] : n \in ToInsert(i)}
        IN  /\ \A x \in ToUpdate(i) : row[x] \in RowsOf(i, table[i]) /\ staged[i][row[x]].id = x
            /\ own' = [own EXCEPT ![i] = [x \in Ids |->
                 IF x \in ToUpdate(i) THEN Updated(i, x, row[x])
                 ELSE IF x \in keys
                   THEN Inserted(i, CHOOSE n \in ToInsert(i) : key[n] = x)
                   ELSE own[i][x]]]
            /\ staged' = [staged EXCEPT ![i] = [n \in DOMAIN zip[i] |->
                 IF n \in ToInsert(i) THEN [staged[i][n] EXCEPT !.id = key[n]]
                                      ELSE staged[i][n]]]
            /\ audit' = [audit EXCEPT ![i] = @ \cup AuditCreates(keys)]
            /\ used' = used \cup keys
  BY ZenonT(30) DEF Load
<1> USE ConstantsAssumption
<1>3. key \in [ToInsert(i) -> Ids]
  BY DEF FreshKeys
<1>4. ASSUME NEW r \in Ids
      PROVE  \/ Kept(View(i), View(i)', r)
             \/ \E n \in ToInsert(i) : key[n] = r /\ View(i)'[r] = Inserted(i, n)
  <2>1. own'[i][r] =
          IF r \in ToUpdate(i) THEN Updated(i, r, row[r])
          ELSE IF r \in {key[n] : n \in ToInsert(i)}
               THEN Inserted(i, CHOOSE n \in ToInsert(i) : key[n] = r)
               ELSE own[i][r]
    BY <1>1, <1>2 DEF TypeOK
  <2>2. View(i)'[r] = IF own'[i][r] = Clean THEN db[r] ELSE own'[i][r]
    BY <1>1 DEF View
  <2>3. CASE r \in ToUpdate(i)
    <3>1. /\ row[r] \in RowsOf(i, table[i]) /\ staged[i][row[r]].id = r /\ View(i)[r] # NoRow
          /\ r # NoId
      BY <1>2, <2>3 DEF ToUpdate
    <3>2. View(i)[r].table = table[i]
      BY <1>1, <3>1 DEF ZInv, StagedTargets, Target
    <3>3. table[i] = "relationship" => View(i)[r].value = staged[i][row[r]].value
      BY <1>1, <3>1 DEF UniqueInv, StagedOK
    <3>4. PICK new : new = Updated(i, r, row[r])
      OBVIOUS
    <3>5. new \in Row /\ View(i)[r] \in Row
      BY <1>1, <2>3, <3>1, <3>4, LoadedRows, ViewType
    <3>6. /\ new.table = View(i)[r].table /\ new.uuid = View(i)[r].uuid
          /\ new.from = View(i)[r].from /\ new.to = View(i)[r].to
          /\ new.value = staged[i][row[r]].value
      BY <3>4, <3>5 DEF Updated, Row
    <3>7. View(i)'[r] = new
      BY <2>1, <2>2, <2>3, <3>4, <3>5
    <3> QED
      BY <3>1, <3>2, <3>3, <3>6, <3>7 DEF Kept
  <2>4. CASE r \notin ToUpdate(i) /\ r \in {key[n] : n \in ToInsert(i)}
    <3>1. PICK n \in ToInsert(i) : n = CHOOSE m \in ToInsert(i) : key[m] = r
      BY <2>4
    <3>2. key[n] = r
      BY <2>4, <3>1
    <3>3. Inserted(i, n) \in Row
      BY <1>1, <3>1, LoadedRows DEF ToInsert
    <3>4. View(i)'[r] = Inserted(i, n)
      BY <2>1, <2>2, <2>4, <3>1, <3>3
    <3> QED
      BY <3>1, <3>2, <3>4
  <2>5. CASE r \notin ToUpdate(i) /\ r \notin {key[n] : n \in ToInsert(i)}
    <3>1. View(i)'[r] = View(i)[r]
      BY <2>1, <2>2, <2>5 DEF View
    <3> QED
      BY <3>1 DEF Kept
  <2> QED
    BY <2>3, <2>4, <2>5
<1> QED
  BY <1>3, <1>4

\* No row that a load inserts doubles one that is there, or another one.
LEMMA InsertedOnce ==
  ASSUME IInv, UniqueInv, PlainFiles, NEW i \in Imports, step[i] = "load", NEW n \in ToInsert(i)
  PROVE  /\ Inserted(i, n).table = table[i]
         /\ \A r \in Ids : View(i)[r] # NoRow /\ View(i)[r].table = table[i] =>
              IF table[i] = "record" THEN View(i)[r].uuid # Inserted(i, n).uuid
              ELSE ~SameLink(View(i)[r], Inserted(i, n))
         /\ \A m \in ToInsert(i) : m # n =>
              IF table[i] = "record" THEN Inserted(i, m).uuid # Inserted(i, n).uuid
              ELSE ~SameLink(Inserted(i, m), Inserted(i, n))
         /\ \A j \in Imports \ {i} : Inserted(i, n).uuid \notin {j} \X (Nat \ {0})
<1> USE ConstantsAssumption
<1>0. TypeOK /\ StagedOK(i) /\ table[i] \in Tables /\ zip[i] \in Zips \cup {<<>>}
  BY DEF IInv, UniqueInv, TypeOK
<1>1. \A m \in ToInsert(i) : /\ m \in RowsOf(i, table[i]) /\ m \in DOMAIN zip[i]
                             /\ zip[i][m].table = table[i] /\ zip[i][m] \in CsvRow /\ m \in Nat \ {0}
                             /\ staged[i][m].id = NoId
                             /\ table[i] = "relationship" => staged[i][m].from # NoId
  BY <1>0, ZipsAreCsv DEF ToInsert, RowsOf, IsCsv
<1>2. \A m \in ToInsert(i) : /\ Inserted(i, m).table = table[i]
                             /\ Inserted(i, m).uuid = UuidOf(i, m)
                             /\ Inserted(i, m).from = staged[i][m].from
                             /\ Inserted(i, m).to = staged[i][m].to
                             /\ Inserted(i, m).value = staged[i][m].value
  BY DEF Inserted
<1>3. \A m \in ToInsert(i) : \/ zip[i][m].uuid = NoUuid /\ UuidOf(i, m) = <<i, m>>
                             \/ UuidOf(i, m) = zip[i][m].uuid /\ UuidOf(i, m) \in Uuids
  BY <1>1 DEF UuidOf, CsvRow
<1>4. \A u \in Uuids, j \in Imports : u \notin {j} \X (Nat \ {0})
  BY ImportIdAssumption
<1>5. \A j \in Imports \ {i} : UuidOf(i, n) \notin {j} \X (Nat \ {0})
  BY <1>3, <1>4
<1>6. CASE table[i] = "record"
  <2>1. \A r \in Ids : View(i)[r] # NoRow /\ View(i)[r].table = "record"
                         => View(i)[r].uuid # UuidOf(i, n)
    BY <1>0, <1>1, <1>6 DEF StagedOK
  <2>2. ASSUME NEW m \in ToInsert(i), m # n PROVE UuidOf(i, m) # UuidOf(i, n)
    <3>1. zip[i][m].uuid # zip[i][n].uuid \/ zip[i][m].uuid = NoUuid
      BY <1>0, <1>1, <1>6, <2>2 DEF PlainFiles
    <3>2. UuidOf(i, m) = <<i, m>> /\ UuidOf(i, n) = <<i, n>> => UuidOf(i, m) # UuidOf(i, n)
      BY <2>2
    <3>3. <<i, m>> \in {i} \X (Nat \ {0}) /\ <<i, n>> \in {i} \X (Nat \ {0})
      BY <1>1
    <3> QED
      BY <1>3, <1>4, <3>1, <3>2, <3>3
  <2> QED
    BY <1>2, <1>5, <1>6, <2>1, <2>2
<1>7. CASE table[i] = "relationship"
  <2>1. \A r \in Ids : View(i)[r] # NoRow /\ View(i)[r].table = "relationship"
                         => ~SameLink(View(i)[r], staged[i][n])
    BY <1>0, <1>1, <1>7 DEF StagedOK
  <2>2. \A m \in ToInsert(i) : m # n => ~SameLink(staged[i][m], staged[i][n])
    BY <1>0, <1>1, <1>7 DEF StagedOK
  <2> QED
    BY <1>2, <1>5, <1>7, <2>1, <2>2 DEF SameLink
<1> QED
  BY <1>0, <1>6, <1>7 DEF Tables

LEMMA LoadStaysUnique ==
  ASSUME IInv, ZInv, UniqueInv, PlainFiles, NEW i \in Imports, Load(i)
  PROVE  /\ Unique(View(i)')
         /\ \A j \in Imports \ {i} : NotGenerated(j, View(i)) => NotGenerated(j, View(i)')
<1>1. step[i] = "load" /\ Unique(View(i)) /\ table[i] \in Tables
  BY DEF Load, UniqueInv, Contents, IInv, TypeOK
<1>2. PICK old : old = View(i)
  OBVIOUS
<1>3. PICK new : new = View(i)'
  OBVIOUS
<1>4. PICK key \in [ToInsert(i) -> Ids] :
        \A r \in Ids : \/ Kept(old, new, r)
                       \/ \E n \in ToInsert(i) : key[n] = r /\ new[r] = Inserted(i, n)
  BY <1>2, <1>3, LoadContents
<1>5. \A n \in ToInsert(i) :
         /\ Inserted(i, n).table = table[i]
         /\ \A r \in Ids : old[r] # NoRow /\ old[r].table = table[i] =>
              IF table[i] = "record" THEN old[r].uuid # Inserted(i, n).uuid
              ELSE ~SameLink(old[r], Inserted(i, n))
         /\ \A m \in ToInsert(i) : m # n =>
              IF table[i] = "record" THEN Inserted(i, m).uuid # Inserted(i, n).uuid
              ELSE ~SameLink(Inserted(i, m), Inserted(i, n))
         /\ \A j \in Imports \ {i} : Inserted(i, n).uuid \notin {j} \X (Nat \ {0})
  BY <1>1, <1>2, InsertedOnce
<1>6. UuidsUnique(new)
  <2> SUFFICES ASSUME NEW r \in Ids, NEW x \in Ids, new[r] # NoRow, new[x] # NoRow,
                      new[r].table = "record", new[x].table = "record", new[r].uuid = new[x].uuid
               PROVE  r = x
    BY DEF UuidsUnique
  <2>1. CASE Kept(old, new, r) /\ Kept(old, new, x)
    BY <1>1, <1>2, <2>1 DEF Kept, Unique, UuidsUnique
  <2>2. ASSUME NEW n \in ToInsert(i), NEW y \in {r, x}, new[y] = Inserted(i, n),
               NEW z \in {r, x}, Kept(old, new, z)
        PROVE  FALSE
    BY <1>5, <2>2 DEF Kept
  <2>3. ASSUME NEW n \in ToInsert(i), key[n] = r, new[r] = Inserted(i, n),
               NEW m \in ToInsert(i), key[m] = x, new[x] = Inserted(i, m)
        PROVE  r = x
    BY <1>5, <2>3
  <2> QED
    BY <1>4, <2>1, <2>2, <2>3
<1>7. RelationshipsUnique(new)
  <2> SUFFICES ASSUME NEW r \in Ids, NEW x \in Ids, new[r] # NoRow, new[x] # NoRow,
                      new[r].table = "relationship", new[x].table = "relationship",
                      SameLink(new[r], new[x])
               PROVE  r = x
    BY DEF RelationshipsUnique
  <2>1. CASE Kept(old, new, r) /\ Kept(old, new, x)
    BY <1>1, <1>2, <2>1 DEF Kept, Unique, RelationshipsUnique, SameLink
  <2>2. ASSUME NEW n \in ToInsert(i), NEW y \in {r, x}, new[y] = Inserted(i, n),
               NEW z \in {r, x}, Kept(old, new, z)
        PROVE  FALSE
    BY <1>1, <1>5, <2>2 DEF Kept, SameLink, Tables
  <2>3. ASSUME NEW n \in ToInsert(i), key[n] = r, new[r] = Inserted(i, n),
               NEW m \in ToInsert(i), key[m] = x, new[x] = Inserted(i, m)
        PROVE  r = x
    BY <1>1, <1>5, <2>3 DEF Tables
  <2> QED
    BY <1>4, <2>1, <2>2, <2>3
<1>8. ASSUME NEW j \in Imports \ {i}, NotGenerated(j, old) PROVE NotGenerated(j, new)
  BY <1>4, <1>5, <1>8 DEF NotGenerated, Kept
<1> QED
  BY <1>2, <1>3, <1>6, <1>7, <1>8 DEF Unique

LEMMA StepKeepsUnique ==
  ASSUME Workers = 1, PlainFiles, IInv, ZInv, IInv', UniqueInv, [Next]_vars
  PROVE  UniqueInv'
<1>0. TypeOK /\ TypeOK' /\ OneRunning /\ OneRunning'
  BY OneStaysRunning DEF IInv, UniqueInv
<1>1. ASSUME NEW rows \in Contents'
      PROVE  Unique(rows) /\ \A i \in Imports : Early(i)' => NotGenerated(i, rows)
  <2>1. CASE \A i \in Imports : ~Load(i)
    <3>1. PICK old \in Contents : Less(old, rows)
      BY <1>0, <2>1, OldContents
    <3> QED
      BY <1>0, <3>1, LessIsUnique, EarlierIsEarly DEF UniqueInv
  <2>2. ASSUME NEW i \in Imports, Load(i)
        PROVE  Unique(rows) /\ \A j \in Imports : Early(j)' => NotGenerated(j, rows)
    <3>1. db' = db /\ step[i] = "load" /\ \A k \in Imports \ {i} : own'[k] = own[k]
      BY <1>0, <2>2 DEF Load, TypeOK
    <3>2. \A k \in Imports \ {i} : View(k)' = View(k)
      BY <3>1 DEF View
    <3>3. CASE rows \in Contents
      <4>1. Unique(rows) /\ \A j \in Imports : Early(j)' => NotGenerated(j, rows)
        BY <1>0, <3>3, EarlierIsEarly DEF UniqueInv
      <4> QED
        BY <4>1
    <3>4. CASE rows = View(i)'
      <4>1. ~Early(i)'
        BY <1>0, <2>2 DEF Load, Early, TypeOK
      <4>2. \A j \in Imports : Early(j)' => j # i /\ NotGenerated(j, View(i))
        BY <1>0, <4>1, EarlierIsEarly DEF UniqueInv, Contents
      <4> QED
        BY <2>2, <3>4, <4>2, LoadStaysUnique
    <3> QED
      BY <3>1, <3>2, <3>3, <3>4 DEF Contents
  <2> QED
    BY <2>1, <2>2
<1>2. ASSUME NEW i \in Imports, step'[i] \in {"snapshot", "load"} PROVE StagedOK(i)'
  <2>1. CASE Match(i)
    BY <2>1, MatchStages
  <2>2. CASE Snapshot(i)
    <3>1. step[i] = "snapshot" /\ UNCHANGED <<db, own, zip, table, staged>>
      BY <2>2 DEF Snapshot
    <3>2. StagedOK(i)
      BY <3>1 DEF UniqueInv
    <3> QED
      BY <3>1, <3>2 DEF StagedOK, RowsOf, View, UuidOf
  <2>3. CASE Web
    <3>1. step[i] \in {"snapshot", "load"}
      BY <1>0, <1>2, <2>3, WebRow DEF ImportVars
    <3> QED
      BY <1>0, <2>3, <3>1, WebStages DEF UniqueInv, ZInv
  <2>4. CASE UNCHANGED vars
    BY <1>2, <2>4 DEF vars, UniqueInv, StagedOK, RowsOf, View, UuidOf
  <2>5. ASSUME NEW j \in Imports, Proceed(j) \/ Fail(j), ~Match(i), ~Snapshot(i)
        PROVE  FALSE
    <3>1. CASE j = i
      BY <1>0, <1>2, <2>5, <3>1 DEF Proceed, Fail, Start, Load, Commit, Cleanup, RollBack,
         CloseFails, TypeOK
    <3>2. CASE j # i
      <4>1. step'[i] = step[i]
        BY <1>0, <2>5, <3>2 DEF Proceed, Fail, Start, Match, Snapshot, Load, Commit, Cleanup,
           RollBack, CloseFails, TypeOK
      <4>2. step[i] \in Running
        BY <1>2, <4>1 DEF Running, InTransaction
      <4> QED
        BY <1>0, <2>5, <3>2, <4>2, OnlyOneMoves
    <3> QED
      BY <3>1, <3>2
  <2> QED
    BY <2>1, <2>2, <2>3, <2>4, <2>5 DEF Next
<1> QED
  BY <1>0, <1>1, <1>2 DEF UniqueInv

\* Where one import runs at a time, whatever web requests edit and delete and
\* wherever imports fail, importing files that name nothing twice gives no uuid to
\* two records and stores no relationship twice (transform of items.rb and
\* relationships.rb).
THEOREM ImportsAloneDuplicateNothing ==
  ASSUME Workers = 1, PlainFiles, PlainTables
  PROVE  Spec => []ImportingAgainDuplicatesNothing
<1>1. Init => UniqueInv
  <2>1. SUFFICES ASSUME Init PROVE UniqueInv
    OBVIOUS
  <2>2. /\ db \in InitialDbs /\ db \in [Ids -> Row \cup {NoRow}]
        /\ \A i \in Imports : step[i] = "idle" /\ \A r \in Ids : own[i][r] = Clean
    BY <2>1, ConstantsAssumption DEF Init
  <2>3. \A i \in Imports : View(i) = db
    BY <2>2 DEF View
  <2>4. Unique(db) /\ \A i \in Imports : NotGenerated(i, db)
    BY <2>2, ImportIdAssumption DEF PlainTables, NotGenerated
  <2> QED
    BY <2>2, <2>3, <2>4 DEF UniqueInv, OneRunning, Contents, Running, InTransaction
<1>2. UniqueInv => ImportingAgainDuplicatesNothing
  BY DEF UniqueInv, Contents, Unique, ImportingAgainDuplicatesNothing
<1>3. Spec => [](IInv /\ ZInv)
  BY AlwaysZInv, Invariance, PTL
<1> QED
  BY <1>1, <1>2, <1>3, StepKeepsUnique, PTL DEF Spec

LEMMA StepKeepsReplaced ==
  ASSUME Workers = 1, "edit" \notin WebActions, IInv, ReplacedInv, [Next]_vars
  PROVE  ReplacedInv'
<1>0. TypeOK /\ RowLocks /\ OneRunning /\ OneRunning'
  BY OneStaysRunning DEF IInv, ReplacedInv
<1>1. ASSUME NEW i \in Imports, step'[i] \in InTransaction
      PROVE  ReplacesOK(i)'
  <2>0. ReplacesOK(i)
    BY DEF ReplacedInv
  <2>1. CASE Start(i)
    <3>1. own' = own /\ step'[i] = "match" /\ step[i] = "idle"
      BY <1>0, <2>1 DEF Start, TypeOK
    <3>2. \A r \in Ids : own[i][r] = Clean
      BY <1>0, <3>1 DEF RowLocks, LockOK, InTransaction
    <3> QED
      BY <3>1, <3>2 DEF ReplacesOK
  <2>2. CASE Match(i)
    <3>1. UNCHANGED <<db, own, audit>> /\ step'[i] = "snapshot" /\ step[i] = "match"
      BY <1>0, <2>2 DEF Match, TypeOK
    <3> QED
      BY <2>0, <3>1 DEF ReplacesOK, Snapshotted, InTransaction
  <2>3. CASE Snapshot(i)
    <3>1. /\ UNCHANGED <<db, own, staged, zip, table>> /\ step[i] = "snapshot"
          /\ audit'[i] = audit[i] \cup AuditUpdates(i)
      BY <1>0, <2>3 DEF Snapshot, TypeOK
    <3>2. \A r \in Ids : own[i][r] # Clean => Snapshotted(i, r)'
      BY <2>0, <3>1 DEF ReplacesOK, Snapshotted, InTransaction
    <3>3. ToUpdate(i)' = ToUpdate(i)
      BY <3>1 DEF ToUpdate, View, RowsOf
    <3>4. ASSUME NEW r \in ToUpdate(i), own[i][r] = Clean PROVE Snapshotted(i, r)'
      <4>1. View(i)[r] = db[r]
        BY <3>4 DEF View, ToUpdate
      <4>2. [id |-> r, event |-> "update", object |-> View(i)[r].value] \in AuditUpdates(i)
        BY DEF AuditUpdates
      <4> QED
        BY <3>1, <4>1, <4>2 DEF Snapshotted
    <3> QED
      BY <3>1, <3>2, <3>3, <3>4 DEF ReplacesOK, ToUpdate
  <2>4. CASE Load(i)
    <3>1. /\ db' = db /\ step[i] = "load" /\ step'[i] # "load"
          /\ \A r \in Ids : db[r] # NoRow => r \in used
      BY <1>0, <2>4 DEF Load, TypeOK, RowLocks
    <3>2. PICK keys \in SUBSET (Ids \ used) :
             /\ audit' = [audit EXCEPT ![i] = @ \cup AuditCreates(keys)]
             /\ \A r \in Ids \ (keys \cup ToUpdate(i)) : own'[i][r] = own[i][r]
      BY <1>0, <2>4, LoadEffect
    <3>3. audit[i] \subseteq audit'[i]
      BY <1>0, <3>2 DEF TypeOK
    <3>4. ASSUME NEW r \in Ids, own'[i][r] # Clean PROVE Snapshotted(i, r)'
      <4>1. CASE r \in keys
        BY <3>1, <3>2, <4>1 DEF Snapshotted
      <4>2. CASE r \in ToUpdate(i) \/ own[i][r] # Clean
        BY <2>0, <3>1, <3>3, <4>2 DEF ReplacesOK, Snapshotted, InTransaction
      <4> QED
        BY <3>2, <3>4, <4>1, <4>2
    <3> QED
      BY <3>1, <3>4 DEF ReplacesOK
  <2>5. CASE Web
    <3>1. /\ UNCHANGED <<own, step, audit, staged, zip, table>>
          /\ \A r \in Ids : db'[r] = db[r] \/ db'[r] = NoRow
      BY <1>0, <2>5, WebRow DEF ImportVars
    <3>2. \A r \in Ids : Snapshotted(i, r) => Snapshotted(i, r)'
      BY <3>1 DEF Snapshotted
    <3>3. ToUpdate(i)' \subseteq ToUpdate(i)
      BY <3>1 DEF ToUpdate, View, RowsOf
    <3>4. \A r \in ToUpdate(i) : r \in Ids
      BY DEF ToUpdate
    <3> QED
      BY <2>0, <3>1, <3>2, <3>3, <3>4 DEF ReplacesOK
  <2>6. CASE UNCHANGED vars
    BY <2>0, <2>6 DEF vars, ReplacesOK, Snapshotted, ToUpdate, View, RowsOf
  <2>7. CASE Commit(i) \/ Cleanup(i) \/ Fail(i)
    BY <1>0, <1>1, <2>7 DEF Commit, Cleanup, Fail, RollBack, CloseFails, TypeOK, InTransaction
  <2>8. ASSUME NEW j \in Imports, Proceed(j) \/ Fail(j), j # i
        PROVE  FALSE
    <3>1. step'[i] = step[i]
      BY <1>0, <2>8 DEF Proceed, Fail, Start, Match, Snapshot, Load, Commit, Cleanup,
         RollBack, CloseFails, TypeOK
    <3> QED
      BY <1>0, <1>1, <2>8, <3>1, OnlyOneMoves DEF Running
  <2> QED
    BY <2>1, <2>2, <2>3, <2>4, <2>5, <2>6, <2>7, <2>8 DEF Next, Proceed
<1>2. ASSUME NEW i \in Imports, step'[i] \notin InTransaction
      PROVE  ReplacesOK(i)'
  BY <1>2 DEF ReplacesOK, InTransaction
<1> QED
  BY <1>0, <1>1, <1>2 DEF ReplacedInv

\* The commit of an import whose replaced values were audited versions them.
LEMMA CommitVersions ==
  ASSUME IInv, ReplacedInv, NEW i \in Imports, Commit(i), NEW r \in Ids, Replaces(i, r)
  PROVE  Versioned(i, r)
<1> USE ConstantsAssumption
<1>1. /\ TypeOK /\ AuditOK(i, r) /\ ReplacesOK(i) /\ db' = View(i)
      /\ step[i] \in InTransaction /\ db[r] # NoRow /\ db[r].value # db'[r].value
      /\ UpdateVersions(i) \subseteq versions'
  BY DEF IInv, AuditMatchesWrites, ReplacedInv, Commit, Replaces, InTransaction
<1>2. own[i][r] # Clean /\ View(i)[r] = own[i][r]
  BY <1>1 DEF View
<1>3. View(i)[r] # NoRow /\ View(i)[r].value # db[r].value
  BY <1>1, <1>2 DEF TypeOK
<1>4. PICK a \in audit[i] : a.id = r /\ a.event = "update" /\ a.object = db[r].value
  BY <1>1, <1>2 DEF ReplacesOK, Snapshotted
<1>5. \A c \in audit[i] : ~(c.id = r /\ c.event = "create")
  BY <1>1 DEF AuditOK, AuditedAs
<1>6. Version(r, i, "update", db[r].value, View(i)[r].value) \in UpdateVersions(i)
  BY <1>3, <1>4, <1>5 DEF UpdateVersions
<1> QED
  BY <1>1, <1>6 DEF Versioned, Version

\* Where one import runs at a time and no web request edits records meanwhile, each
\* value that an import replaces has an "update" version by it, whatever requests
\* delete and wherever imports fail (audit_updates and create_versions of audit.rb).
THEOREM ImportsAloneVersionWhatTheyReplace ==
  ASSUME Workers = 1, "edit" \notin WebActions
  PROVE  Spec => ImportsAloneAreVersioned
<1>1. Init => ReplacedInv
  BY DEF Init, ReplacedInv, OneRunning, ReplacesOK, Running, InTransaction
<1>2. ASSUME IInv, ReplacedInv, [Next]_vars
      PROVE  [\A i \in Imports, r \in Ids : Replaces(i, r) => Versioned(i, r)]_vars
  <2>1. SUFFICES ASSUME Next, NEW i \in Imports, NEW r \in Ids, Replaces(i, r)
                 PROVE  Versioned(i, r)
    BY <1>2
  <2>2. step[i] = "commit" /\ step'[i] = "cleanup"
    BY <2>1 DEF Replaces
  <2>3. CASE Web
    BY <2>2, <2>3 DEF Web, BeginEdit, Edit, BeginDestroy, Destroy, ImportVars
  <2>4. CASE \E j \in Imports : Proceed(j) \/ Fail(j)
    <3>1. PICK j \in Imports : Proceed(j) \/ Fail(j)
      BY <2>4
    <3>2. j = i
      BY <1>2, <2>2, <3>1, OnlyOneMoves DEF ReplacedInv, Running, InTransaction
    <3>3. Commit(i)
      BY <1>2, <2>2, <3>1, <3>2 DEF Proceed, Fail, Start, Match, Snapshot, Load, Cleanup, RollBack,
         CloseFails, IInv, TypeOK
    <3> QED
      BY <1>2, <2>1, <3>3, CommitVersions
  <2> QED
    BY <2>1, <2>3, <2>4 DEF Next
<1> QED
  BY <1>1, <1>2, StepKeepsReplaced, Invariance, PTL DEF Spec, ImportsAloneAreVersioned
=============================================================================
