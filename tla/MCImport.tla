------------------------------ MODULE MCImport ------------------------------
(* Instances of Import for TLC.                                            *)
EXTENDS Import, TLC

CONSTANTS u1, u2, q, old, new

MCUuids  == {u1, u2, q}
MCValues == {old, new}

Record(u, v) == [table |-> "record", uuid |-> u, value |-> v, from |-> NoUuid, to |-> NoUuid]
Link(u, v)   == [table |-> "relationship", uuid |-> u, value |-> v, from |-> u1, to |-> u2]

\* A file with two records and a relationship that has no uuid; one with a
\* changed record, and a relationship whose second endpoint is not in the file.
MCZips == {<<Record(u1, new), Record(u2, new), Link(NoUuid, old)>>,
           <<Record(u1, old), Link(q, new)>>}

Stored(t, u, from, to) ==
  [table |-> t, uuid |-> u, value |-> old, from |-> from, to |-> to,
   z |-> 0, import |-> NoImport]

Filled(rows) == [r \in Ids |-> IF r \in DOMAIN rows THEN rows[r] ELSE NoRow]

\* Both records and a relationship between them, or nothing stored yet.
MCInitialDbs ==
  {Filled(<<>>),
   Filled(<<Stored("record", u1, NoId, NoId), Stored("record", u2, NoId, NoId),
            Stored("relationship", q, 1, 2)>>)}

ByWeb(event) == {v \in versions : v.by = "web" /\ v.event = event}
Edits     == Cardinality(editing) + Cardinality(ByWeb("update"))
Deletions == Cardinality(deleting) + Cardinality(ByWeb("destroy"))

\* One deletion of a record at a time.
OneDeletion == \A d, e \in deleting' : d.record = e.record => d = e

\* One web request: an edit of a record, or the deletion of the first one.  As
\* long as no import has begun, both.
OneRequest ==
  /\ Edits' <= 1
  /\ OneDeletion /\ \A d \in deleting' : d.record = 1
  /\ (Edits' > 0 /\ Deletions' > 0) => \A i \in Imports : step'[i] = "idle"

Symmetry == Permutations(Imports)
=============================================================================
