------------------------------- MODULE MCMerge -------------------------------
(***************************************************************************)
(* Instances of Merge for TLC: all sessions one after the other, none of   *)
(* which fails; two requests or two jobs that overlap, or a request and a  *)
(* job one after the other, which fail and meet added relationships; and a *)
(* request beside a job.                                                   *)
(***************************************************************************)
EXTENDS Merge, TLC

CONSTANTS a, b, link, media, shown

MCKinds == {link, media, shown}

Named3(n1, n2, n3) == {[id |-> 1, uuid |-> 1, name |-> n1],
                       [id |-> 2, uuid |-> 2, name |-> n2],
                       [id |-> 3, uuid |-> 3, name |-> n3]}
Linked(from, to) == [kind |-> link, primary |-> from, related |-> to, by |-> NoSession]
Media(from, to)  == [kind |-> media, primary |-> from, related |-> to, by |-> NoSession]
Shown(from, to)  == [kind |-> shown, primary |-> from, related |-> to, by |-> NoSession]
HasManifest(r)   == [record |-> r, kind |-> media]

Stored(recs, rels, mans) ==
  [records |-> recs, relationships |-> rels, manifests |-> mans, nextId |-> 4]

\* Three records of which the third is an image of the first.
WithMedia == {Stored(Named3(a, a, b), {Media(1, 3), Linked(2, 3)}, {HasManifest(1)})}

\* Three records, nothing between the two of the same name.
Apart == {Stored(Named3(a, a, b), {Linked(1, 3), Linked(3, 2)}, {})}

\* Records of one name that are related to each other.
Between == {Stored(Named3(a, a, b), {Linked(1, 2), Linked(2, 3)}, {}),
            Stored(Named3(a, a, a), {Linked(1, 2), Linked(2, 2)}, {})}

\* Two records of one name that share an image.
SharedMedia == {Stored(Named3(a, a, b), {Media(1, 3), Media(2, 3)}, {HasManifest(1), HasManifest(2)})}

\* Two records of one name, the older of which has an image: the third record,
\* which is related to it or it to that.
AlikeWithMedia == {Stored(Named3(a, a, b), {Media(1, 3)}, {HasManifest(1)}),
                   Stored(Named3(a, a, b), {Shown(3, 1)}, {[record |-> 1, kind |-> shown]})}

\* Three records of one name.
Alike == {Stored(Named3(a, a, a), {}, {})}

OneByOneFrom == Apart \cup Between \cup Alike \cup AlikeWithMedia \cup SharedMedia
OverlapsFrom == WithMedia \cup Alike

\* A request and a job.
Mixed == {{m, j} : m \in Merges, j \in Jobs}

MCSettings ==
  [tables : OneByOneFrom, sessions : {Sessions}, threads : {1}, beside : {FALSE},
   failures : {FALSE}, added : {{}}] \cup
  [tables : OverlapsFrom, sessions : {Merges, Jobs} \cup Mixed, threads : {2}, beside : {FALSE},
   failures : {TRUE}, added : {{Linked(2, 3)}}] \cup
  [tables : OverlapsFrom, sessions : Mixed, threads : {2}, beside : {TRUE},
   failures : {FALSE}, added : {{}}]

Symmetry == Permutations(Merges) \cup Permutations(Jobs)
=============================================================================
