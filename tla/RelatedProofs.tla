--------------------------- MODULE RelatedProofs ---------------------------
(***************************************************************************)
(* Proofs about RelatedRecords, for any relationships, classes and bounds. *)
(***************************************************************************)
EXTENDS RelatedRecords, FiniteSetTheorems, WellFoundedInduction, TLAPS

USE RelatedAssumption

(***************************************************************************)
(* The inductive invariant: whatever is stored, shown or under way has the *)
(* record of its page at one end, from the side of the relationship, and   *)
(* an id is only ever known on the page of its record.                     *)
(***************************************************************************)
ownType   == IF rel.inverse THEN "related_record_type" ELSE "primary_record_type"
otherType == IF rel.inverse THEN "primary_record_type" ELSE "related_record_type"

Ours(k, p) ==
  /\ DOMAIN k = RelationshipPayload
  /\ k[ownKey] = p /\ k[ownType] = HomeClass /\ k[otherType] = rel.class

Theirs(k) == k[foreignKey(rel)] \in DOMAIN records /\ records[k[foreignKey(rel)]] = "foreign"

Known(id, p) ==
  id = None \/ (id \in Nat /\ id < nextId /\ (id \in DOMAIN rows => rows[id][ownKey] = p))

HomeOK == /\ nextId \in Nat /\ page \in {1, 2, None}
          /\ \A r \in {1, 2} : r \in DOMAIN records /\ records[r] = "home"

RowOK(id) == /\ id \in Nat /\ id < nextId /\ rows[id][ownKey] \in {1, 2}
             /\ Ours(rows[id], rows[id][ownKey]) /\ Theirs(rows[id])

ItemShape(item) == DOMAIN item = {"id", "keys"}

PanelOK ==
  /\ DOMAIN panel = {"phase", "id", "item"} /\ ItemShape(panel.item)
  /\ panel.phase # "none" =>
       page \in {1, 2} /\ Ours(panel.item.keys, page) /\ Known(panel.item.id, page)

RequestOK(q) ==
  /\ DOMAIN q = {"kind", "page", "id", "item", "live", "answer", "status"}
  /\ ItemShape(q.item) /\ ItemShape(q.answer)
  /\ q.page \in {1, 2} /\ Known(q.id, q.page) /\ Known(q.answer.id, q.page)
  /\ q.live => q.page = page
  /\ q.kind = "save" => Ours(q.item.keys, q.page) /\ Theirs(q.item.keys)
  /\ q.kind \in {"list", "load"} =>
       q.page = page /\ Ours(q.item.keys, q.page) /\ Ours(q.answer.keys, q.page)
  /\ q.kind = "list" => q.id = None
  /\ q.kind \in {"list", "load", "save", "delete"}

RInv ==
  /\ HomeOK /\ PanelOK
  /\ \A id \in DOMAIN rows : RowOK(id)
  /\ \A q \in requests : RequestOK(q)

\* The two ends of a relationship are different keys.
LEMMA KeysDiffer ==
  /\ {ownKey, foreignKey(rel), ownType, otherType} \subseteq RelationshipPayload
  /\ ownKey # foreignKey(rel) /\ "order" \notin {ownKey, foreignKey(rel), ownType, otherType}
  /\ {ownKey, foreignKey(rel)} \cap {ownType, otherType} = {} /\ ownType # otherType
  /\ foreignProjectModelId(rel) = "foreign"
BY DEF ownKey, foreignKey, ownType, otherType, RelationshipPayload, foreignProjectModelId,
       primary_model, related_model

\* A new relationship has the record of its page at its own end.
LEMMA RequiredOurs ==
  ASSUME NEW p
  PROVE  Ours(requiredKeys(rel, p), p)
<1>1. CASE rel.inverse
  <2>1. /\ ownKey = "related_record_id" /\ ownType = "related_record_type"
        /\ otherType = "primary_record_type"
    BY <1>1 DEF ownKey, foreignKey, ownType, otherType
  <2>2. QED
    BY <1>1, <2>1 DEF Ours, requiredKeys, RelationshipPayload, model_class, primary_model
<1>2. CASE ~rel.inverse
  <2>1. /\ ownKey = "primary_record_id" /\ ownType = "primary_record_type"
        /\ otherType = "related_record_type"
    BY <1>2 DEF ownKey, foreignKey, ownType, otherType
  <2>2. QED
    BY <1>2, <2>1 DEF Ours, requiredKeys, RelationshipPayload, model_class, related_model
<1>3. QED
  BY <1>1, <1>2

\* Selecting a record that a dropdown offers completes a relationship.
LEMMA SelectedOurs ==
  ASSUME NEW k, NEW p, Ours(k, p), NEW dropdown, NEW r \in Offered(dropdown), NEW order
  PROVE  /\ LET s == [k EXCEPT ![foreignKey(rel)] = r] IN Ours(s, p) /\ Theirs(s)
         /\ LET s == [k EXCEPT ![foreignKey(rel)] = r, !["order"] = order] IN
            Ours(s, p) /\ Theirs(s)
<1>1. r \in DOMAIN records /\ records[r] = "foreign"
  BY KeysDiffer DEF Offered
<1>2. QED
  BY <1>1, KeysDiffer DEF Ours, Theirs

\* A stored row keeps what was not sent.
LEMMA MergedOurs ==
  ASSUME NEW p, NEW old, NEW sent, Ours(old, p), Theirs(old), Ours(sent, p), Theirs(sent)
  PROVE  Ours(Merged(old, sent), p) /\ Theirs(Merged(old, sent))
BY KeysDiffer DEF Ours, Theirs, Merged

\* A set of ids has a smallest one.
LEMMA LessIsWellFounded == IsWellFoundedOn({ss \in Nat \X Nat : ss[1] < ss[2]}, Nat)
BY Zenon, NatLessThanWellFounded DEF OpToRel

LEMMA Smallest ==
  ASSUME NEW ids, ids \subseteq Nat, ids # {}
  PROVE  \E x \in ids : \A y \in ids : x <= y
<1> DEFINE R == {ss \in Nat \X Nat : ss[1] < ss[2]}
<1>1. \E x \in ids : \A y \in ids : ~(<<y, x>> \in R)
  <2> HIDE DEF R
  <2>1. IsWellFoundedOn(R, Nat)
    BY LessIsWellFounded DEF R
  <2>2. QED
    BY <2>1, WFMin
<1>2. PICK x \in ids : \A y \in ids : ~(<<y, x>> \in R)
  BY <1>1
<1>3. \A y \in ids : x <= y
  <2>1. TAKE y \in ids
  <2>2. x \in Nat /\ y \in Nat
    OBVIOUS
  <2>3. ~(y < x)
    BY <1>2, <2>2
  <2>4. QED
    BY <2>2, <2>3
<1>4. QED
  BY <1>3

\* The first relationship of a record is one of its relationships.
LEMMA FirstKnown ==
  ASSUME RInv, NEW p
  PROVE  Known(First(p), p)
<1> DEFINE ids == {id \in DOMAIN rows : rows[id][ownKey] = p}
<1>1. CASE ids = {}
  BY <1>1 DEF First, Known
<1>2. CASE ids # {}
  <2>1. ids \subseteq Nat
    BY DEF RInv, RowOK
  <2>2. \E x \in ids : \A y \in ids : x <= y
    BY <1>2, <2>1, Smallest
  <2>3. First(p) \in ids
    BY <1>2, <2>2 DEF First
  <2>4. QED
    BY <2>3 DEF RInv, RowOK, Known
<1>3. QED
  BY <1>1, <1>2

(***************************************************************************)
(* What a step leaves as it is.                                            *)
(***************************************************************************)
Grows ==
  /\ rel' = rel /\ nextId' \in Nat /\ nextId <= nextId'
  /\ \A id \in DOMAIN rows' :
       id >= nextId \/ (id \in DOMAIN rows /\ rows'[id][ownKey] = rows[id][ownKey])
  /\ \A r \in DOMAIN records : r \in DOMAIN records' /\ records'[r] = records[r]

\* Whatever is known of a relationship stays true while rows come, change and go.
LEMMA Kept ==
  ASSUME RInv, Grows
  PROVE  /\ ownKey' = ownKey
         /\ \A k, p : Ours(k, p) => Ours(k, p)'
         /\ \A k : Theirs(k) => Theirs(k)'
         /\ \A id, p : Known(id, p) => Known(id, p)'
         /\ \A q : RequestOK(q) /\ (page' = page \/ (~q.live /\ q.kind \notin {"list", "load"}))
                 => RequestOK(q)'
<1>1. /\ ownKey' = ownKey /\ ownType' = ownType /\ otherType' = otherType
      /\ foreignKey(rel)' = foreignKey(rel)
  BY DEF Grows, ownKey, ownType, otherType, foreignKey
<1>2. \A k, p : Ours(k, p) => Ours(k, p)'
  BY <1>1 DEF Ours, Grows
<1>3. \A k : Theirs(k) => Theirs(k)'
  BY <1>1 DEF Theirs, Grows
<1>4. \A id, p : Known(id, p) => Known(id, p)'
  BY <1>1 DEF Known, Grows, RInv, HomeOK
<1>5. \A q : RequestOK(q) /\ (page' = page \/ (~q.live /\ q.kind \notin {"list", "load"}))
            => RequestOK(q)'
  BY <1>2, <1>3, <1>4 DEF RequestOK, ItemShape
<1>6. QED
  BY <1>1, <1>2, <1>3, <1>4, <1>5

\* A step that only sends requests and changes the panel.
LEMMA Unstored ==
  ASSUME RInv, UNCHANGED <<rel, rows, records, nextId>>
  PROVE  Grows /\ \A id \in DOMAIN rows : RowOK(id)'
BY DEF RInv, HomeOK, RowOK, Grows, Ours, Theirs, ownKey, ownType, otherType, foreignKey

(***************************************************************************)
(* Steps of the user.                                                      *)
(***************************************************************************)
\* What is sent from a page is for its record.
LEMMA SentForRecord ==
  ASSUME RInv, page \in {1, 2}, NEW kind \in {"save", "delete"}, NEW id, NEW item,
         ItemShape(item), Known(id, page), Known(item.id, page),
         kind = "save" => Ours(item.keys, page) /\ Theirs(item.keys)
  PROVE  RequestOK(Request(kind, id, item))
BY DEF Request, RequestOK

\* A load is for the record of the page.
LEMMA SentLoad ==
  ASSUME RInv, page \in {1, 2}, NEW id, NEW item,
         ItemShape(item), Known(id, page), Known(item.id, page), Ours(item.keys, page)
  PROVE  RequestOK(Request("load", id, item))
BY DEF Request, RequestOK

LEMMA VisitKeeps ==
  ASSUME RInv, NEW p \in {1, 2, None}, Visit(p)
  PROVE  RInv'
<1> DEFINE item == [id |-> None, keys |-> requiredKeys(rel, p)]
<1>1. Grows /\ \A id \in DOMAIN rows : RowOK(id)'
  BY Unstored DEF Visit
<1>2. page' = p /\ rows' = rows /\ page' \in {1, 2, None} /\ rel' = rel
  BY DEF Visit
<1>3. Ours(requiredKeys(rel, p), p)' /\ Known(None, p)'
  <2>1. \A k : Ours(k, p) => Ours(k, p)'
    BY <1>1, Kept
  <2>2. QED
    BY <1>2, <2>1, RequiredOurs DEF Known
<1>4. HomeOK' /\ PanelOK'
  <2>0. HomeOK'
    BY <1>1, <1>2 DEF HomeOK, RInv, Grows
  <2>1. CASE p = None \/ rel.multiple
    <3>1. panel' = [phase |-> IF p = None THEN "none" ELSE "table", id |-> None, item |-> item]
      BY <2>1 DEF Visit
    <3>2. QED
      BY <1>2, <1>3, <2>0, <3>1 DEF PanelOK, ItemShape
  <2>2. CASE ~(p = None \/ rel.multiple)
    <3>1. panel' = [phase |-> "listing", id |-> None, item |-> item]
      BY <2>2 DEF Visit
    <3>2. QED
      BY <1>2, <1>3, <2>0, <2>2, <3>1 DEF PanelOK, ItemShape
  <2>3. QED
    BY <2>0, <2>1, <2>2
<1> DEFINE rest == {[q EXCEPT !.live = FALSE] :
                      q \in {r \in requests : r.kind \in {"save", "delete"}}}
           list == [kind |-> "list", page |-> p, id |-> None, item |-> item, live |-> TRUE,
                    answer |-> item, status |-> "sent"]
<1>5. \A q \in rest : RequestOK(q)'
  <2>1. \A q \in rest : RequestOK(q) /\ ~q.live /\ q.kind \notin {"list", "load"}
    BY DEF RInv, RequestOK
  <2>2. QED
    BY <1>1, <2>1, Kept
<1>6. \/ requests' = rest
      \/ requests' = rest \cup {list} /\ p # None
  BY DEF Visit
<1>7. p # None => RequestOK(list)'
  BY <1>2, <1>3 DEF RequestOK, ItemShape
<1>8. \A q \in requests' : RequestOK(q)'
  <2>1. TAKE q \in requests'
  <2>2. CASE q \in rest
    BY <1>5, <2>2
  <2>3. CASE q = list /\ p # None
    BY <1>2, <1>7, <2>3
  <2>4. QED
    BY <1>6, <2>2, <2>3
<1>9. QED
  <2> HIDE DEF rest
  <2>1. QED
    BY <1>1, <1>2, <1>4, <1>8 DEF RInv

\* A step on a page that sends requests for its record.
LEMMA AskKeeps ==
  ASSUME RInv, UNCHANGED <<rel, page, rows, records, nextId>>, PanelOK',
         \A q \in requests' \ requests : RequestOK(q)
  PROVE  RInv'
<1>1. Grows /\ \A id \in DOMAIN rows : RowOK(id)'
  BY Unstored
<1>2. HomeOK'
  BY <1>1 DEF HomeOK, RInv, Grows
<1>3. \A q \in requests' : RequestOK(q)
  BY DEF RInv
<1>4. \A q \in requests' : RequestOK(q)'
  BY <1>1, <1>3, Kept
<1>5. rows' = rows
  OBVIOUS
<1>6. QED
  BY <1>1, <1>2, <1>4, <1>5 DEF RInv

\* The panel stays, or shows another selection.
LEMMA PanelKept ==
  ASSUME RInv, UNCHANGED <<rel, page, rows, records, nextId>>,
         \/ panel' = panel
         \/ \E keys : panel' = [panel EXCEPT !.item = [panel.item EXCEPT !.keys = keys]]
                     /\ Ours(keys, page)
  PROVE  PanelOK'
<1>1. Grows /\ page' = page
  BY Unstored
<1>2. /\ \A k, p : Ours(k, p) => Ours(k, p)'
      /\ \A id, p : Known(id, p) => Known(id, p)'
  BY <1>1, Kept
<1>3. QED
  BY <1>1, <1>2 DEF RInv, PanelOK, ItemShape

LEMMA SelectionKeeps ==
  ASSUME RInv, panel.phase # "none", UNCHANGED <<rel, page, rows, records, nextId>>,
         NEW keys, Ours(keys, page), Theirs(keys), onSelection(keys)
  PROVE  RInv'
<1> DEFINE item == [panel.item EXCEPT !.keys = keys]
<1>1. /\ panel' = [panel EXCEPT !.item = item]
      /\ requests' = requests \cup {Request("save", item.id, item)}
  BY DEF onSelection
<1>2. PanelOK'
  BY <1>1, PanelKept
<1>3. ItemShape(item) /\ item.keys = keys /\ item.id = panel.item.id
  BY DEF RInv, PanelOK, ItemShape
<1>4. page \in {1, 2} /\ Known(panel.item.id, page)
  BY DEF RInv, PanelOK
<1>5. RequestOK(Request("save", item.id, item))
  BY <1>3, <1>4, SentForRecord
<1>6. QED
  BY <1>1, <1>2, <1>5, AskKeeps

LEMMA SelectKeeps ==
  ASSUME RInv, NEW r, Select(r)
  PROVE  RInv'
<1> DEFINE dropdown == ProjectModelRelationshipFactory(rel.class, Shown).dropdown
           keys     == [panel.item.keys EXCEPT ![foreignKey(rel)] = r]
<1>1. panel.phase # "none" /\ Ours(panel.item.keys, page)
  BY DEF Select, InPanel, RInv, PanelOK
<1>2. r \in Offered(dropdown) /\ onSelection(keys)
  BY DEF Select
<1>3. Ours(keys, page) /\ Theirs(keys)
  BY <1>1, <1>2, SelectedOurs
<1>4. QED
  BY <1>1, <1>2, <1>3, SelectionKeeps DEF Select

LEMMA SelectInModalKeeps ==
  ASSUME RInv, NEW r, NEW order, SelectInModal(r, order)
  PROVE  RInv'
<1> DEFINE dropdown == ProjectModelRelationshipsFactory(rel.class).dropdown
           old      == IF panel.item.id = None THEN panel.item.keys ELSE rows[panel.item.id]
           keys     == [old EXCEPT ![foreignKey(rel)] = r, !["order"] = order]
<1>1. panel.phase # "none" /\ Ours(panel.item.keys, page) /\ Known(panel.item.id, page)
  BY DEF SelectInModal, InPanel, RInv, PanelOK
<1>2. r \in Offered(dropdown) /\ onSelection(keys)
  BY DEF SelectInModal
<1>3. Ours(old, page)
  BY <1>1 DEF SelectInModal, RInv, RowOK, Known
<1>4. Ours(keys, page) /\ Theirs(keys)
  BY <1>2, <1>3, SelectedOurs
<1>5. QED
  BY <1>1, <1>2, <1>4, SelectionKeeps DEF SelectInModal

LEMMA ClearKeeps ==
  ASSUME RInv, Clear
  PROVE  RInv'
<1>1. /\ page \in {1, 2} /\ Known(panel.item.id, page) /\ ItemShape(panel.item)
  BY DEF Clear, InPanel, RInv, PanelOK
<1>2. PanelOK'
  BY PanelKept DEF Clear
<1>3. RequestOK(Request("delete", panel.item.id, panel.item))
  BY <1>1, SentForRecord
<1>4. requests' = requests \cup {Request("delete", panel.item.id, panel.item)}
  BY DEF Clear
<1>5. QED
  BY <1>2, <1>3, <1>4, AskKeeps DEF Clear

\* A record that is created changes no other.
LEMMA CreateRecordKeeps ==
  ASSUME RInv, CreateRecord
  PROVE  RInv'
<1>1. /\ UNCHANGED <<rel, page, panel, rows, requests, nextId>>
      /\ \A r \in DOMAIN records : r \in DOMAIN records' /\ records'[r] = records[r]
  BY DEF CreateRecord
<1>2. Grows
  BY <1>1 DEF Grows, RInv, HomeOK, RowOK, ownKey, foreignKey
<1>3. HomeOK'
  BY <1>1, <1>2 DEF HomeOK, RInv, Grows
<1>4. /\ \A k, p : Ours(k, p) => Ours(k, p)'
      /\ \A k : Theirs(k) => Theirs(k)'
      /\ \A id, p : Known(id, p) => Known(id, p)'
      /\ ownKey' = ownKey
      /\ \A q : RequestOK(q) => RequestOK(q)'
  BY <1>1, <1>2, Kept
<1>5. PanelOK'
  BY <1>1, <1>4 DEF RInv, PanelOK, ItemShape
<1>6. \A id \in DOMAIN rows' : RowOK(id)'
  BY <1>1, <1>4 DEF RInv, RowOK
<1>7. \A q \in requests' : RequestOK(q)'
  BY <1>1, <1>4 DEF RInv
<1>8. QED
  BY <1>3, <1>5, <1>6, <1>7 DEF RInv

LEMMA SubmitModalKeeps ==
  ASSUME RInv, NEW id, NEW r, NEW order, SubmitModal(id, r, order)
  PROVE  RInv'
<1> DEFINE dropdown == ProjectModelRelationshipsFactory(rel.class).dropdown
           old      == IF id = None THEN requiredKeys(rel, page) ELSE rows[id]
           keys     == [old EXCEPT ![foreignKey(rel)] = r, !["order"] = order]
           item     == [id |-> id, keys |-> keys]
<1>1. page \in {1, 2} /\ Known(id, page) /\ (id # None => id \in DOMAIN rows)
  BY DEF SubmitModal, RInv, PanelOK, RowOK, Known
<1>2. r \in Offered(dropdown) /\ requests' = requests \cup {Request("save", id, item)}
  BY DEF SubmitModal
<1>3. Ours(old, page)
  BY <1>1, RequiredOurs DEF SubmitModal, RInv, RowOK
<1>4. Ours(keys, page) /\ Theirs(keys)
  BY <1>2, <1>3, SelectedOurs
<1>5. ItemShape(item) /\ item.id = id /\ item.keys = keys
  BY DEF ItemShape
<1>6. RequestOK(Request("save", id, item))
  <2> HIDE DEF item, keys
  <2>1. QED
    BY <1>1, <1>4, <1>5, SentForRecord
<1>7. PanelOK'
  BY PanelKept DEF SubmitModal
<1>8. QED
  BY <1>2, <1>6, <1>7, AskKeeps DEF SubmitModal

LEMMA DeleteRowKeeps ==
  ASSUME RInv, NEW id, DeleteRow(id)
  PROVE  RInv'
<1> DEFINE item == [id |-> id, keys |-> rows[id]]
<1>1. page \in {1, 2} /\ Known(id, page) /\ ItemShape(item) /\ item.id = id
  BY DEF DeleteRow, RInv, PanelOK, RowOK, Known, ItemShape
<1>2. RequestOK(Request("delete", id, item))
  BY <1>1, SentForRecord
<1>3. requests' = requests \cup {Request("delete", id, item)}
  BY DEF DeleteRow
<1>4. PanelOK'
  BY PanelKept DEF DeleteRow
<1>5. QED
  BY <1>2, <1>3, <1>4, AskKeeps DEF DeleteRow

(***************************************************************************)
(* Steps of the API.                                                       *)
(***************************************************************************)
\* An answer is for the record of its request.
LEMMA AnswerOK ==
  ASSUME NEW q, RequestOK(q), NEW status, NEW item, ItemShape(item), Known(item.id, q.page),
         q.kind \in {"list", "load"} => Ours(item.keys, q.page)
  PROVE  RequestOK([q EXCEPT !.status = status, !.answer = item])
BY DEF RequestOK

\* What the API leaves alone, when the rows it stores are in order.
LEMMA ServeKeeps ==
  ASSUME RInv, NEW q \in requests, NEW status, NEW item, Answered(q, status, item),
         UNCHANGED <<rel, page, panel, records>>, Grows,
         \A id \in DOMAIN rows' : RowOK(id)',
         RequestOK([q EXCEPT !.status = status, !.answer = item])'
  PROVE  RInv'
<1>1. HomeOK'
  BY DEF HomeOK, RInv, Grows
<1>2. /\ \A k, p : Ours(k, p) => Ours(k, p)'
      /\ \A id, p : Known(id, p) => Known(id, p)'
      /\ \A r : RequestOK(r) => RequestOK(r)'
  BY Kept
<1>3. PanelOK'
  BY <1>2 DEF RInv, PanelOK, ItemShape
<1>4. \A r \in requests' : RequestOK(r)'
  BY <1>2 DEF Answered, RInv
<1>5. QED
  BY <1>1, <1>3, <1>4 DEF RInv

ServeRest == UNCHANGED <<rel, page, panel, records, smooth, acts>>

LEMMA ServeListKeeps ==
  ASSUME RInv, NEW q \in requests, ServeList(q), ServeRest
  PROVE  RInv'
<1> DEFINE item == [q.item EXCEPT !.id = First(q.page)]
<1>1. PICK status \in Statuses : Answered(q, status, item)
  BY DEF ServeList
<1>2. UNCHANGED <<rel, page, panel, rows, records, nextId>>
  BY DEF ServeList, ServeRest
<1>3. Grows /\ \A id \in DOMAIN rows' : RowOK(id)'
  BY <1>2, Unstored
<1>4. RequestOK(q) /\ q.kind = "list" /\ Known(First(q.page), q.page)
  BY FirstKnown DEF RInv, ServeList
<1>5. item.id = First(q.page) /\ item.keys = q.item.keys /\ ItemShape(item)
  BY <1>4 DEF RequestOK, ItemShape
<1>6. Ours(item.keys, q.page)
  BY <1>4, <1>5 DEF RequestOK
<1>7. RequestOK([q EXCEPT !.status = status, !.answer = item])
  <2> HIDE DEF item
  <2>1. QED
    BY <1>4, <1>5, <1>6, AnswerOK
<1>8. PICK a : a = [q EXCEPT !.status = status, !.answer = item]
  OBVIOUS
<1>9. RequestOK(a)'
  BY <1>2, <1>3, <1>7, <1>8, Kept
<1>10. PICK i : i = item
  OBVIOUS
<1>11. QED
  <2> HIDE DEF item
  <2>1. Answered(q, status, i) /\ RequestOK([q EXCEPT !.status = status, !.answer = i])'
    BY <1>1, <1>8, <1>9, <1>10
  <2>2. QED
    BY <1>2, <1>3, <2>1, ServeKeeps

LEMMA ServeCreateKeeps ==
  ASSUME RInv, NEW q \in requests, ServeCreate(q), ServeRest
  PROVE  RInv'
<1>1. PICK status, i :
        status \in Statuses /\ i = [id |-> nextId, keys |-> q.item.keys] /\ Answered(q, status, i)
  BY DEF ServeCreate
<1>2. UNCHANGED <<rel, page, panel, records>>
  BY DEF ServeRest
<1>3. /\ RequestOK(q) /\ q.kind = "save" /\ nextId' = nextId + 1 /\ nextId \in Nat
      /\ rows' = [id \in DOMAIN rows \cup {nextId} |->
                    IF id = nextId THEN q.item.keys ELSE rows[id]]
  BY DEF ServeCreate, RInv, HomeOK
<1>4. Grows
  BY <1>2, <1>3 DEF Grows, RInv, RowOK
<1>5. Ours(q.item.keys, q.page) /\ Theirs(q.item.keys) /\ q.page \in {1, 2}
  BY <1>3 DEF RequestOK
<1>6. /\ ownKey' = ownKey
      /\ \A k, p : Ours(k, p) => Ours(k, p)'
      /\ \A k : Theirs(k) => Theirs(k)'
      /\ \A r : RequestOK(r) => RequestOK(r)'
  BY <1>2, <1>4, Kept
<1>7. \A id \in DOMAIN rows' : RowOK(id)'
  <2>1. TAKE id \in DOMAIN rows'
  <2>2. CASE id = nextId
    BY <1>3, <1>5, <1>6, <2>2 DEF RowOK, Ours
  <2>3. CASE id # nextId
    <3>1. id \in DOMAIN rows /\ rows'[id] = rows[id]
      BY <1>3, <2>3
    <3>2. RowOK(id)
      BY <3>1 DEF RInv
    <3>3. QED
      BY <1>3, <1>6, <3>1, <3>2 DEF RowOK
  <2>4. QED
    BY <2>2, <2>3
<1>8. RequestOK([q EXCEPT !.status = status, !.answer = i])'
  <2>1. PICK n : n = nextId
    OBVIOUS
  <2>2. Known(n, q.page)'
    <3>1. rows'[n][ownKey'] = q.page
      BY <1>3, <1>5, <1>6, <2>1 DEF Ours
    <3>2. QED
      BY <1>3, <2>1, <3>1 DEF Known
  <2>3. RequestOK(q)' /\ ItemShape(i) /\ i.id = n
    BY <1>1, <1>3, <1>6, <2>1 DEF ItemShape
  <2>4. QED
    BY <1>3, <2>2, <2>3 DEF RequestOK, ItemShape
<1>9. QED
  BY <1>1, <1>2, <1>4, <1>7, <1>8, ServeKeeps

\* What a request for a stored relationship does to it.
LEMMA StoredRows ==
  ASSUME RInv, NEW q \in requests, ServeStored(q)
  PROVE  /\ q.kind \in {"load", "save", "delete"} /\ rows[q.id][ownKey] = q.page
         /\ Ours(rows[q.id], q.page) /\ Theirs(rows[q.id])
         /\ DOMAIN rows' \subseteq DOMAIN rows
         /\ \A id \in DOMAIN rows' : id # q.id => rows'[id] = rows[id]
         /\ q.kind = "load" => rows' = rows
         /\ q.id \in DOMAIN rows' =>
              /\ rows'[q.id][ownKey] = q.page
              /\ Ours(rows'[q.id], q.page) /\ Theirs(rows'[q.id])
<1>1. RequestOK(q) /\ RowOK(q.id) /\ q.id \in DOMAIN rows
  BY DEF ServeStored, RInv
<1>2. q.kind \in {"load", "save", "delete"} /\ rows[q.id][ownKey] = q.page
  BY <1>1 DEF RequestOK, RowOK, Known
<1>3. Ours(rows[q.id], q.page) /\ Theirs(rows[q.id])
  BY <1>1, <1>2 DEF RowOK
<1>4. CASE q.kind = "load"
  <2>1. rows' = rows
    BY <1>4 DEF ServeStored
  <2>2. QED
    BY <1>2, <1>3, <2>1
<1>5. CASE q.kind = "save"
  <2>1. rows' = [rows EXCEPT ![q.id] = Merged(rows[q.id], q.item.keys)]
    BY <1>5 DEF ServeStored
  <2>2. Ours(q.item.keys, q.page) /\ Theirs(q.item.keys)
    BY <1>1, <1>5 DEF RequestOK
  <2>3. Ours(Merged(rows[q.id], q.item.keys), q.page) /\ Theirs(Merged(rows[q.id], q.item.keys))
    BY <1>3, <2>2, MergedOurs
  <2>4. Merged(rows[q.id], q.item.keys)[ownKey] = q.page
    BY <2>3 DEF Ours
  <2>5. /\ DOMAIN rows' = DOMAIN rows /\ rows'[q.id] = Merged(rows[q.id], q.item.keys)
        /\ \A id \in DOMAIN rows' : id # q.id => rows'[id] = rows[id]
    BY <1>1, <2>1
  <2>6. QED
    BY <1>2, <1>3, <1>5, <2>3, <2>4, <2>5
<1>6. CASE q.kind = "delete"
  <2>1. rows' = [id \in DOMAIN rows \ {q.id} |-> rows[id]]
    BY <1>6 DEF ServeStored
  <2>2. QED
    BY <1>2, <1>3, <1>6, <2>1
<1>7. QED
  BY <1>2, <1>4, <1>5, <1>6

LEMMA ServeStoredKeeps ==
  ASSUME RInv, NEW q \in requests, ServeStored(q), ServeRest
  PROVE  RInv'
<1>1. PICK status, i :
        status \in Statuses /\ i = [id |-> q.id, keys |-> rows[q.id]] /\ Answered(q, status, i)
  BY DEF ServeStored
<1>2. UNCHANGED <<rel, page, panel, records, nextId>>
  BY DEF ServeStored, ServeRest
<1>3. Grows
  BY <1>2, StoredRows DEF Grows, RInv, HomeOK
<1>4. /\ ownKey' = ownKey
      /\ \A k, p : Ours(k, p) => Ours(k, p)'
      /\ \A k : Theirs(k) => Theirs(k)'
      /\ \A r : RequestOK(r) => RequestOK(r)'
  BY <1>2, <1>3, Kept
<1>5. \A id \in DOMAIN rows' : RowOK(id)'
  <2>1. TAKE id \in DOMAIN rows'
  <2>2. id \in DOMAIN rows /\ RowOK(id)
    BY StoredRows DEF RInv
  <2>3. CASE id = q.id
    <3>1. RequestOK(q)
      BY DEF RInv
    <3>2. q.page \in {1, 2}
      BY <3>1 DEF RequestOK
    <3>3. QED
      BY <1>2, <1>4, <2>2, <2>3, <3>2, StoredRows DEF RowOK
  <2>4. CASE id # q.id
    <3>1. rows'[id] = rows[id]
      BY <2>4, StoredRows
    <3>2. QED
      BY <1>2, <1>4, <2>2, <3>1 DEF RowOK
  <2>5. QED
    BY <2>3, <2>4
<1>6. RequestOK([q EXCEPT !.status = status, !.answer = i])
  <2>1. RequestOK(q) /\ Known(q.id, q.page) /\ Ours(rows[q.id], q.page)
    BY StoredRows DEF RInv, RequestOK
  <2>2. ItemShape(i) /\ i.id = q.id /\ i.keys = rows[q.id]
    BY <1>1 DEF ItemShape
  <2>3. QED
    BY <2>1, <2>2, AnswerOK
<1>7. PICK a : a = [q EXCEPT !.status = status, !.answer = i]
  OBVIOUS
<1>8. RequestOK([q EXCEPT !.status = status, !.answer = i])'
  BY <1>4, <1>6, <1>7
<1>9. QED
  BY <1>1, <1>2, <1>3, <1>5, <1>8, ServeKeeps

(***************************************************************************)
(* Answers that arrive.                                                    *)
(***************************************************************************)
ReplyRest == UNCHANGED <<rel, page, rows, records, nextId, acts>>

LEMMA MountKeeps ==
  ASSUME RInv, ReplyRest, page \in {1, 2}, NEW id, Known(id, page),
         NEW rest, rest \subseteq requests, MountPanel(id, rest)
  PROVE  RInv'
<1>1. Ours(requiredKeys(rel, page), page) /\ Known(None, page)
  BY RequiredOurs DEF Known
<1>2. PICK item : item = [New EXCEPT !.id = id]
  OBVIOUS
<1>3. item.id = id /\ item.keys = requiredKeys(rel, page) /\ ItemShape(item)
  BY <1>2 DEF New, ItemShape
<1>4. ItemShape(New) /\ New.id = None /\ New.keys = requiredKeys(rel, page)
  BY DEF New, ItemShape
<1>5. Grows /\ rel' = rel /\ page' = page
  BY Unstored DEF ReplyRest
<1>6. /\ \A k, p : Ours(k, p) => Ours(k, p)'
      /\ \A i, p : Known(i, p) => Known(i, p)'
  BY <1>5, Kept
<1>7. CASE id = None
  <2>1. panel' = [phase |-> "ready", id |-> None, item |-> New] /\ requests' = rest
    BY <1>7 DEF MountPanel
  <2>2. PanelOK'
    BY <1>1, <1>4, <1>5, <1>6, <2>1 DEF PanelOK, ItemShape
  <2>3. QED
    BY <2>1, <2>2, AskKeeps DEF ReplyRest
<1>8. CASE id # None
  <2>1. /\ panel' = [phase |-> "loading", id |-> id, item |-> item]
        /\ requests' = {q \in rest : q.kind # "load"} \cup {Request("load", id, item)}
    BY <1>2, <1>8 DEF MountPanel
  <2>2. PanelOK'
    BY <1>1, <1>3, <1>5, <1>6, <2>1 DEF PanelOK, ItemShape
  <2>3. RequestOK(Request("load", id, item))
    BY <1>1, <1>3, SentLoad
  <2>4. QED
    BY <2>1, <2>2, <2>3, AskKeeps DEF ReplyRest
<1>9. QED
  BY <1>7, <1>8

LEMMA ReplyKeeps ==
  ASSUME RInv, NEW q \in requests, Reply(q)
  PROVE  RInv'
<1>1. RequestOK(q) /\ ReplyRest
  BY DEF RInv, Reply, ReplyRest
<1>2. requests \ {q} \subseteq requests
  OBVIOUS
<1>3. CASE ListReply(q)
  <2>1. MountPanel(q.answer.id, requests \ {q}) /\ q.page = page
    BY <1>1, <1>3 DEF ListReply, RequestOK
  <2>2. QED
    BY <1>1, <1>2, <2>1, MountKeeps DEF RequestOK
<1>4. CASE LoadReply(q)
  <2>1. /\ panel' = [panel EXCEPT !.phase = "ready", !.item = q.answer] /\ q.page = page
        /\ requests' = requests \ {q} /\ Ours(q.answer.keys, page)
    BY <1>1, <1>4 DEF LoadReply, RequestOK
  <2>2. Grows /\ page' = page
    BY <1>1, Unstored DEF ReplyRest
  <2>3. Ours(q.answer.keys, page)' /\ Known(q.answer.id, page)'
    <3>1. PICK k, i : k = q.answer.keys /\ i = q.answer.id
      OBVIOUS
    <3>2. Ours(k, page) /\ Known(i, page)
      BY <1>1, <2>1, <3>1 DEF RequestOK
    <3>3. QED
      BY <2>2, <3>1, <3>2, Kept
  <2>4. PanelOK'
    BY <1>1, <2>1, <2>2, <2>3 DEF PanelOK, RequestOK, RInv
  <2>5. QED
    BY <1>1, <2>1, <2>4, AskKeeps DEF ReplyRest
<1>5. CASE SaveReply(q)
  <2>1. CASE q.live /\ InPanel /\ panel.id # q.answer.id
    <3>1. MountPanel(q.answer.id, requests \ {q}) /\ q.page = page
      BY <1>1, <1>5, <2>1 DEF SaveReply, RequestOK
    <3>2. QED
      BY <1>1, <1>2, <3>1, MountKeeps DEF RequestOK
  <2>2. CASE ~(q.live /\ InPanel /\ panel.id # q.answer.id)
    <3>1. requests' = requests \ {q} /\ panel' = panel
      BY <1>5, <2>2 DEF SaveReply
    <3>2. PanelOK'
      BY <1>1, <3>1, PanelKept DEF ReplyRest
    <3>3. QED
      BY <1>1, <3>1, <3>2, AskKeeps DEF ReplyRest
  <2>3. QED
    BY <2>1, <2>2
<1>6. CASE DeleteReply(q)
  <2>1. requests' = requests \ {q} /\ panel' = panel
    BY <1>6 DEF DeleteReply
  <2>2. PanelOK'
    BY <1>1, <2>1, PanelKept DEF ReplyRest
  <2>3. QED
    BY <1>1, <2>1, <2>2, AskKeeps DEF ReplyRest
<1>7. CASE Fail(q)
  <2>1. CASE q.kind = "list"
    <3>1. MountPanel(None, requests \ {q}) /\ page \in {1, 2} /\ Known(None, page)
      BY <1>1, <1>7, <2>1 DEF Fail, RequestOK, Known
    <3>2. QED
      BY <1>1, <1>2, <3>1, MountKeeps
  <2>2. CASE q.kind # "list"
    <3>1. requests' = requests \ {q} /\ panel' = panel
      BY <1>7, <2>2 DEF Fail
    <3>2. PanelOK'
      BY <1>1, <3>1, PanelKept DEF ReplyRest
    <3>3. QED
      BY <1>1, <3>1, <3>2, AskKeeps DEF ReplyRest
  <2>3. QED
    BY <2>1, <2>2
<1>8. QED
  BY <1>3, <1>4, <1>5, <1>6, <1>7 DEF Reply

(***************************************************************************)
(* The theorems.                                                           *)
(***************************************************************************)
LEMMA InitOK ==
  ASSUME RelatedInit
  PROVE  RInv
<1>1. HomeOK /\ page = None /\ nextId = 2
  BY DEF RelatedInit, HomeOK
<1>2. PanelOK
  BY DEF RelatedInit, PanelOK, ItemShape
<1>3. requests = {}
  BY DEF RelatedInit
<1>4. \A id \in DOMAIN rows : id = 1 /\ rows[id] = StoredRow
  BY DEF RelatedInit
<1>5. records = [r \in 1..4 |-> IF r \in {1, 2} THEN "home" ELSE "foreign"]
  BY DEF RelatedInit
<1>6. StoredRow[ownKey] = 1 /\ Ours(StoredRow, 1) /\ StoredRow[foreignKey(rel)] = 3
  <2>1. CASE rel.inverse
    BY <2>1 DEF StoredRow, Ours, RelationshipPayload, ownKey, ownType, otherType, foreignKey
  <2>2. CASE ~rel.inverse
    BY <2>2 DEF StoredRow, Ours, RelationshipPayload, ownKey, ownType, otherType, foreignKey
  <2>3. QED
    BY <2>1, <2>2
<1>7. Theirs(StoredRow)
  BY <1>5, <1>6 DEF Theirs
<1>8. \A id \in DOMAIN rows : RowOK(id)
  BY <1>1, <1>4, <1>6, <1>7 DEF RowOK
<1>9. QED
  BY <1>1, <1>2, <1>3, <1>8 DEF RInv

LEMMA ServeStepKeeps ==
  ASSUME RInv, NEW q \in requests, Serve(q)
  PROVE  RInv'
BY ServeListKeeps, ServeCreateKeeps, ServeStoredKeeps DEF Serve, ServeRest

LEMMA StepKeeps ==
  ASSUME RInv, [RelatedNext]_relatedVars
  PROVE  RInv'
<1>1. CASE UNCHANGED relatedVars
  BY <1>1 DEF relatedVars, RInv, HomeOK, PanelOK, RowOK, RequestOK, Ours, Theirs, Known, ItemShape,
              ownKey, ownType, otherType, foreignKey
<1>2. CASE RelatedUser
  BY <1>2, VisitKeeps, SelectKeeps, SelectInModalKeeps, ClearKeeps, CreateRecordKeeps,
     SubmitModalKeeps, DeleteRowKeeps DEF RelatedUser
<1>3. CASE \E q \in requests : Serve(q) \/ Reply(q)
  BY <1>3, ServeStepKeeps, ReplyKeeps
<1>4. QED
  BY <1>1, <1>2, <1>3 DEF RelatedNext

LEMMA AlwaysRInv == RelatedSpec => []RInv
<1>1. RelatedInit => RInv
  BY InitOK
<1>2. RInv /\ [RelatedNext]_relatedVars => RInv'
  BY StepKeeps
<1>3. QED
  BY <1>1, <1>2, PTL DEF RelatedSpec

\* Every stored relationship joins a record of the page's model to one of the
\* model at the other end, each at its own side and with its own class, for all
\* relationships, both directions and any number of records, acts and requests
\* (useRelationship, initializeRelated, RelationshipsController).
THEOREM StoredRowsJoinTheModels == RelatedSpec => []RowsJoinTheModels
<1>1. RInv => RowsJoinTheModels
  <2>1. SUFFICES ASSUME RInv, NEW id \in DOMAIN rows
                 PROVE  LET row == rows[id]
                            Joins(record, type, model) ==
                              /\ row[record] \in DOMAIN records /\ records[row[record]] = model
                              /\ row[type] = model_class(rel, model) IN
                        /\ Joins("primary_record_id", "primary_record_type", primary_model(rel))
                        /\ Joins("related_record_id", "related_record_type", related_model(rel))
    BY DEF RowsJoinTheModels
  <2>2. /\ rows[id][ownKey] \in DOMAIN records /\ records[rows[id][ownKey]] = "home"
        /\ rows[id][ownType] = HomeClass /\ rows[id][otherType] = rel.class
        /\ rows[id][foreignKey(rel)] \in DOMAIN records
        /\ records[rows[id][foreignKey(rel)]] = "foreign"
    BY <2>1 DEF RInv, HomeOK, RowOK, Ours, Theirs
  <2>3. CASE rel.inverse
    BY <2>2, <2>3 DEF ownKey, ownType, otherType, foreignKey, primary_model, related_model, model_class
  <2>4. CASE ~rel.inverse
    BY <2>2, <2>4 DEF ownKey, ownType, otherType, foreignKey, primary_model, related_model, model_class
  <2>5. QED
    BY <2>3, <2>4
<1>2. QED
  BY <1>1, AlwaysRInv, PTL

\* What is stored of a relationship.
Row(id, stored) == IF id \in DOMAIN stored THEN stored[id] ELSE None

ChangesForTheirRecord ==
  \A id \in DOMAIN rows \cup DOMAIN rows' :
    Row(id, rows) # Row(id, rows') =>
      \E q \in requests \ requests' :
        \A r \in {rows, rows'} : id \in DOMAIN r => r[id][ownKey] = q.page

\* A request that is answered is no longer waiting.
LEMMA Taken ==
  ASSUME RInv, NEW q \in requests, Serve(q)
  PROVE  q \in requests \ requests'
<1>1. PICK status, item : status \in {"ok", "lost"} /\ Answered(q, status, item)
  BY DEF Serve, ServeList, ServeCreate, ServeStored, Statuses
<1>2. q.status = "sent" /\ [q EXCEPT !.status = status, !.answer = item].status = status
  BY DEF Serve, RInv, RequestOK
<1>3. q # [q EXCEPT !.status = status, !.answer = item]
  BY <1>1, <1>2
<1>4. QED
  BY <1>1, <1>3 DEF Answered

LEMMA ServeChanges ==
  ASSUME RInv, NEW q \in requests, Serve(q)
  PROVE  ChangesForTheirRecord
<1>1. SUFFICES ASSUME NEW id \in DOMAIN rows \cup DOMAIN rows', Row(id, rows) # Row(id, rows')
               PROVE  \A r \in {rows, rows'} : id \in DOMAIN r => r[id][ownKey] = q.page
  BY Taken DEF ChangesForTheirRecord
<1>2. CASE ServeList(q)
  BY <1>1, <1>2 DEF ServeList
<1>3. CASE ServeCreate(q)
  <2>1. rows' = [i \in DOMAIN rows \cup {nextId} |-> IF i = nextId THEN q.item.keys ELSE rows[i]]
    BY <1>3 DEF ServeCreate
  <2>2. id = nextId
    BY <1>1, <2>1 DEF Row
  <2>3. id \notin DOMAIN rows
    BY <2>2 DEF RInv, RowOK
  <2>4. RequestOK(q) /\ q.kind = "save"
    BY <1>3 DEF RInv, ServeCreate
  <2>5. rows'[id][ownKey] = q.page
    BY <2>1, <2>2, <2>4 DEF RequestOK, Ours
  <2>6. QED
    BY <2>3, <2>5
<1>4. CASE ServeStored(q)
  <2>1. id = q.id
    <3>1. CASE q.kind = "delete"
      <4>1. rows' = [i \in DOMAIN rows \ {q.id} |-> rows[i]]
        BY <1>4, <3>1 DEF ServeStored
      <4>2. QED
        BY <1>1, <4>1 DEF Row
    <3>2. CASE q.kind = "save"
      <4>1. rows' = [rows EXCEPT ![q.id] = Merged(rows[q.id], q.item.keys)]
        BY <1>4, <3>2 DEF ServeStored
      <4>2. QED
        BY <1>1, <4>1 DEF Row
    <3>3. CASE q.kind = "load"
      <4>1. rows' = rows
        BY <1>4, <3>3, StoredRows
      <4>2. QED
        BY <1>1, <4>1
    <3>4. QED
      BY <1>4, <3>1, <3>2, <3>3, StoredRows
  <2>2. QED
    BY <1>4, <2>1, StoredRows
<1>5. QED
  BY <1>2, <1>3, <1>4 DEF Serve

LEMMA StepChanges ==
  ASSUME RInv, [RelatedNext]_relatedVars
  PROVE  [ChangesForTheirRecord]_relatedVars
<1>1. CASE rows' = rows
  BY <1>1 DEF ChangesForTheirRecord
<1>2. ASSUME NEW q \in requests, Serve(q)
      PROVE  ChangesForTheirRecord
  BY <1>2, ServeChanges
<1>3. ASSUME NEW q \in requests, Reply(q)
      PROVE  rows' = rows
  BY <1>3 DEF Reply
<1>4. CASE RelatedUser
  BY <1>1, <1>4 DEF RelatedUser, Visit, Select, SelectInModal, Clear, CreateRecord, SubmitModal,
                    DeleteRow
<1>5. QED
  BY <1>1, <1>2, <1>3, <1>4 DEF RelatedNext, relatedVars

\* Only what was done on the page of a record makes, changes or removes a
\* relationship of that record, however late it gets to the server, for every
\* interleaving of visits, saves, deletions and answers that are lost.
THEOREM RowsChangeOnTheirPage == RelatedSpec => RowsChangeForTheirRecord
<1>1. [ChangesForTheirRecord]_relatedVars =>
        [\A id \in DOMAIN rows \cup DOMAIN rows' :
           LET row(r) == IF id \in DOMAIN r THEN r[id] ELSE None IN
           row(rows) # row(rows') =>
             \E q \in requests \ requests' :
               \A r \in {rows, rows'} : id \in DOMAIN r => r[id][ownKey] = q.page]_relatedVars
  BY DEF ChangesForTheirRecord, Row
<1>2. QED
  BY <1>1, StepChanges, AlwaysRInv, PTL DEF RelatedSpec, RowsChangeForTheirRecord

(***************************************************************************)
(* Types: the keys of whatever is stored, shown or under way.              *)
(***************************************************************************)
TInv ==
  /\ RelatedTypeOK
  /\ nextId \in Nat \ {0} /\ acts \in Nat
  /\ \E n \in Nat : DOMAIN records = 1..n
  /\ \A q \in requests : q.item.keys \in Keys /\ q.answer.keys \in Keys

LEMMA RequiredKeys ==
  ASSUME NEW p \in Nat \cup {None}
  PROVE  requiredKeys(rel, p) \in Keys
<1>1. model_class(rel, "home") = HomeClass /\ model_class(rel, "foreign") = rel.class
  BY DEF model_class
<1>2. CASE rel.inverse
  BY <1>1, <1>2 DEF Keys, requiredKeys, RelationshipPayload, primary_model
<1>3. CASE ~rel.inverse
  BY <1>1, <1>3 DEF Keys, requiredKeys, RelationshipPayload, related_model
<1>4. QED
  BY <1>2, <1>3

LEMMA SelectedKeys ==
  ASSUME NEW k \in Keys, NEW r \in Nat, NEW order \in Nat
  PROVE  /\ [k EXCEPT ![foreignKey(rel)] = r] \in Keys
         /\ [k EXCEPT ![foreignKey(rel)] = r, !["order"] = order] \in Keys
<1>1. foreignKey(rel) \in {"primary_record_id", "related_record_id"}
  BY DEF foreignKey
<1>2. QED
  BY <1>1 DEF Keys

LEMMA MergedKeys ==
  ASSUME NEW old \in Keys, NEW sent \in Keys
  PROVE  Merged(old, sent) \in Keys
BY DEF Merged, Keys, RelationshipPayload

LEMMA StoredKeys == StoredRow \in Keys
<1>1. CASE rel.inverse
  BY <1>1 DEF StoredRow, Keys
<1>2. CASE ~rel.inverse
  BY <1>2 DEF StoredRow, Keys
<1>3. QED
  BY <1>1, <1>2

LEMMA InitTInv ==
  ASSUME RelatedInit
  PROVE  TInv
<1>1. page = None /\ panel.phase = "none" /\ panel.item.keys = requiredKeys(rel, None)
  BY DEF RelatedInit
<1>2. \A id \in DOMAIN rows : id = 1 /\ rows[id] = StoredRow
  BY DEF RelatedInit
<1>3. RelatedTypeOK
  <2>1. rel \in Relations /\ panel.item.keys \in Keys
    BY <1>1, RequiredKeys DEF RelatedInit
  <2>2. DOMAIN rows \subseteq 1..(nextId - 1) /\ \A id \in DOMAIN rows : rows[id] \in Keys
    BY <1>2, StoredKeys DEF RelatedInit
  <2>3. QED
    BY <1>1, <2>1, <2>2 DEF RelatedTypeOK
<1>4. DOMAIN records = 1..4
  BY DEF RelatedInit
<1>5. QED
  BY <1>3, <1>4 DEF RelatedInit, TInv

\* Records are numbers, so none is missing.
LEMMA RecordIds ==
  ASSUME TInv
  PROVE  /\ \A r \in DOMAIN records : r \in Nat /\ r # None
         /\ Cardinality(DOMAIN records) \in Nat
         /\ DOMAIN records = 1..Cardinality(DOMAIN records)
<1>1. PICK n \in Nat : DOMAIN records = 1..n
  BY DEF TInv
<1>2. Cardinality(1..n) = n
  BY FS_Interval
<1>3. QED
  BY <1>1, <1>2

\* A request that is sent has the keys of what it carries.
LEMMA RequestKeys ==
  ASSUME NEW kind, NEW id, NEW item
  PROVE  Request(kind, id, item).item = item /\ Request(kind, id, item).answer = item
BY DEF Request

LEMMA SelectTypes ==
  ASSUME TInv, NEW r \in DOMAIN records, NEW keys \in Keys, onSelection(keys), RInv,
         UNCHANGED <<rel, page, rows, records, nextId>>, acts' \in Nat
  PROVE  TInv'
<1> DEFINE item == [panel.item EXCEPT !.keys = keys]
<1>1. item.keys = keys
  BY DEF RInv, PanelOK, ItemShape
<1>2. panel'.item = item /\ panel'.phase = panel.phase
  BY DEF onSelection, RInv, PanelOK
<1>3. \A q \in requests' : q \in requests \/ (q.item = item /\ q.answer = item)
  BY RequestKeys DEF onSelection
<1> HIDE DEF item
<1>4. Keys' = Keys
  BY DEF Keys
<1>5. RelatedTypeOK'
  BY <1>1, <1>2, <1>4 DEF TInv, RelatedTypeOK
<1>6. QED
  BY <1>1, <1>3, <1>4, <1>5 DEF TInv

LEMMA UserTypes ==
  ASSUME TInv, RInv, RelatedUser
  PROVE  TInv'
<1>0. Keys' = Keys /\ rel' = rel
  BY DEF RelatedUser, Visit, Select, SelectInModal, Clear, CreateRecord, SubmitModal, DeleteRow, Keys
<1>1. ASSUME NEW p \in {1, 2, None}, Visit(p)
      PROVE  TInv'
  <2> DEFINE item == [id |-> None, keys |-> requiredKeys(rel, p)]
             rest == {[q EXCEPT !.live = FALSE] :
                        q \in {r \in requests : r.kind \in {"save", "delete"}}}
             list == [kind |-> "list", page |-> p, id |-> None, item |-> item, live |-> TRUE,
                      answer |-> item, status |-> "sent"]
  <2>1. item.keys \in Keys
    BY RequiredKeys
  <2>2. /\ page' = p /\ UNCHANGED <<rel, rows, records, nextId>> /\ acts' = acts + 1
        /\ panel'.item = item /\ panel'.phase \in {"none", "table", "listing"}
        /\ requests' \subseteq rest \cup {list}
    BY <1>1 DEF Visit
  <2>3. \A q \in rest : q.item.keys \in Keys /\ q.answer.keys \in Keys
    BY DEF TInv, RInv, RequestOK
  <2>4. list.item = item /\ list.answer = item
    OBVIOUS
  <2> HIDE DEF item, rest, list
  <2>5. RelatedTypeOK'
    BY <1>0, <2>1, <2>2 DEF TInv, RelatedTypeOK
  <2>6. \A q \in requests' : q.item.keys \in Keys /\ q.answer.keys \in Keys
    BY <2>1, <2>2, <2>3, <2>4
  <2>7. QED
    BY <1>0, <2>2, <2>5, <2>6 DEF TInv
<1>2. ASSUME NEW r \in DOMAIN records, Select(r)
      PROVE  TInv'
  <2>1. /\ onSelection([panel.item.keys EXCEPT ![foreignKey(rel)] = r])
        /\ UNCHANGED <<rel, page, rows, records, nextId>> /\ acts' \in Nat
    BY <1>2 DEF Select, Act, TInv
  <2>2. [panel.item.keys EXCEPT ![foreignKey(rel)] = r] \in Keys
    BY RecordIds, SelectedKeys DEF TInv, RelatedTypeOK
  <2>3. QED
    BY <2>1, <2>2, SelectTypes
<1>3. ASSUME NEW r \in DOMAIN records, SelectInModal(r, acts + 1)
      PROVE  TInv'
  <2> DEFINE keys == IF panel.item.id = None THEN panel.item.keys ELSE rows[panel.item.id]
  <2>1. /\ onSelection([keys EXCEPT ![foreignKey(rel)] = r, !["order"] = acts + 1])
        /\ UNCHANGED <<rel, page, rows, records, nextId>> /\ acts' \in Nat
    BY <1>3 DEF SelectInModal, Act, TInv
  <2>2. keys \in Keys
    BY <1>3 DEF SelectInModal, TInv, RelatedTypeOK
  <2> HIDE DEF keys
  <2>3. [keys EXCEPT ![foreignKey(rel)] = r, !["order"] = acts + 1] \in Keys
    <3>1. r \in Nat /\ acts + 1 \in Nat
      BY RecordIds DEF TInv
    <3>2. QED
      BY <2>2, <3>1, SelectedKeys
  <2>4. QED
    BY <2>1, <2>3, SelectTypes
<1>4. CASE Clear
  <2>1. requests' = requests \cup {Request("delete", panel.item.id, panel.item)}
    BY <1>4 DEF Clear
  <2>2. \A q \in requests' : q.item.keys \in Keys /\ q.answer.keys \in Keys
    BY <2>1, RequestKeys DEF TInv, RelatedTypeOK
  <2>3. UNCHANGED <<page, panel, rows, records, nextId>> /\ acts' \in Nat
    BY <1>4 DEF Clear, Act, TInv
  <2>4. QED
    BY <1>0, <2>2, <2>3 DEF TInv, RelatedTypeOK
<1>5. CASE CreateRecord
  <2>1. UNCHANGED <<page, panel, rows, requests, nextId>> /\ acts' \in Nat
    BY <1>5 DEF CreateRecord, TInv
  <2>2. DOMAIN records' = DOMAIN records \cup {Cardinality(DOMAIN records) + 1}
    BY <1>5 DEF CreateRecord
  <2>3. DOMAIN records' = 1..(Cardinality(DOMAIN records) + 1)
    BY <2>2, RecordIds
  <2>4. QED
    BY <1>0, <2>1, <2>3, RecordIds DEF TInv, RelatedTypeOK
<1>6. ASSUME NEW id \in {None} \cup DOMAIN rows, NEW r \in DOMAIN records, SubmitModal(id, r, acts + 1)
      PROVE  TInv'
  <2> DEFINE keys == IF id = None THEN requiredKeys(rel, page) ELSE rows[id]
             item == [id |-> id, keys |-> [keys EXCEPT ![foreignKey(rel)] = r, !["order"] = acts + 1]]
  <2>1. /\ requests' = requests \cup {Request("save", id, item)}
        /\ UNCHANGED <<page, panel, rows, records, nextId>> /\ acts' \in Nat
    BY <1>6 DEF SubmitModal, Act, TInv
  <2>2. keys \in Keys
    BY RequiredKeys DEF TInv, RelatedTypeOK
  <2>3. item.keys \in Keys
    <3> HIDE DEF keys
    <3>1. r \in Nat /\ acts + 1 \in Nat
      BY RecordIds DEF TInv
    <3>2. QED
      BY <2>2, <3>1, SelectedKeys
  <2> HIDE DEF item
  <2>4. \A q \in requests' : q.item.keys \in Keys /\ q.answer.keys \in Keys
    BY <2>1, <2>3, RequestKeys DEF TInv
  <2>5. QED
    BY <1>0, <2>1, <2>4 DEF TInv, RelatedTypeOK
<1>7. ASSUME NEW id \in DOMAIN rows, DeleteRow(id)
      PROVE  TInv'
  <2> DEFINE item == [id |-> id, keys |-> rows[id]]
  <2>1. /\ requests' = requests \cup {Request("delete", id, item)}
        /\ UNCHANGED <<page, panel, rows, records, nextId>> /\ acts' \in Nat
    BY <1>7 DEF DeleteRow, Act, TInv
  <2>2. item.keys \in Keys
    BY DEF TInv, RelatedTypeOK
  <2> HIDE DEF item
  <2>3. \A q \in requests' : q.item.keys \in Keys /\ q.answer.keys \in Keys
    BY <2>1, <2>2, RequestKeys DEF TInv
  <2>4. QED
    BY <1>0, <2>1, <2>3 DEF TInv, RelatedTypeOK
<1>8. QED
  BY <1>1, <1>2, <1>3, <1>4, <1>5, <1>6, <1>7 DEF RelatedUser

\* What is answered carries keys of the request, or of a stored relationship.
LEMMA ServeTypes ==
  ASSUME TInv, RInv, NEW q \in requests, Serve(q)
  PROVE  TInv'
<1>0. Keys' = Keys /\ UNCHANGED <<rel, page, panel, records, acts>>
  BY DEF Serve, Keys
<1>1. q.item.keys \in Keys /\ RequestOK(q)
  BY DEF TInv, RInv
<1>2. ASSUME NEW status, NEW item, item.keys \in Keys, Answered(q, status, item)
      PROVE  \A r \in requests' : r.item.keys \in Keys /\ r.answer.keys \in Keys
  <2>1. \A a : a = [q EXCEPT !.status = status, !.answer = item] =>
          a.item = q.item /\ a.answer = item
    BY <1>1 DEF RequestOK
  <2>2. QED
    BY <1>1, <1>2, <2>1 DEF Answered, TInv
<1>3. CASE ServeList(q)
  <2>1. PICK status \in Statuses : Answered(q, status, [q.item EXCEPT !.id = First(q.page)])
    BY <1>3 DEF ServeList
  <2>2. [q.item EXCEPT !.id = First(q.page)].keys = q.item.keys
    BY <1>1 DEF RequestOK, ItemShape
  <2>3. \A r \in requests' : r.item.keys \in Keys /\ r.answer.keys \in Keys
    BY <1>1, <1>2, <2>1, <2>2
  <2>4. QED
    BY <1>0, <1>3, <2>3 DEF TInv, RelatedTypeOK, ServeList
<1>4. CASE ServeCreate(q)
  <2>1. PICK status \in Statuses : Answered(q, status, [id |-> nextId, keys |-> q.item.keys])
    BY <1>4 DEF ServeCreate
  <2>2. \A r \in requests' : r.item.keys \in Keys /\ r.answer.keys \in Keys
    BY <1>1, <1>2, <2>1
  <2>3. /\ nextId' = nextId + 1 /\ DOMAIN rows' = DOMAIN rows \cup {nextId}
        /\ \A id \in DOMAIN rows' : rows'[id] = IF id = nextId THEN q.item.keys ELSE rows[id]
    BY <1>4 DEF ServeCreate
  <2>4. /\ \A id \in DOMAIN rows' : rows'[id] \in Keys
        /\ DOMAIN rows' \subseteq 1..(nextId' - 1) /\ nextId' \in Nat \ {0}
    BY <1>1, <2>3 DEF TInv, RelatedTypeOK
  <2>5. QED
    BY <1>0, <2>2, <2>4 DEF TInv, RelatedTypeOK
<1>5. CASE ServeStored(q)
  <2>1. PICK status \in Statuses : Answered(q, status, [id |-> q.id, keys |-> rows[q.id]])
    BY <1>5 DEF ServeStored
  <2>2. rows[q.id] \in Keys /\ q.id \in DOMAIN rows
    BY <1>5 DEF ServeStored, TInv, RelatedTypeOK
  <2>3. \A r \in requests' : r.item.keys \in Keys /\ r.answer.keys \in Keys
    BY <1>2, <2>1, <2>2
  <2>4. DOMAIN rows' \subseteq DOMAIN rows /\ \A id \in DOMAIN rows' : rows'[id] \in Keys
    <3>1. DOMAIN rows' \subseteq DOMAIN rows /\ \A id \in DOMAIN rows' : id # q.id => rows'[id] = rows[id]
      BY <1>5, StoredRows
    <3>2. q.kind \in {"load", "save", "delete"}
      BY <1>5, StoredRows
    <3>3. q.id \in DOMAIN rows' => rows'[q.id] \in {rows[q.id], Merged(rows[q.id], q.item.keys)}
      BY <1>5, <3>2 DEF ServeStored
    <3>4. QED
      BY <1>1, <2>2, <3>1, <3>3, MergedKeys DEF TInv, RelatedTypeOK
  <2>5. QED
    BY <1>0, <1>5, <2>3, <2>4 DEF TInv, RelatedTypeOK, ServeStored
<1>6. QED
  BY <1>3, <1>4, <1>5 DEF Serve

LEMMA MountTypes ==
  ASSUME TInv, NEW id, NEW rest, rest \subseteq requests, MountPanel(id, rest),
         UNCHANGED <<rel, page, rows, records, nextId, acts>>
  PROVE  TInv'
<1>1. New.keys \in Keys /\ [New EXCEPT !.id = id].keys \in Keys
  BY RequiredKeys DEF New, TInv, RelatedTypeOK
<1>2. Keys' = Keys
  BY DEF Keys
<1>3. /\ panel'.item.keys \in Keys /\ panel'.phase \in {"ready", "loading"}
      /\ \A q \in requests' : q.item.keys \in Keys /\ q.answer.keys \in Keys
  <2>1. CASE id = None
    BY <1>1, <2>1 DEF MountPanel, TInv
  <2>2. CASE id # None
    <3>1. PICK item : item = [New EXCEPT !.id = id]
      OBVIOUS
    <3>2. /\ panel' = [phase |-> "loading", id |-> id, item |-> item]
          /\ requests' \subseteq rest \cup {Request("load", id, item)}
      BY <2>2, <3>1 DEF MountPanel
    <3>3. /\ Request("load", id, item).item.keys \in Keys
          /\ Request("load", id, item).answer.keys \in Keys
      <4>1. Request("load", id, item).item = item /\ Request("load", id, item).answer = item
        BY RequestKeys
      <4>2. item.keys \in Keys
        BY <1>1, <3>1
      <4>3. QED
        BY <4>1, <4>2
    <3>4. panel'.item = item /\ panel'.phase = "loading" /\ item.keys \in Keys
      BY <1>1, <3>1, <3>2
    <3>5. \A q \in requests' : q \in rest \/ q = Request("load", id, item)
      BY <3>2
    <3>6. QED
      BY <3>3, <3>4, <3>5 DEF TInv
  <2>3. QED
    BY <2>1, <2>2
<1>4. QED
  BY <1>2, <1>3 DEF TInv, RelatedTypeOK

LEMMA ReplyTypes ==
  ASSUME TInv, RInv, NEW q \in requests, Reply(q)
  PROVE  TInv'
<1>0. UNCHANGED <<rel, page, rows, records, nextId, acts>> /\ Keys' = Keys
  BY DEF Reply, Keys
<1>1. CASE \E id : MountPanel(id, requests \ {q})
  BY <1>0, <1>1, MountTypes
<1>2. CASE LoadReply(q)
  <2>1. panel'.item = q.answer /\ panel'.phase = "ready" /\ requests' \subseteq requests
    BY <1>2 DEF LoadReply, RInv, PanelOK
  <2>2. QED
    BY <1>0, <2>1 DEF TInv, RelatedTypeOK
<1>3. CASE panel' = panel /\ requests' \subseteq requests
  BY <1>0, <1>3 DEF TInv, RelatedTypeOK
<1>4. QED
  BY <1>1, <1>2, <1>3 DEF Reply, ListReply, SaveReply, DeleteReply, Fail

LEMMA StepTypes == TInv /\ RInv /\ [RelatedNext]_relatedVars => TInv'
<1>1. TInv /\ UNCHANGED relatedVars => TInv'
  BY DEF relatedVars, TInv, RelatedTypeOK, Keys
<1>2. QED
  BY <1>1, UserTypes, ServeTypes, ReplyTypes DEF RelatedNext

LEMMA AlwaysTInv == RelatedSpec => []TInv
<1>1. RelatedInit => TInv
  BY InitTInv
<1>2. QED
  BY <1>1, StepTypes, AlwaysRInv, PTL DEF RelatedSpec

(***************************************************************************)
(* A panel whose user waits: as long as nothing fails, every record has    *)
(* one relationship at most, one request is under way for it, and the      *)
(* panel shows what is stored or what it sent.                             *)
(***************************************************************************)
Ids(p) == {id \in DOMAIN rows : rows[id][ownKey] = p}

\* The only relationship of a record, None if it has none.
HasRow(id, p) == Ids(p) = IF id = None THEN {} ELSE {id}

\* What is sent replaces everything but what is missing in both.
Covers(keys, old) == \A k \in RelationshipPayload : keys[k] = None => old[k] = None

ListAsked(q) == panel.phase = "listing" /\ (q.status = "ok" => HasRow(q.answer.id, q.page))

LoadAsked(q) ==
  /\ panel.phase = "loading" /\ panel.id = q.id /\ q.id # None /\ HasRow(q.id, q.page)
  /\ q.status = "ok" => q.answer.id = q.id /\ q.answer.keys = rows[q.id]

SaveRows(q) ==
  /\ q.status = "sent" => HasRow(q.id, q.page) /\ (q.id # None => Covers(q.item.keys, rows[q.id]))
  /\ q.status = "ok" => q.answer.id # None /\ HasRow(q.answer.id, q.page)

SaveShown(q) ==
  /\ panel.phase = "ready" /\ panel.id = q.id /\ panel.item.id = q.id
  /\ q.status = "sent" => panel.item.keys = q.item.keys
  /\ (q.status = "ok" /\ q.id # None) => q.answer.id = q.id /\ panel.item.keys = rows[q.id]

Asked(q) ==
  \/ q.kind = "list" /\ ListAsked(q)
  \/ q.kind = "load" /\ LoadAsked(q)
  \/ q.kind = "save" /\ SaveRows(q) /\ (IF q.live THEN SaveShown(q) ELSE q.page # page)

Settled ==
  /\ panel.phase = "ready" /\ panel.id = panel.item.id /\ HasRow(panel.item.id, page)
  /\ IF panel.item.id = None THEN panel.item = New ELSE panel.item.keys = rows[panel.item.id]

OneRow   == \A p \in {1, 2} : \E id \in DOMAIN rows \cup {None} : HasRow(id, p)
OneAsked == \A q, r \in requests : q.page = r.page => q = r

SmoothOK ==
  /\ panel.phase # "table" /\ OneRow /\ OneAsked
  /\ \A q \in requests : Asked(q)
  /\ (page # None /\ Waited(page)) => Settled

SmoothInv == (smooth /\ ~rel.multiple) => SmoothOK

\* What is under way for another page is a save nobody waits for any more.
LEMMA AskedElsewhere ==
  ASSUME NEW q, RequestOK(q), Asked(q), q.page # page
  PROVE  q.kind = "save" /\ ~q.live /\ SaveRows(q)
BY DEF RequestOK, Asked

\* As long as the rows stay, so does what a save did to them.
LEMMA SameRows ==
  ASSUME UNCHANGED <<rel, rows>>
  PROVE  /\ \A id, p : HasRow(id, p)' = HasRow(id, p)
         /\ \A q : SaveRows(q)' = SaveRows(q)
         /\ OneRow' = OneRow
<1>1. ownKey' = ownKey
  BY DEF ownKey, foreignKey
<1>2. \A p : Ids(p)' = Ids(p)
  BY <1>1 DEF Ids
<1>3. \A id, p : HasRow(id, p)' = HasRow(id, p)
  BY <1>2 DEF HasRow
<1>4. \A q : SaveRows(q)' = SaveRows(q)
  BY <1>3 DEF SaveRows, Covers
<1>5. OneRow' = OneRow
  BY <1>3 DEF OneRow
<1>6. QED
  BY <1>3, <1>4, <1>5

\* The relationships of other records stay as they are.
LEMMA ServedElsewhere ==
  ASSUME RInv, NEW q \in requests, Serve(q), NEW p, p # q.page
  PROVE  Ids(p)' = Ids(p) /\ \A id \in Ids(p) : rows'[id] = rows[id]
<1>1. ownKey' = ownKey /\ RequestOK(q)
  BY DEF Serve, ownKey, foreignKey, RInv
<1>2. CASE ServeList(q)
  BY <1>1, <1>2 DEF ServeList, Ids
<1>3. CASE ServeCreate(q)
  <2>1. /\ DOMAIN rows' = DOMAIN rows \cup {nextId} /\ nextId \notin DOMAIN rows
        /\ \A id \in DOMAIN rows' : rows'[id] = IF id = nextId THEN q.item.keys ELSE rows[id]
    BY <1>3 DEF ServeCreate, RInv, RowOK
  <2>2. rows'[nextId][ownKey] = q.page
    BY <1>1, <1>3, <2>1 DEF ServeCreate, RequestOK, Ours
  <2>3. QED
    BY <1>1, <2>1, <2>2 DEF Ids
<1>4. CASE ServeStored(q)
  <2>1. /\ rows[q.id][ownKey] = q.page /\ DOMAIN rows' \subseteq DOMAIN rows
        /\ \A id \in DOMAIN rows' : id # q.id => rows'[id] = rows[id]
        /\ q.id \in DOMAIN rows' => rows'[q.id][ownKey] = q.page
    BY <1>4, StoredRows
  <2>2. \A id \in DOMAIN rows : id # q.id => id \in DOMAIN rows'
    BY <1>4, StoredRows DEF ServeStored
  <2>3. QED
    BY <1>1, <2>1, <2>2 DEF Ids
<1>5. QED
  BY <1>2, <1>3, <1>4 DEF Serve

LEMMA NewSame ==
  ASSUME UNCHANGED <<rel, page>>
  PROVE  New' = New
BY DEF New

\* Another page: what was asked on the last one is not waited for.
LEMMA VisitSmooth ==
  ASSUME RInv, SmoothOK, NEW p \in {1, 2, None}, Visit(p), smooth', ~rel.multiple
  PROVE  SmoothOK'
<1> DEFINE item == [id |-> None, keys |-> requiredKeys(rel, p)]
           rest == {[q EXCEPT !.live = FALSE] : q \in {r \in requests : r.kind \in {"save", "delete"}}}
<1>0. PICK list : list = [kind |-> "list", page |-> p, id |-> None, item |-> item, live |-> TRUE,
                          answer |-> item, status |-> "sent"]
  OBVIOUS
<1>1. /\ page' = p /\ UNCHANGED <<rel, rows>> /\ Waited(p)
      /\ IF p = None THEN panel'.phase = "none" /\ requests' = rest
                     ELSE panel'.phase = "listing" /\ requests' = rest \cup {list}
  <2>1. Waited(p)
    BY Zenon DEF Visit
  <2>2. CASE p = None
    BY <2>1, <2>2 DEF Visit
  <2>3. CASE p # None
    BY <1>0, <2>1, <2>3 DEF Visit
  <2>4. QED
    BY <2>2, <2>3
<1>2. \A q \in rest : \E r \in requests : /\ q = [r EXCEPT !.live = FALSE]
                                          /\ q.page = r.page /\ q.kind = "save" /\ ~q.live
                                          /\ SaveRows(q) /\ q.page # p
  <2>1. SUFFICES ASSUME NEW r \in requests, r.kind \in {"save", "delete"}
                 PROVE  LET q == [r EXCEPT !.live = FALSE] IN
                        q.page = r.page /\ q.kind = "save" /\ ~q.live /\ SaveRows(q) /\ q.page # p
    OBVIOUS
  <2>2. RequestOK(r) /\ Asked(r) /\ r.page # p
    BY <1>1 DEF RInv, SmoothOK, Waited
  <2>3. r.kind = "save" /\ SaveRows(r)
    BY <2>1, <2>2 DEF Asked
  <2>4. QED
    BY <2>2, <2>3 DEF RequestOK, SaveRows
<1>3. \A q \in rest : Asked(q)'
  <2>1. TAKE q \in rest
  <2>2. q.kind = "save" /\ ~q.live /\ SaveRows(q) /\ q.page # p
    BY <1>2
  <2>3. SaveRows(q)'
    BY <1>1, <2>2, SameRows
  <2>4. QED
    BY <1>1, <2>2, <2>3 DEF Asked
<1>4. \A q, r \in rest : q.page = r.page => q = r
  <2>1. TAKE q, r \in rest
  <2>2. PICK s \in requests : q = [s EXCEPT !.live = FALSE] /\ q.page = s.page
    BY <1>2
  <2>3. PICK t \in requests : r = [t EXCEPT !.live = FALSE] /\ r.page = t.page
    BY <1>2
  <2>4. QED
    BY <2>2, <2>3 DEF SmoothOK, OneAsked
<1>5. list.page = p /\ list.kind = "list" /\ list.status = "sent"
  BY <1>0
<1>6. \A q \in rest : q.page # p
  BY <1>2
<1> HIDE DEF rest
<1>7. OneAsked'
  BY <1>1, <1>4, <1>5, <1>6 DEF OneAsked
<1>8. \A q \in requests' : Asked(q)'
  <2>1. p # None => Asked(list)'
    BY <1>1, <1>5 DEF Asked, ListAsked
  <2>2. QED
    BY <1>1, <1>3, <2>1
<1>9. OneRow'
  BY <1>1, SameRows DEF SmoothOK
<1>10. page' = None \/ ~Waited(page)'
  BY <1>1, <1>5 DEF Waited
<1>11. panel'.phase # "table"
  BY <1>1
<1>12. QED
  BY <1>7, <1>8, <1>9, <1>10, <1>11 DEF SmoothOK

\* A selection is sent while nothing else of its record is under way.
LEMMA SelectionSmooth ==
  ASSUME RInv, TInv, SmoothOK, UNCHANGED <<rel, page, rows>>, Waited(page), page # None,
         NEW old, old = panel.item.keys, NEW keys, onSelection(keys),
         Covers(keys, old)
  PROVE  SmoothOK'
<1>0. PICK item, new : item = [panel.item EXCEPT !.keys = keys] /\ new = Request("save", item.id, item)
  OBVIOUS
<1>1. Settled
  BY DEF SmoothOK
<1>2. item.id = panel.item.id /\ item.keys = keys
  BY <1>0 DEF RInv, PanelOK, ItemShape
<1>3. /\ panel'.item = item /\ panel'.id = panel.id /\ panel'.phase = "ready"
      /\ requests' = requests \cup {new}
  BY <1>0, <1>1 DEF onSelection, RInv, PanelOK, Settled
<1>4. /\ new.kind = "save" /\ new.page = page /\ new.id = item.id /\ new.item = item
      /\ new.live /\ new.status = "sent"
  BY <1>0 DEF Request
<1>5. Asked(new)'
  <2>1. SaveShown(new)'
    BY <1>1, <1>2, <1>3, <1>4 DEF Settled, SaveShown
  <2>2. SaveRows(new)
    BY <1>1, <1>2, <1>4 DEF Settled, SaveRows
  <2>3. SaveRows(new)'
    BY <2>2, SameRows
  <2>4. QED
    BY <1>4, <2>1, <2>3 DEF Asked
<1>6. \A q \in requests : Asked(q)' /\ q.page # page
  <2>1. TAKE q \in requests
  <2>2. RequestOK(q) /\ Asked(q) /\ q.page # page
    BY DEF RInv, SmoothOK, Waited
  <2>3. q.kind = "save" /\ ~q.live /\ SaveRows(q)
    BY <2>2, AskedElsewhere
  <2>4. SaveRows(q)'
    BY <2>3, SameRows
  <2>5. QED
    BY <2>2, <2>3, <2>4 DEF Asked
<1>7. OneAsked'
  BY <1>3, <1>4, <1>6 DEF SmoothOK, OneAsked
<1>8. OneRow'
  BY SameRows DEF SmoothOK
<1>9. ~Waited(page)'
  BY <1>3, <1>4 DEF Waited
<1>10. panel'.phase # "table" /\ \A q \in requests' : Asked(q)'
  BY <1>3, <1>5, <1>6
<1>11. QED
  BY <1>7, <1>8, <1>9, <1>10 DEF SmoothOK

\* What is selected and the order are there, and the rest is as it was.
LEMMA SelectionCovers ==
  ASSUME NEW k \in Keys, NEW r, r # None, NEW order, order # None
  PROVE  /\ Covers([k EXCEPT ![foreignKey(rel)] = r], k)
         /\ Covers([k EXCEPT ![foreignKey(rel)] = r, !["order"] = order], k)
BY DEF Covers, Keys, RelationshipPayload, foreignKey

LEMMA UserSmooth ==
  ASSUME RInv, TInv, SmoothOK, RelatedUser, smooth', ~rel.multiple
  PROVE  SmoothOK'
<1>1. ASSUME NEW p \in {1, 2, None}, Visit(p) PROVE SmoothOK'
  BY <1>1, VisitSmooth
<1>2. ASSUME NEW r \in DOMAIN records, Select(r) PROVE SmoothOK'
  <2>1. /\ onSelection([panel.item.keys EXCEPT ![foreignKey(rel)] = r]) /\ Waited(page)
        /\ UNCHANGED <<rel, page, rows>> /\ page # None
    <3>1. Waited(page)
      BY <1>2, Zenon DEF Select, Act
    <3>2. QED
      BY <1>2, <3>1 DEF Select, InPanel, RInv, PanelOK
  <2>2. Covers([panel.item.keys EXCEPT ![foreignKey(rel)] = r], panel.item.keys)
    <3>1. panel.item.keys \in Keys /\ r # None /\ 0 # None
      BY RecordIds DEF TInv, RelatedTypeOK
    <3>2. QED
      BY <3>1, SelectionCovers
  <2>3. QED
    BY <2>1, <2>2, SelectionSmooth
<1>3. ASSUME NEW r \in DOMAIN records, SelectInModal(r, acts + 1) PROVE SmoothOK'
  <2> DEFINE keys == IF panel.item.id = None THEN panel.item.keys ELSE rows[panel.item.id]
  <2>1. /\ onSelection([keys EXCEPT ![foreignKey(rel)] = r, !["order"] = acts + 1]) /\ Waited(page)
        /\ UNCHANGED <<rel, page, rows>> /\ page # None
    <3>1. Waited(page)
      BY <1>3, Zenon DEF SelectInModal, Act
    <3>2. QED
      BY <1>3, <3>1 DEF SelectInModal, InPanel, RInv, PanelOK
  <2>2. keys = panel.item.keys
    BY <2>1 DEF SmoothOK, Settled
  <2>3. Covers([panel.item.keys EXCEPT ![foreignKey(rel)] = r, !["order"] = acts + 1], panel.item.keys)
    <3>1. panel.item.keys \in Keys /\ r # None /\ acts + 1 # None
      BY RecordIds DEF TInv, RelatedTypeOK
    <3>2. QED
      BY <3>1, SelectionCovers
  <2>4. QED
    BY <2>1, <2>2, <2>3, SelectionSmooth
<1>4. ~Clear
  BY DEF Clear, Act
<1>5. CASE CreateRecord
  <2>1. UNCHANGED <<rel, page, panel, rows, requests, nextId>>
    BY <1>5 DEF CreateRecord
  <2>2. \A q : Asked(q)' = Asked(q)
    BY <2>1, SameRows DEF Asked, ListAsked, LoadAsked, SaveShown
  <2>3. Settled' = Settled /\ Waited(page)' = Waited(page)
    BY <2>1, SameRows, NewSame DEF Settled, Waited
  <2>4. QED
    BY <2>1, <2>2, <2>3, SameRows DEF SmoothOK, OneAsked
<1>6. \A id, r, order : ~SubmitModal(id, r, order)
  BY DEF SubmitModal, SmoothOK
<1>7. \A id : ~DeleteRow(id)
  BY DEF DeleteRow, SmoothOK
<1>8. QED
  BY <1>1, <1>2, <1>3, <1>4, <1>5, <1>6, <1>7 DEF RelatedUser

(***************************************************************************)
(* What the API does to the relationships a panel waits for.               *)
(***************************************************************************)
LEMMA FirstIsRow ==
  ASSUME RInv, NEW p, NEW id \in DOMAIN rows \cup {None}, HasRow(id, p)
  PROVE  First(p) = id
<1> DEFINE ids == {i \in DOMAIN rows : rows[i][ownKey] = p}
<1>1. ids = IF id = None THEN {} ELSE {id}
  BY DEF HasRow, Ids
<1>2. First(p) = IF ids = {} THEN None ELSE CHOOSE i \in ids : \A other \in ids : i <= other
  BY DEF First
<1>3. CASE id = None
  BY <1>1, <1>2, <1>3
<1>4. CASE id # None
  <2>1. id \in Nat
    BY <1>4 DEF RInv, RowOK
  <2>2. id <= id
    BY <2>1
  <2>3. ids = {id} /\ First(p) = CHOOSE i \in ids : \A other \in ids : i <= other
    BY <1>1, <1>2, <1>4
  <2>4. \E i \in ids : \A other \in ids : i <= other
    BY <2>2, <2>3
  <2>5. QED
    <3> HIDE DEF ids
    <3>1. First(p) \in ids
      BY <2>3, <2>4
    <3>2. QED
      BY <2>3, <3>1
<1>5. QED
  BY <1>3, <1>4

\* The only relationship of a record is one of its relationships.
LEMMA RowOfPage ==
  ASSUME NEW id, NEW p, HasRow(id, p), id # None
  PROVE  id \in DOMAIN rows /\ rows[id][ownKey] = p /\ id \in Ids(p)
BY DEF HasRow, Ids

\* What another record waits for does not change.
LEMMA OthersSmooth ==
  ASSUME RInv, SmoothOK, NEW q \in requests, Serve(q), NEW r \in requests, r # q
  PROVE  Asked(r)'
<1>1. r.page # q.page /\ Asked(r)
  BY DEF SmoothOK, OneAsked
<1>2. Ids(r.page)' = Ids(r.page) /\ \A id \in Ids(r.page) : rows'[id] = rows[id]
  BY <1>1, ServedElsewhere
<1>3. page' = page /\ panel' = panel
  BY DEF Serve
<1>4. /\ \A id : HasRow(id, r.page)' = HasRow(id, r.page)
      /\ \A id : HasRow(id, r.page) /\ id # None => rows'[id] = rows[id]
  BY <1>2, RowOfPage DEF HasRow
<1>5. CASE r.kind = "list" /\ ListAsked(r)
  BY <1>3, <1>4, <1>5 DEF Asked, ListAsked
<1>6. CASE r.kind = "load" /\ LoadAsked(r)
  BY <1>3, <1>4, <1>6 DEF Asked, LoadAsked
<1>7. CASE r.kind = "save" /\ SaveRows(r) /\ (IF r.live THEN SaveShown(r) ELSE r.page # page)
  <2>1. SaveRows(r)'
    BY <1>4, <1>7 DEF SaveRows, Covers
  <2>2. r.live => SaveShown(r)'
    BY <1>3, <1>4, <1>7 DEF SaveRows, SaveShown
  <2>3. QED
    BY <1>3, <1>7, <2>1, <2>2 DEF Asked
<1>8. QED
  BY <1>1, <1>5, <1>6, <1>7 DEF Asked

\* A save that fills in everything leaves nothing of what was stored.
LEMMA MergedIsSent ==
  ASSUME NEW old \in Keys, NEW sent \in Keys, Covers(sent, old)
  PROVE  Merged(old, sent) = sent
<1>1. \A k \in RelationshipPayload : Merged(old, sent)[k] = sent[k]
  BY DEF Merged, Covers
<1>2. DOMAIN sent = RelationshipPayload
  BY DEF Keys, RelationshipPayload
<1>3. Merged(old, sent) = [k \in RelationshipPayload |-> Merged(old, sent)[k]]
  BY DEF Merged
<1>4. sent = [k \in RelationshipPayload |-> sent[k]]
  BY <1>2 DEF Keys, RelationshipPayload
<1>5. QED
  BY <1>1, <1>3, <1>4

\* The answer to a list, a load and a save, for the panel that waits for it.
LEMMA ListServed ==
  ASSUME RInv, SmoothOK, NEW q \in requests, Serve(q), ServeList(q)
  PROVE  /\ rows' = rows
         /\ \E a : /\ requests' = (requests \ {q}) \cup {a}
                   /\ a.page = q.page /\ a.live = q.live /\ Asked(a)'
<1>1. RequestOK(q) /\ Asked(q) /\ UNCHANGED <<rel, page, panel, rows>>
  BY DEF RInv, SmoothOK, Serve, ServeList
<1>2. PICK status, item, a : /\ item = [q.item EXCEPT !.id = First(q.page)]
                             /\ a = [q EXCEPT !.status = status, !.answer = item]
                             /\ requests' = (requests \ {q}) \cup {a}
  BY DEF ServeList, Answered
<1>3. a.page = q.page /\ a.live = q.live /\ a.kind = "list" /\ a.answer.id = First(q.page)
  BY <1>1, <1>2 DEF ServeList, RequestOK, ItemShape
<1>4. PICK id \in DOMAIN rows \cup {None} : HasRow(id, q.page)
  BY <1>1 DEF SmoothOK, OneRow, RequestOK
<1>5. HasRow(First(q.page), q.page)
  BY <1>4, FirstIsRow
<1>6. PICK i : i = First(q.page)
  OBVIOUS
<1>7. HasRow(a.answer.id, a.page)'
  BY <1>1, <1>3, <1>5, <1>6, SameRows
<1>8. panel.phase = "listing"
  BY <1>1 DEF Asked, ListAsked, ServeList
<1>9. QED
  BY <1>1, <1>2, <1>3, <1>7, <1>8 DEF Asked, ListAsked

LEMMA CreateServed ==
  ASSUME RInv, SmoothOK, NEW q \in requests, Serve(q), ServeCreate(q)
  PROVE  /\ \E id \in DOMAIN rows' : HasRow(id, q.page)'
         /\ \E a : /\ requests' = (requests \ {q}) \cup {a}
                   /\ a.page = q.page /\ a.live = q.live /\ Asked(a)'
<1>1. RequestOK(q) /\ Asked(q) /\ UNCHANGED <<rel, page, panel>> /\ q.status = "sent"
  BY DEF RInv, SmoothOK, Serve
<1>2. PICK status, item, a : /\ status \in Statuses /\ item = [id |-> nextId, keys |-> q.item.keys]
                             /\ a = [q EXCEPT !.status = status, !.answer = item]
                             /\ requests' = (requests \ {q}) \cup {a}
  BY DEF ServeCreate, Answered
<1>3. /\ a.page = q.page /\ a.live = q.live /\ a.kind = "save" /\ a.id = None /\ a.item = q.item
      /\ a.answer.id = nextId /\ a.status \in {"ok", "lost"} /\ nextId # None
  BY <1>1, <1>2 DEF ServeCreate, RequestOK, RInv, HomeOK, Statuses
<1>4. SaveRows(q) /\ (IF q.live THEN SaveShown(q) ELSE q.page # page)
  BY <1>1 DEF ServeCreate, Asked
<1>5. Ids(q.page) = {}
  BY <1>1, <1>4 DEF SaveRows, HasRow, ServeCreate
<1>6. /\ DOMAIN rows' = DOMAIN rows \cup {nextId} /\ nextId \notin DOMAIN rows
      /\ \A id \in DOMAIN rows' : rows'[id] = IF id = nextId THEN q.item.keys ELSE rows[id]
  BY DEF ServeCreate, RInv, RowOK
<1>7. ownKey' = ownKey /\ q.item.keys[ownKey] = q.page
  BY <1>1 DEF ownKey, foreignKey, RequestOK, Ours, ServeCreate
<1>8. Ids(q.page)' = {nextId}
  BY <1>5, <1>6, <1>7 DEF Ids
<1>9. PICK n : n = nextId
  OBVIOUS
<1>10. HasRow(n, q.page)'
  BY <1>3, <1>8, <1>9 DEF HasRow
<1>11. SaveRows(a)'
  BY <1>3, <1>9, <1>10 DEF SaveRows
<1>12. a.live => SaveShown(a)'
  BY <1>1, <1>3, <1>4 DEF SaveShown, ServeCreate
<1>13. Asked(a)'
  BY <1>1, <1>3, <1>4, <1>11, <1>12 DEF Asked
<1>14. n \in DOMAIN rows'
  BY <1>6, <1>9
<1>15. QED
  BY <1>2, <1>3, <1>10, <1>13, <1>14

LEMMA StoredServed ==
  ASSUME RInv, TInv, SmoothOK, NEW q \in requests, Serve(q), ServeStored(q)
  PROVE  /\ \E id \in DOMAIN rows' : HasRow(id, q.page)'
         /\ \E a : /\ requests' = (requests \ {q}) \cup {a}
                   /\ a.page = q.page /\ a.live = q.live /\ Asked(a)'
<1>1. RequestOK(q) /\ Asked(q) /\ UNCHANGED <<rel, page, panel>> /\ q.status = "sent"
  BY DEF RInv, SmoothOK, Serve
<1>2. PICK status, item, a : /\ status \in Statuses /\ item = [id |-> q.id, keys |-> rows[q.id]]
                             /\ a = [q EXCEPT !.status = status, !.answer = item]
                             /\ requests' = (requests \ {q}) \cup {a}
  BY DEF ServeStored, Answered
<1>3. /\ a.page = q.page /\ a.live = q.live /\ a.kind = q.kind /\ a.id = q.id /\ a.item = q.item
      /\ a.answer.id = q.id /\ a.answer.keys = rows[q.id] /\ a.status \in {"ok", "lost"}
  BY <1>1, <1>2 DEF RequestOK, Statuses
<1>4. q.id \in DOMAIN rows /\ q.id # None /\ ownKey' = ownKey
  BY <1>1 DEF ServeStored, RInv, RowOK, ownKey, foreignKey
<1>5. q.kind # "list" /\ (\/ q.kind = "load" /\ LoadAsked(q)
                          \/ q.kind = "save" /\ SaveRows(q) /\ (IF q.live THEN SaveShown(q) ELSE q.page # page))
  BY <1>1, StoredRows DEF Asked
<1>6. HasRow(q.id, q.page)
  BY <1>1, <1>5 DEF LoadAsked, SaveRows
<1>7. CASE q.kind = "load"
  <2>1. rows' = rows /\ LoadAsked(q)
    BY <1>5, <1>7, StoredRows
  <2>2. HasRow(q.id, q.page)'
    BY <1>1, <1>6, <2>1, SameRows
  <2>3. LoadAsked(a)'
    BY <1>1, <1>3, <2>1, <2>2 DEF LoadAsked
  <2>4. QED
    BY <1>2, <1>3, <1>4, <1>7, <2>1, <2>2, <2>3 DEF Asked
<1>8. CASE q.kind = "save"
  <2>1. SaveRows(q) /\ Covers(q.item.keys, rows[q.id])
    BY <1>1, <1>4, <1>5, <1>8 DEF SaveRows
  <2>2. Merged(rows[q.id], q.item.keys) = q.item.keys
    <3>1. rows[q.id] \in Keys /\ q.item.keys \in Keys
      BY <1>4 DEF TInv, RelatedTypeOK
    <3>2. QED
      BY <2>1, <3>1, MergedIsSent
  <2>3. /\ DOMAIN rows' = DOMAIN rows /\ rows'[q.id] = q.item.keys
        /\ \A id \in DOMAIN rows : id # q.id => rows'[id] = rows[id]
    BY <1>4, <1>8, <2>2 DEF ServeStored
  <2>4. q.item.keys[ownKey] = q.page
    BY <1>1, <1>8 DEF RequestOK, Ours
  <2>5. Ids(q.page)' = {q.id}
    BY <1>4, <1>6, <2>3, <2>4 DEF HasRow, Ids
  <2>6. HasRow(q.id, q.page)'
    BY <1>4, <2>5 DEF HasRow
  <2>7. SaveRows(a)'
    BY <1>3, <1>4, <2>6 DEF SaveRows
  <2>8. a.live => SaveShown(a)'
    BY <1>1, <1>3, <1>5, <1>8, <2>3 DEF SaveShown
  <2>9. Asked(a)'
    BY <1>1, <1>3, <1>5, <1>8, <2>7, <2>8 DEF Asked
  <2>10. QED
    BY <1>2, <1>3, <1>4, <2>3, <2>6, <2>9
<1>9. QED
  BY <1>5, <1>7, <1>8

LEMMA ServeSmooth ==
  ASSUME RInv, TInv, SmoothOK, NEW q \in requests, Serve(q)
  PROVE  SmoothOK'
<1>1. RequestOK(q) /\ Asked(q) /\ UNCHANGED <<rel, page, panel>>
  BY DEF RInv, SmoothOK, Serve
<1>2. /\ rows' = rows \/ \E id \in DOMAIN rows' : HasRow(id, q.page)'
      /\ \E a : /\ requests' = (requests \ {q}) \cup {a}
                /\ a.page = q.page /\ a.live = q.live /\ Asked(a)'
  BY ListServed, CreateServed, StoredServed DEF Serve
<1>3. PICK a : /\ requests' = (requests \ {q}) \cup {a}
               /\ a.page = q.page /\ a.live = q.live /\ Asked(a)'
  BY <1>2
<1>4. \A r \in requests' : Asked(r)'
  BY <1>3, OthersSmooth
<1>5. OneAsked'
  BY <1>3 DEF SmoothOK, OneAsked
<1>6. OneRow'
  <2>1. CASE rows' = rows
    BY <1>1, <2>1, SameRows DEF SmoothOK
  <2>2. CASE \E id \in DOMAIN rows' : HasRow(id, q.page)'
    <3>1. SUFFICES ASSUME NEW p \in {1, 2}, p # q.page
                   PROVE  \E id \in DOMAIN rows' \cup {None} : HasRow(id, p)'
      BY <2>2 DEF OneRow
    <3>2. PICK id \in DOMAIN rows \cup {None} : HasRow(id, p)
      BY DEF SmoothOK, OneRow
    <3>3. Ids(p)' = Ids(p)
      BY <3>1, ServedElsewhere
    <3>4. HasRow(id, p)'
      BY <3>2, <3>3 DEF HasRow
    <3>5. id \in DOMAIN rows' \cup {None}
      BY <3>4 DEF HasRow, Ids
    <3>6. QED
      BY <3>4, <3>5
  <2>3. QED
    BY <1>2, <2>1, <2>2
<1>7. (page # None /\ Waited(page))' => Settled'
  <2>1. SUFFICES ASSUME page # None, Waited(page)' PROVE Settled'
    BY <1>1
  <2>2. q.page # page /\ Waited(page)
    BY <1>1, <1>3, <2>1 DEF Waited
  <2>3. Settled
    BY <2>1, <2>2 DEF SmoothOK
  <2>4. Ids(page)' = Ids(page) /\ \A id \in Ids(page) : rows'[id] = rows[id]
    <3>1. PICK p : p = page
      OBVIOUS
    <3>2. Ids(p)' = Ids(p) /\ \A id \in Ids(p) : rows'[id] = rows[id]
      BY <2>2, <3>1, ServedElsewhere
    <3>3. QED
      BY <1>1, <3>1, <3>2 DEF Ids
  <2>5. New' = New
    BY <1>1, NewSame
  <2>6. HasRow(panel.item.id, page)'
    BY <1>1, <2>3, <2>4 DEF Settled, HasRow
  <2>7. panel.item.id # None => rows'[panel.item.id] = rows[panel.item.id]
    BY <2>3, <2>4, RowOfPage DEF Settled
  <2>8. QED
    BY <1>1, <2>3, <2>5, <2>6, <2>7 DEF Settled
<1>8. QED
  BY <1>1, <1>4, <1>5, <1>6, <1>7 DEF SmoothOK

(***************************************************************************)
(* What the answers make of the panel.                                     *)
(***************************************************************************)
LEMMA ElsewhereKept ==
  ASSUME RInv, SmoothOK, UNCHANGED <<rel, page, rows>>, NEW q \in requests, q.page # page
  PROVE  Asked(q)'
<1>1. q.kind = "save" /\ ~q.live /\ SaveRows(q)
  BY AskedElsewhere DEF RInv, SmoothOK
<1>2. SaveRows(q)'
  BY <1>1, SameRows
<1>3. QED
  BY <1>1, <1>2 DEF Asked

LEMMA MountSmooth ==
  ASSUME RInv, SmoothOK, ReplyRest, NEW q \in requests, q.page = page,
         NEW id, HasRow(id, page), MountPanel(id, requests \ {q})
  PROVE  SmoothOK'
<1>1. page # None
  BY DEF RInv, RequestOK
<1>2. UNCHANGED <<rel, page, rows>>
  BY DEF ReplyRest
<1>3. \A r \in requests \ {q} : r.page # page /\ Asked(r)'
  BY <1>2, ElsewhereKept DEF SmoothOK, OneAsked
<1>4. OneRow'
  BY <1>2, SameRows DEF SmoothOK
<1>5. HasRow(id, page)'
  BY <1>2, SameRows
<1>6. CASE id = None
  <2>1. panel' = [phase |-> "ready", id |-> None, item |-> New] /\ requests' = requests \ {q}
    BY <1>6 DEF MountPanel
  <2>2. New' = New /\ New.id = None
    BY <1>2, NewSame DEF New
  <2>3. Settled'
    BY <1>5, <1>6, <2>1, <2>2 DEF Settled
  <2>4. OneAsked'
    BY <2>1 DEF SmoothOK, OneAsked
  <2>5. QED
    BY <1>3, <1>4, <2>1, <2>3, <2>4 DEF SmoothOK
<1>7. CASE id # None
  <2>1. PICK item, new : item = [New EXCEPT !.id = id] /\ new = Request("load", id, item)
    OBVIOUS
  <2>2. /\ panel' = [phase |-> "loading", id |-> id, item |-> item]
        /\ requests' = {r \in requests \ {q} : r.kind # "load"} \cup {new}
    BY <1>7, <2>1 DEF MountPanel
  <2>3. new.kind = "load" /\ new.page = page /\ new.id = id /\ new.status = "sent"
    BY <2>1 DEF Request
  <2>4. Asked(new)'
    BY <1>2, <1>5, <1>7, <2>2, <2>3 DEF Asked, LoadAsked
  <2>5. OneAsked'
    BY <1>3, <2>2, <2>3 DEF SmoothOK, OneAsked
  <2>6. ~Waited(page)'
    BY <1>2, <2>2, <2>3 DEF Waited
  <2>7. panel'.phase # "table" /\ \A r \in requests' : Asked(r)'
    BY <1>3, <2>2, <2>4
  <2>8. QED
    BY <1>4, <2>5, <2>6, <2>7 DEF SmoothOK
<1>8. QED
  BY <1>6, <1>7

LEMMA ReplySmooth ==
  ASSUME RInv, SmoothOK, NEW q \in requests, Reply(q), smooth'
  PROVE  SmoothOK'
<1>1. RequestOK(q) /\ Asked(q) /\ ReplyRest /\ UNCHANGED <<rel, page, rows>>
  BY DEF RInv, SmoothOK, Reply, ReplyRest
<1>2. OneRow' /\ New' = New
  BY <1>1, SameRows, NewSame DEF SmoothOK
<1>3. requests' = requests \ {q} => OneAsked'
  BY DEF SmoothOK, OneAsked
<1>4. q.page = page => \A r \in requests \ {q} : Asked(r)'
  BY <1>1, ElsewhereKept DEF SmoothOK, OneAsked
<1>5. CASE ListReply(q)
  <2>1. q.page = page /\ HasRow(q.answer.id, page) /\ MountPanel(q.answer.id, requests \ {q})
    BY <1>1, <1>5 DEF ListReply, RequestOK, Asked, ListAsked
  <2>2. QED
    BY <1>1, <2>1, MountSmooth
<1>6. CASE LoadReply(q)
  <2>1. /\ q.page = page /\ LoadAsked(q) /\ q.answer.id = q.id /\ q.answer.keys = rows[q.id]
        /\ requests' = requests \ {q}
    BY <1>1, <1>6 DEF LoadReply, RequestOK, Asked, LoadAsked
  <2>2. /\ panel'.phase = "ready" /\ panel'.item = q.answer /\ panel'.id = q.id
        /\ q.id # None /\ HasRow(q.id, page)
    BY <1>6, <2>1 DEF LoadReply, LoadAsked, RInv, PanelOK
  <2>3. HasRow(q.id, page)'
    BY <1>1, <2>2, SameRows
  <2>4. Settled'
    BY <1>1, <2>1, <2>2, <2>3 DEF Settled
  <2>5. QED
    BY <1>2, <1>3, <1>4, <2>1, <2>2, <2>4 DEF SmoothOK
<1>7. CASE SaveReply(q)
  <2>1. q.kind = "save" /\ q.status = "ok"
    BY <1>7 DEF SaveReply
  <2>2. q.answer.id # None /\ HasRow(q.answer.id, q.page)
    BY <1>1, <2>1 DEF Asked, SaveRows
  <2>3. CASE q.live /\ InPanel /\ panel.id # q.answer.id
    <3>1. q.page = page /\ MountPanel(q.answer.id, requests \ {q})
      BY <1>1, <1>7, <2>3 DEF SaveReply, RequestOK
    <3>2. QED
      BY <1>1, <2>2, <3>1, MountSmooth
  <2>4. CASE ~(q.live /\ InPanel /\ panel.id # q.answer.id)
    <3>1. requests' = requests \ {q} /\ panel' = panel
      BY <1>7, <2>4 DEF SaveReply
    <3>2. CASE q.live
      <4>1. SaveShown(q) /\ q.page = page
        BY <1>1, <2>1, <3>2 DEF Asked, RequestOK
      <4>2. /\ panel.phase = "ready" /\ panel.id = q.answer.id /\ panel.item.id = q.id
            /\ panel.id = q.id
        BY <2>4, <3>2, <4>1 DEF SaveShown, InPanel
      <4>3. panel.item.keys = rows[q.id]
        BY <2>1, <2>2, <4>1, <4>2 DEF SaveShown
      <4>4. HasRow(panel.item.id, page)'
        BY <1>1, <2>2, <3>1, <4>1, <4>2, SameRows
      <4>5. Settled'
        BY <1>1, <2>2, <3>1, <4>2, <4>3, <4>4 DEF Settled
      <4>6. QED
        BY <1>2, <1>3, <1>4, <3>1, <4>1, <4>2, <4>5 DEF SmoothOK
    <3>3. CASE ~q.live
      <4>1. q.page # page
        BY <1>1, <2>1, <3>3 DEF Asked
      <4>2. \A r : Asked(r)' = Asked(r)
        BY <1>1, <3>1, SameRows DEF Asked, ListAsked, LoadAsked, SaveShown
      <4>3. Waited(page)' => Waited(page)
        BY <1>1, <3>1, <4>1 DEF Waited
      <4>4. Settled' = Settled
        BY <1>1, <1>2, <3>1, SameRows DEF Settled
      <4>5. QED
        BY <1>1, <1>2, <1>3, <3>1, <4>2, <4>3, <4>4 DEF SmoothOK
    <3>4. QED
      BY <3>2, <3>3
  <2>5. QED
    BY <2>3, <2>4
<1>8. ~DeleteReply(q)
  BY <1>1 DEF DeleteReply, Asked
<1>9. ~Fail(q)
  BY Zenon DEF Fail
<1>10. QED
  BY <1>5, <1>6, <1>7, <1>8, <1>9 DEF Reply

LEMMA InitSmooth ==
  ASSUME RelatedInit
  PROVE  SmoothOK
<1>1. page = None /\ requests = {} /\ panel.phase = "none"
  BY DEF RelatedInit
<1>2. \A id \in DOMAIN rows : id = 1
  BY DEF RelatedInit
<1>3. OneRow
  <2>1. SUFFICES ASSUME NEW p \in {1, 2}
                 PROVE  \E id \in DOMAIN rows \cup {None} : HasRow(id, p)
    BY DEF OneRow
  <2>2. CASE Ids(p) = {}
    <3>1. HasRow(None, p)
      BY <2>2 DEF HasRow
    <3>2. QED
      BY <3>1
  <2>3. CASE Ids(p) # {}
    <3>1. 1 \in DOMAIN rows /\ Ids(p) = {1} /\ 1 # None
      BY <1>2, <2>3 DEF Ids
    <3>2. HasRow(1, p)
      BY <3>1 DEF HasRow
    <3>3. QED
      BY <3>1, <3>2
  <2>4. QED
    BY <2>2, <2>3
<1>4. QED
  BY <1>1, <1>3 DEF SmoothOK, OneAsked

LEMMA StepSmooth ==
  ASSUME RInv, TInv, SmoothInv, [RelatedNext]_relatedVars
  PROVE  SmoothInv'
<1>1. rel' = rel
  BY DEF RelatedNext, RelatedUser, Visit, Select, SelectInModal, Clear, CreateRecord, SubmitModal,
         DeleteRow, Serve, Reply, relatedVars
<1>2. SUFFICES ASSUME smooth', ~rel.multiple
               PROVE  SmoothOK'
  BY <1>1 DEF SmoothInv
<1>3. smooth
  <2>1. CASE UNCHANGED relatedVars
    BY <1>2, <2>1 DEF relatedVars
  <2>2. CASE RelatedUser
    BY <1>2, <2>2, Zenon DEF RelatedUser, Visit, Select, SelectInModal, Clear, CreateRecord,
                             SubmitModal, DeleteRow, Act
  <2>3. ASSUME NEW q \in requests, Serve(q) PROVE smooth
    BY <1>2, <2>3 DEF Serve
  <2>4. ASSUME NEW q \in requests, Reply(q) PROVE smooth
    BY <1>2, <2>4, Zenon DEF Reply, ListReply, LoadReply, SaveReply, DeleteReply, Fail
  <2>5. QED
    BY <2>1, <2>2, <2>3, <2>4 DEF RelatedNext
<1>4. SmoothOK
  BY <1>2, <1>3 DEF SmoothInv
<1>5. CASE UNCHANGED relatedVars
  <2>1. UNCHANGED <<rel, page, panel, rows, requests>>
    BY <1>5 DEF relatedVars
  <2>2. \A q : Asked(q)' = Asked(q)
    BY <2>1, SameRows DEF Asked, ListAsked, LoadAsked, SaveShown
  <2>3. Settled' = Settled /\ Waited(page)' = Waited(page) /\ OneRow' = OneRow /\ OneAsked' = OneAsked
    BY <2>1, SameRows, NewSame DEF Settled, Waited, OneAsked
  <2>4. QED
    BY <1>4, <2>1, <2>2, <2>3 DEF SmoothOK
<1>6. CASE RelatedUser
  BY <1>2, <1>4, <1>6, UserSmooth
<1>7. ASSUME NEW q \in requests, Serve(q) PROVE SmoothOK'
  BY <1>4, <1>7, ServeSmooth
<1>8. ASSUME NEW q \in requests, Reply(q) PROVE SmoothOK'
  BY <1>2, <1>4, <1>8, ReplySmooth
<1>9. QED
  BY <1>5, <1>6, <1>7, <1>8 DEF RelatedNext

LEMMA AlwaysSmooth == RelatedSpec => []SmoothInv
<1>1. RelatedInit => SmoothInv
  BY InitSmooth DEF SmoothInv
<1>2. QED
  BY <1>1, StepSmooth, AlwaysRInv, AlwaysTInv, PTL DEF RelatedSpec

\* A panel whose user waited for every answer, none of which was lost, shows the
\* only relationship of its record and holds its id, or is empty when there is
\* none, whatever was selected before, and whatever saves of a page that was left
\* arrive meanwhile (ProjectModelRelationshipsFactory, withRelationshipEditForm).
THEOREM SettledPanelIsStored == RelatedSpec => []SettledPanelShowsItsRow
<1>1. RInv /\ SmoothInv => SettledPanelShowsItsRow
  <2>1. SUFFICES ASSUME RInv, SmoothInv, ~rel.multiple, panel.phase = "ready", smooth, Waited(page)
                 PROVE  IF Ids(page) = {} THEN panel.item = New
                        ELSE Ids(page) = {panel.item.id} /\ panel.item.keys = rows[panel.item.id]
    BY DEF SettledPanelShowsItsRow, Ids
  <2>2. page # None /\ SmoothOK
    BY <2>1 DEF RInv, PanelOK, SmoothInv
  <2>3. Settled
    BY <2>1, <2>2 DEF SmoothOK
  <2>4. QED
    BY <2>3 DEF Settled, HasRow
<1>2. QED
  BY <1>1, AlwaysRInv, AlwaysSmooth, PTL

\* Types: a section is in one of its phases, and the keys of whatever is stored or
\* shown are those of a relationship, each an id or the class of one of its ends.
THEOREM RelatedTypeCorrect == RelatedSpec => []RelatedTypeOK
<1>1. TInv => RelatedTypeOK
  BY DEF TInv
<1>2. QED
  BY <1>1, AlwaysTInv, PTL
=============================================================================
