--------------------------- MODULE SectionsProofs ---------------------------
(***************************************************************************)
(* Proofs about RelatedMedia, RecordForm and the page that has the three   *)
(* sections of MCSections, for any files, classes, relationships and       *)
(* bounds.                                                                 *)
(***************************************************************************)
EXTENDS MCSections, RelatedProofs, SequenceTheorems

(***************************************************************************)
(* Lists: what they are, whatever is in them.                              *)
(***************************************************************************)
List(s) == \E n \in Nat : s = [i \in 1..n |-> s[i]]
Entries(s) == {s[i] : i \in DOMAIN s}

LEMMA ListIsSeq ==
  ASSUME NEW s, List(s)
  PROVE  s \in Seq(Entries(s)) /\ Len(s) \in Nat /\ DOMAIN s = 1..Len(s)
<1>1. PICK n \in Nat : s = [i \in 1..n |-> s[i]]
  BY DEF List
<1>2. DOMAIN s = 1..n
  BY <1>1
<1>3. s \in [1..n -> Entries(s)]
  BY <1>1, <1>2 DEF Entries
<1>4. s \in Seq(Entries(s))
  BY <1>3, SeqDef
<1>5. QED
  BY <1>4, LenProperties

LEMMA SeqIsList ==
  ASSUME NEW S, NEW s \in Seq(S)
  PROVE  List(s)
<1>1. Len(s) \in Nat /\ s \in [1..Len(s) -> S]
  BY LenProperties
<1>2. QED
  BY <1>1 DEF List

\* A function on the indices of a list is a list.
LEMMA FunctionIsList ==
  ASSUME NEW s, List(s), NEW t, t = [i \in DOMAIN s |-> t[i]]
  PROVE  List(t) /\ DOMAIN t = DOMAIN s
<1>1. Len(s) \in Nat /\ DOMAIN s = 1..Len(s)
  BY ListIsSeq
<1>2. QED
  BY <1>1 DEF List

LEMMA EmptyIsList == List(<<>>) /\ DOMAIN <<>> = {}
<1>1. <<>> \in Seq({}) /\ DOMAIN <<>> = {}
  BY EmptySeq
<1>2. QED
  BY <1>1, SeqIsList

LEMMA ListOfOne ==
  ASSUME NEW x
  PROVE  List(<<x>>) /\ DOMAIN <<x>> = {1} /\ <<x>>[1] = x
<1>1. <<x>> \in Seq({x}) /\ <<x>>[1] = x /\ Len(<<x>>) = 1
  OBVIOUS
<1>2. List(<<x>>)
  BY <1>1, SeqIsList
<1>3. DOMAIN <<x>> = {1}
  OBVIOUS
<1>4. QED
  BY <1>1, <1>2, <1>3

LEMMA ListAppended ==
  ASSUME NEW s, List(s), NEW x
  PROVE  LET t == Append(s, x) IN
         /\ List(t) /\ \A i \in DOMAIN s : i \in DOMAIN t /\ t[i] = s[i]
         /\ \A i \in DOMAIN t : i \in DOMAIN s \/ (i \notin DOMAIN s /\ i = Len(s) + 1 /\ t[i] = x)
<1> DEFINE S == Entries(s) \cup {x}
           t == Append(s, x)
<1>1. s \in Seq(Entries(s)) /\ Len(s) \in Nat /\ DOMAIN s = 1..Len(s)
  BY ListIsSeq
<1>2. s \in Seq(S) /\ x \in S
  <2>1. Entries(s) \subseteq S
    OBVIOUS
  <2>2. QED
    BY <1>1, <2>1, SeqMonotonic
<1>3. /\ t \in Seq(S) /\ Len(t) = Len(s) + 1 /\ t[Len(s) + 1] = x
      /\ \A i \in 1..Len(s) : t[i] = s[i]
  BY <1>2, AppendProperties
<1>4. List(t) /\ DOMAIN t = 1..(Len(s) + 1)
  BY <1>3, SeqIsList, LenProperties
<1>5. QED
  BY <1>1, <1>3, <1>4

LEMMA ListConcatenated ==
  ASSUME NEW s, List(s), NEW r, List(r)
  PROVE  LET t == s \o r IN
         /\ List(t) /\ \A i \in DOMAIN t : \/ i \in DOMAIN s /\ t[i] = s[i]
                                           \/ \E j \in DOMAIN r : t[i] = r[j]
<1> DEFINE S == Entries(s) \cup Entries(r)
           t == s \o r
<1>1. s \in Seq(Entries(s)) /\ Len(s) \in Nat /\ DOMAIN s = 1..Len(s)
  BY ListIsSeq
<1>2. r \in Seq(Entries(r)) /\ Len(r) \in Nat /\ DOMAIN r = 1..Len(r)
  BY ListIsSeq
<1>3. s \in Seq(S) /\ r \in Seq(S)
  <2>1. Entries(s) \subseteq S /\ Entries(r) \subseteq S
    OBVIOUS
  <2>2. QED
    BY <1>1, <1>2, <2>1, SeqMonotonic
<1>4. /\ t \in Seq(S) /\ Len(t) = Len(s) + Len(r)
      /\ \A i \in 1..(Len(s) + Len(r)) : t[i] = IF i <= Len(s) THEN s[i] ELSE r[i - Len(s)]
  BY <1>3, ConcatProperties
<1>5. List(t) /\ DOMAIN t = 1..(Len(s) + Len(r))
  BY <1>4, SeqIsList, LenProperties
<1>6. ASSUME NEW i \in DOMAIN t
      PROVE  \/ i \in DOMAIN s /\ t[i] = s[i]
             \/ \E j \in DOMAIN r : t[i] = r[j]
  <2>1. CASE i <= Len(s)
    BY <1>1, <1>4, <1>5, <2>1
  <2>2. CASE ~(i <= Len(s))
    <3>1. i - Len(s) \in DOMAIN r
      BY <1>1, <1>2, <1>5, <2>2
    <3>2. QED
      BY <1>1, <1>2, <1>4, <1>5, <2>2, <3>1
  <2>3. QED
    BY <2>1, <2>2
<1>7. QED
  BY <1>5, <1>6

\* What is left of a list without one entry is what is before and after it.
LEMMA ListWithout ==
  ASSUME NEW s, List(s), NEW i \in DOMAIN s
  PROVE  LET t == RemoveAt(s, i) IN
         /\ List(t) /\ \A n \in DOMAIN t : t[n] = IF n < i THEN s[n] ELSE s[n + 1]
         /\ \A n \in DOMAIN t : n \in Nat /\ n \in DOMAIN s /\ n + 1 \in DOMAIN s
<1> DEFINE head == SubSeq(s, 1, i - 1)
           tail == SubSeq(s, i + 1, Len(s))
           t    == RemoveAt(s, i)
           S    == Entries(s)
<1>1. /\ s \in Seq(S) /\ DOMAIN s = 1..Len(s) /\ Len(s) \in Nat
      /\ \A n \in 1..Len(s) : s[n] \in S
  BY ListIsSeq DEF Entries
<1> HIDE DEF S
<1>2. /\ head \in Seq(S) /\ Len(head) = i - 1
      /\ \A n \in 1..(i - 1) : head[n] = s[n]
  <2>1. \A n \in 1..(i - 1) : s[n] \in S
    BY <1>1
  <2>2. QED
    BY <1>1, <2>1, SubSeqProperties
<1>3. /\ tail \in Seq(S) /\ Len(tail) = Len(s) - i
      /\ \A n \in 1..(Len(s) - i) : tail[n] = s[i + n]
  <2>1. \A n \in (i + 1)..Len(s) : s[n] \in S
    BY <1>1
  <2>2. QED
    BY <1>1, <2>1, SubSeqProperties
<1>4. t = head \o tail
  BY DEF RemoveAt
<1> HIDE DEF head, tail, t
<1>5. /\ t \in Seq(S) /\ Len(t) = Len(s) - 1
      /\ \A n \in 1..(Len(s) - 1) : t[n] = IF n <= i - 1 THEN head[n] ELSE tail[n - (i - 1)]
  <2>1. /\ head \o tail \in Seq(S) /\ Len(head \o tail) = Len(head) + Len(tail)
        /\ \A n \in 1..Len(head) + Len(tail) : (head \o tail)[n] =
             IF n <= Len(head) THEN head[n] ELSE tail[n - Len(head)]
    BY <1>2, <1>3, ConcatProperties
  <2>2. Len(head) + Len(tail) = Len(s) - 1
    BY <1>1, <1>2, <1>3
  <2>3. QED
    BY <1>2, <1>4, <2>1, <2>2
<1>6. Len(t) = Len(s) - 1 /\ DOMAIN t = 1..(Len(s) - 1)
  BY <1>1, <1>5, LenProperties
<1>7. List(t)
  BY <1>5, SeqIsList
<1>8. ASSUME NEW n \in DOMAIN t
      PROVE  /\ t[n] = IF n < i THEN s[n] ELSE s[n + 1]
             /\ n \in Nat /\ n \in DOMAIN s /\ n + 1 \in DOMAIN s
  <2>1. n \in 1..(Len(s) - 1) /\ i \in 1..Len(s)
    BY <1>1, <1>6
  <2>2. CASE n < i
    BY <1>1, <1>2, <1>5, <2>1, <2>2
  <2>3. CASE ~(n < i)
    <3>1. n - (i - 1) \in 1..(Len(s) - i) /\ i + (n - (i - 1)) = n + 1
      BY <1>1, <2>1, <2>3
    <3>2. QED
      BY SMTT(20), <1>1, <1>3, <1>5, <2>1, <2>3, <3>1
  <2>4. QED
    BY <2>2, <2>3
<1>9. QED
  BY <1>7, <1>8 DEF t

\* A finite set has a list of its elements.
LEMMA SetIsList ==
  ASSUME NEW S, IsFiniteSet(S)
  PROVE  List(SetToSeq(S)) /\ \A i \in DOMAIN SetToSeq(S) : SetToSeq(S)[i] \in S
<1> DEFINE n == Cardinality(S)
<1>1. n \in Nat /\ ExistsBijection(1..n, S)
  BY FS_CardinalityType
<1>2. PICK f \in [1..n -> S] : IsInjective(f)
  BY <1>1 DEF ExistsBijection, Bijection, Injection, IsInjective
<1>3. SetToSeq(S) \in [1..n -> S]
  BY <1>2 DEF SetToSeq
<1>4. QED
  BY <1>1, <1>3 DEF List

(***************************************************************************)
(* Media: the inductive invariant.  What is typed for a file stays with    *)
(* its content from the form to the medium and its relationship.           *)
(***************************************************************************)
FileOK(file) ==
  /\ DOMAIN file = {"content", "user_defined"}
  /\ HoldsValuesOf(file.user_defined, file.content, {"own"} \cup uuids)

ChoiceOK(c) ==
  /\ DOMAIN c = {"id", "user_defined", "error"} /\ c.id \in DOMAIN media

DialogOK ==
  /\ {inverse, multiple, required, fields, creating} \subseteq BOOLEAN
  /\ modal \in {"none", "upload", "link"} /\ (~multiple => modal = "none")
  /\ modal # "upload" => files = <<>> /\ uploaded = <<>>
  /\ modal # "link" => chosen = <<>>
  /\ List(files) /\ \A i \in DOMAIN files : FileOK(files[i])
  /\ List(chosen) /\ \A i \in DOMAIN chosen : ChoiceOK(chosen[i])
  /\ \A i, j \in DOMAIN chosen : chosen[i].id = chosen[j].id => i = j
  /\ panel1 \in DOMAIN links \cup {NoRow} /\ shown \in DOMAIN media \cup {NoMedium}
  /\ mediaSteps \in 0..MaxMediaSteps

MediumOK(m) == HoldsValuesOf(m.user_defined, m.content, {"own"})

LinkOK(link) ==
  /\ JoinsPageAndMedia(link)
  /\ HoldsValuesOf(link.user_defined, media[Medium(link)].content, {"link"})

StoredOK ==
  /\ List(media) /\ \A m \in DOMAIN media : MediumOK(media[m])
  /\ List(links) /\ \A id \in DOMAIN links : links[id] = Removed \/ LinkOK(links[id])

\* What was uploaded came back under the index it was sent under.
UploadOK(c) ==
  /\ \A i \in DOMAIN c.items : MediumOK(c.items[i])
  /\ \A i \in DOMAIN c.items : HoldsValuesOf(c.values[i], c.items[i].content, {"link"})
  /\ c.done => DOMAIN c.ids = DOMAIN c.items
  /\ c.done => \A i \in DOMAIN c.ids :
       c.ids[i] \in DOMAIN media /\ media[c.ids[i]].content = c.items[i].content
  /\ c.live => modal = "upload"

CallOK(c) ==
  /\ DOMAIN c = {"kind", "items", "values", "copy", "live", "done", "ids"}
  /\ List(c.items)
  /\ CASE c.kind = "uploadAll" -> UploadOK(c)
       [] c.kind = "uploadOne" ->
            /\ 1 \in DOMAIN c.items /\ \A i \in DOMAIN c.items : MediumOK(c.items[i])
            /\ c.done => c.ids[1] \in DOMAIN media
       [] c.kind = "upload" -> \A i \in DOMAIN c.items : LinkOK(c.items[i])
       [] c.kind = "select" ->
            /\ 1 \in DOMAIN c.items /\ \A i \in DOMAIN c.items : LinkOK(c.items[i])
            /\ c.done => c.ids[1] \in DOMAIN links
       [] c.kind = "create" ->
            \A i \in DOMAIN c.items : LinkOK(c.items[i]) \/ Medium(c.items[i]) = NoMedium
       [] c.kind \in {"delete", "save"} -> c.ids[1] \in DOMAIN links
       [] c.kind = "createManifests" -> TRUE
       [] OTHER -> FALSE

MInv == DialogOK /\ StoredOK /\ \A c \in mediaCalls : CallOK(c)

\* What the server stores follows what it has, in the order it came.
LEMMA StoredList ==
  ASSUME NEW f, List(f), NEW items, List(items)
  PROVE  /\ List(Stored(f, items))
         /\ DOMAIN f \subseteq DOMAIN Stored(f, items)
         /\ \A id \in DOMAIN f : Stored(f, items)[id] = f[id]
         /\ \A id \in DOMAIN Stored(f, items) : id \in DOMAIN f \/
              \E i \in DOMAIN items : Stored(f, items)[id] = items[i]
         /\ \A i \in DOMAIN items : /\ NextId(f) + i - 1 \in DOMAIN Stored(f, items)
                                    /\ Stored(f, items)[NextId(f) + i - 1] = items[i]
<1> DEFINE n == Len(f)
           k == Len(items)
           t == Stored(f, items)
<1>1. n \in Nat /\ DOMAIN f = 1..n /\ k \in Nat /\ DOMAIN items = 1..k
  BY ListIsSeq
<1> HIDE DEF n, k
<1>2. NextId(f) = n + 1
  <2>1. Cardinality(1..n) = n
    BY <1>1, FS_Interval
  <2>2. QED
    BY <1>1, <2>1 DEF NextId
<1>3. /\ DOMAIN t = 1..n \cup {n + 1 + i - 1 : i \in 1..k}
      /\ \A id \in DOMAIN t : t[id] = IF id \in 1..n THEN f[id] ELSE items[id - (n + 1) + 1]
  BY <1>1, <1>2 DEF Stored
<1>4. DOMAIN t = 1..(n + k)
  <2>1. ASSUME NEW x \in (n + 1)..(n + k) PROVE x \in {n + 1 + i - 1 : i \in 1..k}
    <3>1. x - n \in 1..k /\ x = n + 1 + (x - n) - 1
      BY <1>1
    <3>2. QED
      BY <3>1
  <2>2. {n + 1 + i - 1 : i \in 1..k} = (n + 1)..(n + k)
    BY <1>1, <2>1
  <2>3. 1..n \cup (n + 1)..(n + k) = 1..(n + k)
    BY <1>1
  <2>4. QED
    BY <1>3, <2>2, <2>3
<1>5. t = [id \in 1..(n + k) |-> t[id]]
  BY <1>4, <1>1, <1>2 DEF Stored
<1> HIDE DEF t
<1>6. ASSUME NEW i \in DOMAIN items
      PROVE  n + 1 + i - 1 \in DOMAIN t /\ t[n + 1 + i - 1] = items[i]
  <2>1. /\ n + 1 + i - 1 \in DOMAIN t /\ n + 1 + i - 1 \notin 1..n
        /\ (n + 1 + i - 1) - (n + 1) + 1 = i
    BY <1>1, <1>4
  <2>2. QED
    BY <1>3, <2>1
<1>7. ASSUME NEW id \in DOMAIN t, id \notin DOMAIN f
      PROVE  \E i \in DOMAIN items : t[id] = items[i]
  <2>1. id - (n + 1) + 1 \in DOMAIN items
    BY <1>1, <1>4, <1>7
  <2>2. QED
    BY <1>1, <1>3, <1>7, <2>1
<1>8. List(t)
  BY <1>1, <1>5 DEF List
<1>9. QED
  BY <1>1, <1>2, <1>3, <1>4, <1>6, <1>7, <1>8 DEF t

(***************************************************************************)
(* Media: what stays true while media and relationships are added.         *)
(***************************************************************************)
MediaGrow ==
  /\ inverse' = inverse /\ DOMAIN media \subseteq DOMAIN media'
  /\ \A m \in DOMAIN media : media'[m].content = media[m].content
  /\ DOMAIN links \subseteq DOMAIN links'

LEMMA LinkKept ==
  ASSUME MediaGrow, NEW link, LinkOK(link)
  PROVE  LinkOK(link)'
<1>1. Medium(link)' = Medium(link) /\ Medium(link) \in DOMAIN media
  BY DEF MediaGrow, Medium, LinkOK, JoinsPageAndMedia
<1>2. JoinsPageAndMedia(link)'
  BY <1>1 DEF MediaGrow, LinkOK, JoinsPageAndMedia
<1>3. media'[Medium(link)].content = media[Medium(link)].content
  BY <1>1 DEF MediaGrow
<1>4. QED
  BY <1>1, <1>2, <1>3 DEF LinkOK, HoldsValuesOf

\* A request stays what it was, also when it forgets that its modal is open.
LEMMA CallKept ==
  ASSUME MediaGrow, NEW c, CallOK(c),
         NEW d, DOMAIN d = DOMAIN c, \A k \in DOMAIN c \ {"live"} : d[k] = c[k], d.live => c.live,
         c.kind = "uploadAll" /\ d.live /\ modal = "upload" => modal' = "upload"
  PROVE  CallOK(d)'
<1>1. /\ DOMAIN d = {"kind", "items", "values", "copy", "live", "done", "ids"}
      /\ d.kind = c.kind /\ d.items = c.items /\ d.values = c.values
      /\ d.done = c.done /\ d.ids = c.ids
  BY DEF CallOK
<1>2. CASE c.kind = "uploadAll"
  <2>1. UploadOK(c)
    BY <1>2 DEF CallOK
  <2>2. UploadOK(d)'
    BY <2>1, <1>1, <1>2 DEF UploadOK, MediaGrow
  <2>3. QED
    BY <1>1, <1>2, <2>2 DEF CallOK
<1>3. CASE c.kind # "uploadAll"
  <2>1. ASSUME NEW i \in DOMAIN c.items, LinkOK(c.items[i])
        PROVE  LinkOK(c.items[i])'
    BY <2>1, LinkKept
  <2>2. \A i \in DOMAIN c.items : Medium(c.items[i])' = Medium(c.items[i])
    BY DEF MediaGrow, Medium
  <2>3. QED
    BY <1>1, <1>3, <2>1, <2>2 DEF CallOK, MediaGrow
<1>4. QED
  BY <1>2, <1>3

\* A step that changes nothing that is stored.
LEMMA StoredKept ==
  ASSUME StoredOK, UNCHANGED <<kept, media, links>>
  PROVE  MediaGrow /\ StoredOK'
<1>1. MediaGrow
  BY DEF kept, MediaGrow
<1>2. ASSUME NEW id \in DOMAIN links, links[id] # Removed
      PROVE  LinkOK(links[id])'
  BY <1>1, <1>2, LinkKept DEF StoredOK
<1>3. \A id \in DOMAIN links' : links'[id] = Removed' \/ LinkOK(links[id])'
  BY <1>2 DEF Removed
<1>4. QED
  BY <1>1, <1>3 DEF StoredOK, MediumOK, HoldsValuesOf

(***************************************************************************)
(* Media: what the user does in the modals before anything is sent.        *)
(***************************************************************************)
Typing ==
  \/ OpenUpload \/ OpenSelector \/ LoadFields
  \/ \E added \in SUBSET Files : onAddFiles(added)
  \/ \E i \in DOMAIN files : onDeleteFile(i) \/ TypeValues(i)
  \/ \E m \in DOMAIN media : onItemSelection(m)
  \/ \E i \in DOMAIN chosen : onChange(i)

LEMMA AddedFiles ==
  ASSUME DialogOK, NEW added \in SUBSET Files, onAddFiles(added)
  PROVE  List(files') /\ \A i \in DOMAIN files' : FileOK(files'[i])
<1> DEFINE seq  == SetToSeq(added)
           more == [i \in DOMAIN seq |-> [content |-> seq[i], user_defined |-> NoValues]]
<1>1. List(seq)
  BY MediaAssumption, FS_Subset, SetIsList
<1>2. List(more) /\ DOMAIN more = DOMAIN seq
  BY <1>1, FunctionIsList
<1>3. \A i \in DOMAIN more : FileOK(more[i])
  BY EmptyIsList DEF FileOK, NoValues, HoldsValuesOf
<1>4. files' = files \o more
  BY DEF onAddFiles
<1> HIDE DEF more
<1>5. /\ List(files') /\ \A i \in DOMAIN files' : \/ i \in DOMAIN files /\ files'[i] = files[i]
                                                  \/ \E j \in DOMAIN more : files'[i] = more[j]
  BY <1>2, <1>4, ListConcatenated DEF DialogOK
<1>6. QED
  BY <1>3, <1>5 DEF DialogOK

LEMMA ChosenAgain ==
  ASSUME DialogOK, NEW m \in DOMAIN media, onItemSelection(m)
  PROVE  /\ List(chosen') /\ \A i \in DOMAIN chosen' : ChoiceOK(chosen'[i])
         /\ \A i, j \in DOMAIN chosen' : chosen'[i].id = chosen'[j].id => i = j
<1>1. CASE isSelected(m)
  <2> DEFINE i == CHOOSE i \in DOMAIN chosen : chosen[i].id = m
  <2>1. i \in DOMAIN chosen
    BY <1>1 DEF isSelected
  <2>2. chosen' = RemoveAt(chosen, i)
    BY <1>1 DEF onItemSelection
  <2> HIDE DEF i
  <2>3. /\ List(chosen')
        /\ \A n \in DOMAIN chosen' : chosen'[n] = IF n < i THEN chosen[n] ELSE chosen[n + 1]
        /\ \A n \in DOMAIN chosen' : n \in Nat /\ n \in DOMAIN chosen /\ n + 1 \in DOMAIN chosen
    BY <2>1, <2>2, ListWithout DEF DialogOK
  <2>4. i \in Nat
    <3>1. Len(chosen) \in Nat /\ DOMAIN chosen = 1..Len(chosen)
      BY ListIsSeq DEF DialogOK
    <3>2. QED
      BY <2>1, <3>1
  <2>5. QED
    BY <2>3, <2>4 DEF DialogOK
<1>2. CASE ~isSelected(m)
  <2> DEFINE c == [id |-> m, user_defined |-> NoValues, error |-> FALSE]
  <2>1. chosen' = Append(chosen, c)
    BY <1>2 DEF onItemSelection
  <2>2. ChoiceOK(c) /\ c.id = m
    BY DEF ChoiceOK
  <2> HIDE DEF c
  <2>3. /\ List(chosen') /\ \A i \in DOMAIN chosen : i \in DOMAIN chosen' /\ chosen'[i] = chosen[i]
        /\ \A i \in DOMAIN chosen' : \/ i \in DOMAIN chosen
                                     \/ i \notin DOMAIN chosen /\ i = Len(chosen) + 1 /\ chosen'[i] = c
    BY <2>1, ListAppended DEF DialogOK
  <2>4. QED
    BY <1>2, <2>2, <2>3 DEF DialogOK, isSelected
<1>3. QED
  BY <1>1, <1>2

LEMMA StepCounted ==
  ASSUME DialogOK, MediaAct
  PROVE  mediaSteps' \in 0..MaxMediaSteps /\ UNCHANGED kept
BY MediaAssumption DEF DialogOK, MediaAct

LEMMA TypingKeeps ==
  ASSUME MInv, Typing
  PROVE  MInv'
<1> USE DEF MInv
<1>1. UNCHANGED <<kept, media, links, creating, panel1, shown, mediaCalls>>
  BY DEF single, Typing, OpenUpload, OpenSelector, LoadFields, onAddFiles, onDeleteFile, TypeValues,
         onItemSelection, onChange, MediaAct
<1>2. MediaGrow /\ StoredOK'
  BY <1>1, StoredKept
<1>3. modal' = "upload" \/ modal # "upload"
  BY DEF Typing, OpenUpload, OpenSelector, LoadFields, onAddFiles, onDeleteFile, TypeValues,
         onItemSelection, onChange
<1>4. \A c \in mediaCalls' : CallOK(c)'
  BY <1>1, <1>2, <1>3, CallKept
<1>5. mediaSteps' \in 0..MaxMediaSteps
  <2>1. mediaSteps' = mediaSteps \/ MediaAct
    BY DEF Typing, OpenUpload, OpenSelector, LoadFields, onAddFiles, onDeleteFile, TypeValues,
           onItemSelection, onChange
  <2>2. QED
    BY <2>1, StepCounted DEF DialogOK
<1>6. DialogOK'
  <2> USE DEF DialogOK
  <2>1. CASE OpenUpload
    <3>1. /\ files' = <<>> /\ uploaded' = <<>> /\ chosen' = <<>> /\ modal' = "upload" /\ multiple
          /\ fields' \in BOOLEAN /\ UNCHANGED kept
      BY <2>1 DEF OpenUpload, MediaAct
    <3>2. QED
      BY <1>1, <1>5, <3>1, EmptyIsList DEF kept
  <2>2. CASE OpenSelector
    BY <1>1, <1>5, <2>2, EmptyIsList DEF OpenSelector, kept, MediaAct
  <2>3. CASE LoadFields
    BY <1>1, <1>5, <2>3, EmptyIsList DEF LoadFields, kept, ChoiceOK
  <2>4. ASSUME NEW added \in SUBSET Files, onAddFiles(added) PROVE DialogOK'
    <3>1. List(files') /\ \A i \in DOMAIN files' : FileOK(files'[i])
      BY <2>4, AddedFiles
    <3>2. modal = "upload" /\ UNCHANGED <<kept, modal, fields, uploaded, chosen>>
      BY <2>4 DEF onAddFiles, MediaAct
    <3>3. \A i \in DOMAIN files' : FileOK(files[i])'
      BY <3>1, <3>2 DEF FileOK, uuids
    <3>4. \A i \in DOMAIN chosen' : ChoiceOK(chosen[i])'
      BY <1>1, <3>2 DEF ChoiceOK
    <3>5. QED
      BY <1>1, <1>5, <3>1, <3>2, <3>3, <3>4 DEF kept
  <2>5. ASSUME NEW i \in DOMAIN files, onDeleteFile(i) PROVE DialogOK'
    <3>1. modal = "upload" /\ UNCHANGED <<kept, modal, fields, uploaded, chosen>>
      BY <2>5 DEF onDeleteFile, MediaAct
    <3>2. files' = RemoveAt(files, i)
      BY <2>5 DEF onDeleteFile
    <3>3. /\ List(files')
          /\ \A n \in DOMAIN files' : files'[n] = IF n < i THEN files[n] ELSE files[n + 1]
          /\ \A n \in DOMAIN files' : n \in Nat /\ n \in DOMAIN files /\ n + 1 \in DOMAIN files
      BY <3>2, ListWithout
    <3>4. \A n \in DOMAIN files' : FileOK(files[n])'
      BY <3>1, <3>3 DEF FileOK, uuids
    <3>5. \A n \in DOMAIN chosen' : ChoiceOK(chosen[n])'
      BY <1>1, <3>1 DEF ChoiceOK
    <3>6. QED
      BY <1>1, <1>5, <3>1, <3>3, <3>4, <3>5 DEF kept
  <2>6. ASSUME NEW i \in DOMAIN files, TypeValues(i) PROVE DialogOK'
    <3>1. modal = "upload" /\ UNCHANGED <<kept, modal, fields, uploaded, chosen>>
      BY <2>6 DEF TypeValues, MediaAct
    <3>2. files' = [files EXCEPT ![i].user_defined = [k \in {"own"} \cup uuids |-> files[i].content]]
      BY <2>6 DEF TypeValues
    <3>3. List(files') /\ DOMAIN files' = DOMAIN files
      <4>1. files' = [n \in DOMAIN files |-> files'[n]]
        BY <3>2
      <4>2. QED
        BY <4>1, FunctionIsList
    <3>4. ASSUME NEW n \in DOMAIN files PROVE FileOK(files[n])'
      BY <3>1, <3>2 DEF FileOK, uuids, HoldsValuesOf
    <3>5. \A n \in DOMAIN chosen' : ChoiceOK(chosen[n])'
      BY <1>1, <3>1 DEF ChoiceOK
    <3>6. QED
      BY <1>1, <1>5, <3>1, <3>3, <3>4, <3>5 DEF kept
  <2>7. ASSUME NEW m \in DOMAIN media, onItemSelection(m) PROVE DialogOK'
    <3>1. /\ List(chosen') /\ \A i \in DOMAIN chosen' : ChoiceOK(chosen'[i])
          /\ \A i, j \in DOMAIN chosen' : chosen'[i].id = chosen'[j].id => i = j
      BY <2>7, ChosenAgain
    <3>2. modal = "link" /\ UNCHANGED <<kept, modal, fields, files, uploaded>>
      BY <2>7 DEF onItemSelection, MediaAct
    <3>3. \A i \in DOMAIN chosen' : ChoiceOK(chosen[i])'
      BY <1>1, <3>1 DEF ChoiceOK
    <3>4. QED
      BY <1>1, <1>5, <3>1, <3>2, <3>3, EmptyIsList DEF kept
  <2>8. ASSUME NEW i \in DOMAIN chosen, onChange(i) PROVE DialogOK'
    <3>1. modal = "link" /\ UNCHANGED <<kept, modal, fields, files, uploaded>>
      BY <2>8 DEF onChange, MediaAct
    <3>2. chosen' = [chosen EXCEPT ![i].user_defined =
                       [k \in {"link"} |-> media[chosen[i].id].content], ![i].error = FALSE]
      BY <2>8 DEF onChange
    <3>3. List(chosen') /\ DOMAIN chosen' = DOMAIN chosen
      <4>1. chosen' = [n \in DOMAIN chosen |-> chosen'[n]]
        BY <3>2
      <4>2. QED
        BY <4>1, FunctionIsList
    <3>4. ASSUME NEW n \in DOMAIN chosen
          PROVE  ChoiceOK(chosen[n])' /\ chosen'[n].id = chosen[n].id
      BY <1>1, <3>2 DEF ChoiceOK
    <3>5. QED
      BY <1>1, <1>5, <3>1, <3>3, <3>4, EmptyIsList DEF kept
  <2>9. QED
    BY <2>1, <2>2, <2>3, <2>4, <2>5, <2>6, <2>7, <2>8 DEF Typing
<1>7. QED
  BY <1>2, <1>4, <1>6

(***************************************************************************)
(* Media: what is sent.                                                    *)
(***************************************************************************)
\* A step that leaves the modals alone, or closes whichever is open.
LEMMA DialogKept ==
  ASSUME DialogOK, MediaGrow, UNCHANGED kept, UNCHANGED dialogs \/ Closed,
         creating' \in BOOLEAN, panel1' \in DOMAIN links' \cup {NoRow},
         shown' \in DOMAIN media' \cup {NoMedium}, mediaSteps' \in 0..MaxMediaSteps
  PROVE  DialogOK'
<1>1. CASE UNCHANGED dialogs
  <2>1. \A i \in DOMAIN files' : FileOK(files[i])'
    BY <1>1 DEF DialogOK, dialogs, FileOK, uuids
  <2>2. \A i \in DOMAIN chosen' : ChoiceOK(chosen[i])'
    BY <1>1 DEF DialogOK, dialogs, ChoiceOK, MediaGrow
  <2>3. QED
    BY <1>1, <2>1, <2>2 DEF DialogOK, dialogs, kept
<1>2. CASE Closed
  BY <1>2, EmptyIsList DEF DialogOK, Closed, kept
<1>3. QED
  BY <1>1, <1>2

\* A new request beside those that are under way.
LEMMA SentKeeps ==
  ASSUME MInv, UNCHANGED <<kept, media, links, modal>>, NEW c, CallOK(c),
         mediaCalls' \subseteq mediaCalls \cup {c}
  PROVE  MediaGrow /\ StoredOK' /\ \A d \in mediaCalls' : CallOK(d)'
<1>1. MediaGrow /\ StoredOK'
  BY StoredKept DEF MInv
<1>2. \A d \in mediaCalls' : CallOK(d)
  BY DEF MInv
<1>3. QED
  BY <1>1, <1>2, CallKept

LEMMA RelationshipOK ==
  ASSUME DialogOK, NEW m, m.id \in DOMAIN media,
         HoldsValuesOf(m.user_defined, media[m.id].content, {"link"})
  PROVE  LinkOK(relationship(m))
<1>1. inverse = TRUE \/ inverse = FALSE
  BY DEF DialogOK
<1>2. CASE inverse = TRUE
  BY <1>2 DEF relationship, createInverseRelationship, LinkOK, JoinsPageAndMedia, Medium
<1>3. CASE inverse = FALSE
  <2>1. relationship(m) = createRelationship(m) /\ \A link : Medium(link) = link.related_record_id
    BY <1>3 DEF relationship, Medium
  <2> DEFINE r == relationship(m)
  <2>2. /\ r.primary_record_id = ThisPage /\ r.primary_record_type = "record"
        /\ r.related_record_id = m.id /\ r.related_record_type = "media"
        /\ r.user_defined = m.user_defined
    BY <2>1 DEF createRelationship
  <2> HIDE DEF r
  <2>3. (r.primary_record_type = "media") = inverse /\ (r.related_record_type = "media") = ~inverse
    <3>1. r.primary_record_type # "media"
      BY <2>2
    <3>2. QED
      BY <1>3, <2>2, <3>1, Zenon
  <2>4. QED
    BY <1>3, <2>1, <2>2, <2>3 DEF JoinsPageAndMedia, LinkOK, r
<1>4. QED
  BY <1>1, <1>2, <1>3

LEMMA NothingTyped == \A content, names : HoldsValuesOf(NoValues, content, names)
BY EmptyIsList DEF NoValues, HoldsValuesOf

LEMMA FilesSent ==
  ASSUME MInv, onSaveFiles
  PROVE  \E c : CallOK(c) /\ mediaCalls' = mediaCalls \cup {c}
<1> DEFINE items  == [i \in DOMAIN files |-> payload(files[i])]
           values == [i \in DOMAIN files |-> relationshipUserDefined(files[i])]
           c      == [Sent("uploadAll", items) EXCEPT !.values = values]
<1>1. List(items) /\ DOMAIN items = DOMAIN files
  <2>1. items = [i \in DOMAIN files |-> items[i]]
    OBVIOUS
  <2>2. QED
    BY <2>1, FunctionIsList DEF MInv, DialogOK
<1>2. ASSUME NEW i \in DOMAIN files
      PROVE  MediumOK(items[i]) /\ HoldsValuesOf(values[i], items[i].content, {"link"})
  <2>1. FileOK(files[i])
    BY DEF MInv, DialogOK
  <2> DEFINE typed == files[i].user_defined
  <2>2. /\ items[i] = [files[i] EXCEPT !.user_defined = omit(typed, uuids)]
        /\ values[i] = pick(typed, uuids)
    BY <2>1 DEF payload, relationshipUserDefined, FileOK
  <2>3. /\ items[i].content = files[i].content
        /\ items[i].user_defined = [k \in DOMAIN typed \ uuids |-> typed[k]]
        /\ values[i] = [k \in DOMAIN typed \cap uuids |-> typed[k]]
    BY <2>1, <2>2 DEF FileOK, omit, pick, Restrict
  <2>4. uuids \subseteq {"link"}
    BY DEF uuids
  <2>5. \A k \in DOMAIN typed : k \in {"own"} \cup uuids /\ typed[k] = files[i].content
    BY <2>1 DEF FileOK, HoldsValuesOf
  <2> HIDE DEF items, values, typed
  <2>6. QED
    BY <2>3, <2>4, <2>5 DEF MediumOK, HoldsValuesOf
<1>3. /\ DOMAIN c = {"kind", "items", "values", "copy", "live", "done", "ids"}
      /\ c.kind = "uploadAll" /\ c.items = items /\ c.values = values /\ ~c.done
  BY DEF Sent
<1>4. modal = "upload" /\ mediaCalls' = mediaCalls \cup {c}
  BY DEF onSaveFiles
<1> HIDE DEF items, values, c
<1>5. UploadOK(c)
  BY <1>1, <1>2, <1>3, <1>4 DEF UploadOK
<1>6. QED
  BY <1>1, <1>3, <1>4, <1>5 DEF CallOK

LEMMA OthersSent ==
  ASSUME MInv,
         \/ \E id \in DOMAIN links : onDeleteLink(id) \/ onSaveLink(id)
         \/ \E f \in Files : onUpload(f)
         \/ onSaveModal \/ onCreateManifest
  PROVE  \E c : CallOK(c) /\ mediaCalls' = mediaCalls \cup {c}
<1>1. ASSUME NEW id \in DOMAIN links, NEW kind \in {"delete", "save"},
             mediaCalls' = mediaCalls \cup {[Sent(kind, <<>>) EXCEPT !.ids = <<id>>]}
      PROVE  \E c : CallOK(c) /\ mediaCalls' = mediaCalls \cup {c}
  <2>1. CallOK([Sent(kind, <<>>) EXCEPT !.ids = <<id>>])
    BY EmptyIsList DEF CallOK, Sent
  <2>2. QED
    BY <1>1, <2>1
<1>2. ASSUME NEW f \in Files, onUpload(f)
      PROVE  \E c : CallOK(c) /\ mediaCalls' = mediaCalls \cup {c}
  <2> DEFINE item == [content |-> f, user_defined |-> NoValues]
  <2>1. List(<<item>>) /\ DOMAIN <<item>> = {1} /\ <<item>>[1] = item
    BY ListOfOne
  <2>2. MediumOK(item)
    BY NothingTyped DEF MediumOK
  <2>3. mediaCalls' = mediaCalls \cup {Sent("uploadOne", <<item>>)}
    BY <1>2 DEF onUpload
  <2> HIDE DEF item
  <2>4. CallOK(Sent("uploadOne", <<item>>))
    BY <2>1, <2>2 DEF CallOK, Sent
  <2>5. QED
    BY <2>3, <2>4
<1>3. CASE onCreateManifest
  <2>1. CallOK(Sent("createManifests", <<>>))
    BY EmptyIsList DEF CallOK, Sent
  <2>2. QED
    BY <1>3, <2>1 DEF onCreateManifest
<1>4. CASE onSaveModal
  <2>1. PICK values \in {NoValues} \cup
          {[k \in {"link"} |-> media[m].content] : m \in {x \in DOMAIN media : required /\ x = shown}} :
          mediaCalls' = mediaCalls \cup
            {Sent("create", <<relationship([id |-> shown, user_defined |-> values])>>)}
    BY <1>4 DEF onSaveModal
  <2> DEFINE m    == [id |-> shown, user_defined |-> values]
             link == relationship(m)
  <2>2. LinkOK(link) \/ Medium(link) = NoMedium
    <3>1. CASE shown \in DOMAIN media
      <4>1. HoldsValuesOf(values, media[shown].content, {"link"})
        BY <2>1, NothingTyped DEF HoldsValuesOf
      <4>2. QED
        BY <3>1, <4>1, RelationshipOK DEF MInv
    <3>2. CASE shown \notin DOMAIN media
      <4>1. shown = NoMedium
        BY <3>2 DEF MInv, DialogOK
      <4>2. QED
        BY <4>1 DEF relationship, createRelationship, createInverseRelationship, Medium
    <3>3. QED
      BY <3>1, <3>2
  <2> HIDE DEF link
  <2>3. List(<<link>>) /\ DOMAIN <<link>> = {1} /\ <<link>>[1] = link
    BY ListOfOne
  <2>4. CallOK(Sent("create", <<link>>))
    BY <2>2, <2>3 DEF CallOK, Sent
  <2>5. QED
    BY <2>1, <2>4 DEF link
<1>5. QED
  BY <1>1, <1>2, <1>3, <1>4 DEF onDeleteLink, onSaveLink

LEMMA ChosenSent ==
  ASSUME MInv, onSaveChosen
  PROVE  \E c : CallOK(c) /\ mediaCalls' \subseteq mediaCalls \cup {c}
<1> DEFINE items == [i \in DOMAIN chosen |->
                       relationship([id |-> chosen[i].id, user_defined |-> NoValues])]
<1>1. List(items) /\ DOMAIN items = DOMAIN chosen
  <2>1. items = [i \in DOMAIN chosen |-> items[i]]
    OBVIOUS
  <2>2. QED
    BY <2>1, FunctionIsList DEF MInv, DialogOK
<1>2. ASSUME NEW i \in DOMAIN chosen PROVE LinkOK(items[i])
  <2>1. chosen[i].id \in DOMAIN media
    BY DEF MInv, DialogOK, ChoiceOK
  <2>2. QED
    BY <2>1, NothingTyped, RelationshipOK DEF MInv
<1>3. mediaCalls' \subseteq mediaCalls \cup {Sent("upload", items)}
  BY DEF onSaveChosen
<1> HIDE DEF items
<1>4. CallOK(Sent("upload", items))
  BY <1>1, <1>2 DEF CallOK, Sent
<1>5. QED
  BY <1>3, <1>4

\* The choices that are checked stay the choices they were.
LEMMA ChosenChecked ==
  ASSUME DialogOK, onSaveChosen, MediaGrow
  PROVE  DialogOK'
<1>1. /\ modal = "link" /\ UNCHANGED <<media, links, modal, fields, files, uploaded, creating, single>>
      /\ chosen' = [i \in DOMAIN chosen |-> validateItem(chosen[i])]
  BY DEF onSaveChosen
<1>2. mediaSteps' \in 0..MaxMediaSteps /\ UNCHANGED kept
  BY StepCounted DEF onSaveChosen
<1>3. List(chosen') /\ DOMAIN chosen' = DOMAIN chosen
  <2>1. chosen' = [i \in DOMAIN chosen |-> chosen'[i]]
    BY <1>1
  <2>2. QED
    BY <2>1, FunctionIsList DEF DialogOK
<1>4. ASSUME NEW i \in DOMAIN chosen
      PROVE  ChoiceOK(chosen[i])' /\ chosen'[i].id = chosen[i].id
  <2>1. chosen'[i] = validateItem(chosen[i]) /\ ChoiceOK(chosen[i])
    BY <1>1 DEF DialogOK
  <2>2. QED
    BY <1>1, <2>1 DEF ChoiceOK, validateItem
<1>5. files' = <<>>
  BY <1>1 DEF DialogOK
<1>6. QED
  BY <1>1, <1>2, <1>3, <1>4, <1>5, EmptyIsList DEF DialogOK, kept, single

Sending ==
  \/ onSaveFiles \/ onSaveChosen \/ onCloseModal \/ onSaveModal \/ onCreateManifest
  \/ \E f \in Files : onUpload(f)
  \/ \E id \in DOMAIN links : onDeleteLink(id) \/ onSaveLink(id)

LEMMA SendingKeeps ==
  ASSUME MInv, Sending
  PROVE  MInv'
<1>1. CASE onCloseModal
  <2>1. UNCHANGED <<media, links, errors, creating, panel1, shown>> /\ Closed
    BY <1>1 DEF onCloseModal, single
  <2>2. mediaSteps' \in 0..MaxMediaSteps /\ UNCHANGED kept
    BY <1>1, StepCounted DEF onCloseModal, MInv
  <2>3. MediaGrow /\ StoredOK'
    BY <2>1, <2>2, StoredKept DEF MInv
  <2>4. DialogOK'
    BY <2>1, <2>2, <2>3, DialogKept DEF MInv, DialogOK
  <2>5. ASSUME NEW d \in mediaCalls' PROVE CallOK(d)'
    <3>1. PICK c \in mediaCalls : d = [c EXCEPT !.live = (@ /\ c.kind # "uploadAll")]
      BY <1>1 DEF onCloseModal
    <3>2. CallOK(c) /\ DOMAIN c = {"kind", "items", "values", "copy", "live", "done", "ids"}
      BY DEF MInv, CallOK
    <3>3. /\ DOMAIN d = DOMAIN c /\ \A k \in DOMAIN c \ {"live"} : d[k] = c[k]
          /\ d.live = (c.live /\ c.kind # "uploadAll")
      BY <3>1, <3>2
    <3>4. QED
      BY <2>3, <3>2, <3>3, CallKept
  <2>6. QED
    BY <2>3, <2>4, <2>5 DEF MInv
<1>2. CASE onSaveChosen
  <2>1. UNCHANGED <<media, links, modal>>
    BY <1>2 DEF onSaveChosen
  <2>2. UNCHANGED kept
    BY <1>2, StepCounted DEF onSaveChosen, MInv
  <2>3. MediaGrow /\ StoredOK' /\ \A d \in mediaCalls' : CallOK(d)'
    BY <1>2, <2>1, <2>2, ChosenSent, SentKeeps
  <2>4. QED
    BY <1>2, <2>3, ChosenChecked DEF MInv
<1>3. CASE Sending /\ ~onCloseModal /\ ~onSaveChosen
  <2>1. \E c : CallOK(c) /\ mediaCalls' = mediaCalls \cup {c}
    BY <1>3, FilesSent, OthersSent DEF Sending
  <2>2. MediaAct /\ UNCHANGED <<media, links, dialogs, panel1, shown>>
        /\ creating' \in {creating, TRUE}
    BY <1>3 DEF Sending, onSaveFiles, onDeleteLink, onSaveLink, onUpload, onSaveModal,
                onCreateManifest, single
  <2>3. mediaSteps' \in 0..MaxMediaSteps /\ UNCHANGED kept
    BY <2>2, StepCounted DEF MInv
  <2>4. UNCHANGED modal
    BY <2>2 DEF dialogs
  <2>5. MediaGrow /\ StoredOK' /\ \A d \in mediaCalls' : CallOK(d)'
    BY <2>1, <2>2, <2>3, <2>4, SentKeeps
  <2>6. DialogOK'
    BY <2>2, <2>3, <2>5, DialogKept DEF MInv, DialogOK
  <2>7. QED
    BY <2>5, <2>6 DEF MInv
<1>4. QED
  BY <1>1, <1>2, <1>3

(***************************************************************************)
(* Media: the server.                                                      *)
(***************************************************************************)
\* What is answered is what was sent, done, with the ids of what is stored.
LEMMA AnswerKeeps ==
  ASSUME MInv, MediaGrow, StoredOK', NEW c \in mediaCalls, NEW ids, Answer(c, ids),
         UNCHANGED <<kept, dialogs, creating, single, mediaSteps>>,
         CASE c.kind = "uploadAll" ->
                /\ DOMAIN ids = DOMAIN c.items
                /\ \A i \in DOMAIN ids : ids[i] \in DOMAIN media' /\ media'[ids[i]].content = c.items[i].content
           [] c.kind = "uploadOne" -> ids[1] \in DOMAIN media'
           [] c.kind \in {"select", "delete", "save"} -> ids[1] \in DOMAIN links'
           [] OTHER -> TRUE
  PROVE  MInv'
<1> DEFINE a == [c EXCEPT !.done = TRUE, !.ids = ids]
<1>1. CallOK(c) /\ DOMAIN c = {"kind", "items", "values", "copy", "live", "done", "ids"}
  BY DEF MInv, CallOK
<1>2. /\ DOMAIN a = DOMAIN c /\ a.kind = c.kind /\ a.items = c.items /\ a.values = c.values
      /\ a.live = c.live /\ a.done = TRUE /\ a.ids = ids
  BY <1>1
<1>3. mediaCalls' = (mediaCalls \ {c}) \cup {a}
  BY DEF Answer
<1> HIDE DEF a
<1>4. CallOK(c)'
  BY <1>1, CallKept DEF dialogs
<1>5. CallOK(a)'
  <2>1. CASE c.kind = "uploadAll"
    <3>1. UploadOK(c)'
      BY <1>4, <2>1 DEF CallOK
    <3>2. UploadOK(a)'
      BY <1>2, <2>1, <3>1 DEF UploadOK
    <3>3. QED
      BY <1>2, <1>4, <2>1, <3>2 DEF CallOK
  <2>2. CASE c.kind = "uploadOne"
    BY <1>2, <1>4, <2>2 DEF CallOK
  <2>3. CASE c.kind \in {"select", "delete", "save"}
    BY <1>2, <1>4, <2>3 DEF CallOK
  <2>4. CASE c.kind \notin {"uploadAll", "uploadOne", "select", "delete", "save"}
    BY <1>2, <1>4, <2>4 DEF CallOK
  <2>5. QED
    BY <2>1, <2>2, <2>3, <2>4
<1>6. ASSUME NEW d \in mediaCalls PROVE CallOK(d)'
  <2>1. CallOK(d)
    BY DEF MInv
  <2>2. QED
    BY <2>1, CallKept DEF dialogs
<1>7. DialogOK'
  BY DialogKept DEF MInv, DialogOK, MediaGrow, single
<1>8. QED
  BY <1>3, <1>5, <1>6, <1>7 DEF MInv

LEMMA ServeMediaKeeps ==
  ASSUME MInv, NEW c \in mediaCalls, ServeMedia(c),
         UNCHANGED <<kept, dialogs, creating, single, mediaSteps>>
  PROVE  MInv'
<1> DEFINE ids == [i \in DOMAIN c.items |-> NextId(media) + i - 1]
<1>1. c.kind \in {"uploadAll", "uploadOne"} /\ media' = Stored(media, c.items) /\ links' = links
  BY DEF ServeMedia
<1>2. /\ List(media) /\ List(c.items) /\ \A i \in DOMAIN c.items : MediumOK(c.items[i])
      /\ c.kind = "uploadOne" => 1 \in DOMAIN c.items
  BY <1>1 DEF MInv, StoredOK, CallOK, UploadOK
<1>3. /\ List(media') /\ DOMAIN media \subseteq DOMAIN media'
      /\ \A m \in DOMAIN media : media'[m] = media[m]
      /\ \A m \in DOMAIN media' : m \in DOMAIN media \/ \E i \in DOMAIN c.items : media'[m] = c.items[i]
      /\ \A i \in DOMAIN c.items : /\ NextId(media) + i - 1 \in DOMAIN media'
                                   /\ media'[NextId(media) + i - 1] = c.items[i]
  BY <1>1, <1>2, StoredList
<1>4. MediaGrow
  BY <1>1, <1>3 DEF MediaGrow, kept
<1>5. StoredOK'
  <2>1. \A m \in DOMAIN media' : MediumOK(media'[m])
    BY <1>2, <1>3 DEF MInv, StoredOK
  <2>2. ASSUME NEW id \in DOMAIN links, links[id] # Removed PROVE LinkOK(links[id])'
    BY <1>1, <1>4, <2>2, LinkKept DEF MInv, StoredOK
  <2>3. \A id \in DOMAIN links' : links'[id] = Removed' \/ LinkOK(links[id])'
    BY <1>1, <2>2 DEF Removed
  <2>4. QED
    BY <1>1, <1>3, <2>1, <2>3 DEF MInv, StoredOK, MediumOK, HoldsValuesOf
<1>6. Answer(c, ids)
  BY DEF ServeMedia
<1>7. /\ DOMAIN ids = DOMAIN c.items
      /\ \A i \in DOMAIN ids : ids[i] \in DOMAIN media' /\ media'[ids[i]].content = c.items[i].content
      /\ c.kind = "uploadOne" => ids[1] \in DOMAIN media'
  BY <1>2, <1>3
<1> HIDE DEF ids
<1>8. QED
  BY <1>1, <1>4, <1>5, <1>6, <1>7, AnswerKeeps

LEMMA ServeLinksKeeps ==
  ASSUME MInv, NEW c \in mediaCalls, ServeLinks(c),
         UNCHANGED <<kept, dialogs, creating, single, mediaSteps>>
  PROVE  MInv'
<1>1. c.kind \in {"upload", "select", "create"} /\ media' = media
  BY DEF ServeLinks
<1>2. /\ List(links) /\ List(c.items)
      /\ \A i \in DOMAIN c.items : LinkOK(c.items[i]) \/ Medium(c.items[i]) = NoMedium
      /\ c.kind = "select" => 1 \in DOMAIN c.items
  BY <1>1 DEF MInv, StoredOK, CallOK
<1>3. CASE mediaCalls' = mediaCalls \ {c} /\ links' = links
  <2>1. MediaGrow /\ StoredOK'
    BY <1>1, <1>3, StoredKept DEF MInv
  <2>2. \A d \in mediaCalls' : CallOK(d)'
    BY <1>3, <2>1, CallKept DEF MInv, dialogs
  <2>3. DialogOK'
    BY <1>1, <1>3, <2>1, DialogKept DEF MInv, DialogOK, single
  <2>4. QED
    BY <2>1, <2>2, <2>3 DEF MInv
<1>4. CASE ~Refused(c.items) /\ links' = Stored(links, c.items)
           /\ Answer(c, [i \in DOMAIN c.items |-> NextId(links) + i - 1])
  <2> DEFINE ids == [i \in DOMAIN c.items |-> NextId(links) + i - 1]
  <2>1. /\ List(links') /\ DOMAIN links \subseteq DOMAIN links'
        /\ \A m \in DOMAIN links : links'[m] = links[m]
        /\ \A m \in DOMAIN links' : m \in DOMAIN links \/ \E i \in DOMAIN c.items : links'[m] = c.items[i]
        /\ \A i \in DOMAIN c.items : NextId(links) + i - 1 \in DOMAIN links'
    BY <1>2, <1>4, StoredList
  <2>2. MediaGrow
    BY <1>1, <2>1 DEF MediaGrow, kept
  <2>3. StoredOK'
    <3>1. ASSUME NEW m \in DOMAIN links', links'[m] # Removed PROVE LinkOK(links[m])'
      <4>1. PICK link : link = links'[m]
        OBVIOUS
      <4>2. LinkOK(link)
        BY <1>2, <1>4, <2>1, <3>1, <4>1 DEF MInv, StoredOK, Refused
      <4>3. LinkOK(link)'
        BY <2>2, <4>2, LinkKept
      <4>4. QED
        BY <4>1, <4>3
    <3>2. \A m \in DOMAIN links' : links'[m] = Removed' \/ LinkOK(links[m])'
      BY <3>1 DEF Removed
    <3>3. QED
      BY <1>1, <2>1, <3>2 DEF MInv, StoredOK, MediumOK, HoldsValuesOf
  <2>4. c.kind = "select" => ids[1] \in DOMAIN links'
    BY <1>2, <2>1
  <2>5. Answer(c, ids)
    BY <1>4
  <2> HIDE DEF ids
  <2>6. QED
    BY <1>1, <2>2, <2>3, <2>4, <2>5, AnswerKeeps
<1>5. QED
  BY <1>3, <1>4 DEF ServeLinks

LEMMA ServeLinkKeeps ==
  ASSUME MInv, NEW c \in mediaCalls, ServeLink(c),
         UNCHANGED <<kept, dialogs, creating, single, mediaSteps>>
  PROVE  MInv'
<1> DEFINE id == c.ids[1]
<1>1. c.kind \in {"delete", "save"} /\ media' = media /\ Answer(c, c.ids)
  BY DEF ServeLink
<1>2. id \in DOMAIN links
  BY <1>1 DEF MInv, CallOK
<1>3. links' = [links EXCEPT ![id] =
        IF c.kind = "delete" THEN Removed
        ELSE IF @ = Removed THEN @ ELSE [@ EXCEPT !.user_defined =
               [k \in {"link"} |-> media[Medium(links[id])].content]]]
  BY DEF ServeLink
<1> HIDE DEF id
<1>4. List(links') /\ DOMAIN links' = DOMAIN links
  <2>1. links' = [n \in DOMAIN links |-> links'[n]]
    BY <1>3
  <2>2. QED
    BY <2>1, FunctionIsList DEF MInv, StoredOK
<1>5. MediaGrow
  BY <1>1, <1>4 DEF MediaGrow, kept
<1>6. StoredOK'
  <2>1. ASSUME NEW n \in DOMAIN links, links'[n] # Removed PROVE LinkOK(links[n])'
    <3>1. CASE links'[n] = links[n]
      <4>1. LinkOK(links[n])
        BY <2>1, <3>1 DEF MInv, StoredOK
      <4>2. QED
        BY <4>1, <3>1, <1>1, <1>5
           DEF LinkOK, JoinsPageAndMedia, Medium, MediaGrow, HoldsValuesOf
    <3>2. CASE links'[n] # links[n]
      <4>1. n = id /\ links[n] # Removed
            /\ links'[n] = [links[n] EXCEPT !.user_defined =
                              [k \in {"link"} |-> media[Medium(links[n])].content]]
        BY <1>2, <1>3, <2>1, <3>2
      <4>2. LinkOK(links[n])
        BY <4>1 DEF MInv, StoredOK
      <4>3. QED
        BY <4>1, <4>2, <1>1, <1>5
           DEF LinkOK, JoinsPageAndMedia, Medium, MediaGrow, HoldsValuesOf
    <3>3. QED
      BY <3>1, <3>2
  <2>2. QED
    BY <1>1, <1>4, <2>1 DEF MInv, StoredOK, MediumOK, HoldsValuesOf, Removed
<1>7. c.ids[1] \in DOMAIN links'
  BY <1>2, <1>4 DEF id
<1>8. QED
  BY <1>1, <1>5, <1>6, <1>7, AnswerKeeps

LEMMA ServeMediaCallKeeps ==
  ASSUME MInv, NEW c \in mediaCalls, ServeMediaCall(c)
  PROVE  MInv'
<1>1. ASSUME ServeManifest(c) PROVE MInv'
  <2>1. /\ c.kind = "createManifests" /\ Answer(c, c.ids) /\ UNCHANGED <<media, links>>
        /\ UNCHANGED <<kept, dialogs, creating, single, mediaSteps>>
    BY <1>1 DEF ServeManifest, ServeMediaCall
  <2>2. MediaGrow /\ StoredOK'
    BY <2>1, StoredKept DEF MInv
  <2>3. QED
    BY <2>1, <2>2, AnswerKeeps
<1>2. QED
  BY <1>1, ServeMediaKeeps, ServeLinksKeeps, ServeLinkKeeps DEF ServeMediaCall

(***************************************************************************)
(* Media: answers.                                                         *)
(***************************************************************************)
\* A live upload that comes back sends relationships of what it uploaded.
LEMMA UploadedLinks ==
  ASSUME MInv, NEW c \in mediaCalls, c.done, onComplete(c), c.live
  PROVE  \E d : CallOK(d) /\ mediaCalls' = (mediaCalls \ {c}) \cup {d}
<1> DEFINE items == [i \in DOMAIN uploaded' |-> relationship(uploaded'[i])]
<1>1. /\ c.kind = "uploadAll" /\ uploaded' = afterUpload(c)
      /\ mediaCalls' = (mediaCalls \ {c}) \cup {Sent("upload", items)}
  BY DEF onComplete
<1>2. UploadOK(c) /\ List(c.items)
  BY <1>1 DEF MInv, CallOK
<1>3. DOMAIN uploaded' = DOMAIN c.items
  BY <1>1, <1>2 DEF afterUpload, UploadOK
<1>4. List(items) /\ DOMAIN items = DOMAIN c.items
  <2>1. items = [i \in DOMAIN c.items |-> items[i]]
    BY <1>3
  <2>2. QED
    BY <1>2, <2>1, FunctionIsList
<1>5. ASSUME NEW i \in DOMAIN items PROVE LinkOK(items[i])
  <2> DEFINE m == [id |-> c.ids[i], user_defined |-> c.values[i]]
  <2>1. items[i] = relationship(m)
    BY <1>1, <1>2, <1>3, <1>4 DEF afterUpload, UploadOK
  <2>2. m.id \in DOMAIN media /\ HoldsValuesOf(m.user_defined, media[m.id].content, {"link"})
    BY <1>2, <1>4 DEF UploadOK
  <2> HIDE DEF m, items
  <2>3. QED
    BY <2>1, <2>2, RelationshipOK DEF MInv
<1> HIDE DEF items
<1>6. CallOK(Sent("upload", items))
  BY <1>4, <1>5 DEF CallOK, Sent
<1>7. QED
  BY <1>1, <1>6

LEMMA AnsweredKeeps ==
  ASSUME MInv, NEW c \in mediaCalls, UNCHANGED <<kept, media, links, mediaSteps>>,
         UNCHANGED dialogs \/ Closed, creating' \in BOOLEAN, panel1' \in DOMAIN links \cup {NoRow},
         shown' \in DOMAIN media \cup {NoMedium},
         \A d \in mediaCalls' : \E e \in mediaCalls :
           \/ UNCHANGED modal /\ (d = e \/ d = [e EXCEPT !.live = (@ /\ e.kind # "uploadOne")])
           \/ d = [e EXCEPT !.live = (@ /\ e.kind # "uploadAll")]
  PROVE  MInv'
<1>1. MediaGrow /\ StoredOK'
  BY StoredKept DEF MInv
<1>2. DialogOK'
  BY <1>1, DialogKept DEF MInv, DialogOK
<1>3. ASSUME NEW d \in mediaCalls' PROVE CallOK(d)'
  <2>1. PICK e \in mediaCalls :
          \/ UNCHANGED modal /\ (d = e \/ d = [e EXCEPT !.live = (@ /\ e.kind # "uploadOne")])
          \/ d = [e EXCEPT !.live = (@ /\ e.kind # "uploadAll")]
    OBVIOUS
  <2>2. CallOK(e) /\ DOMAIN e = {"kind", "items", "values", "copy", "live", "done", "ids"}
    BY DEF MInv, CallOK
  <2>3. /\ DOMAIN d = DOMAIN e /\ \A k \in DOMAIN e \ {"live"} : d[k] = e[k]
        /\ d.live => e.live
        /\ UNCHANGED modal \/ (d.live => e.kind # "uploadAll")
    BY <2>1, <2>2
  <2>4. QED
    BY <1>1, <2>2, <2>3, CallKept
<1>4. QED
  BY <1>1, <1>2, <1>3 DEF MInv

LEMMA MediaReplyKeeps ==
  ASSUME MInv, NEW c \in mediaCalls, MediaReply(c)
  PROVE  MInv'
<1>1. c.done /\ UNCHANGED <<kept, media, links, mediaSteps>>
  BY DEF MediaReply
<1>2. CallOK(c)
  BY DEF MInv
<1>3. MediaGrow /\ StoredOK'
  BY <1>1, StoredKept DEF MInv
<1>4. CASE onComplete(c) /\ c.live
  <2>1. UNCHANGED <<modal, fields, files, chosen, creating, panel1, shown>> /\ modal = "upload"
    BY <1>2, <1>4 DEF onComplete, CallOK, UploadOK, single
  <2>2. PICK d : CallOK(d) /\ mediaCalls' = (mediaCalls \ {c}) \cup {d}
    BY <1>1, <1>4, UploadedLinks
  <2>3. \A e \in mediaCalls' : CallOK(e)'
    BY <1>1, <2>1, <2>2, SentKeeps
  <2>4. /\ \A i \in DOMAIN files' : FileOK(files[i])'
        /\ \A i \in DOMAIN chosen' : ChoiceOK(chosen[i])'
    BY <1>1, <2>1 DEF MInv, DialogOK, FileOK, ChoiceOK, uuids
  <2>5. DialogOK'
    BY <1>1, <2>1, <2>4 DEF MInv, DialogOK, kept
  <2>6. QED
    BY <1>3, <2>3, <2>5 DEF MInv
<1>5. CASE onComplete(c) /\ ~c.live
  <2>1. mediaCalls' = mediaCalls \ {c} /\ UNCHANGED <<dialogs, creating, panel1, shown>>
    BY <1>5 DEF onComplete, dialogs, single
  <2>2. UNCHANGED modal
    BY <2>1 DEF dialogs
  <2>3. QED
    BY <1>1, <2>1, <2>2, AnsweredKeeps DEF MInv, DialogOK
<1>6. CASE afterSave(c)
  <2>1. Closed /\ UNCHANGED <<creating, panel1, shown>>
        /\ mediaCalls' = {[d EXCEPT !.live = (@ /\ d.kind # "uploadAll")] : d \in mediaCalls \ {c}}
    BY <1>6 DEF afterSave, single
  <2>2. QED
    BY <1>1, <2>1, AnsweredKeeps DEF MInv, DialogOK
<1>7. CASE onUploaded(c) /\ c.live
  <2> DEFINE link == relationship([id |-> c.ids[1], user_defined |-> NoValues])
  <2>1. c.ids[1] \in DOMAIN media
    BY <1>1, <1>2, <1>7 DEF onUploaded, CallOK
  <2>2. LinkOK(link)
    BY <2>1, NothingTyped, RelationshipOK DEF MInv
  <2>3. /\ mediaCalls' = (mediaCalls \ {c}) \cup {Sent("select", <<link>>)}
        /\ UNCHANGED <<dialogs, creating, panel1>> /\ shown' = c.ids[1]
    BY <1>7 DEF onUploaded
  <2> HIDE DEF link
  <2>4. List(<<link>>) /\ DOMAIN <<link>> = {1} /\ <<link>>[1] = link
    BY ListOfOne
  <2>5. CallOK(Sent("select", <<link>>))
    BY <2>2, <2>4 DEF CallOK, Sent
  <2>6. \A e \in mediaCalls' : CallOK(e)'
    BY <1>1, <2>3, <2>5, SentKeeps DEF dialogs
  <2>7. DialogOK'
    BY <1>1, <1>3, <2>1, <2>3, DialogKept DEF MInv, DialogOK
  <2>8. QED
    BY <1>3, <2>6, <2>7 DEF MInv
<1>8. CASE onUploaded(c) /\ ~c.live
  <2>1. mediaCalls' = mediaCalls \ {c} /\ UNCHANGED <<dialogs, creating, panel1, shown>>
    BY <1>8 DEF onUploaded
  <2>2. UNCHANGED modal
    BY <2>1 DEF dialogs
  <2>3. QED
    BY <1>1, <2>1, <2>2, AnsweredKeeps DEF MInv, DialogOK
<1>9. CASE afterSelect(c)
  <2>1. /\ mediaCalls' = {[d EXCEPT !.live = (@ /\ d.kind # "uploadOne")] : d \in mediaCalls \ {c}}
        /\ UNCHANGED <<dialogs, creating>> /\ shown' = NoMedium
    BY <1>9 DEF afterSelect
  <2>2. panel1' \in DOMAIN links \cup {NoRow}
    BY <1>1, <1>2, <1>9 DEF afterSelect, CallOK
  <2>3. UNCHANGED modal
    BY <2>1 DEF dialogs
  <2>4. QED
    BY <1>1, <2>1, <2>2, <2>3, AnsweredKeeps DEF MInv, DialogOK
<1>10. CASE afterRow(c)
  <2>1. mediaCalls' = mediaCalls \ {c} /\ UNCHANGED <<dialogs, creating>>
    BY <1>10 DEF afterRow
  <2>2. panel1' \in {panel1, NoRow} /\ shown' \in {shown, NoMedium}
    BY <1>10 DEF afterRow, single
  <2>3. UNCHANGED modal
    BY <2>1 DEF dialogs
  <2>4. QED
    BY <1>1, <2>1, <2>2, <2>3, AnsweredKeeps DEF MInv, DialogOK
<1>11. CASE afterManifest(c)
  <2>1. mediaCalls' = mediaCalls \ {c} /\ UNCHANGED <<dialogs, panel1, shown>> /\ creating' = FALSE
    BY <1>11 DEF afterManifest, single
  <2>2. UNCHANGED modal
    BY <2>1 DEF dialogs
  <2>3. QED
    BY <1>1, <2>1, <2>2, AnsweredKeeps DEF MInv, DialogOK
<1>12. QED
  BY <1>4, <1>5, <1>6, <1>7, <1>8, <1>9, <1>10, <1>11 DEF MediaReply

LEMMA MediaInitOK == MediaInit => MInv
<1> SUFFICES ASSUME MediaInit PROVE MInv
  OBVIOUS
<1>1. DialogOK
  <2>1. {inverse, multiple, required, fields, creating} \subseteq BOOLEAN
    BY DEF MediaInit
  <2>2. mediaSteps \in 0..MaxMediaSteps
    BY MediaAssumption DEF MediaInit
  <2>3. /\ modal = "none" /\ files = <<>> /\ uploaded = <<>> /\ chosen = <<>>
        /\ panel1 = NoRow /\ shown = NoMedium
    BY DEF MediaInit
  <2>4. List(<<>>) /\ DOMAIN <<>> = {}
    BY EmptyIsList
  <2>5. QED
    BY <2>1, <2>2, <2>3, <2>4 DEF DialogOK
<1>2. List(media) /\ DOMAIN media = {1} /\ MediumOK(media[1])
  <2>1. media = [id \in 1..1 |-> media[id]] /\ media[1] = [content |-> "stored", user_defined |-> NoValues]
    BY DEF MediaInit
  <2>2. QED
    BY <2>1, NothingTyped DEF List, MediumOK
<1>3. StoredOK
  BY <1>2, EmptyIsList DEF MediaInit, StoredOK
<1>4. QED
  BY <1>1, <1>3 DEF MediaInit, MInv

LEMMA MediaStep == MInv /\ [MediaNext]_mediaVars => MInv'
<1> SUFFICES ASSUME MInv, [MediaNext]_mediaVars PROVE MInv'
  OBVIOUS
<1>1. CASE MediaUser
  <2>1. Typing \/ Sending
    BY <1>1 DEF MediaUser, Typing, Sending
  <2>2. QED
    BY <2>1, TypingKeeps, SendingKeeps
<1>2. CASE \E c \in mediaCalls : ServeMediaCall(c)
  BY <1>2, ServeMediaCallKeeps
<1>3. CASE \E c \in mediaCalls : MediaReply(c)
  BY <1>3, MediaReplyKeeps
<1>4. CASE \E c \in mediaCalls : MediaFail(c)
  <2>1. PICK c \in mediaCalls : MediaFail(c)
    BY <1>4
  <2>2. mediaCalls' = mediaCalls \ {c}
        /\ UNCHANGED <<kept, media, links, dialogs, creating, panel1, shown, mediaSteps>>
    BY <2>1 DEF MediaFail, single
  <2>3. UNCHANGED modal
    BY <2>2 DEF dialogs
  <2>4. QED
    BY <2>2, <2>3, AnsweredKeeps DEF MInv, DialogOK
<1>5. CASE UNCHANGED mediaVars
  <2>1. UNCHANGED <<kept, media, links, dialogs, creating, panel1, shown, mediaSteps, modal,
                    mediaCalls>>
    BY <1>5 DEF mediaVars, kept, dialogs
  <2>2. CASE mediaCalls = {}
    <3>1. MediaGrow /\ StoredOK'
      BY <2>1, StoredKept DEF MInv
    <3>2. DialogOK'
      BY <2>1, <3>1, DialogKept DEF MInv, DialogOK
    <3>3. QED
      BY <2>1, <2>2, <3>1, <3>2 DEF MInv
  <2>3. CASE mediaCalls # {}
    BY <2>1, <2>3, AnsweredKeeps DEF MInv, DialogOK
  <2>4. QED
    BY <2>2, <2>3
<1>6. QED
  BY <1>1, <1>2, <1>3, <1>4, <1>5 DEF MediaNext

LEMMA AlwaysMInv == MediaSpec => []MInv
<1>1. QED
  BY MediaInitOK, MediaStep, PTL DEF MediaSpec

\* Every relationship with a medium joins the page and a medium, at the side of
\* its direction, and holds only what was typed for that medium's file, whatever
\* files, modals, requests and late answers there are (RelatedMediaContents,
\* MediaContentsUploadModal, MediaContentsSelector).
THEOREM UploadsNeverMix == MediaSpec => []UploadsStayTogether
<1>1. MInv => UploadsStayTogether
  BY DEF MInv, StoredOK, UploadsStayTogether, Live, MediumOK, LinkOK
<1>2. QED
  BY <1>1, AlwaysMInv, PTL

LEMMA MediaTypes == MInv => MediaTypeOK
BY DEF MInv, DialogOK, MediaTypeOK, IsInjective

\* The variables of the related media have their types (RelatedMediaContents).
THEOREM MediaTypeCorrect == MediaSpec => []MediaTypeOK
<1>1. QED
  BY MediaTypes, AlwaysMInv, PTL

(***************************************************************************)
(* Forms: the inductive invariant.  A form and what is stored have the     *)
(* fields of the class; a child that the form has an id for is the only    *)
(* one with it; and what was not touched is as it is stored.               *)
(***************************************************************************)
GoodKids(l, kids, next, n) ==
  /\ kids \subseteq Children(l) /\ IsFiniteSet(kids)
  /\ \A k \in kids : /\ (k.id = NoChild <=> k.uid # 0) /\ k.id < next /\ k.uid <= n
                     /\ k.gone => k.id # NoChild
  /\ \A a, b \in kids : a.id = b.id /\ a.uid = b.uid => a = b

GoodRows(l, rs, next) ==
  /\ rs \subseteq [id : Nat \ {0}, vals : [ChildModal(l) -> Values]] /\ IsFiniteSet(rs)
  /\ \A r \in rs : r.id < next
  /\ \A r, s \in rs : r.id = s.id => r = s

Kid(r) == [id |-> r.id, uid |-> 0, gone |-> FALSE, vals |-> r.vals]
KidsOf(rs) == {Kid(r) : r \in rs}
ShownKids(kids) == {k \in kids : ~k.gone}
ValsOf(rs) == {r.vals : r \in rs}

\* Until the first save every stored child is in the form, and a list that was
\* not touched is the stored one.
SameList(kids, rs, first, clean) ==
  /\ first => \A r \in rs : \E k \in kids : k.id = r.id
  /\ clean => kids = KidsOf(rs)

GoodOne(o, one, row) ==
  /\ one \in Ones \cup {NoOne} /\ row \in [id : Nat \ {0}, v : Values] \cup {NoOne}
  /\ one # NoOne => /\ one.gone => one.v = 0
                    /\ o = "place_geometry" /\ one.gone => one.id # NoChild

LoadedOne(row) == IF row = NoOne THEN NoOne ELSE [id |-> row.id, v |-> row.v, gone |-> FALSE]

FirstOne(o, one, row) ==
  /\ one = NoOne => row = NoOne
  /\ one # NoOne /\ o # "place_geometry" => (one.id = NoChild => row = NoOne)

\* A save leaves an empty geometry beside a form that has none.
LeftEmpty(o, one, row) == o = "place_geometry" /\ one = NoOne /\ ValueOf(row) = 0

SameOne(o, one, row, first, clean) ==
  /\ first => FirstOne(o, one, row)
  /\ clean => one = LoadedOne(row) \/ LeftEmpty(o, one, row)

Cleared(o) == o \notin touched /\ (o = "place_geometry" => drawn = NoMap)

Fields == Form(formClass)

CountsOK ==
  /\ formClass \in Classes /\ edits \in Values /\ nextChild \in Nat \ {0}
  /\ opened \in Nat /\ saves \in opened..MaxSaves /\ drawn \in Values \cup {NoMap}

ShapeOK(f) == /\ DOMAIN f = {"texts", "lists", "ones"} /\ f.texts \in [Fields.texts -> Values]
              /\ DOMAIN f.lists = Fields.lists /\ DOMAIN f.ones = Fields.ones

TextsOK == \A f \in Fields.texts : f \notin touched => form.texts[f] = storedForm.texts[f]

ListOK(l) ==
  /\ GoodKids(l, form.lists[l], nextChild, edits) /\ GoodRows(l, storedForm.lists[l], nextChild)
  /\ SameList(form.lists[l], storedForm.lists[l], saves = opened, l \notin touched)

OneOK(o) ==
  /\ GoodOne(o, form.ones[o], storedForm.ones[o])
  /\ SameOne(o, form.ones[o], storedForm.ones[o], saves = opened, Cleared(o))

FInv ==
  /\ CountsOK /\ ShapeOK(form) /\ ShapeOK(storedForm) /\ TextsOK
  /\ \A l \in Fields.lists : ListOK(l)
  /\ \A o \in Fields.ones : OneOK(o)

\* What a form edits is sent and permitted, and so is everything of a child.
LEMMA FormsAreSent ==
  ASSUME NEW c \in Classes
  PROVE  /\ Form(c).texts \cup Form(c).lists \cup Form(c).ones \subseteq Payload(c) \cap Permitted(c)
         /\ \A l \in Form(c).lists : ChildModal(l) \cup {"id", "_destroy"} \subseteq ChildPayload(l)
<1> USE DEF Form, Payload, Permitted, ChildModal, ChildPayload
<1>1. CASE c = "Event"
  BY <1>1 DEF EventForm, EventPayload
<1>2. CASE c = "Instance"
  BY <1>2 DEF InstanceForm, InstancePayload, SourceNameModal, SourceNames
<1>3. CASE c = "Item"
  BY <1>3 DEF ItemForm, ItemPayload, SourceNameModal, SourceNames
<1>4. CASE c = "MediaContent"
  BY <1>4 DEF MediaContentForm, MediaContentPayload
<1>5. CASE c = "Organization"
  BY <1>5 DEF OrganizationForm, OrganizationPayload, OrganizationNameModal, OrganizationNames
<1>6. CASE c = "Person"
  BY <1>6 DEF PersonForm, PersonPayload, PersonNameModal, PersonNames
<1>7. CASE c = "Place"
  BY <1>7 DEF PlaceForm, PlacePayload, PlaceNameModal, PlaceNames, PlaceLayerModal, PlaceLayers
<1>8. CASE c = "Taxonomy"
  BY <1>8 DEF TaxonomyItemForm, TaxonomyPayload
<1>9. CASE c = "Work"
  BY <1>9 DEF WorkForm, WorkPayload, SourceNameModal, SourceNames
<1>10. QED
  BY <1>1, <1>2, <1>3, <1>4, <1>5, <1>6, <1>7, <1>8, <1>9, FormAssumption

\* Only a place has a geometry, and only an event has dates.
LEMMA OnesOfForms ==
  /\ "place_geometry" \in Form("Place").ones /\ "place_geometry" \notin Form("Event").ones
  /\ {"name", "content"} \subseteq Form("MediaContent").texts
BY DEF Form, PlaceForm, EventForm, MediaContentForm

LEMMA ImageFinite ==
  ASSUME NEW S, IsFiniteSet(S), NEW f, f = [x \in S |-> f[x]]
  PROVE  IsFiniteSet({f[x] : x \in S})
<1>1. f \in Surjection(S, {f[x] : x \in S})
  BY DEF Surjection
<1>2. QED
  BY <1>1, FS_Surjection

\* The children of a stored record are good children of a form.
LEMMA LoadedKids ==
  ASSUME NEW l, NEW rs, NEW next \in Nat, GoodRows(l, rs, next), NEW n \in Nat
  PROVE  GoodKids(l, KidsOf(rs), next, n) /\ SameList(KidsOf(rs), rs, TRUE, TRUE)
<1> DEFINE f    == [r \in rs |-> Kid(r)]
           kids == {Kid(r) : r \in rs}
<1> USE DEF KidsOf
<1>1. IsFiniteSet(kids)
  <2>1. f = [r \in rs |-> f[r]] /\ kids = {f[r] : r \in rs}
    OBVIOUS
  <2>2. IsFiniteSet(rs)
    BY DEF GoodRows
  <2> HIDE DEF f, kids
  <2>3. IsFiniteSet({f[r] : r \in rs})
    BY <2>1, <2>2, ImageFinite
  <2>4. QED
    BY <2>1, <2>3
<1>2. 0 \in Values
  BY FormAssumption DEF Values
<1>3. ASSUME NEW r \in rs
      PROVE  /\ Kid(r) \in Children(l) /\ Kid(r).id = r.id /\ Kid(r).uid = 0 /\ ~Kid(r).gone
             /\ r.id # NoChild /\ r.id < next
  BY <1>2 DEF GoodRows, Kid, Children, NoChild
<1>4. GoodKids(l, kids, next, n)
  BY <1>1, <1>3 DEF GoodKids, GoodRows
<1>5. QED
  BY <1>3, <1>4 DEF SameList

\* A child that takes the place of the child it was.
LEMMA ChildReplaced ==
  ASSUME NEW l, NEW kids, NEW next \in Nat, NEW n \in Nat, GoodKids(l, kids, next, n),
         NEW child \in Children(l), child.id = NoChild <=> child.uid # 0, child.id < next,
         child.uid <= n + 1, ~child.gone,
         NEW new, new = {k \in kids : ~IsChild(child, k)} \cup {child}
  PROVE  /\ GoodKids(l, new, next, n + 1)
         /\ \A k \in kids : k.id # NoChild => \E j \in new : j.id = k.id
<1>1. IsFiniteSet(new)
  <2>1. IsFiniteSet({k \in kids : ~IsChild(child, k)})
    BY FS_Subset DEF GoodKids
  <2>2. QED
    BY <2>1, FS_AddElement
<1>2. \A k \in kids : k.uid \in Nat
  BY FormAssumption DEF GoodKids, Children, Values
<1>3. \A a, b \in new : a.id = b.id /\ a.uid = b.uid => a = b
  BY DEF GoodKids, IsChild
<1>4. \A k \in kids : k.id # NoChild => \E j \in new : j.id = k.id
  BY DEF GoodKids, IsChild
<1>5. \A k \in new : /\ (k.id = NoChild <=> k.uid # 0) /\ k.id < next /\ k.uid <= n + 1
                     /\ k.gone => k.id # NoChild
  BY <1>2 DEF GoodKids
<1>6. new \subseteq Children(l)
  BY DEF GoodKids
<1>7. QED
  BY <1>1, <1>3, <1>4, <1>5, <1>6 DEF GoodKids

\* A child that is removed: marked if it is stored, forgotten otherwise.
LEMMA ChildDeleted ==
  ASSUME NEW l, NEW kids, NEW next \in Nat, NEW n \in Nat, GoodKids(l, kids, next, n),
         NEW child \in kids, NEW marked \in Children(l), marked.id = child.id, marked.uid = child.uid,
         NEW new, new = IF child.id # NoChild THEN (kids \ {child}) \cup {marked} ELSE kids \ {child}
  PROVE  /\ GoodKids(l, new, next, n + 1)
         /\ \A k \in kids : k.id # NoChild => \E j \in new : j.id = k.id
<1>1. IsFiniteSet(new)
  <2>1. IsFiniteSet(kids \ {child})
    BY FS_RemoveElement DEF GoodKids
  <2>2. QED
    BY <2>1, FS_AddElement
<1>2. \A k \in kids : k.uid \in Nat
  BY FormAssumption DEF GoodKids, Children, Values
<1>3. \A k \in new : /\ (k.id = NoChild <=> k.uid # 0) /\ k.id < next /\ k.uid <= n + 1
                     /\ k.gone => k.id # NoChild
  BY <1>2 DEF GoodKids
<1>4. \A a, b \in new : a.id = b.id /\ a.uid = b.uid => a = b
  BY DEF GoodKids
<1>5. new \subseteq Children(l)
  BY DEF GoodKids
<1>6. QED
  BY <1>1, <1>3, <1>4, <1>5 DEF GoodKids

(***************************************************************************)
(* Forms: edits.                                                           *)
(***************************************************************************)
LEMMA Fieldwise ==
  ASSUME FInv
  PROVE  /\ formClass \in Classes /\ edits \in Nat /\ nextChild \in Nat
         /\ DOMAIN form = {"texts", "lists", "ones"} /\ DOMAIN form.texts = Fields.texts
         /\ DOMAIN form.lists = Fields.lists /\ DOMAIN form.ones = Fields.ones
BY FormAssumption DEF FInv, CountsOK, ShapeOK, Values

\* An edit that leaves what it does not touch as it is, and what it touches good.
LEMMA EditKeeps ==
  ASSUME FInv, NEW fs, Touch(fs), drawn' \in Values \cup {NoMap}, ShapeOK(form'),
         \A f \in Fields.texts : form'.texts[f] = form.texts[f] \/ f \in fs,
         \A l \in Fields.lists :
           \/ form'.lists[l] = form.lists[l]
           \/ /\ l \in fs /\ GoodKids(l, form'.lists[l], nextChild, edits + 1)
              /\ \A k \in form.lists[l] : k.id # NoChild => \E j \in form'.lists[l] : j.id = k.id,
         \A o \in Fields.ones :
           \/ form'.ones[o] = form.ones[o] /\ (o # "place_geometry" \/ drawn' = drawn)
           \/ /\ o \in fs /\ GoodOne(o, form'.ones[o], storedForm.ones[o])
              /\ SameOne(o, form'.ones[o], storedForm.ones[o], saves = opened, FALSE)
  PROVE  FInv'
<1>1. /\ edits' = edits + 1 /\ touched' = touched \cup fs
      /\ UNCHANGED <<formClass, storedForm, nextChild, saves, opened>>
  BY DEF Touch
<1>2. Fields' = Fields
  BY <1>1 DEF Fields
<1>3. CountsOK'
  <2>1. edits' \in Values
    BY <1>1, FormAssumption DEF FInv, CountsOK, Touch, Values
  <2>2. QED
    BY <1>1, <2>1 DEF FInv, CountsOK
<1>4. ShapeOK(form)' /\ ShapeOK(storedForm)'
  BY <1>1, <1>2 DEF FInv, ShapeOK
<1>5. TextsOK'
  BY <1>1, <1>2 DEF FInv, TextsOK
<1>6. ASSUME NEW l \in Fields.lists PROVE ListOK(l)'
  <2>1. ListOK(l)
    BY DEF FInv
  <2>2. CASE form'.lists[l] = form.lists[l]
    <3>1. GoodKids(l, form.lists[l], nextChild, edits + 1)
      BY <2>1, FormAssumption DEF ListOK, GoodKids, Children, Values, FInv, CountsOK
    <3>2. QED
      BY <1>1, <2>1, <2>2, <3>1 DEF ListOK, SameList
  <2>3. CASE /\ l \in fs /\ GoodKids(l, form'.lists[l], nextChild, edits + 1)
             /\ \A k \in form.lists[l] : k.id # NoChild => \E j \in form'.lists[l] : j.id = k.id
    <3>1. \A r \in storedForm.lists[l] : r.id # NoChild
      BY <2>1 DEF ListOK, GoodRows, NoChild
    <3>2. QED
      BY <1>1, <2>1, <2>3, <3>1 DEF ListOK, SameList
  <2>4. QED
    BY <2>2, <2>3
<1>7. ASSUME NEW o \in Fields.ones PROVE OneOK(o)'
  <2>1. OneOK(o)
    BY DEF FInv
  <2>2. CASE form'.ones[o] = form.ones[o] /\ (o # "place_geometry" \/ drawn' = drawn)
    <3>1. Cleared(o)' => Cleared(o)
      BY <1>1, <2>2 DEF Cleared
    <3>2. QED
      BY <1>1, <2>1, <2>2, <3>1 DEF OneOK, SameOne, FirstOne
  <2>3. CASE /\ o \in fs /\ GoodOne(o, form'.ones[o], storedForm.ones[o])
             /\ SameOne(o, form'.ones[o], storedForm.ones[o], saves = opened, FALSE)
    <3>1. ~Cleared(o)'
      BY <1>1, <2>3 DEF Cleared
    <3>2. QED
      BY <1>1, <2>3, <3>1 DEF OneOK, SameOne, FirstOne
  <2>4. QED
    BY <2>2, <2>3
<1>8. QED
  BY <1>2, <1>3, <1>4, <1>5, <1>6, <1>7 DEF FInv

LEMMA NextValue ==
  ASSUME FInv, NEW fs, Touch(fs)
  PROVE  edits + 1 \in Values /\ {0, edits + 1} \subseteq Values /\ edits + 1 \in Nat \ {0}
BY FormAssumption DEF FInv, CountsOK, Touch, Values

LEMMA TextEdits ==
  ASSUME FInv, UploadContent \/ \E f \in Fields.texts : TypeText(f)
  PROVE  FInv'
<1>1. ASSUME NEW v, NEW fs, fs \subseteq Fields.texts, Touch(fs), UNCHANGED drawn,
             NEW texts, texts \in [Fields.texts -> Values],
             \A f \in Fields.texts : texts[f] = form.texts[f] \/ f \in fs,
             form' = [form EXCEPT !.texts = texts]
      PROVE  FInv'
  <2>1. /\ DOMAIN form' = DOMAIN form /\ form'.texts = texts /\ form'.lists = form.lists
        /\ form'.ones = form.ones
    BY <1>1, Fieldwise
  <2>2. ShapeOK(form') /\ drawn' \in Values \cup {NoMap}
    BY <1>1, <2>1, Fieldwise DEF ShapeOK, FInv, CountsOK
  <2>3. QED
    BY <1>1, <2>1, <2>2, EditKeeps
<1>2. ASSUME NEW f \in Fields.texts, TypeText(f) PROVE FInv'
  <2> DEFINE texts == [form.texts EXCEPT ![f] = edits + 1]
  <2>1. Touch({f}) /\ UNCHANGED drawn
    BY <1>2 DEF TypeText
  <2>2. form' = [form EXCEPT !.texts = texts]
    BY <1>2, Fieldwise DEF TypeText
  <2>3. edits + 1 \in Values /\ form.texts \in [Fields.texts -> Values]
    BY <2>1, NextValue DEF FInv, ShapeOK
  <2>4. texts \in [Fields.texts -> Values] /\ \A g \in Fields.texts : texts[g] = form.texts[g] \/ g \in {f}
    BY <2>3
  <2> HIDE DEF texts
  <2>5. QED
    BY <1>1, <2>1, <2>2, <2>4
<1>3. CASE UploadContent
  <2> DEFINE texts == [form.texts EXCEPT !["name"] = edits + 1, !["content"] = edits + 1]
  <2>1. Touch({"name", "content"}) /\ UNCHANGED drawn /\ {"name", "content"} \subseteq Fields.texts
    BY <1>3, OnesOfForms DEF UploadContent, Fields
  <2>2. form' = [form EXCEPT !.texts = texts]
    BY <1>3, Fieldwise DEF UploadContent
  <2>3. edits + 1 \in Values /\ form.texts \in [Fields.texts -> Values]
    BY <2>1, NextValue DEF FInv, ShapeOK
  <2>4. /\ texts \in [Fields.texts -> Values]
        /\ \A g \in Fields.texts : texts[g] = form.texts[g] \/ g \in {"name", "content"}
    BY <2>3
  <2> HIDE DEF texts
  <2>5. QED
    BY <1>1, <2>1, <2>2, <2>4
<1>4. QED
  BY <1>2, <1>3

\* An edit of one list.
LEMMA ListEdit ==
  ASSUME FInv, NEW l \in Fields.lists, Touch({l}), UNCHANGED drawn, NEW kids,
         form' = [form EXCEPT !.lists[l] = kids], GoodKids(l, kids, nextChild, edits + 1),
         \A k \in form.lists[l] : k.id # NoChild => \E j \in kids : j.id = k.id
  PROVE  FInv'
<1>1. /\ DOMAIN form' = DOMAIN form /\ form'.texts = form.texts /\ form'.ones = form.ones
      /\ DOMAIN form'.lists = Fields.lists
      /\ \A m \in Fields.lists : form'.lists[m] = IF m = l THEN kids ELSE form.lists[m]
  BY Fieldwise
<1>2. ShapeOK(form') /\ drawn' \in Values \cup {NoMap}
  BY <1>1, Fieldwise DEF ShapeOK, FInv, CountsOK
<1>3. QED
  BY <1>1, <1>2, EditKeeps

LEMMA ListEdits ==
  ASSUME FInv, NEW l \in Fields.lists,
         \/ \E a \in ChildModal(l) : AddChild(l, a) \/ \E k \in form.lists[l] : EditChild(l, k, a)
         \/ \E k \in form.lists[l] : DeleteChild(l, k)
  PROVE  FInv'
<1>1. /\ edits \in Nat /\ nextChild \in Nat \ {0} /\ GoodKids(l, form.lists[l], nextChild, edits)
  BY Fieldwise DEF FInv, CountsOK, ListOK
<1>2. ASSUME NEW child \in Children(l), SaveChild(l, child), Touch({l}), UNCHANGED drawn,
             child.id = NoChild <=> child.uid # 0, child.id < nextChild, child.uid <= edits + 1,
             ~child.gone
      PROVE  FInv'
  <2> DEFINE kids == {k \in form.lists[l] : ~IsChild(child, k)} \cup {child}
  <2>1. form' = [form EXCEPT !.lists[l] = kids]
    BY <1>2 DEF SaveChild
  <2>2. /\ GoodKids(l, kids, nextChild, edits + 1)
        /\ \A k \in form.lists[l] : k.id # NoChild => \E j \in kids : j.id = k.id
    BY <1>1, <1>2, ChildReplaced
  <2> HIDE DEF kids
  <2>3. QED
    BY <1>2, <2>1, <2>2, ListEdit
<1>3. ASSUME NEW a \in ChildModal(l), AddChild(l, a) PROVE FInv'
  <2> DEFINE child == [id |-> NoChild, uid |-> edits + 1, gone |-> FALSE,
                       vals |-> [b \in ChildModal(l) |-> IF b = a THEN edits + 1 ELSE 0]]
  <2>1. SaveChild(l, child) /\ Touch({l}) /\ UNCHANGED drawn
    BY <1>3 DEF AddChild
  <2>2. child \in Children(l)
    BY <2>1, NextValue DEF Children, NoChild
  <2>3. /\ child.id = NoChild <=> child.uid # 0
        /\ child.id < nextChild /\ child.uid <= edits + 1 /\ ~child.gone
    BY <1>1 DEF NoChild
  <2> HIDE DEF child
  <2>4. QED
    BY <1>2, <2>1, <2>2, <2>3
<1>4. ASSUME NEW a \in ChildModal(l), NEW k \in form.lists[l], EditChild(l, k, a) PROVE FInv'
  <2> DEFINE child == [k EXCEPT !.vals[a] = edits + 1]
  <2>1. SaveChild(l, child) /\ Touch({l}) /\ UNCHANGED drawn /\ ~k.gone
    BY <1>4 DEF EditChild
  <2>2. /\ k \in Children(l) /\ (k.id = NoChild <=> k.uid # 0) /\ k.id < nextChild
        /\ k.uid \in Nat /\ k.uid <= edits
    BY <1>1, FormAssumption DEF GoodKids, Children, Values
  <2>3. child \in Children(l) /\ child.id = k.id /\ child.uid = k.uid /\ child.gone = k.gone
    BY <2>1, <2>2, NextValue DEF Children
  <2> HIDE DEF child
  <2>4. QED
    BY <1>1, <1>2, <2>1, <2>2, <2>3
<1>5. ASSUME NEW k \in form.lists[l], DeleteChild(l, k) PROVE FInv'
  <2> DEFINE marked == [k EXCEPT !.gone = TRUE]
             kids   == IF k.id # NoChild THEN (form.lists[l] \ {k}) \cup {marked}
                                         ELSE form.lists[l] \ {k}
  <2>1. form' = [form EXCEPT !.lists[l] = kids] /\ Touch({l}) /\ UNCHANGED drawn
    BY <1>5 DEF DeleteChild
  <2>2. marked \in Children(l) /\ marked.id = k.id /\ marked.uid = k.uid
    BY <1>1 DEF GoodKids, Children
  <2> HIDE DEF marked
  <2>3. /\ GoodKids(l, kids, nextChild, edits + 1)
        /\ \A j \in form.lists[l] : j.id # NoChild => \E i \in kids : i.id = j.id
    BY <1>1, <2>2, ChildDeleted
  <2> HIDE DEF kids
  <2>4. QED
    BY <2>1, <2>3, ListEdit
<1>6. QED
  BY <1>3, <1>4, <1>5

\* An edit of one of the children of which there is one.
LEMMA OneEdit ==
  ASSUME FInv, NEW o \in Fields.ones, Touch({o}), drawn' \in Values \cup {NoMap},
         drawn' = drawn \/ o = "place_geometry", NEW one, form' = [form EXCEPT !.ones[o] = one],
         GoodOne(o, one, storedForm.ones[o]),
         SameOne(o, one, storedForm.ones[o], saves = opened, FALSE)
  PROVE  FInv'
<1>1. /\ DOMAIN form' = DOMAIN form /\ form'.texts = form.texts /\ form'.lists = form.lists
      /\ DOMAIN form'.ones = Fields.ones
      /\ \A p \in Fields.ones : form'.ones[p] = IF p = o THEN one ELSE form.ones[p]
  BY Fieldwise
<1>2. ShapeOK(form')
  BY <1>1, Fieldwise DEF ShapeOK, FInv
<1>3. QED
  BY <1>1, <1>2, EditKeeps

LEMMA SomeOne == NoOne \notin Ones /\ NoOne \notin [id : Nat \ {0}, v : Values]
<1>1. Values \subseteq Nat
  BY FormAssumption DEF Values
<1>2. Ones \subseteq [id : Nat, v : Nat, gone : BOOLEAN]
  BY <1>1 DEF Ones
<1>3. [id : Nat \ {0}, v : Values] \subseteq [id : Nat, v : Nat]
  BY <1>1
<1>4. QED
  BY <1>2, <1>3, FormAssumption

\* What the map makes of a geometry.
LEMMA GeometryOK ==
  ASSUME NEW old \in Ones \cup {NoOne}, NEW v \in Values
  PROVE  LET g == Geometry(old, v) IN
         g \in Ones /\ g # NoOne /\ (g.gone => g.v = 0 /\ g.id # NoChild)
<1>1. 0 \in Values
  BY FormAssumption DEF Values
<1>2. Geometry(old, v) \in Ones
  BY <1>1, SomeOne DEF Geometry, Ones, NoChild
<1>3. QED
  BY <1>1, <1>2, SomeOne DEF Geometry

LEMMA OneEdits ==
  ASSUME FInv,
         \/ \E o \in Fields.ones, v \in {0, edits + 1} : SetDate(o, v)
         \/ \E v \in {0, edits + 1} : Draw(v)
         \/ UploadGeometry(edits + 1)
  PROVE  FInv'
<1>1. \A o \in Fields.ones : /\ GoodOne(o, form.ones[o], storedForm.ones[o])
                             /\ SameOne(o, form.ones[o], storedForm.ones[o], saves = opened, Cleared(o))
  BY DEF FInv, OneOK
<1>2. drawn \in Values \cup {NoMap} /\ 0 \in Values /\ NoMap \notin Values
  BY FormAssumption DEF FInv, CountsOK, Values
<1>3. ASSUME NEW o \in Fields.ones, NEW v \in {0, edits + 1}, SetDate(o, v) PROVE FInv'
  <2> DEFINE old == form.ones[o]
             one == [id |-> IF old = NoOne THEN NoChild ELSE old.id, v |-> v, gone |-> (v = 0)]
  <2>1. Touch({o}) /\ UNCHANGED drawn /\ form' = [form EXCEPT !.ones[o] = one]
    BY <1>3, Fieldwise DEF SetDate
  <2>2. o # "place_geometry"
    BY <1>3, OnesOfForms DEF SetDate, Fields
  <2>3. v \in Values
    BY <2>1, NextValue
  <2>4. one \in Ones
    BY <1>1, <2>3 DEF Ones, GoodOne, NoChild
  <2>5. one # NoOne
    BY <2>4, SomeOne
  <2>6. GoodOne(o, one, storedForm.ones[o])
    BY <1>1, <2>2, <2>4 DEF GoodOne
  <2>7. SameOne(o, one, storedForm.ones[o], saves = opened, FALSE)
    BY <1>1, <2>2, <2>5 DEF SameOne, FirstOne
  <2> HIDE DEF one
  <2>8. QED
    BY <1>2, <2>1, <2>6, <2>7, OneEdit
<1> DEFINE p == "place_geometry"
<1>4. ASSUME formClass = "Place", Touch({p}), drawn' \in Values \cup {NoMap}, NEW one \in Ones,
             one.gone => one.v = 0 /\ one.id # NoChild, form' = [form EXCEPT !.ones[p] = one]
      PROVE  FInv'
  <2>1. p \in Fields.ones
    BY <1>4, OnesOfForms DEF Fields
  <2>2. one # NoOne
    BY SomeOne
  <2>3. GoodOne(p, one, storedForm.ones[p])
    BY <1>1, <1>4, <2>1 DEF GoodOne
  <2>4. SameOne(p, one, storedForm.ones[p], saves = opened, FALSE)
    BY <2>2 DEF SameOne, FirstOne
  <2>5. QED
    BY <1>4, <2>1, <2>3, <2>4, OneEdit
<1>5. ASSUME formClass = "Place" PROVE form.ones[p] \in Ones \cup {NoOne}
  BY <1>1, <1>5, OnesOfForms DEF Fields, GoodOne
<1>6. ASSUME NEW v \in {0, edits + 1}, Draw(v) PROVE FInv'
  <2> DEFINE one == Geometry(form.ones[p], v)
  <2>1. Touch({p}) /\ drawn' = v /\ form' = [form EXCEPT !.ones[p] = one] /\ formClass = "Place"
    BY <1>6, Fieldwise DEF Draw
  <2>2. v \in Values
    BY <2>1, NextValue
  <2>3. one \in Ones /\ (one.gone => one.v = 0 /\ one.id # NoChild)
    BY <1>5, <2>1, <2>2, GeometryOK
  <2> HIDE DEF one
  <2>4. QED
    BY <1>4, <2>1, <2>2, <2>3
<1>7. ASSUME UploadGeometry(edits + 1) PROVE FInv'
  <2> DEFINE file == [id |-> NoChild, v |-> edits + 1, gone |-> FALSE]
             one  == form'.ones[p]
  <2>1. Touch({p}) /\ UNCHANGED drawn /\ formClass = "Place" /\ p \in DOMAIN form.ones
    BY <1>7, Fieldwise, OnesOfForms DEF UploadGeometry, Fields
  <2>2. PICK g : /\ g = file \/ (g = Geometry(file, drawn) /\ drawn # NoMap)
                 /\ form' = [form EXCEPT !.ones[p] = g]
    BY <1>7 DEF UploadGeometry
  <2>3. file \in Ones /\ ~file.gone
    BY <2>1, NextValue DEF Ones, NoChild
  <2> HIDE DEF file
  <2>4. g \in Ones /\ (g.gone => g.v = 0 /\ g.id # NoChild)
    BY <1>2, <2>2, <2>3, GeometryOK
  <2>5. QED
    BY <1>2, <1>4, <2>1, <2>2, <2>4
<1>8. QED
  BY <1>3, <1>6, <1>7

(***************************************************************************)
(* Forms: saves.                                                           *)
(***************************************************************************)
Saved(k, next) == [id |-> IF k.id = NoChild THEN next + k.uid ELSE k.id, vals |-> k.vals]
RowsAfter(kids, rs, next) ==
  {r \in rs : \A k \in kids : k.id # r.id} \cup {Saved(k, next) : k \in ShownKids(kids)}

\* The stored children after a save of good children.
LEMMA RowsSaved ==
  ASSUME NEW l, NEW kids, NEW rs, NEW next \in Nat \ {0}, NEW n \in Values,
         GoodKids(l, kids, next, n), GoodRows(l, rs, next),
         NEW new, new = RowsAfter(kids, rs, next)
  PROVE  /\ GoodRows(l, new, next + MaxEdits + 1)
         /\ \A k \in kids : ~k.gone => \E r \in new : r.vals = k.vals
         /\ \A k \in kids : k.gone => \A r \in new : r.id # k.id
         /\ kids = KidsOf(rs) => new = rs
         /\ (\A r \in rs : \E k \in kids : k.id = r.id) =>
              /\ ValsOf(new) = ValsOf(ShownKids(kids))
              /\ Cardinality(new) = Cardinality(ShownKids(kids))
<1> USE DEF RowsAfter, KidsOf, ShownKids, ValsOf
<1> DEFINE alive == {x \in kids : ~x.gone}
           old   == {r \in rs : \A k \in kids : k.id # r.id}
           f     == [k \in alive |-> Saved(k, next)]
           made  == {f[k] : k \in alive}
<1>1. /\ new = old \cup made /\ f = [k \in alive |-> f[k]] /\ old \subseteq rs /\ alive \subseteq kids
      /\ \A x : x \in alive <=> x \in kids /\ ~x.gone
      /\ \A x : x \in old <=> x \in rs /\ \A k \in kids : k.id # x.id
      /\ \A x : x \in made <=> \E k \in alive : x = f[k]
      /\ \A k \in alive : f[k] = Saved(k, next)
  OBVIOUS
<1>2. IsFiniteSet(alive) /\ IsFiniteSet(old)
  BY FS_Subset DEF GoodKids, GoodRows
<1>3. IsFiniteSet(made)
  <2> HIDE DEF f, alive
  <2>1. QED
    BY <1>1, <1>2, ImageFinite
<1>4. {x \in kids : ~x.gone} = alive
  OBVIOUS
<1> HIDE DEF f, alive, old, made
<1>5. IsFiniteSet(new)
  <2>1. IsFiniteSet(old \cup made)
    BY <1>2, <1>3, FS_Union
  <2>2. QED
    BY <1>1, <2>1
<1>6. ASSUME NEW k \in kids
      PROVE  /\ k.id \in Nat /\ k.uid \in Nat /\ k.uid <= MaxEdits /\ k.gone \in BOOLEAN
             /\ k.vals \in [ChildModal(l) -> Values] /\ k.id < next
             /\ (k.id = NoChild <=> k.uid # 0) /\ (k.gone => k.id # NoChild)
  BY FormAssumption DEF GoodKids, Children, Values
<1>7. ASSUME NEW k \in alive
      PROVE  /\ f[k].vals = k.vals /\ f[k] \in [id : Nat \ {0}, vals : [ChildModal(l) -> Values]]
             /\ f[k].id = IF k.id = NoChild THEN next + k.uid ELSE k.id
             /\ f[k].id < next + MaxEdits + 1
  BY <1>1, <1>6, FormAssumption DEF Saved, NoChild
<1>8. ASSUME NEW a \in alive, NEW b \in alive, f[a].id = f[b].id PROVE a = b
  <2>1. a \in kids /\ b \in kids
    BY <1>1
  <2>2. a.id = b.id /\ a.uid = b.uid
    BY <1>6, <1>7, <1>8, <2>1 DEF NoChild
  <2>3. QED
    BY <2>1, <2>2 DEF GoodKids
<1>9. ASSUME NEW r \in old
      PROVE  /\ r \in [id : Nat \ {0}, vals : [ChildModal(l) -> Values]]
             /\ r.id < next /\ r.id < next + MaxEdits + 1 /\ \A k \in alive : f[k].id # r.id
  <2>1. /\ r \in [id : Nat \ {0}, vals : [ChildModal(l) -> Values]] /\ r.id < next
        /\ r.id \in Nat
    BY <1>1 DEF GoodRows
  <2>2. ASSUME NEW k \in alive PROVE f[k].id # r.id
    <3>1. k \in kids /\ k.id # r.id
      BY <1>1
    <3>2. QED
      BY <1>6, <1>7, <2>1, <3>1
  <2>3. QED
    BY <2>1, <2>2, FormAssumption
<1>10. GoodRows(l, new, next + MaxEdits + 1)
  <2>1. \A r, s \in old : r.id = s.id => r = s
    BY <1>1 DEF GoodRows
  <2>2. ASSUME NEW r \in new, NEW s \in new, r.id = s.id PROVE r = s
    BY <1>1, <1>8, <1>9, <2>1, <2>2
  <2>3. new \subseteq [id : Nat \ {0}, vals : [ChildModal(l) -> Values]]
    BY <1>1, <1>7, <1>9
  <2>4. \A r \in new : r.id < next + MaxEdits + 1
    BY <1>1, <1>7, <1>9
  <2>5. QED
    BY <1>5, <2>2, <2>3, <2>4 DEF GoodRows
<1>11. \A k \in kids : ~k.gone => \E r \in new : r.vals = k.vals
  BY <1>1, <1>7
<1>12. ASSUME NEW k \in kids, k.gone, NEW r \in new PROVE r.id # k.id
  <2>1. CASE r \in old
    BY <1>1, <2>1
  <2>2. CASE r \in made
    <3>1. PICK j \in alive : r = f[j]
      BY <1>1, <2>2
    <3>2. j # k /\ j \in kids
      BY <1>1, <1>12
    <3>3. ~(j.id = k.id /\ j.uid = k.uid)
      BY <3>2 DEF GoodKids
    <3>4. QED
      BY <1>6, <1>7, <1>12, <3>1, <3>2, <3>3
  <2>3. QED
    BY <1>1, <2>1, <2>2
<1>13. ASSUME kids = KidsOf(rs) PROVE new = rs
  <2>1. ASSUME NEW r \in rs PROVE Kid(r) \in alive /\ f[Kid(r)] = r
    <3>1. Kid(r) \in kids /\ ~Kid(r).gone /\ Kid(r).id = r.id /\ Kid(r).vals = r.vals
      BY <1>13 DEF Kid
    <3>2. r.id # NoChild /\ r \in [id : Nat \ {0}, vals : [ChildModal(l) -> Values]]
      BY DEF GoodRows, NoChild
    <3>3. Kid(r) \in alive /\ f[Kid(r)] = [id |-> r.id, vals |-> r.vals]
      BY <1>1, <3>1, <3>2 DEF Saved
    <3>4. QED
      BY <3>2, <3>3
  <2>2. \A k \in alive : \E r \in rs : k = Kid(r)
    BY <1>1, <1>13
  <2>3. ASSUME NEW x PROVE x \in new <=> x \in rs
    <3>1. x \in rs => x \in made
      BY <1>1, <2>1
    <3>2. ASSUME x \in made PROVE x \in rs
      <4>1. PICK k \in alive : x = f[k]
        BY <1>1, <3>2
      <4>2. PICK r \in rs : k = Kid(r)
        BY <2>2
      <4>3. QED
        BY <2>1, <4>1, <4>2
    <3>3. QED
      BY <1>1, <3>1, <3>2
  <2>4. QED
    BY <2>3
<1>14. ASSUME \A r \in rs : \E k \in kids : k.id = r.id
       PROVE  /\ {r.vals : r \in new} = {k.vals : k \in alive}
              /\ Cardinality(new) = Cardinality(alive)
  <2>1. new = made
    BY <1>1, <1>14
  <2>2. f \in Bijection(alive, new)
    <3>1. f \in [alive -> new]
      BY <1>1, <2>1
    <3>2. f \in Injection(alive, new)
      BY <1>7, <1>8, <3>1 DEF Injection, IsInjective
    <3>3. f \in Surjection(alive, new)
      BY <1>1, <2>1, <3>1 DEF Surjection
    <3>4. QED
      BY <3>2, <3>3 DEF Bijection
  <2>3. Cardinality(new) = Cardinality(alive)
    BY <1>2, <2>2, FS_Bijection DEF ExistsBijection
  <2>4. {r.vals : r \in new} = {k.vals : k \in alive}
    <3>1. \A r \in new : \E k \in alive : r.vals = k.vals
      BY <1>1, <1>7, <2>1
    <3>2. \A k \in alive : \E r \in new : r.vals = k.vals
      BY <1>1, <1>7, <2>1
    <3>3. QED
      BY <3>1, <3>2
  <2>5. QED
    BY <2>3, <2>4
<1>15. QED
  BY <1>4, <1>10, <1>11, <1>12, <1>13, <1>14

SavedOne(one, row, next) ==
  CASE one = NoOne -> row
    [] one # NoOne /\ one.id # NoChild -> IF one.gone THEN NoOne ELSE [id |-> one.id, v |-> one.v]
    [] one # NoOne /\ one.id = NoChild -> IF one.gone THEN row ELSE [id |-> next, v |-> one.v]

\* What is sent of the only child.
SentOf(o, one) == IF o = "place_geometry" /\ one = NoOne THEN EmptyOne ELSE one

\* Nothing of a form is left out of what is sent, or refused by the policy.
LEMMA ChildSent ==
  ASSUME NEW l, NEW k \in Children(l), NEW keys, {"id", "_destroy"} \subseteq keys
  PROVE  SentKeys(k, keys) = k
BY DEF SentKeys, Children

LEMMA EmptyIsOne == EmptyOne \in Ones /\ EmptyOne # NoOne
<1>1. EmptyOne \in Ones /\ EmptyOne \in [id : Nat, v : Nat, gone : BOOLEAN]
  BY FormAssumption DEF EmptyOne, NoChild, Ones, Values
<1>2. QED
  BY <1>1, FormAssumption

LEMMA AllIsSent ==
  ASSUME FInv
  PROVE  /\ DOMAIN Update = {"texts", "lists", "ones"} /\ DOMAIN Update.lists = Fields.lists
         /\ DOMAIN Update.ones = Fields.ones /\ Update.texts = form.texts
         /\ \A l \in Fields.lists :
              Update.lists[l] = RowsAfter(form.lists[l], storedForm.lists[l], nextChild)
         /\ \A o \in Fields.ones :
              Update.ones[o] = SavedOne(SentOf(o, form.ones[o]), storedForm.ones[o], nextChild)
<1>1. formClass \in Classes
  BY Fieldwise
<1>2. \A f \in Fields.texts \cup Fields.lists \cup Fields.ones : Permits(f)
  BY <1>1, FormsAreSent DEF Permits, Fields
<1>3. /\ DOMAIN Update = {"texts", "lists", "ones"}
      /\ Update.texts = [f \in Fields.texts |-> IF Permits(f) THEN form.texts[f] ELSE storedForm.texts[f]]
      /\ Update.lists = [l \in Fields.lists |->
                           IF Permits(l) THEN StoredChildren(l) ELSE storedForm.lists[l]]
      /\ Update.ones = [o \in Fields.ones |-> IF Permits(o) THEN StoredOne(o) ELSE storedForm.ones[o]]
  BY DEF Update, Fields
<1>4. Update.texts = form.texts
  <2>1. form.texts \in [Fields.texts -> Values]
    BY DEF FInv, ShapeOK
  <2>2. QED
    BY <1>2, <1>3, <2>1
<1>5. ASSUME NEW l \in Fields.lists
      PROVE  Update.lists[l] = RowsAfter(form.lists[l], storedForm.lists[l], nextChild)
  <2>1. ChildModal(l) \cup {"id", "_destroy"} \subseteq ChildPayload(l)
    BY <1>1, FormsAreSent DEF Fields
  <2>2. form.lists[l] \subseteq Children(l)
    BY DEF FInv, ListOK, GoodKids
  <2>3. \A k \in form.lists[l] : SentKeys(k, ChildPayload(l)) = k
    BY <2>1, <2>2, ChildSent
  <2>4. SentKids(l) = form.lists[l]
    BY <2>3 DEF SentKids
  <2>5. \A k \in form.lists[l] : SentVals(l, k.vals) = k.vals
    <3>1. \A k \in form.lists[l] : k.vals \in [ChildModal(l) -> Values]
      BY <2>2 DEF Children
    <3>2. QED
      BY <2>1, <3>1 DEF SentVals
  <2>6. \A k \in form.lists[l] :
          [id |-> IF k.id = NoChild THEN nextChild + k.uid ELSE k.id, vals |-> SentVals(l, k.vals)]
            = Saved(k, nextChild)
    BY <2>5 DEF Saved
  <2>7. Update.lists[l] = StoredChildren(l)
    BY <1>2, <1>3
  <2>8. {[id |-> IF k.id = NoChild THEN nextChild + k.uid ELSE k.id, vals |-> SentVals(l, k.vals)] :
           k \in {x \in form.lists[l] : ~x.gone}}
          = {Saved(k, nextChild) : k \in {x \in form.lists[l] : ~x.gone}}
    BY <2>6
  <2>9. QED
    BY <2>4, <2>7, <2>8 DEF StoredChildren, RowsAfter, ShownKids
<1>6. ASSUME NEW o \in Fields.ones
      PROVE  Update.ones[o] = SavedOne(SentOf(o, form.ones[o]), storedForm.ones[o], nextChild)
  <2>1. form.ones[o] \in Ones \cup {NoOne}
    BY DEF FInv, OneOK, GoodOne
  <2>2. SentOne(o) = SentOf(o, form.ones[o])
    <3>1. CASE o # "place_geometry"
      BY <3>1 DEF SentOne, SentOf
    <3>2. CASE o = "place_geometry"
      <4>1. SentOf(o, form.ones[o]) \in Ones
        BY <2>1, <3>2, EmptyIsOne DEF SentOf
      <4>2. SentOne(o) = SentKeys(SentOf(o, form.ones[o]), PlaceGeometry)
        BY <3>2 DEF SentOne, SentOf
      <4>3. \A k \in Ones : SentKeys(k, PlaceGeometry) = k
        BY DEF SentKeys, PlaceGeometry, Ones
      <4>4. QED
        BY <4>1, <4>2, <4>3
    <3>3. QED
      BY <3>1, <3>2
  <2>3. Update.ones[o] = StoredOne(o)
    BY <1>2, <1>3
  <2>4. QED
    BY <2>2, <2>3 DEF StoredOne, SavedOne
<1>7. QED
  BY <1>3, <1>4, <1>5, <1>6

\* The only child after a save.
LEMMA SentOneSaved ==
  ASSUME NEW o, NEW one, NEW row, NEW next \in Nat \ {0}, GoodOne(o, one, row),
         NEW new, new = SavedOne(one, row, next)
  PROVE  /\ GoodOne(o, one, new)
         /\ one = LoadedOne(row) => new = row
         /\ FirstOne(o, one, row) => ValueOf(new) = ValueOf(one)
<1>1. one \in Ones \cup {NoOne} /\ row \in [id : Nat \ {0}, v : Values] \cup {NoOne}
  BY DEF GoodOne
<1>2. CASE one = NoOne
  <2>1. new = row
    BY <1>2 DEF SavedOne
  <2>2. QED
    BY <1>2, <2>1 DEF GoodOne, FirstOne, ValueOf
<1>3. CASE one # NoOne /\ one.id # NoChild
  <2>1. one \in Ones /\ new = IF one.gone THEN NoOne ELSE [id |-> one.id, v |-> one.v]
    BY <1>1, <1>3 DEF SavedOne
  <2>2. new \in [id : Nat \ {0}, v : Values] \cup {NoOne}
    BY <1>3, <2>1 DEF Ones, NoChild
  <2>3. one = LoadedOne(row) => new = row
    <3>1. ASSUME one = LoadedOne(row) PROVE new = row
      <4>1. row # NoOne /\ one = [id |-> row.id, v |-> row.v, gone |-> FALSE]
        BY <1>3, <3>1 DEF LoadedOne
      <4>2. row \in [id : Nat \ {0}, v : Values] /\ ~one.gone /\ one.id = row.id /\ one.v = row.v
        BY <1>1, <4>1
      <4>3. QED
        BY <2>1, <4>2
    <3>2. QED
      BY <3>1
  <2>4. ValueOf(new) = ValueOf(one)
    <3>1. CASE one.gone
      BY <1>3, <2>1, <3>1 DEF ValueOf, GoodOne
    <3>2. CASE ~one.gone
      <4>1. new = [id |-> one.id, v |-> one.v] /\ new \in [id : Nat \ {0}, v : Values]
        BY <1>3, <2>1, <3>2 DEF Ones, NoChild
      <4>2. new # NoOne /\ new.v = one.v
        BY <4>1, SomeOne
      <4>3. QED
        BY <1>3, <4>2 DEF ValueOf
    <3>3. QED
      BY <3>1, <3>2
  <2>5. QED
    BY <2>2, <2>3, <2>4 DEF GoodOne
<1>4. CASE one # NoOne /\ one.id = NoChild
  <2>1. one \in Ones /\ new = IF one.gone THEN row ELSE [id |-> next, v |-> one.v]
    BY <1>1, <1>4 DEF SavedOne
  <2>2. new \in [id : Nat \ {0}, v : Values] \cup {NoOne}
    BY <1>1, <2>1 DEF Ones
  <2>3. ~(one = LoadedOne(row))
    BY <1>1, <1>4 DEF LoadedOne, NoChild
  <2>4. ASSUME FirstOne(o, one, row) PROVE ValueOf(new) = ValueOf(one)
    <3>1. CASE one.gone
      <4>1. o # "place_geometry" /\ one.v = 0
        BY <1>4, <3>1 DEF GoodOne
      <4>2. row = NoOne
        BY <1>4, <2>4, <4>1 DEF FirstOne
      <4>3. QED
        BY <1>4, <2>1, <3>1, <4>1, <4>2 DEF ValueOf
    <3>2. CASE ~one.gone
      <4>1. new = [id |-> next, v |-> one.v] /\ new \in [id : Nat \ {0}, v : Values]
        BY <2>1, <3>2 DEF Ones
      <4>2. new # NoOne /\ new.v = one.v
        BY <4>1, SomeOne
      <4>3. QED
        BY <1>4, <4>2 DEF ValueOf
    <3>3. QED
      BY <3>1, <3>2
  <2>5. QED
    BY <2>2, <2>3, <2>4 DEF GoodOne
<1>5. QED
  BY <1>2, <1>3, <1>4

LEMMA OneSaved ==
  ASSUME NEW o, NEW one, NEW row, NEW next \in Nat \ {0}, GoodOne(o, one, row),
         NEW new, new = SavedOne(SentOf(o, one), row, next)
  PROVE  /\ GoodOne(o, one, new)
         /\ one = LoadedOne(row) \/ LeftEmpty(o, one, row) =>
              \/ new = row /\ one = LoadedOne(row)
              \/ LeftEmpty(o, one, row) /\ LeftEmpty(o, one, new)
         /\ FirstOne(o, one, row) => ValueOf(new) = ValueOf(one)
<1>1. CASE o = "place_geometry" /\ one = NoOne
  <2>1. SentOf(o, one) = EmptyOne /\ EmptyOne # NoOne
    BY <1>1, EmptyIsOne DEF SentOf
  <2>2. new = [id |-> next, v |-> 0] /\ 0 \in Values
    BY <2>1, FormAssumption DEF SavedOne, EmptyOne, NoChild, Values
  <2>3. new \in [id : Nat \ {0}, v : Values] /\ new # NoOne /\ ValueOf(new) = 0
    BY <2>2, SomeOne DEF ValueOf
  <2>4. one = LoadedOne(row) => ValueOf(row) = 0
    <3>1. CASE row = NoOne
      BY <3>1 DEF ValueOf
    <3>2. CASE row # NoOne
      <4>1. LoadedOne(row) = [id |-> row.id, v |-> row.v, gone |-> FALSE]
            /\ row.id \in Nat /\ row.v \in Nat
        BY <3>2, FormAssumption DEF LoadedOne, GoodOne, Values
      <4>2. LoadedOne(row) \in [id : Nat, v : Nat, gone : BOOLEAN]
        BY <4>1
      <4>3. LoadedOne(row) # NoOne
        BY <4>2, FormAssumption
      <4>4. QED
        BY <1>1, <4>3
    <3>3. QED
      BY <3>1, <3>2
  <2>5. QED
    BY <1>1, <2>3, <2>4 DEF GoodOne, LeftEmpty, ValueOf
<1>2. CASE ~(o = "place_geometry" /\ one = NoOne)
  <2>1. SentOf(o, one) = one /\ ~LeftEmpty(o, one, row)
    BY <1>2 DEF SentOf, LeftEmpty
  <2>2. QED
    BY <2>1, SentOneSaved
<1>3. QED
  BY <1>1, <1>2

LEMMA SaveKeeps ==
  ASSUME FInv, SaveForm
  PROVE  /\ FInv'
         /\ saves = opened =>
              /\ storedForm'.texts = form.texts
              /\ \A l \in Fields.lists :
                   /\ {r.vals : r \in storedForm'.lists[l]} = {k.vals : k \in Kids(l)}
                   /\ Cardinality(storedForm'.lists[l]) = Cardinality(Kids(l))
              /\ \A o \in Fields.ones : ValueOf(storedForm'.ones[o]) = ValueOf(form.ones[o])
         /\ ChildrenAreStored /\ OnlyTouchedChange
<1>1. /\ saves' = saves + 1 /\ storedForm' = Update /\ nextChild' = nextChild + MaxEdits + 1
      /\ UNCHANGED <<formClass, form, drawn, edits, opened, touched>> /\ saves < MaxSaves
  BY DEF SaveForm
<1>2. Fields' = Fields
  BY <1>1 DEF Fields
<1>3. CountsOK /\ nextChild \in Nat \ {0} /\ edits \in Values
  BY DEF FInv, CountsOK
<1>4. CountsOK' /\ saves' # opened' /\ nextChild' \in Nat /\ nextChild < nextChild'
  BY <1>1, <1>3, FormAssumption DEF CountsOK
<1>5. ShapeOK(form)' /\ ShapeOK(storedForm)'
  <2>1. ShapeOK(form)
    BY DEF FInv
  <2>2. /\ DOMAIN Update = {"texts", "lists", "ones"} /\ DOMAIN Update.lists = Fields.lists
        /\ DOMAIN Update.ones = Fields.ones /\ Update.texts = form.texts
    BY AllIsSent
  <2>3. QED
    BY <1>1, <1>2, <2>1, <2>2 DEF ShapeOK
<1>6. storedForm'.texts = form.texts
  BY <1>1, AllIsSent
<1>7. ASSUME NEW l \in Fields.lists
      PROVE  /\ ListOK(l)'
             /\ \A k \in Kids(l) : \E r \in storedForm'.lists[l] : r.vals = k.vals
             /\ \A k \in form.lists[l] : k.gone => \A r \in storedForm'.lists[l] : r.id # k.id
             /\ l \notin touched => storedForm'.lists[l] = storedForm.lists[l]
             /\ saves = opened =>
                  /\ {r.vals : r \in storedForm'.lists[l]} = {k.vals : k \in Kids(l)}
                  /\ Cardinality(storedForm'.lists[l]) = Cardinality(Kids(l))
  <2> DEFINE kids == form.lists[l]
             rs   == storedForm.lists[l]
             new  == storedForm'.lists[l]
  <2>1. GoodKids(l, kids, nextChild, edits) /\ GoodRows(l, rs, nextChild)
    BY DEF FInv, ListOK
  <2>2. new = RowsAfter(kids, rs, nextChild)
    BY <1>1, AllIsSent
  <2>3. Kids(l) = ShownKids(kids)
    BY DEF Kids, ShownKids
  <2>4. /\ kids' = kids
        /\ saves = opened => \A r \in rs : \E k \in kids : k.id = r.id
        /\ l \notin touched => kids = KidsOf(rs)
    BY <1>1 DEF FInv, ListOK, SameList
  <2> HIDE DEF kids, rs, new
  <2>5. /\ GoodRows(l, new, nextChild + MaxEdits + 1)
        /\ \A k \in kids : ~k.gone => \E r \in new : r.vals = k.vals
        /\ \A k \in kids : k.gone => \A r \in new : r.id # k.id
        /\ kids = KidsOf(rs) => new = rs
        /\ (\A r \in rs : \E k \in kids : k.id = r.id) =>
             /\ ValsOf(new) = ValsOf(ShownKids(kids))
             /\ Cardinality(new) = Cardinality(ShownKids(kids))
    BY <1>3, <2>1, <2>2, RowsSaved
  <2>6. GoodKids(l, kids, nextChild', edits)
    BY <1>3, <1>4, <2>1 DEF GoodKids, Children
  <2>7. SameList(kids, new, FALSE, l \notin touched)
    BY <2>4, <2>5 DEF SameList
  <2>8. ListOK(l)'
    BY <1>1, <1>4, <2>4, <2>5, <2>6, <2>7 DEF ListOK, kids, new
  <2>9. \A k \in Kids(l) : \E r \in new : r.vals = k.vals
    BY <2>3, <2>5 DEF ShownKids
  <2>10. l \notin touched => new = rs
    BY <2>4, <2>5
  <2>11. saves = opened =>
           /\ {r.vals : r \in new} = {k.vals : k \in Kids(l)} /\ Cardinality(new) = Cardinality(Kids(l))
    BY <2>3, <2>4, <2>5 DEF ValsOf
  <2>12. QED
    BY <2>5, <2>8, <2>9, <2>10, <2>11 DEF kids, rs, new
<1>8. ASSUME NEW o \in Fields.ones
      PROVE  /\ OneOK(o)'
             /\ Cleared(o) => \/ storedForm'.ones[o] = storedForm.ones[o]
                              \/ o = "place_geometry" /\ StaysEmpty(o)
             /\ saves = opened => ValueOf(storedForm'.ones[o]) = ValueOf(form.ones[o])
  <2> DEFINE one == form.ones[o]
             row == storedForm.ones[o]
             new == storedForm'.ones[o]
  <2>1. /\ GoodOne(o, one, row)
        /\ saves = opened => FirstOne(o, one, row)
        /\ Cleared(o) => one = LoadedOne(row) \/ LeftEmpty(o, one, row)
    BY DEF FInv, OneOK, SameOne, FirstOne
  <2>2. new = SavedOne(SentOf(o, one), row, nextChild)
    BY <1>1, AllIsSent
  <2>3. one' = one /\ Cleared(o)' = Cleared(o)
    BY <1>1 DEF Cleared
  <2> HIDE DEF one, row, new
  <2>4. /\ GoodOne(o, one, new)
        /\ one = LoadedOne(row) \/ LeftEmpty(o, one, row) =>
             \/ new = row /\ one = LoadedOne(row)
             \/ LeftEmpty(o, one, row) /\ LeftEmpty(o, one, new)
        /\ FirstOne(o, one, row) => ValueOf(new) = ValueOf(one)
    BY <1>3, <2>1, <2>2, OneSaved
  <2>5. /\ SameOne(o, one, new, FALSE, Cleared(o))
        /\ Cleared(o) => new = row \/ (LeftEmpty(o, one, row) /\ LeftEmpty(o, one, new))
    BY <2>1, <2>4 DEF SameOne, FirstOne
  <2>6. OneOK(o)'
    BY <1>4, <2>3, <2>4, <2>5 DEF OneOK, one, new
  <2>7. saves = opened => ValueOf(new) = ValueOf(one)
    BY <2>1, <2>4
  <2>8. Cleared(o) => new = row \/ (o = "place_geometry" /\ StaysEmpty(o))
    BY <2>5 DEF LeftEmpty, StaysEmpty, row, new
  <2>9. QED
    BY <2>6, <2>7, <2>8 DEF one, row, new
<1>9. FInv'
  <2>1. TextsOK'
    BY <1>1, <1>6 DEF TextsOK
  <2>2. QED
    BY <1>2, <1>4, <1>5, <1>7, <1>8, <2>1 DEF FInv
<1>10. ChildrenAreStored
  BY <1>7 DEF ChildrenAreStored, Fields
<1>11. OnlyTouchedChange
  <2>1. \A f \in Fields.texts : storedForm'.texts[f] # storedForm.texts[f] => f \in touched
    BY <1>6 DEF FInv, TextsOK
  <2>2. \A o \in Fields.ones : storedForm'.ones[o] # storedForm.ones[o] =>
          o \in touched \/ (o = "place_geometry" /\ (drawn # NoMap \/ StaysEmpty(o)))
    BY <1>8 DEF Cleared
  <2>3. QED
    BY <1>7, <2>1, <2>2 DEF OnlyTouchedChange, Fields
<1>12. QED
  BY <1>6, <1>7, <1>8, <1>9, <1>10, <1>11

(***************************************************************************)
(* Forms: records that are opened.                                         *)
(***************************************************************************)
GoodRecord(row, next) ==
  /\ ShapeOK(row)
  /\ \A l \in Fields.lists : GoodRows(l, row.lists[l], next)
  /\ \A o \in Fields.ones : row.ones[o] \in [id : Nat \ {0}, v : Values] \cup {NoOne}

\* What a form holds of a record that is loaded into it.
LEMMA LoadedForm ==
  ASSUME NEW row, NEW next \in Nat, GoodRecord(row, next), NEW n \in Nat
  PROVE  /\ ShapeOK(Loaded(row)) /\ Loaded(row).texts = row.texts
         /\ \A l \in Fields.lists : /\ GoodKids(l, Loaded(row).lists[l], next, n)
                                    /\ SameList(Loaded(row).lists[l], row.lists[l], TRUE, TRUE)
         /\ \A o \in Fields.ones : /\ Loaded(row).ones[o] = LoadedOne(row.ones[o])
                                   /\ GoodOne(o, LoadedOne(row.ones[o]), row.ones[o])
                                   /\ SameOne(o, LoadedOne(row.ones[o]), row.ones[o], TRUE, TRUE)
<1>1. /\ DOMAIN Loaded(row) = {"texts", "lists", "ones"} /\ Loaded(row).texts = row.texts
      /\ DOMAIN Loaded(row).lists = DOMAIN row.lists /\ DOMAIN Loaded(row).ones = DOMAIN row.ones
  BY DEF Loaded
<1>2. ShapeOK(Loaded(row))
  BY <1>1 DEF ShapeOK, GoodRecord
<1>3. ASSUME NEW l \in Fields.lists
      PROVE  /\ GoodKids(l, Loaded(row).lists[l], next, n)
             /\ SameList(Loaded(row).lists[l], row.lists[l], TRUE, TRUE)
  <2>1. Loaded(row).lists[l] = KidsOf(row.lists[l])
    BY DEF Loaded, Kid, KidsOf, GoodRecord, ShapeOK
  <2>2. GoodRows(l, row.lists[l], next)
    BY DEF GoodRecord
  <2>3. QED
    BY <2>1, <2>2, LoadedKids
<1>4. ASSUME NEW o \in Fields.ones
      PROVE  /\ Loaded(row).ones[o] = LoadedOne(row.ones[o])
             /\ GoodOne(o, LoadedOne(row.ones[o]), row.ones[o])
             /\ SameOne(o, LoadedOne(row.ones[o]), row.ones[o], TRUE, TRUE)
  <2> DEFINE r == row.ones[o]
  <2>1. Loaded(row).ones[o] = LoadedOne(r)
    BY DEF Loaded, LoadedOne, GoodRecord, ShapeOK
  <2>2. r \in [id : Nat \ {0}, v : Values] \cup {NoOne}
    BY DEF GoodRecord
  <2> HIDE DEF r
  <2>3. CASE r = NoOne
    BY <2>1, <2>2, <2>3 DEF LoadedOne, GoodOne, SameOne, FirstOne, r
  <2>4. CASE r # NoOne
    <3>1. LoadedOne(r) = [id |-> r.id, v |-> r.v, gone |-> FALSE] /\ r \in [id : Nat \ {0}, v : Values]
      BY <2>2, <2>4 DEF LoadedOne
    <3>2. LoadedOne(r) \in Ones /\ LoadedOne(r).id # NoChild /\ ~LoadedOne(r).gone
      BY <3>1 DEF Ones, NoChild
    <3>3. LoadedOne(r) # NoOne
      BY <3>2, SomeOne
    <3>4. QED
      BY <2>1, <2>2, <3>2, <3>3 DEF GoodOne, SameOne, FirstOne, r
  <2>5. QED
    BY <2>3, <2>4
<1>5. QED
  BY <1>1, <1>2, <1>3, <1>4

LEMMA Opened ==
  GoodRecord(storedForm, nextChild) /\ form = Loaded(storedForm) /\ CountsOK => FInv
<1> SUFFICES ASSUME GoodRecord(storedForm, nextChild), form = Loaded(storedForm), CountsOK PROVE FInv
  OBVIOUS
<1>1. edits \in Nat /\ nextChild \in Nat
  BY FormAssumption DEF CountsOK, Values
<1>2. /\ ShapeOK(form) /\ form.texts = storedForm.texts
      /\ \A l \in Fields.lists : /\ GoodKids(l, form.lists[l], nextChild, edits)
                                 /\ SameList(form.lists[l], storedForm.lists[l], TRUE, TRUE)
      /\ \A o \in Fields.ones : /\ form.ones[o] = LoadedOne(storedForm.ones[o])
                                /\ GoodOne(o, form.ones[o], storedForm.ones[o])
                                /\ SameOne(o, form.ones[o], storedForm.ones[o], TRUE, TRUE)
  BY <1>1, LoadedForm
<1>3. ASSUME NEW l \in Fields.lists PROVE ListOK(l)
  BY <1>2 DEF ListOK, SameList, GoodRecord
<1>4. ASSUME NEW o \in Fields.ones PROVE OneOK(o)
  BY <1>2 DEF OneOK, SameOne, FirstOne
<1>5. TextsOK
  BY <1>2 DEF TextsOK
<1>6. QED
  BY <1>2, <1>3, <1>4, <1>5 DEF FInv, GoodRecord

LEMMA StoredIsGood == FInv => GoodRecord(storedForm, nextChild)
BY DEF FInv, GoodRecord, ListOK, OneOK, GoodOne

LEMMA NothingIsGood ==
  ASSUME NEW next \in Nat
  PROVE  GoodRecord(Nothing(formClass), next)
<1> DEFINE row == Nothing(formClass)
<1>1. /\ DOMAIN row = {"texts", "lists", "ones"} /\ row.texts = [f \in Fields.texts |-> 0]
      /\ row.lists = [l \in Fields.lists |-> {}] /\ row.ones = [o \in Fields.ones |-> NoOne]
  BY DEF Nothing, Fields
<1>2. 0 \in Values
  BY FormAssumption DEF Values
<1> HIDE DEF row
<1>3. ShapeOK(row)
  BY <1>1, <1>2 DEF ShapeOK
<1>4. ASSUME NEW l \in Fields.lists PROVE GoodRows(l, row.lists[l], next)
  BY <1>1, FS_EmptySet DEF GoodRows
<1>5. GoodRecord(row, next)
  BY <1>1, <1>3, <1>4 DEF GoodRecord
<1>6. QED
  BY <1>5 DEF row

LEMMA FilledIsGood ==
  ASSUME NEW id \in Nat \ {0}, NEW next \in Nat, id < next
  PROVE  GoodRecord(Filled(formClass, id), next)
<1> DEFINE row     == Filled(formClass, id)
           kid(l)  == [id |-> id, vals |-> [a \in ChildModal(l) |-> 0]]
<1>1. /\ DOMAIN row = {"texts", "lists", "ones"} /\ row.texts = [f \in Fields.texts |-> 0]
      /\ DOMAIN row.lists = Fields.lists /\ \A l \in Fields.lists : row.lists[l] = {kid(l)}
      /\ row.ones = [o \in Fields.ones |-> [id |-> id, v |-> 1]]
  BY DEF Filled, Fields
<1>2. 0 \in Values /\ 1 \in Values
  BY FormAssumption DEF Values
<1>3. ASSUME NEW l PROVE kid(l) \in [id : Nat \ {0}, vals : [ChildModal(l) -> Values]] /\ kid(l).id = id
  BY <1>2
<1> HIDE DEF row, kid
<1>4. ShapeOK(row)
  BY <1>1, <1>2 DEF ShapeOK
<1>5. ASSUME NEW l \in Fields.lists PROVE GoodRows(l, row.lists[l], next)
  <2>1. row.lists[l] = {kid(l)} /\ IsFiniteSet({kid(l)})
    BY <1>1, FS_Singleton
  <2>2. QED
    BY <1>3, <2>1 DEF GoodRows
<1>6. \A o \in Fields.ones : row.ones[o] \in [id : Nat \ {0}, v : Values]
  BY <1>1, <1>2
<1>7. GoodRecord(row, next)
  BY <1>4, <1>5, <1>6 DEF GoodRecord
<1>8. QED
  BY <1>7 DEF row

LEMMA FormInitOK == FormInit => FInv
<1> SUFFICES ASSUME FormInit PROVE FInv
  OBVIOUS
<1>1. /\ formClass \in Classes /\ storedForm \in {Nothing(formClass), Filled(formClass, 1)}
      /\ form = Loaded(storedForm)
      /\ drawn = NoMap /\ nextChild = 2 /\ edits = 0 /\ saves = 0 /\ opened = 0 /\ touched = {}
  BY DEF FormInit
<1>2. CountsOK
  BY <1>1, FormAssumption DEF CountsOK, Values
<1>3. GoodRecord(storedForm, nextChild)
  BY <1>1, NothingIsGood, FilledIsGood
<1>4. QED
  BY <1>1, <1>2, <1>3, Opened

LEMMA ReopenKeeps ==
  ASSUME FInv, Reopen
  PROVE  FInv'
<1>1. /\ form' = Loaded(storedForm) /\ drawn' = NoMap /\ opened' = saves
      /\ UNCHANGED <<formClass, storedForm, nextChild, edits, saves>>
  BY DEF Reopen
<1>2. CountsOK'
  <2>1. CountsOK
    BY DEF FInv
  <2>2. saves' \in opened'..MaxSaves /\ opened' \in Nat
    BY <1>1, <2>1, FormAssumption DEF CountsOK
  <2>3. QED
    BY <1>1, <2>1, <2>2 DEF CountsOK
<1>3. (GoodRecord(storedForm, nextChild))'
  <2>1. GoodRecord(storedForm, nextChild)
    BY StoredIsGood
  <2>2. QED
    BY <1>1, <2>1 DEF GoodRecord, ShapeOK, Fields
<1>4. (form = Loaded(storedForm))'
  BY <1>1 DEF Loaded
<1>5. QED
  BY <1>2, <1>3, <1>4, Opened, PTL

LEMMA OpenOtherKeeps ==
  ASSUME FInv, OpenOther
  PROVE  FInv'
<1> DEFINE other == Filled(formClass, nextChild)
           load  == Loaded(other)
           p     == "place_geometry"
<1>1. /\ storedForm' = other /\ nextChild' = nextChild + MaxEdits + 1
      /\ form' = IF formClass = "Place" /\ drawn # NoMap
                   THEN [load EXCEPT !.ones[p] = Geometry(@, drawn)] ELSE load
      /\ touched' = {} /\ opened' = saves /\ edits < MaxEdits /\ edits' = edits + 1
      /\ UNCHANGED <<formClass, drawn, saves>>
  BY DEF OpenOther
<1>2. CountsOK
  BY DEF FInv
<1>3. CountsOK' /\ nextChild' \in Nat /\ nextChild < nextChild' /\ edits' \in Nat
  BY <1>1, <1>2, FormAssumption DEF CountsOK, Values
<1>4. Fields' = Fields
  BY <1>1 DEF Fields
<1>5. GoodRecord(other, nextChild')
  BY <1>2, <1>3, FilledIsGood DEF CountsOK
<1> HIDE DEF other
<1>6. /\ ShapeOK(load) /\ load.texts = other.texts
      /\ \A l \in Fields.lists : /\ GoodKids(l, load.lists[l], nextChild', edits')
                                 /\ SameList(load.lists[l], other.lists[l], TRUE, TRUE)
      /\ \A o \in Fields.ones : /\ load.ones[o] = LoadedOne(other.ones[o])
                                /\ GoodOne(o, load.ones[o], other.ones[o])
                                /\ SameOne(o, load.ones[o], other.ones[o], TRUE, TRUE)
  BY <1>3, <1>5, LoadedForm
<1> HIDE DEF load
<1>7. ShapeOK(form') /\ ShapeOK(other) /\ form'.texts = load.texts /\ form'.lists = load.lists
  <2>1. DOMAIN load = {"texts", "lists", "ones"} /\ DOMAIN load.ones = Fields.ones
    BY <1>6 DEF ShapeOK
  <2>2. /\ DOMAIN form' = DOMAIN load /\ form'.texts = load.texts /\ form'.lists = load.lists
        /\ DOMAIN form'.ones = DOMAIN load.ones
    BY <1>1, <2>1
  <2>3. QED
    BY <1>5, <1>6, <2>2 DEF ShapeOK, GoodRecord
<1>8. ASSUME NEW l \in Fields.lists PROVE ListOK(l)'
  <2>1. GoodRows(l, other.lists[l], nextChild')
    BY <1>5 DEF GoodRecord
  <2>2. QED
    BY <1>1, <1>6, <1>7, <2>1 DEF ListOK, SameList
<1>9. ASSUME NEW o \in Fields.ones PROVE OneOK(o)'
  <2>1. GoodOne(o, load.ones[o], other.ones[o]) /\ SameOne(o, load.ones[o], other.ones[o], TRUE, TRUE)
    BY <1>6
  <2>2. CASE form'.ones[o] = load.ones[o]
    BY <1>1, <2>1, <2>2 DEF OneOK, SameOne
  <2>3. CASE form'.ones[o] # load.ones[o]
    <3>1. /\ o = p /\ drawn # NoMap /\ form'.ones[o] = Geometry(load.ones[o], drawn)
      BY <1>1, <1>6, <2>3 DEF ShapeOK
    <3>2. drawn \in Values /\ load.ones[o] \in Ones \cup {NoOne}
      BY <1>2, <2>1, <3>1 DEF CountsOK, GoodOne
    <3> DEFINE g == form'.ones[o]
    <3>3. g \in Ones /\ (g.gone => g.v = 0 /\ g.id # NoChild)
      BY <3>1, <3>2, GeometryOK
    <3> HIDE DEF g
    <3>4. g # NoOne
      BY <3>3, SomeOne
    <3>5. GoodOne(o, g, other.ones[o])
      BY <2>1, <3>3 DEF GoodOne
    <3>6. ~Cleared(o)'
      BY <1>1, <3>1 DEF Cleared
    <3>7. SameOne(o, g, other.ones[o], saves' = opened', Cleared(o)')
      BY <3>1, <3>4, <3>6 DEF SameOne, FirstOne
    <3>8. QED
      BY <1>1, <3>5, <3>7 DEF OneOK, g
  <2>4. QED
    BY <2>2, <2>3
<1>10. TextsOK'
  BY <1>1, <1>6, <1>7 DEF TextsOK
<1>11. ShapeOK(form)' /\ ShapeOK(storedForm)'
  BY <1>1, <1>4, <1>7 DEF ShapeOK
<1>12. QED
  BY <1>3, <1>4, <1>8, <1>9, <1>10, <1>11 DEF FInv

LEMMA FormStep == FInv /\ [FormNext]_formVars => FInv'
<1> SUFFICES ASSUME FInv, [FormNext]_formVars PROVE FInv'
  OBVIOUS
<1>1. CASE EditForm
  <2>1. CASE UploadContent \/ \E f \in Fields.texts : TypeText(f)
    BY <2>1, TextEdits
  <2>2. ASSUME NEW l \in Fields.lists, NEW a \in ChildModal(l),
               AddChild(l, a) \/ \E k \in form.lists[l] : EditChild(l, k, a)
        PROVE  FInv'
    BY <2>2, ListEdits
  <2>3. ASSUME NEW l \in Fields.lists, NEW k \in form.lists[l], DeleteChild(l, k) PROVE FInv'
    BY <2>3, ListEdits
  <2>4. CASE \/ \E o \in Fields.ones, v \in {0, edits + 1} : SetDate(o, v)
             \/ \E v \in {0, edits + 1} : Draw(v)
             \/ UploadGeometry(edits + 1)
    BY <2>4, OneEdits
  <2>5. QED
    BY <1>1, <2>1, <2>2, <2>3, <2>4 DEF EditForm, Fields
<1>2. CASE SaveForm
  BY <1>2, SaveKeeps
<1>3. CASE Reopen
  BY <1>3, ReopenKeeps
<1>4. CASE OpenOther
  BY <1>4, OpenOtherKeeps
<1>5. CASE UNCHANGED formVars
  <2>1. UNCHANGED <<formClass, form, storedForm, drawn, nextChild, edits, saves, opened, touched>>
    BY <1>5 DEF formVars
  <2>2. Fields' = Fields
    BY <2>1 DEF Fields
  <2>3. (\A l \in Fields.lists : ListOK(l))' /\ (\A o \in Fields.ones : OneOK(o))'
    BY <2>1, <2>2 DEF FInv, ListOK, OneOK, Cleared
  <2>4. QED
    BY <2>1, <2>2, <2>3 DEF FInv, CountsOK, ShapeOK, TextsOK
<1>6. QED
  BY <1>1, <1>2, <1>3, <1>4, <1>5 DEF FormNext

LEMMA AlwaysFInv == FormSpec => []FInv
<1>1. QED
  BY FormInitOK, FormStep, PTL DEF FormSpec

LEMMA FormTypes == FInv => FormTypeOK
<1> SUFFICES ASSUME FInv PROVE FormTypeOK
  OBVIOUS
<1>1. ASSUME NEW l \in Fields.lists
      PROVE  /\ form.lists[l] \subseteq Children(l)
             /\ \A r, s \in storedForm.lists[l] : r.id = s.id => r = s
  BY DEF FInv, ListOK, GoodKids, GoodRows
<1>2. \A o \in Fields.ones : form.ones[o] \in Ones \cup {NoOne}
  BY DEF FInv, OneOK, GoodOne
<1>3. QED
  BY <1>1, <1>2 DEF FInv, CountsOK, ShapeOK, FormTypeOK, Fields

\* The variables of a form have their types, and no two stored children of a
\* list have one id (useEditContainer, the forms of the classes).
THEOREM FormTypeCorrect == FormSpec => []FormTypeOK
<1>1. QED
  BY FormTypes, AlwaysFInv, PTL

\* Only a save is counted, and the record has not been saved when it is opened.
LEMMA OnlySavesSave ==
  ASSUME FInv, [FormNext]_formVars, saves' # saves
  PROVE  SaveForm
<1>1. CASE EditForm
  BY <1>1 DEF EditForm, Touch, TypeText, UploadContent, AddChild, EditChild, DeleteChild, SetDate,
              Draw, UploadGeometry
<1>2. QED
  BY <1>1 DEF FormNext, Reopen, OpenOther, formVars

\* For every class, every edit, and every number of them, the first save after a
\* record was opened stores what its form shows, no more and no less (the
\* transforms, the policies, and the nested attributes of the models).
THEOREM FirstSaveStoresTheForm == FormSpec => FirstSaveIsExact
<1>1. FInv /\ [FormNext]_formVars =>
        [FirstSave =>
           /\ storedForm'.texts = form.texts
           /\ \A l \in Form(formClass).lists :
                /\ {r.vals : r \in storedForm'.lists[l]} = {k.vals : k \in Kids(l)}
                /\ Cardinality(storedForm'.lists[l]) = Cardinality(Kids(l))
           /\ \A o \in Form(formClass).ones :
                ValueOf(storedForm'.ones[o]) = ValueOf(form.ones[o])]_formVars
  <2> SUFFICES ASSUME FInv, [FormNext]_formVars, FirstSave
               PROVE  /\ storedForm'.texts = form.texts
                      /\ \A l \in Form(formClass).lists :
                           /\ {r.vals : r \in storedForm'.lists[l]} = {k.vals : k \in Kids(l)}
                           /\ Cardinality(storedForm'.lists[l]) = Cardinality(Kids(l))
                      /\ \A o \in Form(formClass).ones :
                           ValueOf(storedForm'.ones[o]) = ValueOf(form.ones[o])
    OBVIOUS
  <2>1. saves = opened /\ saves' # saves
    BY FormAssumption DEF FirstSave, FInv, CountsOK
  <2>2. SaveForm
    BY <2>1, OnlySavesSave
  <2>3. QED
    BY <2>1, <2>2, SaveKeeps DEF Fields
<1>2. QED
  BY <1>1, AlwaysFInv, PTL DEF FormSpec, FirstSaveIsExact

\* For every class and every number of saves, a save that succeeds stores every
\* child the form shows, leaves no child that it shows as removed, and changes
\* only what was edited since the record was opened, but for the geometry of a
\* place: its form may hold the map data of another (useEditContainer), and a
\* place without one gets an empty row (the PlaceGeometry transform).
THEOREM SavesStoreTheForm == FormSpec => SavesStoreWhatIsShown
<1>1. FInv /\ [FormNext]_formVars => [saves' > saves => ChildrenAreStored /\ OnlyTouchedChange]_formVars
  <2> SUFFICES ASSUME FInv, [FormNext]_formVars, saves' > saves
               PROVE  ChildrenAreStored /\ OnlyTouchedChange
    OBVIOUS
  <2>1. saves' # saves
    BY FormAssumption DEF FInv, CountsOK
  <2>2. QED
    BY <2>1, OnlySavesSave, SaveKeeps
<1>2. QED
  BY <1>1, AlwaysFInv, PTL DEF FormSpec, SavesStoreWhatIsShown

(***************************************************************************)
(* The page: its sections keep to themselves.                              *)
(***************************************************************************)
\* Whatever tab is shown, every section behaves as its own specification says.
LEMMA SectionsAreSections == SectionsSpec => FormSpec /\ RelatedSpec /\ MediaSpec
<1>1. SectionsInit => FormInit /\ RelatedInit /\ MediaInit
  BY DEF SectionsInit, FormRests, RelatedRests, MediaRests
<1>2. [SectionsNext]_<<tab, formVars, relatedVars, mediaVars>> =>
        [FormNext]_formVars /\ [RelatedNext]_relatedVars /\ [MediaNext]_mediaVars
  BY DEF SectionsNext
<1>3. QED
  BY <1>1, <1>2, PTL DEF SectionsSpec, FormSpec, RelatedSpec, MediaSpec

\* The variables of the form, the panels and the related media of one page have
\* their types, with any classes, files, relationships and bounds.
THEOREM SectionsTypeCorrect == SectionsSpec => []SectionsTypeOK
<1>1. FormTypeOK /\ RelatedTypeOK /\ MediaTypeOK => SectionsTypeOK
  BY DEF SectionsTypeOK
<1>2. QED
  BY <1>1, SectionsAreSections, FormTypeCorrect, RelatedTypeCorrect, MediaTypeCorrect, PTL

\* What the three sections promise, the page of the three promises: the theorems
\* about each section hold in the specification that is model-checked.
THEOREM SectionsKeepTheirPromises ==
  SectionsSpec => /\ []RowsJoinTheModels /\ []SettledPanelShowsItsRow /\ RowsChangeForTheirRecord
                  /\ []UploadsStayTogether /\ FirstSaveIsExact /\ SavesStoreWhatIsShown
<1>1. QED
  BY SectionsAreSections, UploadsNeverMix, FirstSaveStoresTheForm, SavesStoreTheForm,
     StoredRowsJoinTheModels, RowsChangeOnTheirPage, SettledPanelIsStored, PTL
=============================================================================
