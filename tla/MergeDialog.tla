----------------------------- MODULE MergeDialog -----------------------------
(***************************************************************************)
(* The list of the records of a model, where records are selected, deleted *)
(* and merged: the dialog that puts a merged record together from the      *)
(* attributes of the selected ones, its confirmation and its request.      *)
(***************************************************************************)
EXTENDS Naturals, Sequences, FiniteSets, SequencesExt

CONSTANTS
  MergeClasses,  \* the classes of records to look at
  Listed,        \* ids of the records in the list
  Unset,         \* no value picked
  MaxPicks,      \* bound: values picked, cleared or changed
  MaxSelections  \* bound: rows selected, unselected or deleted

ASSUME MergeDialogAssumption ==
  /\ MergeClasses \subseteq {"Events", "Instances", "Items", "MediaContents", "Organizations",
                             "People", "Places", "TaxonomyItems", "Works"}
  /\ MaxPicks \in Nat /\ MaxSelections \in Nat

(***************************************************************************)
(* The attributes each list offers to merge: an array is a sequence of     *)
(* values of which names have a primary one, a file stands for the keys    *)
(* that are sent for it, anything else is one value.                       *)
(***************************************************************************)
\* Every list offers these, whatever else.
Common(own) ==
  [a \in DOMAIN own \cup {"uuid", "user_defined"} |-> IF a \in DOMAIN own THEN own[a] ELSE "value"]

Events        == Common([name |-> "value", description |-> "value", start_date |-> "value",
                         end_date |-> "value"])
Instances     == Common([source_names |-> "names"])
Items         == Common([source_names |-> "names"])
MediaContents == Common([content |-> "file", name |-> "value"])
Organizations == Common([organization_names |-> "names", description |-> "value"])
People        == Common([person_names |-> "names", biography |-> "value"])
Places        == Common([place_names |-> "names", place_layers |-> "array",
                         place_geometry |-> "value"])
TaxonomyItems == Common([name |-> "value"])
Works         == Common([source_names |-> "names"])

Attributes(c) ==
  CASE c = "Events" -> Events [] c = "Instances" -> Instances [] c = "Items" -> Items
    [] c = "MediaContents" -> MediaContents [] c = "Organizations" -> Organizations
    [] c = "People" -> People [] c = "Places" -> Places
    [] c = "TaxonomyItems" -> TaxonomyItems [] c = "Works" -> Works

\* mutant: the policy of people does not permit their biography
PermittedForMergeLess(c) ==
  {"uuid", "user_defined"} \cup (IF c = "People" THEN {"person_names"} ELSE DOMAIN Attributes(c))

\* What the policy of the class permits in a merge.
PermittedForMerge(c) ==
  {"uuid", "user_defined"} \cup
  CASE c = "Events" -> {"name", "description", "start_date", "end_date"}
    [] c \in {"Instances", "Items", "Works"} -> {"source_names"}
    [] c = "MediaContents" -> {"name", "content"}
    [] c = "Organizations" -> {"organization_names", "description"}
    [] c = "People" -> {"person_names", "biography"}
    [] c = "Places" -> {"place_names", "place_layers", "place_geometry"}
    [] c = "TaxonomyItems" -> {"name"}

VARIABLES
  list,      \* the list that is open
  there,     \* the records that are stored
  selected,  \* the ids selected in the list, also of other pages and views
  items,     \* the records the open dialog shows, Unset without a dialog
  record,    \* the merged record so far
  picked,    \* history: the attributes that were picked and not cleared since
  toggled,   \* history: a name was made primary by hand
  merging,   \* what waits to be confirmed or answered: [stage, ids, record, picked]
  taken,     \* what the server made of the last merge: that, and what it stored
  picks, selections

mergeVars == <<list, there, selected, items, record, picked, toggled, merging, taken, picks,
               selections>>

Kind(a)     == Attributes(list)[a]
OfferedAttributes      == DOMAIN Attributes(list)
IsArray(a)  == Kind(a) \in {"names", "array"}
NoMerge     == [stage |-> "none", ids |-> {}, record |-> <<>>, picked |-> {}]
Stages      == {"none", "confirm", "sent", "lost"}
NothingTaken == [ids |-> {}, record |-> <<>>, picked |-> {}, stored |-> <<>>]

\* A record without any value.
EmptyRecord == [a \in OfferedAttributes |-> IF IsArray(a) THEN <<>> ELSE Unset]

\* The entries of a record: two names, the first of which is primary.
Entries(i) == <<[of |-> i, primary |-> TRUE], [of |-> i, primary |-> FALSE]>>

HasPrimary(entries) == \E n \in DOMAIN entries : entries[n].primary

\* mutant: the names of a record keep their primary one
getAttributeValueAsIs(current, i, a) ==
  IF Kind(a) = "names" THEN current[a] \o Entries(i)
  ELSE IF IsArray(a) THEN Append(current[a], [of |-> i, primary |-> FALSE]) ELSE i

\* The value picking attribute a of record i gives the merged record.
getAttributeValue(current, i, a) ==
  LET entries == IF Kind(a) = "names"
                   THEN [n \in 1..2 |-> [of |-> i, primary |->
                           Entries(i)[n].primary /\ ~HasPrimary(current[a])]]
                   ELSE <<[of |-> i, primary |-> FALSE]>> IN
  IF IsArray(a) THEN current[a] \o entries ELSE i

(***************************************************************************)
(* The list.                                                               *)
(***************************************************************************)
Listing == items = Unset /\ selections < MaxSelections /\ selections' = selections + 1
ListUnchanged == UNCHANGED <<list, items, record, picked, toggled, merging, taken, picks>>

\* The selection is kept when another page or view of the list is shown.
onRowSelect(i) ==
  /\ Listing /\ i \in there
  /\ selected' = IF i \in selected THEN selected \ {i} ELSE selected \cup {i}
  /\ UNCHANGED there /\ ListUnchanged

\* Deleting a record leaves its id selected.
onDelete(i) ==
  /\ Listing /\ i \in there
  /\ there' = there \ {i}
  /\ UNCHANGED selected /\ ListUnchanged

\* mutant: the record of the last dialog is still there
OpenAgain ==
  /\ items = Unset /\ Cardinality(selected) > 1
  /\ items' \in {{}} \cup (IF selected \subseteq there THEN {selected} ELSE {})
  /\ UNCHANGED <<list, there, selected, record, picked, toggled, merging, taken, picks, selections>>

\* The dialog loads the selected records: if one is gone it shows none of them.
Open ==
  /\ items = Unset /\ Cardinality(selected) > 1
  /\ items' \in {{}} \cup (IF selected \subseteq there THEN {selected} ELSE {})
  /\ record' = EmptyRecord /\ picked' = {} /\ toggled' = FALSE
  /\ UNCHANGED <<list, there, selected, merging, taken, picks, selections>>

(***************************************************************************)
(* The dialog.                                                             *)
(***************************************************************************)
\* While a merge is under way only its buttons are disabled.
Editing == items # Unset /\ merging.stage # "confirm" /\ picks < MaxPicks /\ picks' = picks + 1
DialogUnchanged == UNCHANGED <<list, there, selected, items, merging, taken, selections>>

\* One attribute of one of the records.
onAttributeSelection(i, a) ==
  /\ Editing /\ i \in items
  /\ record' = [record EXCEPT ![a] = getAttributeValue(record, i, a)]
  /\ picked' = picked \cup {a}
  /\ UNCHANGED toggled /\ DialogUnchanged

\* Every attribute of one of the records.
onSelect(i) ==
  /\ Editing /\ i \in items
  /\ record' = [a \in OfferedAttributes |-> getAttributeValue(EmptyRecord, i, a)]
  /\ picked' = OfferedAttributes /\ toggled' = FALSE
  /\ DialogUnchanged

\* What was picked of a file is hidden, but its url stays.
onClearAttribute(a) ==
  /\ Editing
  /\ record' = CASE IsArray(a) -> [record EXCEPT ![a] = <<>>]
                 [] Kind(a) = "value" -> [record EXCEPT ![a] = Unset]
                 [] Kind(a) = "file" -> record
  /\ picked' = picked \ {a}
  /\ UNCHANGED toggled /\ DialogUnchanged

onClear ==
  /\ Editing
  /\ record' = EmptyRecord /\ picked' = {} /\ toggled' = FALSE
  /\ DialogUnchanged

onRemoveArrayItem(a, n) ==
  /\ Editing /\ IsArray(a) /\ n \in DOMAIN record[a]
  /\ record' = [record EXCEPT ![a] = RemoveAt(@, n)]
  /\ UNCHANGED <<picked, toggled>> /\ DialogUnchanged

onTogglePrimary(a, n) ==
  /\ Editing /\ Kind(a) = "names" /\ n \in DOMAIN record[a]
  /\ record' = [record EXCEPT ![a][n].primary = ~@]
  /\ toggled' = TRUE
  /\ UNCHANGED picked /\ DialogUnchanged

DraftUnchanged == UNCHANGED <<list, record, picked, toggled, picks, selections>>
StageUnchanged == DraftUnchanged /\ UNCHANGED <<there, selected, items, taken>>

\* The merge button of the dialog asks for a confirmation.
Submit ==
  /\ items # Unset /\ merging.stage = "none"
  /\ merging' = [stage |-> "confirm", ids |-> selected, record |-> record, picked |-> picked]
  /\ StageUnchanged

Cancel == merging.stage = "confirm" /\ merging' = NoMerge /\ StageUnchanged

onMerge ==
  /\ merging.stage = "confirm"
  /\ merging' = [merging EXCEPT !.stage = "sent"]
  /\ StageUnchanged

\* The dialog is closed, which forgets the merged record.
onClose ==
  /\ items # Unset /\ merging.stage = "none"
  /\ items' = Unset
  /\ UNCHANGED <<there, selected, merging, taken>> /\ DraftUnchanged

(***************************************************************************)
(* The server, and its answer.                                             *)
(***************************************************************************)
\* The server downloads a picked file from its url.  When that fails, the merged
\* record has no file, and nobody is told.
set_content(c, r, fetched) ==
  [a \in DOMAIN r |-> IF Attributes(c)[a] = "file" /\ ~fetched THEN Unset ELSE r[a]]

\* What the server takes for the merged record.
Sent(c, r) == [a \in DOMAIN r |-> IF a \in PermittedForMerge(c) THEN r[a]
                                  ELSE IF Attributes(c)[a] \in {"names", "array"} THEN <<>> ELSE Unset]

\* The merged record is stored, and the records it replaces are gone.
Merge ==
  /\ there' = there \ merging.ids
  /\ \E fetched \in BOOLEAN :
       taken' = [ids |-> merging.ids, record |-> merging.record, picked |-> merging.picked,
                 stored |-> Sent(list, set_content(list, merging.record, fetched))]

\* mutant: the dialog stays open
afterMergeStays ==
  /\ merging.stage = "sent" /\ Merge
  /\ selected' = {} /\ merging' = NoMerge
  /\ UNCHANGED items /\ DraftUnchanged

\* Nothing is selected any more, and the page of the merged record is opened.
afterMerge ==
  /\ merging.stage = "sent" /\ Merge
  /\ selected' = {} /\ items' = Unset /\ merging' = NoMerge
  /\ DraftUnchanged

\* A refusal brings the dialog back.
onError == merging.stage = "sent" /\ merging' = NoMerge /\ StageUnchanged

\* An answer that is lost leaves the dialog as it is: it can be neither closed nor sent again.
Lost ==
  /\ merging.stage = "sent"
  /\ merging' = [merging EXCEPT !.stage = "lost"]
  /\ Merge \/ UNCHANGED <<there, taken>>
  /\ UNCHANGED <<selected, items>> /\ DraftUnchanged

MergeInit ==
  /\ list \in MergeClasses
  /\ there = Listed /\ selected = {} /\ items = Unset
  /\ record = EmptyRecord /\ picked = {} /\ toggled = FALSE /\ merging = NoMerge
  /\ taken = NothingTaken /\ picks = 0 /\ selections = 0

MergeNext ==
  \/ \E i \in Listed : onRowSelect(i) \/ onDelete(i)
  \/ Open \/ Submit \/ Cancel \/ onMerge \/ onClose
  \/ \E i \in Listed : onSelect(i) \/ \E a \in OfferedAttributes : onAttributeSelection(i, a)
  \/ \E a \in OfferedAttributes : onClearAttribute(a)
       \/ \E n \in 1..(2 * MaxPicks) : onRemoveArrayItem(a, n) \/ onTogglePrimary(a, n)
  \/ onClear
  \/ afterMerge \/ onError \/ Lost

MergeSpec == MergeInit /\ [][MergeNext]_mergeVars

-----------------------------------------------------------------------------
MergeTypeOK ==
  /\ list \in MergeClasses /\ there \subseteq Listed /\ selected \subseteq Listed
  /\ items = Unset \/ items \subseteq selected
  /\ DOMAIN record = OfferedAttributes /\ picked \subseteq OfferedAttributes
  /\ \A a \in OfferedAttributes :
       IF IsArray(a) THEN record[a] \in Seq([of : Listed, primary : BOOLEAN])
                     ELSE record[a] \in Listed \cup {Unset}
  /\ merging.stage \in Stages /\ picks \in 0..MaxPicks /\ selections \in 0..MaxSelections

\* Whatever is picked, cleared and picked again, at most one name of the merged
\* record is primary, unless the user made another one primary by hand
\* (getAttributeValue).
OnePrimaryName ==
  ~toggled => \A a \in OfferedAttributes : IsArray(a) =>
    \A m, n \in DOMAIN record[a] : record[a][m].primary /\ record[a][n].primary => m = n

\* A merged record is put together from the records that it replaces, no matter
\* what was selected, deleted or picked in a dialog before (MergeButton).
MergedFromTheMerged ==
  \A a \in DOMAIN merging.record :
    LET v == merging.record[a] IN
    IF IsArray(a) THEN \A n \in DOMAIN v : v[n].of \in merging.ids
                  ELSE v \in merging.ids \cup {Unset}

\* A merge stores every value that was picked and not cleared, in every class:
\* what a list offers is sent and permitted (toMergeable).  The only value that
\* may be missing, in a merge that succeeds and so is lost with the records it
\* replaces, is a file that the server could not download (set_content).
PickedIsMerged ==
  \A a \in taken.picked :
    LET v == taken.stored[a] IN
    IF IsArray(a) THEN v = taken.record[a]
                  ELSE v \in taken.ids \/ (Kind(a) = "file" /\ v = Unset)

\* What was cleared in the dialog is not merged.
ClearedIsNotMerged ==
  \A a \in DOMAIN taken.stored \ taken.picked :
    LET v == taken.stored[a] IN IF IsArray(a) THEN v = <<>> ELSE v = Unset
=============================================================================
