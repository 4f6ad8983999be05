----------------------------- MODULE RecordForm -----------------------------
(***************************************************************************)
(* The form of a record, class by class: what it edits, what its transform *)
(* sends of it, what the policy of the server permits, and what the nested *)
(* attributes of the request then do to the stored children. The record is *)
(* stored already; RecordPage has the creation of one.                     *)
(***************************************************************************)
EXTENDS Naturals, FiniteSets

CONSTANTS
  Classes,   \* the classes of records to look at
  NoOne,     \* no child of which there is one
  NoMap,     \* nothing drawn on the map yet
  MaxEdits,  \* bound: edits, and other records opened
  MaxSaves   \* bound: saves

ASSUME FormAssumption ==
  /\ Classes \subseteq {"Event", "Instance", "Item", "MediaContent", "Organization", "Person", "Place",
                        "Taxonomy", "Work"}
  /\ MaxEdits \in Nat \ {0} /\ MaxSaves \in Nat /\ NoMap \notin Nat
  /\ NoOne \notin [id : Nat, v : Nat] \cup [id : Nat, v : Nat, gone : BOOLEAN]

(***************************************************************************)
(* Forms: texts (inputs, checkboxes, files, user-defined values), lists of *)
(* children, and children of which there is one.                           *)
(***************************************************************************)
EventForm        == [texts |-> {"name", "description", "user_defined"},
                     lists |-> {}, ones |-> {"start_date", "end_date"}]
InstanceForm     == [texts |-> {"user_defined"}, lists |-> {"source_names"}, ones |-> {}]
ItemForm         == [texts |-> {"faircopy_cloud_id", "user_defined"},
                     lists |-> {"source_names"}, ones |-> {}]
MediaContentForm == [texts |-> {"name", "content", "content_warning", "user_defined"},
                     lists |-> {}, ones |-> {}]
OrganizationForm == [texts |-> {"description", "user_defined"},
                     lists |-> {"organization_names"}, ones |-> {}]
PersonForm       == [texts |-> {"biography", "user_defined"},
                     lists |-> {"person_names"}, ones |-> {}]
PlaceForm        == [texts |-> {"user_defined"},
                     lists |-> {"place_names", "place_layers"}, ones |-> {"place_geometry"}]
TaxonomyItemForm == [texts |-> {"name", "user_defined"}, lists |-> {}, ones |-> {}]
WorkForm         == [texts |-> {"user_defined"}, lists |-> {"source_names"}, ones |-> {}]

Form(c) ==
  CASE c = "Event" -> EventForm [] c = "Instance" -> InstanceForm [] c = "Item" -> ItemForm
    [] c = "MediaContent" -> MediaContentForm [] c = "Organization" -> OrganizationForm
    [] c = "Person" -> PersonForm [] c = "Place" -> PlaceForm
    [] c = "Taxonomy" -> TaxonomyItemForm [] c = "Work" -> WorkForm

\* What the modal of a child edits.
SourceNameModal       == {"name", "primary"}
OrganizationNameModal == {"name", "primary"}
PersonNameModal       == {"first_name", "middle_name", "last_name", "primary"}
PlaceNameModal        == {"name", "primary"}
PlaceLayerModal       == {"name", "layer_type", "content", "url"}

ChildModal(l) ==
  CASE l = "source_names" -> SourceNameModal [] l = "organization_names" -> OrganizationNameModal
    [] l = "person_names" -> PersonNameModal [] l = "place_names" -> PlaceNameModal
    [] l = "place_layers" -> PlaceLayerModal

(***************************************************************************)
(* Payloads: the keys of a record and its children, and the keys of those. *)
(***************************************************************************)
EventPayload        == {"project_model_id", "name", "description", "start_date", "end_date",
                        "user_defined"}
InstancePayload     == {"project_model_id", "user_defined", "source_names"}
\* mutant: a field of the form is missing in the payload
ItemPayloadLess     == {"project_model_id", "user_defined", "source_names"}
ItemPayload         == {"project_model_id", "user_defined", "faircopy_cloud_id", "source_names"}
MediaContentPayload == {"project_model_id", "name", "user_defined", "content", "content_warning"}
OrganizationPayload == {"project_model_id", "description", "user_defined", "organization_names"}
PersonPayload       == {"project_model_id", "biography", "user_defined", "person_names"}
PlacePayload        == {"project_model_id", "user_defined", "place_names", "place_geometry",
                        "place_layers"}
TaxonomyPayload     == {"project_model_id", "name", "user_defined"}
WorkPayload         == {"project_model_id", "user_defined", "source_names"}

Payload(c) ==
  CASE c = "Event" -> EventPayload [] c = "Instance" -> InstancePayload
    [] c = "Item" -> ItemPayload [] c = "MediaContent" -> MediaContentPayload
    [] c = "Organization" -> OrganizationPayload [] c = "Person" -> PersonPayload
    [] c = "Place" -> PlacePayload [] c = "Taxonomy" -> TaxonomyPayload [] c = "Work" -> WorkPayload

SourceNames       == {"id", "name", "primary", "_destroy"}
OrganizationNames == {"id", "name", "primary", "_destroy"}
\* mutant: names that are removed are sent as if they were not
PersonNamesLess   == {"id", "first_name", "middle_name", "last_name", "primary"}
PersonNames       == {"id", "first_name", "middle_name", "last_name", "primary", "_destroy"}
PlaceNames        == {"id", "name", "primary", "_destroy"}
PlaceLayers       == {"id", "name", "layer_type", "content", "url", "_destroy"}
PlaceGeometry     == {"id", "_destroy", "geometry_json", "properties"}

ChildPayload(l) ==
  CASE l = "source_names" -> SourceNames [] l = "organization_names" -> OrganizationNames
    [] l = "person_names" -> PersonNames [] l = "place_names" -> PlaceNames
    [] l = "place_layers" -> PlaceLayers

\* What the policy of a class permits besides the attributes of its owner.
Permitted(c) ==
  CASE c = "Event" -> {"name", "description", "start_date", "end_date", "user_defined"}
    [] c \in {"Instance", "Work"} -> {"user_defined", "source_names"}
    [] c = "Item" -> {"faircopy_cloud_id", "user_defined", "source_names"}
    [] c = "MediaContent" -> {"name", "content", "content_warning", "user_defined"}
    [] c = "Organization" -> {"description", "user_defined", "organization_names"}
    [] c = "Person" -> {"biography", "user_defined", "person_names"}
    [] c = "Place" -> {"user_defined", "place_names", "place_geometry", "place_layers"}
    [] c = "Taxonomy" -> {"name", "user_defined"}

VARIABLES
  formClass,   \* the class of the record
  form,        \* the form
  storedForm,  \* the record and its children as the server has them
  drawn,       \* the map data kept by the form of a place
  nextChild,   \* the next id of a stored child
  edits, saves,
  opened,      \* the number of saves when the record was opened
  touched      \* the fields edited since then

formVars == <<formClass, form, storedForm, drawn, nextChild, edits, saves, opened, touched>>

Values == 0..MaxEdits
NoChild == 0

Children(l) == [id : Nat, uid : Values, gone : BOOLEAN, vals : [ChildModal(l) -> Values]]
Ones        == [id : Nat, v : Values, gone : BOOLEAN]

\* The form of a stored record, as it is loaded.
Loaded(row) ==
  [texts |-> row.texts,
   lists |-> [l \in DOMAIN row.lists |->
               {[id |-> r.id, uid |-> 0, gone |-> FALSE, vals |-> r.vals] : r \in row.lists[l]}],
   ones  |-> [o \in DOMAIN row.ones |->
               IF row.ones[o] = NoOne THEN NoOne
               ELSE [id |-> row.ones[o].id, v |-> row.ones[o].v, gone |-> FALSE]]]

\* A record with nothing, and one with a child everywhere.
Nothing(c) ==
  [texts |-> [f \in Form(c).texts |-> 0],
   lists |-> [l \in Form(c).lists |-> {}],
   ones  |-> [o \in Form(c).ones |-> NoOne]]

Filled(c, id) ==
  [texts |-> [f \in Form(c).texts |-> 0],
   lists |-> [l \in Form(c).lists |-> {[id |-> id, vals |-> [a \in ChildModal(l) |-> 0]]}],
   ones  |-> [o \in Form(c).ones |-> [id |-> id, v |-> 1]]]

(***************************************************************************)
(* Edits.                                                                  *)
(***************************************************************************)
Touch(fields) ==
  /\ edits < MaxEdits
  /\ edits' = edits + 1
  /\ touched' = touched \cup fields
  /\ UNCHANGED <<formClass, storedForm, nextChild, saves, opened>>

TypeText(f) ==
  /\ Touch({f})
  /\ form' = [form EXCEPT !.texts[f] = edits + 1]
  /\ UNCHANGED drawn

\* A new file takes its name along.
UploadContent ==
  /\ formClass = "MediaContent" /\ Touch({"name", "content"})
  /\ form' = [form EXCEPT !.texts["name"] = edits + 1, !.texts["content"] = edits + 1]
  /\ UNCHANGED drawn

IsChild(a, b) == (a.uid # 0 /\ a.uid = b.uid) \/ (a.id # NoChild /\ a.id = b.id)

\* mutant: a child that was edited is added
SaveChildAppends(l, child) == form' = [form EXCEPT !.lists[l] = @ \cup {child}]

\* A child is added, or takes the place of the child it was.
SaveChild(l, child) ==
  LET kids == form.lists[l] IN
  form' = [form EXCEPT !.lists[l] = {k \in kids : ~IsChild(child, k)} \cup {child}]

AddChild(l, a) ==
  /\ Touch({l}) /\ UNCHANGED drawn
  /\ SaveChild(l, [id |-> NoChild, uid |-> edits + 1, gone |-> FALSE,
                   vals |-> [b \in ChildModal(l) |-> IF b = a THEN edits + 1 ELSE 0]])

EditChild(l, child, a) ==
  /\ Touch({l}) /\ UNCHANGED drawn
  /\ ~child.gone
  /\ SaveChild(l, [child EXCEPT !.vals[a] = edits + 1])

\* A stored child is marked, any other is forgotten.
DeleteChild(l, child) ==
  /\ Touch({l}) /\ UNCHANGED drawn
  /\ form' = [form EXCEPT !.lists[l] =
       IF child.id # NoChild
         THEN (@ \ {child}) \cup {[child EXCEPT !.gone = TRUE]}
         ELSE @ \ {child}]

\* A date without a start is removed.
SetDate(o, v) ==
  /\ formClass = "Event" /\ Touch({o}) /\ UNCHANGED drawn
  /\ form' = [form EXCEPT !.ones[o] =
       [id |-> IF @ = NoOne THEN NoChild ELSE @.id, v |-> v, gone |-> (v = 0)]]

\* The geometry that the map data, empty if 0, makes of the one of the form: it
\* has no id any more, unless it is to be destroyed.
Geometry(old, v) ==
  IF old # NoOne /\ old.id # NoChild /\ v = 0
    THEN [id |-> old.id, v |-> 0, gone |-> TRUE]
    ELSE [id |-> NoChild, v |-> v, gone |-> FALSE]

Draw(v) ==
  /\ formClass = "Place" /\ Touch({"place_geometry"})
  /\ drawn' = v
  /\ form' = [form EXCEPT !.ones["place_geometry"] = Geometry(@, v)]

\* A file replaces the geometry; when that changes its id, the map data is
\* applied once more.
UploadGeometry(v) ==
  LET old  == form.ones["place_geometry"]
      file == [id |-> NoChild, v |-> v, gone |-> FALSE] IN
  /\ formClass = "Place" /\ Touch({"place_geometry"}) /\ UNCHANGED drawn
  /\ form' = [form EXCEPT !.ones["place_geometry"] =
       IF drawn # NoMap /\ old # NoOne /\ old.id # NoChild THEN Geometry(file, drawn) ELSE file]

(***************************************************************************)
(* Saves.                                                                  *)
(***************************************************************************)
Permits(f) == f \in Payload(formClass) /\ f \in Permitted(formClass)

\* What is sent of a child, and of the only one.  A geometry is always sent, an
\* empty object if the place has none.
SentKeys(child, keys) ==
  [child EXCEPT !.id = IF "id" \in keys THEN @ ELSE NoChild, !.gone = @ /\ "_destroy" \in keys]
SentKids(l) == {SentKeys(k, ChildPayload(l)) : k \in form.lists[l]}
EmptyOne    == [id |-> NoChild, v |-> 0, gone |-> FALSE]
SentOne(o)  == IF o # "place_geometry" THEN form.ones[o]
               ELSE SentKeys(IF form.ones[o] = NoOne THEN EmptyOne ELSE form.ones[o], PlaceGeometry)
SentVals(l, vals) == [a \in ChildModal(l) |-> IF a \in ChildPayload(l) THEN vals[a] ELSE 0]

\* A child with an id that is not stored fails the whole request.
MissingChild ==
  \/ \E l \in Form(formClass).lists : Permits(l) /\ \E k \in SentKids(l) :
       k.id # NoChild /\ \A r \in storedForm.lists[l] : r.id # k.id
  \/ \E o \in Form(formClass).ones : Permits(o) /\ SentOne(o) # NoOne /\ SentOne(o).id # NoChild
       /\ (storedForm.ones[o] = NoOne \/ storedForm.ones[o].id # SentOne(o).id)

\* Children without an id are created, by ids counted from nextChild.
StoredChildren(l) ==
  {r \in storedForm.lists[l] : \A k \in SentKids(l) : k.id # r.id}
  \cup {[id |-> IF k.id = NoChild THEN nextChild + k.uid ELSE k.id, vals |-> SentVals(l, k.vals)] :
          k \in {x \in SentKids(l) : ~x.gone}}

\* The only child is updated, destroyed, or replaced by a new one.
StoredOne(o) ==
  LET one == SentOne(o) IN
  CASE one = NoOne -> storedForm.ones[o]
    [] one # NoOne /\ one.id # NoChild -> IF one.gone THEN NoOne ELSE [id |-> one.id, v |-> one.v]
    [] one # NoOne /\ one.id = NoChild -> IF one.gone THEN storedForm.ones[o]
                                          ELSE [id |-> nextChild, v |-> one.v]

Update ==
  [texts |-> [f \in Form(formClass).texts |->
                IF Permits(f) THEN form.texts[f] ELSE storedForm.texts[f]],
   lists |-> [l \in Form(formClass).lists |->
                IF Permits(l) THEN StoredChildren(l) ELSE storedForm.lists[l]],
   ones  |-> [o \in Form(formClass).ones |->
                IF Permits(o) THEN StoredOne(o) ELSE storedForm.ones[o]]]

\* The record is stored, but the form stays as it is: its new children have no
\* id yet, and its removed ones are still marked.
SaveForm ==
  /\ saves < MaxSaves /\ ~MissingChild
  /\ saves' = saves + 1
  /\ storedForm' = Update
  /\ nextChild' = nextChild + MaxEdits + 1
  /\ UNCHANGED <<formClass, form, drawn, edits, opened, touched>>

\* The saved record is loaded into another form.
Reopen ==
  /\ saves > opened
  /\ form' = Loaded(storedForm) /\ drawn' = NoMap /\ touched' = {} /\ opened' = saves
  /\ UNCHANGED <<formClass, storedForm, nextChild, edits, saves>>

\* Another record of the class is loaded into the same form, which keeps its map
\* data and applies it to a geometry with another id.
OpenOther ==
  LET other == Filled(formClass, nextChild)
      load  == Loaded(other) IN
  /\ storedForm' = other
  /\ form' = IF formClass = "Place" /\ drawn # NoMap
               THEN [load EXCEPT !.ones["place_geometry"] = Geometry(@, drawn)] ELSE load
  /\ nextChild' = nextChild + MaxEdits + 1
  /\ touched' = {} /\ opened' = saves
  /\ edits < MaxEdits /\ edits' = edits + 1
  /\ UNCHANGED <<formClass, drawn, saves>>

FormInit ==
  /\ formClass \in Classes
  /\ storedForm \in {Nothing(formClass), Filled(formClass, 1)}
  /\ form = Loaded(storedForm)
  /\ drawn = NoMap /\ nextChild = 2 /\ edits = 0 /\ saves = 0 /\ opened = 0 /\ touched = {}

EditForm ==
  \/ \E f \in Form(formClass).texts : TypeText(f)
  \/ UploadContent
  \/ \E l \in Form(formClass).lists, a \in UNION {ChildModal(x) : x \in Form(formClass).lists} :
       a \in ChildModal(l) /\ (AddChild(l, a) \/ \E k \in form.lists[l] : EditChild(l, k, a))
  \/ \E l \in Form(formClass).lists : \E k \in form.lists[l] : DeleteChild(l, k)
  \/ \E o \in Form(formClass).ones, v \in {0, edits + 1} : SetDate(o, v)
  \/ \E v \in {0, edits + 1} : Draw(v)
  \/ UploadGeometry(edits + 1)

FormNext == EditForm \/ SaveForm \/ Reopen \/ OpenOther

FormSpec == FormInit /\ [][FormNext]_formVars
-----------------------------------------------------------------------------
FormTypeOK ==
  /\ formClass \in Classes
  /\ DOMAIN form.texts = Form(formClass).texts /\ DOMAIN storedForm.texts = Form(formClass).texts
  /\ \A l \in Form(formClass).lists : form.lists[l] \subseteq Children(l)
  /\ \A o \in Form(formClass).ones : form.ones[o] \in Ones \cup {NoOne}
  /\ \A l \in Form(formClass).lists, r, s \in UNION {storedForm.lists[x] : x \in Form(formClass).lists} :
       {r, s} \subseteq storedForm.lists[l] /\ r.id = s.id => r = s
  /\ drawn \in Values \cup {NoMap} /\ edits \in Values /\ saves \in opened..MaxSaves

Kids(l) == {k \in form.lists[l] : ~k.gone}
ValueOf(one) == IF one = NoOne THEN 0 ELSE one.v

FirstSave == saves = opened /\ saves' > saves

\* The first save after a record was opened stores what its form shows, no more
\* and no less: every edited field of every class is sent and permitted, and
\* every child is created, changed or removed once.
FirstSaveIsExact ==
  [][FirstSave =>
       /\ storedForm'.texts = form.texts
       /\ \A l \in Form(formClass).lists :
            /\ {r.vals : r \in storedForm'.lists[l]} = {k.vals : k \in Kids(l)}
            /\ Cardinality(storedForm'.lists[l]) = Cardinality(Kids(l))
       /\ \A o \in Form(formClass).ones : ValueOf(storedForm'.ones[o]) = ValueOf(form.ones[o])]_formVars

ChildrenAreStored ==
  \A l \in Form(formClass).lists :
    /\ \A k \in Kids(l) : \E r \in storedForm'.lists[l] : r.vals = k.vals
    /\ \A k \in form.lists[l] : k.gone => \A r \in storedForm'.lists[l] : r.id # k.id

StaysEmpty(o) == ValueOf(storedForm.ones[o]) = 0 /\ ValueOf(storedForm'.ones[o]) = 0

OnlyTouchedChange ==
  /\ \A f \in Form(formClass).texts : storedForm'.texts[f] # storedForm.texts[f] => f \in touched
  /\ \A l \in Form(formClass).lists : storedForm'.lists[l] # storedForm.lists[l] => l \in touched
  /\ \A o \in Form(formClass).ones : storedForm'.ones[o] # storedForm.ones[o] =>
       o \in touched \/ (o = "place_geometry" /\ (drawn # NoMap \/ StaysEmpty(o)))

\* Whatever was saved before, a save that succeeds stores every child the form
\* shows, leaves no child that it shows as removed, and changes nothing that was
\* not edited since the record was opened, but for the geometry of a place: one
\* whose form still holds the map data of another place gets that, and one that
\* has none gets an empty row (the transforms and useEditContainer).
SavesStoreWhatIsShown ==
  [][saves' > saves => ChildrenAreStored /\ OnlyTouchedChange]_formVars
=============================================================================
