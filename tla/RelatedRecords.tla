--------------------------- MODULE RelatedRecords ---------------------------
(***************************************************************************)
(* One section of related records on the page of a record: the panel of a  *)
(* relationship that allows a single value, which saves whenever another   *)
(* record is selected, or the table and modal of one that allows many; the *)
(* requests they send, and what arrives late or not at all.                *)
(***************************************************************************)
EXTENDS Naturals, FiniteSets

CONSTANTS
  Relations,   \* relationships to look at: [class, inverse, multiple]
  HomeClass,   \* the class of the records whose pages are visited
  None,        \* no id, no record
  MaxActs,     \* bound: steps of the user
  MaxRequests  \* bound: requests under way

ASSUME RelatedAssumption == None \notin Nat /\ MaxActs \in Nat

(***************************************************************************)
(* The dropdowns of each class: which service they search, the collection  *)
(* they read from its answer, and when they offer to clear the selection.  *)
(***************************************************************************)
Dropdown(searches, reads) == [searches |-> searches, reads |-> reads]
Panel(dropdown, clears)   == [dropdown |-> dropdown, clears |-> clears]

\* The buttons of useRelationship: a selection that is there can be cleared.
buttons(foreign) == foreign # None

RelatedEvent(foreign)        == Panel(Dropdown("events", "events"), foreign = None)
RelatedInstance(foreign)     == Panel(Dropdown("instances", "instances"), buttons(foreign))
RelatedItem(foreign)         == Panel(Dropdown("items", "items"), buttons(foreign))
RelatedOrganization(foreign) == Panel(Dropdown("organizations", "organizations"), buttons(foreign))
RelatedPerson(foreign)       == Panel(Dropdown("people", "people"), buttons(foreign))
RelatedPlace(foreign)        == Panel(Dropdown("places", "places"), buttons(foreign))
RelatedTaxonomyItem(foreign) == Panel(Dropdown("taxonomies", "taxonomies"), buttons(foreign))
RelatedWork(foreign)         == Panel(Dropdown("works", "works"), buttons(foreign))

ProjectModelRelationshipFactory(class, foreign) ==
  CASE class = "events" -> RelatedEvent(foreign) [] class = "instances" -> RelatedInstance(foreign)
    [] class = "items" -> RelatedItem(foreign)
    [] class = "organizations" -> RelatedOrganization(foreign)
    [] class = "people" -> RelatedPerson(foreign) [] class = "places" -> RelatedPlace(foreign)
    [] class = "taxonomies" -> RelatedTaxonomyItem(foreign) [] class = "works" -> RelatedWork(foreign)

\* A modal has a dropdown too, and the form of a new record to select.
Modal(dropdown, creates) == [dropdown |-> dropdown, creates |-> creates]

RelatedEventModal        == Modal(Dropdown("events", "events"), "events")
RelatedInstanceModal     == Modal(Dropdown("instances", "instances"), "instances")
RelatedItemModal         == Modal(Dropdown("items", "items"), "items")
RelatedOrganizationModal == Modal(Dropdown("organizations", "organizations"), "organizations")
RelatedPersonModal       == Modal(Dropdown("people", "people"), "people")
RelatedPlaceModal        == Modal(Dropdown("places", "places"), "places")
RelatedTaxonomyItemModal == Modal(Dropdown("taxonomies", "taxonomies"), "taxonomies")
RelatedWorkModal         == Modal(Dropdown("works", "works"), "works")

\* The modal of the table of a class.
RelatedEvents        == RelatedEventModal
RelatedInstances     == RelatedInstanceModal
RelatedItems         == RelatedItemModal
RelatedOrganizations == RelatedOrganizationModal
RelatedPeople        == RelatedPersonModal
RelatedPlaces        == RelatedPlaceModal
RelatedTaxonomyItems == RelatedTaxonomyItemModal
RelatedWorks         == RelatedWorkModal

ProjectModelRelationshipsFactory(class) ==
  CASE class = "events" -> RelatedEvents [] class = "instances" -> RelatedInstances
    [] class = "items" -> RelatedItems [] class = "organizations" -> RelatedOrganizations
    [] class = "people" -> RelatedPeople [] class = "places" -> RelatedPlaces
    [] class = "taxonomies" -> RelatedTaxonomyItems [] class = "works" -> RelatedWorks

(***************************************************************************)
(* Keys of a relationship.                                                 *)
(***************************************************************************)
RelationshipPayload ==
  {"primary_record_id", "primary_record_type", "related_record_id", "related_record_type", "order"}

\* mutant: a selection is related from the page, whatever its direction
foreignKeyForward(rel) == "related_record_id"

\* The key a selection sets.
foreignKey(rel) == IF rel.inverse THEN "primary_record_id" ELSE "related_record_id"

primary_model(rel) == IF rel.inverse THEN "foreign" ELSE "home"
related_model(rel) == IF rel.inverse THEN "home" ELSE "foreign"
foreignProjectModelId(rel) == IF rel.inverse THEN primary_model(rel) ELSE related_model(rel)

\* The class of the records of a model.
model_class(rel, model) == IF model = "home" THEN HomeClass ELSE rel.class

\* What the form of a relationship without an id sets of its own accord.
requiredKeys(rel, page) ==
  IF rel.inverse
    THEN [k \in RelationshipPayload |->
            CASE k = "primary_record_type" -> model_class(rel, primary_model(rel))
              [] k = "related_record_id"   -> page
              [] k = "related_record_type" -> HomeClass
              [] OTHER                     -> None]
    ELSE [k \in RelationshipPayload |->
            CASE k = "primary_record_id"   -> page
              [] k = "primary_record_type" -> HomeClass
              [] k = "related_record_type" -> model_class(rel, related_model(rel))
              [] OTHER                     -> None]

VARIABLES
  rel,       \* the relationship of the section
  page,      \* the record whose page is open, None for a new one
  panel,     \* the section: its phase, the id it was mounted for, and its form
  rows,      \* the stored relationships: id -> keys
  records,   \* the stored records: id -> model
  requests,  \* what was sent for relationships
  nextId,    \* the next id of a stored relationship
  smooth,    \* nothing failed, was cleared, or was done while its page waited
  acts       \* steps of the user so far

relatedVars == <<rel, page, panel, rows, records, requests, nextId, smooth, acts>>

\* The key of the record whose page shows a relationship.
ownKey == IF foreignKey(rel) = "primary_record_id" THEN "related_record_id" ELSE "primary_record_id"

Keys == LET Id == Nat \cup {None}  Type == {rel.class, HomeClass} IN
        [primary_record_id : Id, primary_record_type : Type, related_record_id : Id,
         related_record_type : Type, order : Id]
New  == [id |-> None, keys |-> requiredKeys(rel, page)]

Request(kind, id, item) ==
  [kind |-> kind, page |-> page, id |-> id, item |-> item, live |-> TRUE,
   answer |-> item, status |-> "sent"]

\* Nothing that was done on the page of a record is under way.
Waited(p) == \A q \in requests : q.page # p

\* mutant: the section stays as it is when another record is opened
VisitMounted(p) ==
  /\ p # page /\ Cardinality(requests) < MaxRequests /\ acts < MaxActs
  /\ page' = p /\ acts' = acts + 1
  /\ IF panel.phase = "none"
       THEN panel' = [phase |-> IF rel.multiple THEN "table" ELSE "ready", id |-> None,
                      item |-> [id |-> None, keys |-> requiredKeys(rel, p)]]
       ELSE UNCHANGED panel
  /\ smooth' = (smooth /\ Waited(p))
  /\ UNCHANGED <<rel, rows, records, requests, nextId>>

\* The pages of relationships are mounted anew for every record; what is under
\* way for the last one finds nobody.
Visit(p) ==
  /\ p # page /\ Cardinality(requests) < MaxRequests /\ acts < MaxActs
  /\ page' = p /\ acts' = acts + 1
  /\ LET item == [id |-> None, keys |-> requiredKeys(rel, p)]
         rest == {[q EXCEPT !.live = FALSE] : q \in {r \in requests : r.kind \in {"save", "delete"}}}
         list == [kind |-> "list", page |-> p, id |-> None, item |-> item, live |-> TRUE,
                  answer |-> item, status |-> "sent"] IN
     IF p = None \/ rel.multiple
       THEN /\ panel' = [phase |-> IF p = None THEN "none" ELSE "table", id |-> None, item |-> item]
            /\ requests' = rest
       ELSE /\ panel' = [phase |-> "listing", id |-> None, item |-> item]
            /\ requests' = rest \cup {list}
  /\ smooth' = (smooth /\ Waited(p))
  /\ UNCHANGED <<rel, rows, records, nextId>>

(***************************************************************************)
(* Steps of the user.                                                      *)
(***************************************************************************)
Act(allowed) ==
  /\ acts < MaxActs /\ acts' = acts + 1
  /\ Cardinality(requests) < MaxRequests
  /\ smooth' = (smooth /\ allowed /\ Waited(page))

\* What a search in a dropdown offers.
Offered(dropdown) ==
  {r \in DOMAIN records : /\ records[r] = foreignProjectModelId(rel)
                          /\ dropdown.searches = model_class(rel, records[r])
                          /\ dropdown.reads = dropdown.searches}

InPanel == panel.phase \in {"loading", "ready"}
Shown   == panel.item.keys[foreignKey(rel)]

\* A selection is saved at once; nothing waits for a save or a load under way.
onSelection(keys) ==
  LET item == [panel.item EXCEPT !.keys = keys] IN
  /\ panel' = [panel EXCEPT !.item = item]
  /\ requests' = requests \cup {Request("save", item.id, item)}

Select(r) ==
  /\ InPanel /\ r \in Offered(ProjectModelRelationshipFactory(rel.class, Shown).dropdown)
  /\ Act(TRUE)
  /\ onSelection([panel.item.keys EXCEPT ![foreignKey(rel)] = r])
  /\ UNCHANGED <<rel, page, rows, records, nextId>>

\* The modal behind the dropdown, which holds the stored relationship if there
\* is one, also sets the order.
SelectInModal(r, order) ==
  /\ InPanel /\ r \in Offered(ProjectModelRelationshipsFactory(rel.class).dropdown)
  /\ panel.item.id = None \/ panel.item.id \in DOMAIN rows
  /\ Act(TRUE)
  /\ LET keys == IF panel.item.id = None THEN panel.item.keys ELSE rows[panel.item.id] IN
     onSelection([keys EXCEPT ![foreignKey(rel)] = r, !["order"] = order])
  /\ UNCHANGED <<rel, page, rows, records, nextId>>

\* The form forgets nothing of the relationship that is deleted.
Clear ==
  /\ InPanel /\ ProjectModelRelationshipFactory(rel.class, Shown).clears
  /\ Act(FALSE)
  /\ requests' = requests \cup {Request("delete", panel.item.id, panel.item)}
  /\ UNCHANGED <<rel, page, panel, rows, records, nextId>>

\* A new record is created from a modal, in the model at the other end.
CreateRecord ==
  /\ panel.phase \in {"table", "loading", "ready"}
  /\ acts < MaxActs /\ acts' = acts + 1
  /\ LET class == ProjectModelRelationshipsFactory(rel.class).creates
         model == foreignProjectModelId(rel) IN
     /\ class = model_class(rel, model)
     /\ records' = [r \in DOMAIN records \cup {Cardinality(DOMAIN records) + 1} |->
                      IF r \in DOMAIN records THEN records[r] ELSE model]
  /\ UNCHANGED <<rel, page, panel, rows, requests, nextId, smooth>>

\* The modal of the table: a new relationship, or a stored one.
SubmitModal(id, r, order) ==
  /\ panel.phase = "table"
  /\ id = None \/ (id \in DOMAIN rows /\ rows[id][ownKey] = page)
  /\ r \in Offered(ProjectModelRelationshipsFactory(rel.class).dropdown)
  /\ Act(TRUE)
  /\ LET keys == IF id = None THEN requiredKeys(rel, page) ELSE rows[id] IN
     requests' = requests \cup {Request("save", id, [id |-> id,
                   keys |-> [keys EXCEPT ![foreignKey(rel)] = r, !["order"] = order]])}
  /\ UNCHANGED <<rel, page, panel, rows, records, nextId>>

DeleteRow(id) ==
  /\ panel.phase = "table" /\ id \in DOMAIN rows /\ rows[id][ownKey] = page
  /\ Act(TRUE)
  /\ requests' = requests \cup {Request("delete", id, [id |-> id, keys |-> rows[id]])}
  /\ UNCHANGED <<rel, page, panel, rows, records, nextId>>

(***************************************************************************)
(* Steps of the API.                                                       *)
(***************************************************************************)
\* The relationships of a record, in the order of their ids.
First(p) ==
  LET ids == {id \in DOMAIN rows : rows[id][ownKey] = p} IN
  IF ids = {} THEN None ELSE CHOOSE id \in ids : \A other \in ids : id <= other

Answered(q, status, item) ==
  requests' = (requests \ {q}) \cup {[q EXCEPT !.status = status, !.answer = item]}

\* A key that was not sent stays as it is.
Merged(old, sent) == [k \in RelationshipPayload |-> IF sent[k] = None THEN old[k] ELSE sent[k]]

\* The answer may be lost after the work was done.
Statuses == {"ok", "lost"}

ServeList(q) ==
  /\ q.kind = "list"
  /\ \E status \in Statuses : Answered(q, status, [q.item EXCEPT !.id = First(q.page)])
  /\ UNCHANGED <<rows, nextId>>

ServeCreate(q) ==
  /\ q.kind = "save" /\ q.id = None
  /\ rows' = [id \in DOMAIN rows \cup {nextId} |-> IF id = nextId THEN q.item.keys ELSE rows[id]]
  /\ nextId' = nextId + 1
  /\ \E status \in Statuses : Answered(q, status, [id |-> nextId, keys |-> q.item.keys])

\* What is not there is refused.
ServeStored(q) ==
  /\ q.id \in DOMAIN rows
  /\ rows' = CASE q.kind = "load" -> rows
               [] q.kind = "save" -> [rows EXCEPT ![q.id] = Merged(@, q.item.keys)]
               [] q.kind = "delete" -> [id \in DOMAIN rows \ {q.id} |-> rows[id]]
  /\ \E status \in Statuses : Answered(q, status, [id |-> q.id, keys |-> rows[q.id]])
  /\ UNCHANGED nextId

Serve(q) ==
  /\ q.status = "sent"
  /\ ServeList(q) \/ ServeCreate(q) \/ ServeStored(q)
  /\ UNCHANGED <<rel, page, panel, records, smooth, acts>>

(***************************************************************************)
(* Answers that arrive.                                                    *)
(***************************************************************************)
\* The panel is mounted for the first relationship, or for a new one.
MountPanel(id, rest) ==
  IF id = None
    THEN /\ panel' = [phase |-> "ready", id |-> None, item |-> New]
         /\ requests' = rest
    ELSE /\ panel' = [phase |-> "loading", id |-> id, item |-> [New EXCEPT !.id = id]]
         /\ requests' = {q \in rest : q.kind # "load"}
                        \cup {Request("load", id, [New EXCEPT !.id = id])}

ListReply(q) ==
  /\ q.kind = "list" /\ q.status = "ok"
  /\ MountPanel(q.answer.id, requests \ {q})
  /\ UNCHANGED smooth

LoadReply(q) ==
  /\ q.kind = "load" /\ q.status = "ok"
  /\ requests' = requests \ {q}
  /\ panel' = [panel EXCEPT !.phase = "ready", !.item = q.answer]
  /\ UNCHANGED smooth

\* mutant: the panel does not take over the id of the relationship
SaveReplyKeepsForm(q) ==
  /\ q.kind = "save" /\ q.status = "ok"
  /\ requests' = requests \ {q} /\ UNCHANGED <<panel, smooth>>

\* The first save of a relationship gives the panel another id: it is mounted
\* anew. The modal of a table closes.
SaveReply(q) ==
  /\ q.kind = "save" /\ q.status = "ok"
  /\ IF q.live /\ InPanel /\ panel.id # q.answer.id
       THEN MountPanel(q.answer.id, requests \ {q})
       ELSE requests' = requests \ {q} /\ UNCHANGED panel
  /\ UNCHANGED smooth

DeleteReply(q) ==
  /\ q.kind = "delete" /\ q.status = "ok"
  /\ requests' = requests \ {q}
  /\ UNCHANGED <<panel, smooth>>

\* A panel whose list failed takes the relationship for a new one; a load that
\* failed is not noticed.
Fail(q) ==
  /\ q.status \in {"sent", "lost"}
  /\ IF q.kind = "list" THEN MountPanel(None, requests \ {q})
                        ELSE requests' = requests \ {q} /\ UNCHANGED panel
  /\ smooth' = FALSE

Reply(q) ==
  /\ ListReply(q) \/ LoadReply(q) \/ SaveReply(q) \/ DeleteReply(q) \/ Fail(q)
  /\ UNCHANGED <<rel, page, rows, records, nextId, acts>>

(***************************************************************************)
(* The specification: records 1 and 2 are at home, 3 and 4 can be related. *)
(***************************************************************************)
\* Record 1 and record 3, related in the direction of the relationship.
StoredRow ==
  LET home == <<1, HomeClass>>  other == <<3, rel.class>>
      ends == IF rel.inverse THEN <<other, home>> ELSE <<home, other>> IN
  [primary_record_id |-> ends[1][1], primary_record_type |-> ends[1][2],
   related_record_id |-> ends[2][1], related_record_type |-> ends[2][2], order |-> 0]

RelatedInit ==
  /\ rel \in Relations
  /\ page = None
  /\ panel = [phase |-> "none", id |-> None,
              item |-> [id |-> None, keys |-> requiredKeys(rel, None)]]
  /\ rows \in {<<>>, [id \in {1} |-> StoredRow]}
  /\ records = [r \in 1..4 |-> IF r \in {1, 2} THEN "home" ELSE "foreign"]
  /\ requests = {} /\ nextId = 2 /\ smooth = TRUE /\ acts = 0

RelatedUser ==
  \/ \E p \in {1, 2, None} : Visit(p)
  \/ \E r \in DOMAIN records : Select(r) \/ SelectInModal(r, acts + 1)
  \/ Clear
  \/ CreateRecord
  \/ \E id \in {None} \cup DOMAIN rows, r \in DOMAIN records : SubmitModal(id, r, acts + 1)
  \/ \E id \in DOMAIN rows : DeleteRow(id)

RelatedNext == RelatedUser \/ \E q \in requests : Serve(q) \/ Reply(q)

RelatedSpec == RelatedInit /\ [][RelatedNext]_relatedVars

-----------------------------------------------------------------------------
RelatedTypeOK ==
  /\ rel \in Relations /\ page \in {1, 2, None}
  /\ panel.phase \in {"none", "listing", "loading", "ready", "table"}
  /\ panel.item.keys \in Keys
  /\ DOMAIN rows \subseteq 1..(nextId - 1)
  /\ \A id \in DOMAIN rows : rows[id] \in Keys

\* Every stored relationship joins a record of the page's model to one of the
\* model at the other end, each at its own side and with its own class,
\* whichever of the two sections it was made in (useRelationship,
\* initializeRelated, useProjectModelRelationship).
RowsJoinTheModels ==
  \A id \in DOMAIN rows :
    LET row == rows[id]
        Joins(record, type, model) ==
          /\ row[record] \in DOMAIN records /\ records[row[record]] = model
          /\ row[type] = model_class(rel, model) IN
    /\ Joins("primary_record_id", "primary_record_type", primary_model(rel))
    /\ Joins("related_record_id", "related_record_type", related_model(rel))

\* Only what was done on the page of a record makes, changes or removes a
\* relationship of that record, however late it gets to the server
\* (Relationships is keyed by the record).
RowsChangeForTheirRecord ==
  [][\A id \in DOMAIN rows \cup DOMAIN rows' :
       LET row(r) == IF id \in DOMAIN r THEN r[id] ELSE None IN
       row(rows) # row(rows') =>
         \E q \in requests \ requests' :
           \A r \in {rows, rows'} : id \in DOMAIN r => r[id][ownKey] = q.page]_relatedVars

\* A panel whose user waited for every answer, none of which was lost, shows the
\* only relationship there is (ProjectModelRelationshipsFactory loads its id,
\* withRelationshipEditForm takes over the one of the first save).
SettledPanelShowsItsRow ==
  (~rel.multiple /\ panel.phase = "ready" /\ smooth /\ Waited(page)) =>
    LET ids == {id \in DOMAIN rows : rows[id][ownKey] = page} IN
    IF ids = {} THEN panel.item = New
                ELSE ids = {panel.item.id} /\ panel.item.keys = rows[panel.item.id]
=============================================================================
