----------------------------- MODULE RecordPage -----------------------------
(***************************************************************************)
(* The page of a record in the browser: the path, the project context that *)
(* is fetched for it, the form that is loaded, edited, saved and published *)
(* on it, and the answers of the API, in whatever order they arrive.       *)
(***************************************************************************)
EXTENDS Naturals, FiniteSets

CONSTANTS
  Models,      \* the models of a project
  Classes,     \* what their records are: places, people, ...
  ClassOf,     \* the class of a model
  Records,     \* ids of records; every class counts for itself
  Stored,      \* the records that are there at first, as <<class, id>>
  New,         \* the form of a record that is not stored yet
  List,        \* the list of a model, where no record is open
  NoModel,     \* no project model was fetched yet
  Blank,       \* nothing loaded or typed yet
  MaxActs,     \* bound: texts typed, saves and publications
  MaxRequests  \* bound: requests under way

ASSUME RecordPageAssumption ==
  /\ ClassOf \in [Models -> Classes] /\ NoModel \notin Models /\ NoModel \notin Classes
  /\ New \notin Records /\ List \notin Records /\ New # List
  /\ Stored \subseteq Classes \X Records
  /\ MaxActs \in Nat /\ MaxRequests \in Nat

VARIABLES
  url,       \* the path: a model, and a record of it, New or List
  context,   \* the project model of the project context
  fetches,   \* the models being fetched for it
  class,     \* the class of the record page that is mounted, if one is
  item,      \* the form: an id, a text and the published flag
  original,  \* the form as it was loaded or saved
  loading,   \* the form waits for its record
  saving,    \* the save button is disabled
  requests,  \* what was sent to the API for records
  server,    \* the stored records
  acts       \* how many of these there were

vars == <<url, context, fetches, class, item, original, loading, saving, requests, server, acts>>
form == <<item, original, loading, saving>>

Ids    == Records \cup {New}
Texts  == [of : Classes \X Ids, v : 0..MaxActs]
Forms  == [id : Ids, text : Texts \cup {Blank}, published : BOOLEAN]

\* A request holds what the page sent, whether that page is still mounted, and
\* what the API answered.
Requests ==
  [kind : {"load", "save", "publish"}, model : Models, class : Classes, id : Ids, item : Forms,
   live : BOOLEAN, answer : Forms, status : {"sent", "ok", "lost"}]

Empty(id) == [id |-> id, text |-> Blank, published |-> FALSE]

Request(kind, model, cls, id, sent) ==
  [kind |-> kind, model |-> model, class |-> cls, id |-> id, item |-> sent, live |-> TRUE,
   answer |-> Empty(id), status |-> "sent"]

\* Only what the user starts is bounded: a page always may load its record.
MaySend == Cardinality(requests) < MaxRequests

\* The page was unmounted: nobody waits for its loads any more, and what else it
\* sent finds mountedRef unset.
Unmounted(rest) == {[q EXCEPT !.live = FALSE] : q \in {p \in rest : p.kind # "load"}}

\* mutant: a list, or a page without a model, loads as well
MountAlways(m, cls, r, rest) ==
  /\ class' = cls
  /\ saving' = FALSE
  /\ item' = Empty(IF r = List THEN New ELSE r) /\ original' = item'
  /\ loading' = (r # New)
  /\ requests' = IF r = New THEN rest ELSE rest \cup {Request("load", m, cls, r, Empty(New))}

\* A page is mounted at the path of a record: it starts empty, and loads.
Mount(m, cls, r, rest) ==
  /\ class' = cls
  /\ saving' = FALSE
  /\ IF r = List \/ cls = NoModel
       THEN /\ item' = Empty(New) /\ original' = Empty(New)
            /\ loading' = FALSE /\ requests' = rest
       ELSE /\ item' = Empty(r) /\ original' = Empty(r)
            /\ loading' = (r # New)
            /\ requests' = IF r = New THEN rest
                           ELSE rest \cup {Request("load", m, cls, r, Empty(r))}

\* The id of a mounted page changed: the same form is emptied, and loads.
Switch(m, r, rest) ==
  /\ item' = Empty(r) /\ original' = Empty(r)
  /\ loading' = TRUE
  /\ requests' = rest \cup {Request("load", m, class, r, Empty(r))}

\* The route of a new record is another one than that of a record; both show
\* the page of the class the context holds.
SameRoute(r) == (r = New) = (url.record = New) /\ (r = List) = (url.record = List)

Shown(r) == IF r = List \/ context = NoModel THEN NoModel ELSE ClassOf[context]

\* What a save that was answered leaves on the page it was sent from.
Settled(saved) ==
  /\ saving' = (saving /\ saved = {})
  /\ IF saved = {} THEN UNCHANGED original ELSE original' \in saved

\* The path changes to record r of model m, "saved" holds the form if a save
\* of the mounted page was answered.
Goto(m, r, rest, saved) ==
  /\ url' = [model |-> m, record |-> r]
  /\ fetches' = IF m = url.model THEN fetches ELSE fetches \cup {m}
  /\ IF ~SameRoute(r) \/ class = NoModel
       THEN Mount(m, Shown(r), r, Unmounted(rest))
       ELSE /\ UNCHANGED class
            /\ IF r = url.record
                 THEN Settled(saved) /\ requests' = rest /\ UNCHANGED <<item, loading>>
                 ELSE Switch(m, r, rest) /\ saving' = (saving /\ saved = {})

(***************************************************************************)
(* Steps of the user.                                                      *)
(***************************************************************************)
Visit(m, r) ==
  /\ MaySend
  /\ url # [model |-> m, record |-> r]
  /\ Goto(m, r, requests, {})
  /\ UNCHANGED <<context, server, acts>>

\* While a form loads it is behind a dimmer.
Open == class # NoModel /\ ~loading

Act == acts < MaxActs /\ acts' = acts + 1

Type ==
  /\ Open /\ Act
  /\ item' = [item EXCEPT !.text = [of |-> <<class, item.id>>, v |-> acts + 1]]
  /\ UNCHANGED <<url, context, fetches, class, original, loading, saving, requests, server>>

Save ==
  /\ Open /\ ~saving /\ MaySend /\ Act
  /\ saving' = TRUE
  /\ requests' = requests \cup {Request("save", url.model, class, item.id, item)}
  /\ UNCHANGED <<url, context, fetches, class, item, original, loading, server>>

Publish ==
  /\ Open /\ item.id # New /\ MaySend /\ Act
  /\ \A q \in requests : ~(q.live /\ q.kind = "publish")
  /\ requests' = requests \cup
       {Request("publish", url.model, class, item.id, [item EXCEPT !.published = ~item.published])}
  /\ UNCHANGED <<url, context, fetches, class, form, server>>

(***************************************************************************)
(* Steps of the API.                                                       *)
(***************************************************************************)
Answered(q, status, answer) ==
  requests' = (requests \ {q}) \cup {[q EXCEPT !.status = status, !.answer = answer]}

Record(cls, id) ==
  [id |-> id, text |-> [of |-> <<cls, id>>, v |-> server[<<cls, id>>].v],
   published |-> server[<<cls, id>>].published]

\* What a request leaves stored; a form without a text leaves the text alone.
Written(q, old) ==
  CASE q.kind = "load"    -> old
    [] q.kind = "publish" -> [old EXCEPT !.published = q.item.published]
    [] q.kind = "save"    -> [old EXCEPT !.v = IF q.item.text = Blank THEN @ ELSE q.item.text.v]

\* An answer may be lost on its way, which the page cannot tell from a refusal.
Serve(q) ==
  /\ q.status = "sent"
  /\ \E id \in Records, status \in {"ok", "lost"} :
       LET key == <<q.class, id>> IN
       /\ IF q.id = New THEN key \notin DOMAIN server ELSE id = q.id /\ key \in DOMAIN server
       /\ server' = [k \in DOMAIN server \cup {key} |->
                       IF k # key THEN server[k]
                       ELSE Written(q, IF q.id = New THEN [v |-> 0, published |-> FALSE] ELSE server[k])]
       /\ Answered(q, status, IF q.kind = "load" THEN Record(q.class, id) ELSE Empty(id))
  /\ UNCHANGED <<url, context, fetches, class, form, acts>>

(***************************************************************************)
(* Answers that arrive.                                                    *)
(***************************************************************************)
\* mutant: the form stays when the page of another class replaces its page
ContextReplyKeepsForm(m) ==
  /\ m \in fetches
  /\ context' = m /\ fetches' = fetches \ {m}
  /\ class' = IF url.record = List THEN class ELSE ClassOf[m]
  /\ UNCHANGED <<url, form, requests, server, acts>>

\* The project model arrives: the page of its class replaces that of another.
ContextReply(m) ==
  /\ m \in fetches
  /\ context' = m /\ fetches' = fetches \ {m}
  /\ IF url.record = List \/ ClassOf[m] = class
       THEN UNCHANGED <<class, form, requests>>
       ELSE Mount(url.model, ClassOf[m], url.record, Unmounted(requests))
  /\ UNCHANGED <<url, server, acts>>

LoadReply(q) ==
  /\ q.kind = "load" /\ q.status = "ok"
  /\ requests' = requests \ {q}
  /\ IF q.live THEN item' = q.answer /\ original' = q.answer /\ loading' = FALSE
               ELSE UNCHANGED <<item, original, loading>>
  /\ UNCHANGED <<url, context, fetches, class, saving, server, acts>>

\* A request was refused, or its answer is lost.
Failed(q) == q.status \in {"sent", "lost"}

\* Nobody handles a load that failed.
LoadFailed(q) ==
  /\ q.kind = "load" /\ Failed(q)
  /\ requests' = requests \ {q}
  /\ UNCHANGED <<url, context, fetches, class, form, server, acts>>

\* mutant: the record is shown as it was saved
SaveReplyShowsSaved(q) ==
  /\ q.kind = "save" /\ q.status = "ok"
  /\ LET to == [model |-> q.model, record |-> q.answer.id] IN
     IF to # url
       THEN Goto(to.model, to.record, requests \ {q}, IF q.live THEN {q.item} ELSE {})
       ELSE /\ requests' = requests \ {q}
            /\ Settled({q.item})
            /\ item' = IF q.live THEN q.item ELSE item
            /\ UNCHANGED <<url, fetches, class, loading>>
  /\ UNCHANGED <<context, server, acts>>

\* The page goes to the record that was saved, also when it was left meanwhile.
SaveReply(q) ==
  /\ q.kind = "save" /\ q.status = "ok"
  /\ LET to == [model |-> q.model, record |-> q.answer.id]
         saved == IF q.live THEN {q.item} ELSE {} IN
     IF to # url
       THEN Goto(to.model, to.record, requests \ {q}, saved)
       ELSE /\ requests' = requests \ {q}
            /\ Settled(saved)
            /\ UNCHANGED <<url, fetches, class, item, loading>>
  /\ UNCHANGED <<context, server, acts>>

\* mutant: only an answer enables the save button again
SaveFailedKeepsSaving(q) ==
  /\ q.kind = "save" /\ Failed(q)
  /\ requests' = requests \ {q}
  /\ UNCHANGED <<url, context, fetches, class, form, server, acts>>

SaveFailed(q) ==
  /\ q.kind = "save" /\ Failed(q)
  /\ requests' = requests \ {q}
  /\ saving' = IF q.live THEN FALSE ELSE saving
  /\ UNCHANGED <<url, context, fetches, class, item, original, loading, server, acts>>

\* The flag is set on the form that is shown by then.
PublishReply(q) ==
  /\ q.kind = "publish"
  /\ requests' = requests \ {q}
  /\ item' = IF q.live /\ q.status = "ok" THEN [item EXCEPT !.published = q.item.published] ELSE item
  /\ UNCHANGED <<url, context, fetches, class, original, loading, saving, server, acts>>

(***************************************************************************)
(* The specification.                                                      *)
(***************************************************************************)
\* The list of a model is opened first.
Init ==
  /\ \E m \in Models : url = [model |-> m, record |-> List] /\ fetches = {m}
  /\ context = NoModel /\ class = NoModel
  /\ item = Empty(New) /\ original = Empty(New)
  /\ loading = FALSE /\ saving = FALSE
  /\ requests = {}
  /\ server = [k \in Stored |-> [v |-> 0, published |-> FALSE]]
  /\ acts = 0

User == (\E m \in Models, r \in Ids \cup {List} : Visit(m, r)) \/ Type \/ Save \/ Publish

Api == \E q \in requests : Serve(q)

Reply ==
  \/ \E m \in Models : ContextReply(m)
  \/ \E q \in requests :
       LoadReply(q) \/ LoadFailed(q) \/ SaveReply(q) \/ SaveFailed(q) \/ PublishReply(q)

Next == User \/ Api \/ Reply

Spec == Init /\ [][Next]_vars

\* A save does not wait for ever: the browser gives up on a silent connection.
SaveAnswered == \E q \in requests : SaveReply(q) \/ SaveFailed(q)

FairSpec == Spec /\ WF_vars(SaveAnswered)

-----------------------------------------------------------------------------
TypeOK ==
  /\ url \in [model : Models, record : Ids \cup {List}]
  /\ context \in Models \cup {NoModel} /\ fetches \subseteq Models
  /\ class \in Classes \cup {NoModel}
  /\ item \in Forms /\ original \in Forms
  /\ loading \in BOOLEAN /\ saving \in BOOLEAN
  /\ requests \subseteq Requests
  /\ DOMAIN server \subseteq Classes \X Records
  /\ \A k \in DOMAIN server : server[k] \in [v : 0..MaxActs, published : BOOLEAN]
  /\ acts \in 0..MaxActs

\* A text stays with the record it was loaded from or typed for, whatever page
\* shows it and whatever was answered late (mountedRef of useEditContainer, and
\* the pages of ProjectModelFactory).
OwnText(form_, cls) == form_.text # Blank => form_.text.of = <<cls, form_.id>>

TextStaysWithItsRecord ==
  /\ class # NoModel => OwnText(item, class)
  /\ \A q \in requests : OwnText(q.item, q.class) /\ q.item.id = q.id

\* What was typed and not saved goes only when the user leaves the record, when
\* a record arrives that was still being loaded, or when the save of a new
\* record opens that record; the answer to any other save leaves it.
Kept == item'.text = item.text
TypedTextIsKept ==
  [][(class # NoModel /\ item.text # original.text /\ ~Kept) =>
       \/ acts' # acts
       \/ url' # url
       \/ class' # class
       \/ \E q \in requests \ requests' : q.kind = "load"]_vars

\* Whatever the API answers, the save button comes back.
SaveComesBack == saving ~> ~saving
=============================================================================
