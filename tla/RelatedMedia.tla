---------------------------- MODULE RelatedMedia ----------------------------
(***************************************************************************)
(* The media of a record: the modal that uploads files and relates them    *)
(* with the values typed for each, the modal that relates stored media,    *)
(* the panel of a relationship with a single medium, and the manifests.    *)
(* Uploading is two requests, of which the second needs the answer of the  *)
(* first.  A value that is typed for something is the thing itself.        *)
(***************************************************************************)
EXTENDS Naturals, Sequences, FiniteSets, SequencesExt, Functions

CONSTANTS
  Files,          \* files to upload
  MaxMediaSteps,  \* bound: steps of the user
  MaxPanelSteps,  \* bound: those at the panel for a single medium
  MaxCalls        \* bound: requests under way before one of them

ASSUME MediaAssumption ==
  IsFiniteSet(Files) /\ MaxMediaSteps \in Nat /\ MaxPanelSteps \in 0..MaxMediaSteps

ThisPage == 0   \* the record whose media these are: the id of no medium
NoRow    == 0   \* no relationship yet
NoMedium == 0

VARIABLES
  inverse,     \* whether the media are the primary records
  multiple,    \* whether more than one medium can be related
  required,    \* whether relationships have a required field
  media,       \* stored media: of which file, and with which values
  links,       \* stored relationships
  modal,       \* "none", "upload" or "link"
  fields,      \* whether the open modal knows the required field
  files,       \* the files of the upload modal, with the values typed for them
  uploaded,    \* the media that came back, with the values of their relationships
  chosen,      \* the media chosen in the other modal, and whether one is in error
  errors,      \* whether the server refused the relationships
  creating,    \* whether a manifest is being created
  panel1,      \* the relationship of the panel for a single medium
  shown,       \* the medium that this panel shows while it has no relationship
  mediaCalls,  \* requests under way
  mediaSteps

mediaVars == <<inverse, multiple, required, media, links, modal, fields, files, uploaded, chosen,
               errors, creating, panel1, shown, mediaCalls, mediaSteps>>
kept      == <<inverse, multiple, required>>
dialogs   == <<modal, fields, files, uploaded, chosen>>
single    == <<panel1, shown>>

(***************************************************************************)
(* Relationships of the record of the page.                                *)
(***************************************************************************)
createRelationship(m) ==
  [primary_record_id |-> ThisPage, primary_record_type |-> "record",
   related_record_id |-> m.id, related_record_type |-> "media", user_defined |-> m.user_defined]
createInverseRelationship(m) ==
  [primary_record_id |-> m.id, primary_record_type |-> "media",
   related_record_id |-> ThisPage, related_record_type |-> "record", user_defined |-> m.user_defined]

relationship(m) == IF inverse THEN createInverseRelationship(m) ELSE createRelationship(m)
Medium(link)    == IF inverse THEN link.primary_record_id ELSE link.related_record_id

NoValues == <<>>

\* A request is told from those under way by their number.
Sent(kind, items) ==
  [kind |-> kind, items |-> items, values |-> <<>>, copy |-> Cardinality(mediaCalls),
   live |-> TRUE, done |-> FALSE, ids |-> <<>>]

MediaAct ==
  /\ mediaSteps < (IF multiple THEN MaxMediaSteps ELSE MaxPanelSteps)
  /\ mediaSteps' = mediaSteps + 1
  /\ Cardinality(mediaCalls) < MaxCalls
  /\ UNCHANGED kept

\* The modal that closes forgets what it holds; answers to it find nobody.
Closed ==
  /\ modal' = "none" /\ fields' = FALSE
  /\ files' = <<>> /\ uploaded' = <<>> /\ chosen' = <<>>

(***************************************************************************)
(* The upload modal.                                                       *)
(***************************************************************************)
\* The required fields are loaded before the form is shown, if they can be.
OpenUpload ==
  /\ multiple /\ modal = "none" /\ MediaAct
  /\ modal' = "upload" /\ fields' \in {required, FALSE}
  /\ UNCHANGED <<media, links, files, uploaded, chosen, errors, creating, single, mediaCalls>>

\* Several files can be added at once.
onAddFiles(added) ==
  /\ modal = "upload" /\ added # {} /\ \A i \in DOMAIN files : files[i].content \notin added
  /\ MediaAct
  /\ LET seq == SetToSeq(added) IN
     files' = files \o [i \in DOMAIN seq |-> [content |-> seq[i], user_defined |-> NoValues]]
  /\ UNCHANGED <<media, links, modal, fields, uploaded, chosen, errors, creating, single, mediaCalls>>

onDeleteFile(i) ==
  /\ modal = "upload" /\ MediaAct
  /\ files' = RemoveAt(files, i)
  /\ UNCHANGED <<media, links, modal, fields, uploaded, chosen, errors, creating, single, mediaCalls>>

\* The keys of the values of a relationship.
uuids == IF fields THEN {"link"} ELSE {}

\* Values of the record and of its relationship are typed into one container.
TypeValues(i) ==
  /\ modal = "upload" /\ files[i].user_defined = NoValues
  /\ MediaAct
  /\ files' = [files EXCEPT ![i].user_defined =
                 [k \in {"own"} \cup uuids |-> files[i].content]]
  /\ UNCHANGED <<media, links, modal, fields, uploaded, chosen, errors, creating, single, mediaCalls>>

pick(values, keys) == Restrict(values, DOMAIN values \cap keys)
omit(values, keys) == Restrict(values, DOMAIN values \ keys)

\* mutant: the values of the relationship are stored with the file as well
payloadWhole(file) == file

\* What is sent for a file, and what is kept for its relationship.
payload(file)                 == [file EXCEPT !.user_defined = omit(@, uuids)]
relationshipUserDefined(file) == pick(file.user_defined, uuids)

\* Nothing keeps the user from saving again: not what came back, nor a request
\* under way.
onSaveFiles ==
  /\ modal = "upload" /\ files # <<>>
  /\ \A i \in DOMAIN files : uuids \subseteq DOMAIN files[i].user_defined
  /\ MediaAct
  /\ mediaCalls' = mediaCalls \cup
       {[Sent("uploadAll", [i \in DOMAIN files |-> payload(files[i])])
           EXCEPT !.values = [i \in DOMAIN files |-> relationshipUserDefined(files[i])]]}
  /\ UNCHANGED <<media, links, dialogs, errors, creating, single>>

(***************************************************************************)
(* The modal for stored media.                                             *)
(***************************************************************************)
OpenSelector ==
  /\ multiple /\ modal = "none" /\ MediaAct
  /\ modal' = "link"
  /\ UNCHANGED <<media, links, fields, files, uploaded, chosen, errors, creating, single, mediaCalls>>

\* Its required field arrives while the user is choosing.
LoadFields ==
  /\ modal = "link" /\ required /\ ~fields /\ fields' = TRUE
  /\ UNCHANGED <<kept, media, links, modal, files, uploaded, chosen, errors, creating, single,
                 mediaCalls, mediaSteps>>

isSelected(m) == \E i \in DOMAIN chosen : chosen[i].id = m

\* A medium is chosen once; when it is selected again, it is dropped.
onItemSelection(m) ==
  /\ modal = "link" /\ MediaAct
  /\ chosen' = IF isSelected(m) THEN RemoveAt(chosen, CHOOSE i \in DOMAIN chosen : chosen[i].id = m)
               ELSE Append(chosen, [id |-> m, user_defined |-> NoValues, error |-> FALSE])
  /\ UNCHANGED <<media, links, modal, fields, files, uploaded, errors, creating, single, mediaCalls>>

onChange(i) ==
  /\ modal = "link" /\ fields /\ chosen[i].user_defined = NoValues /\ MediaAct
  /\ chosen' = [chosen EXCEPT ![i].user_defined = [k \in {"link"} |-> media[chosen[i].id].content],
                              ![i].error = FALSE]
  /\ UNCHANGED <<media, links, modal, fields, files, uploaded, errors, creating, single, mediaCalls>>

validateItem(c) == [c EXCEPT !.error = fields /\ "link" \notin DOMAIN c.user_defined]

\* The section takes only the medium of what was chosen, not its values.
onSaveChosen ==
  LET validated == [i \in DOMAIN chosen |-> validateItem(chosen[i])]
      items     == [i \in DOMAIN chosen |->
                      relationship([id |-> chosen[i].id, user_defined |-> NoValues])] IN
  /\ modal = "link" /\ MediaAct
  /\ chosen' = validated
  /\ mediaCalls' = IF \E i \in DOMAIN validated : validated[i].error THEN mediaCalls
                   ELSE mediaCalls \cup {Sent("upload", items)}
  /\ UNCHANGED <<media, links, modal, fields, files, uploaded, errors, creating, single>>

onCloseModal ==
  /\ modal # "none" /\ MediaAct /\ Closed
  /\ mediaCalls' = {[c EXCEPT !.live = (@ /\ c.kind # "uploadAll")] : c \in mediaCalls}
  /\ UNCHANGED <<media, links, errors, creating, single>>

(***************************************************************************)
(* The rows of the section, the panel for one medium, and manifests.       *)
(***************************************************************************)
onDeleteLink(id) ==
  /\ IF multiple THEN modal = "none" ELSE panel1 = id
  /\ id \in DOMAIN links /\ MediaAct
  /\ mediaCalls' = mediaCalls \cup {[Sent("delete", <<>>) EXCEPT !.ids = <<id>>]}
  /\ UNCHANGED <<media, links, dialogs, errors, creating, single>>

\* The modal of a row sets the value of its medium.  The button that would edit
\* the row of a panel does nothing.
onSaveLink(id) ==
  /\ multiple /\ modal = "none"
  /\ id \in DOMAIN links /\ required /\ MediaAct
  /\ mediaCalls' = mediaCalls \cup {[Sent("save", <<>>) EXCEPT !.ids = <<id>>]}
  /\ UNCHANGED <<media, links, dialogs, errors, creating, single>>

onUpload(f) ==
  /\ ~multiple /\ panel1 = NoRow /\ MediaAct
  /\ mediaCalls' = mediaCalls \cup {Sent("uploadOne", <<[content |-> f, user_defined |-> NoValues]>>)}
  /\ UNCHANGED <<media, links, dialogs, errors, creating, single>>

\* The modal of a panel without a row creates one for the medium the panel shows,
\* if it shows one, with the value typed for it.
onSaveModal ==
  /\ ~multiple /\ panel1 = NoRow /\ MediaAct
  /\ \E values \in {NoValues} \cup
       {[k \in {"link"} |-> media[m].content] : m \in {x \in DOMAIN media : required /\ x = shown}} :
       mediaCalls' = mediaCalls \cup
         {Sent("create", <<relationship([id |-> shown, user_defined |-> values])>>)}
  /\ UNCHANGED <<media, links, dialogs, errors, creating, single>>

onCreateManifest ==
  /\ ~creating /\ (multiple \/ panel1 # NoRow) /\ MediaAct
  /\ creating' = TRUE
  /\ mediaCalls' = mediaCalls \cup {Sent("createManifests", <<>>)}
  /\ UNCHANGED <<media, links, dialogs, errors, single>>

(***************************************************************************)
(* The server.                                                             *)
(***************************************************************************)
NextId(f) == Cardinality(DOMAIN f) + 1

\* Uploaded rows are stored all or none, in the order they came.
Stored(f, items) ==
  [id \in DOMAIN f \cup {NextId(f) + i - 1 : i \in DOMAIN items} |->
     IF id \in DOMAIN f THEN f[id] ELSE items[id - NextId(f) + 1]]

Answer(c, ids) == mediaCalls' = (mediaCalls \ {c}) \cup {[c EXCEPT !.done = TRUE, !.ids = ids]}

ServeMedia(c) ==
  /\ c.kind \in {"uploadAll", "uploadOne"}
  /\ media' = Stored(media, c.items)
  /\ Answer(c, [i \in DOMAIN c.items |-> NextId(media) + i - 1])
  /\ UNCHANGED <<links, errors>>

\* A relationship without its medium or a required value is refused.
Refused(items) ==
  \E i \in DOMAIN items : \/ Medium(items[i]) = NoMedium
                          \/ required /\ "link" \notin DOMAIN items[i].user_defined

\* The errors are shown in the section or the panel, where a modal of the section
\* stays open; the modal of a panel closes with its own.
ServeLinks(c) ==
  /\ c.kind \in {"upload", "select", "create"}
  /\ IF Refused(c.items)
       THEN /\ errors' = (errors \/ c.kind # "create") /\ mediaCalls' = mediaCalls \ {c}
            /\ UNCHANGED links
       ELSE /\ links' = Stored(links, c.items)
            /\ Answer(c, [i \in DOMAIN c.items |-> NextId(links) + i - 1])
            /\ UNCHANGED errors
  /\ UNCHANGED media

\* A removed relationship leaves nothing under its id.
Removed == [user_defined |-> NoValues]

ServeLink(c) ==
  /\ c.kind \in {"delete", "save"}
  /\ links' = [links EXCEPT ![c.ids[1]] =
       IF c.kind = "delete" THEN Removed
       ELSE IF @ = Removed THEN @ ELSE [@ EXCEPT !.user_defined =
              [k \in {"link"} |-> media[Medium(links[c.ids[1]])].content]]]
  /\ Answer(c, c.ids)
  /\ UNCHANGED <<media, errors>>

ServeManifest(c) ==
  /\ c.kind = "createManifests" /\ Answer(c, c.ids)
  /\ UNCHANGED <<media, links, errors>>

ServeMediaCall(c) ==
  /\ ~c.done
  /\ ServeMedia(c) \/ ServeLinks(c) \/ ServeLink(c) \/ ServeManifest(c)
  /\ UNCHANGED <<kept, dialogs, creating, single, mediaSteps>>

(***************************************************************************)
(* Answers.                                                                *)
(***************************************************************************)
\* The media that came back are put together with the values by their index.
afterUpload(c) == [i \in DOMAIN c.ids |-> [id |-> c.ids[i], user_defined |-> c.values[i]]]

\* Both the state they are kept in and the end of the upload are there now: the
\* relationships are sent.
onComplete(c) ==
  /\ c.kind = "uploadAll"
  /\ IF c.live
       THEN /\ uploaded' = afterUpload(c)
            /\ mediaCalls' = (mediaCalls \ {c}) \cup
                 {Sent("upload", [i \in DOMAIN uploaded' |-> relationship(uploaded'[i])])}
       ELSE /\ mediaCalls' = mediaCalls \ {c} /\ UNCHANGED uploaded
  /\ UNCHANGED <<modal, fields, files, chosen, creating, single>>

\* The section closes whichever modal is open.
afterSave(c) ==
  /\ c.kind = "upload" /\ Closed
  /\ mediaCalls' = {[d EXCEPT !.live = (@ /\ d.kind # "uploadAll")] : d \in mediaCalls \ {c}}
  /\ UNCHANGED <<creating, single>>

\* The uploaded medium is selected, which saves its relationship, unless its panel
\* has been replaced.
onUploaded(c) ==
  /\ c.kind = "uploadOne"
  /\ IF c.live
       THEN /\ shown' = c.ids[1]
            /\ mediaCalls' = (mediaCalls \ {c}) \cup
                 {Sent("select", <<relationship([id |-> c.ids[1], user_defined |-> NoValues])>>)}
       ELSE /\ mediaCalls' = mediaCalls \ {c} /\ UNCHANGED shown
  /\ UNCHANGED <<dialogs, creating, panel1>>

\* The id of the relationship it was given replaces the panel by another one.
afterSelect(c) ==
  /\ c.kind = "select"
  /\ mediaCalls' = {[d EXCEPT !.live = (@ /\ d.kind # "uploadOne")] : d \in mediaCalls \ {c}}
  /\ panel1' = c.ids[1] /\ shown' = NoMedium
  /\ UNCHANGED <<dialogs, creating>>

\* A panel whose relationship was deleted is reset.  It does not take over the
\* relationship that its modal has created.
afterRow(c) ==
  /\ c.kind \in {"delete", "save", "create"}
  /\ mediaCalls' = mediaCalls \ {c}
  /\ IF c.kind = "delete" THEN panel1' = NoRow /\ shown' = NoMedium
                          ELSE UNCHANGED single
  /\ UNCHANGED <<dialogs, creating>>

afterManifest(c) ==
  /\ c.kind = "createManifests" /\ creating' = FALSE /\ mediaCalls' = mediaCalls \ {c}
  /\ UNCHANGED <<dialogs, single>>

MediaReply(c) ==
  /\ c.done
  /\ onComplete(c) \/ afterSave(c) \/ onUploaded(c) \/ afterSelect(c) \/ afterRow(c)
     \/ afterManifest(c)
  /\ UNCHANGED <<kept, media, links, errors, mediaSteps>>

\* An answer that is lost, or a request, changes nothing: a button that shows
\* that a manifest is created keeps doing so.
MediaFail(c) ==
  /\ mediaCalls' = mediaCalls \ {c}
  /\ UNCHANGED <<kept, media, links, dialogs, errors, creating, single, mediaSteps>>

MediaInit ==
  /\ inverse \in BOOLEAN /\ multiple \in BOOLEAN /\ required \in BOOLEAN
  /\ media = [id \in {1} |-> [content |-> "stored", user_defined |-> NoValues]]
  /\ links = <<>> /\ modal = "none" /\ fields = FALSE
  /\ files = <<>> /\ uploaded = <<>> /\ chosen = <<>>
  /\ errors = FALSE /\ creating = FALSE /\ panel1 = NoRow /\ shown = NoMedium
  /\ mediaCalls = {} /\ mediaSteps = 0

MediaUser ==
  \/ OpenUpload \/ OpenSelector \/ LoadFields \/ onCloseModal
  \/ \E added \in SUBSET Files : onAddFiles(added)
  \/ \E f \in Files : onUpload(f)
  \/ \E i \in DOMAIN files : onDeleteFile(i) \/ TypeValues(i)
  \/ onSaveFiles
  \/ \E m \in DOMAIN media : onItemSelection(m)
  \/ \E i \in DOMAIN chosen : onChange(i)
  \/ onSaveChosen
  \/ \E id \in DOMAIN links : onDeleteLink(id) \/ onSaveLink(id)
  \/ onSaveModal \/ onCreateManifest

MediaNext == MediaUser \/ \E c \in mediaCalls : ServeMediaCall(c) \/ MediaReply(c) \/ MediaFail(c)

MediaSpec == MediaInit /\ [][MediaNext]_mediaVars
-----------------------------------------------------------------------------
MediaTypeOK ==
  /\ modal \in {"none", "upload", "link"}
  /\ modal # "upload" => files = <<>> /\ uploaded = <<>>
  /\ modal # "link" => chosen = <<>>
  /\ ~multiple => modal = "none"
  /\ IsInjective(chosen)
  /\ panel1 \in DOMAIN links \cup {NoRow} /\ shown \in DOMAIN media \cup {NoMedium}
  /\ creating \in BOOLEAN /\ mediaSteps \in 0..MaxMediaSteps

Live == {id \in DOMAIN links : links[id] # Removed}

JoinsPageAndMedia(link) ==
  LET record == IF inverse THEN link.related_record_id ELSE link.primary_record_id IN
  /\ record = ThisPage /\ Medium(link) \in DOMAIN media
  /\ (link.primary_record_type = "media") = inverse
  /\ (link.related_record_type = "media") = ~inverse

HoldsValuesOf(values, content, names) ==
  \A k \in DOMAIN values : k \in names /\ values[k] = content

\* Every relationship that is made by an upload, a selection or a panel joins the
\* record of the page to a stored medium, each at the side its relationship has
\* it (createRelationship, createInverseRelationship); and the values typed for a
\* file end up with its medium and with the relationship of that medium, never
\* with those of another file, and none of the relationship with the medium,
\* whatever is removed, typed or saved again while the files are uploaded
\* (onSaveFiles).
UploadsStayTogether ==
  /\ \A m \in DOMAIN media :
       HoldsValuesOf(media[m].user_defined, media[m].content, {"own"})
  /\ \A id \in Live :
       /\ JoinsPageAndMedia(links[id])
       /\ HoldsValuesOf(links[id].user_defined, media[Medium(links[id])].content, {"link"})
=============================================================================
