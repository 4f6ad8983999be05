----------------------------- MODULE MCSections -----------------------------
(* The form of a record, a section of related records and a section of     *)
(* related media for TLC: the tabs of one page, of which one is shown.     *)
EXTENDS RecordForm, RelatedRecords, RelatedMedia

AllClasses == {"events", "instances", "items", "organizations", "people", "places", "taxonomies",
               "works"}

\* Every class at the other end of a single relationship, and both directions of
\* single and multiple ones for two of them.
MCRelations ==
  [class : AllClasses, inverse : {TRUE}, multiple : {FALSE}]
  \cup [class : {"events", "places"}, inverse : BOOLEAN, multiple : BOOLEAN]

VARIABLE tab

FormRests    == FormInit /\ formClass = "Work" /\ storedForm = Nothing(formClass)
RelatedRests == RelatedInit /\ rows = <<>> /\ rel = (CHOOSE r \in Relations : r.multiple)
MediaRests   == MediaInit /\ ~inverse /\ ~multiple /\ ~required

SectionsInit ==
  \/ tab = "form"    /\ FormInit  /\ RelatedRests /\ MediaRests
  \/ tab = "related" /\ FormRests /\ RelatedInit  /\ MediaRests
  \/ tab = "media"   /\ FormRests /\ RelatedRests /\ MediaInit

SectionsNext ==
  \/ tab = "form"    /\ FormNext    /\ UNCHANGED <<tab, relatedVars, mediaVars>>
  \/ tab = "related" /\ RelatedNext /\ UNCHANGED <<tab, formVars, mediaVars>>
  \/ tab = "media"   /\ MediaNext   /\ UNCHANGED <<tab, formVars, relatedVars>>

SectionsSpec == SectionsInit /\ [][SectionsNext]_<<tab, formVars, relatedVars, mediaVars>>

\* The variables of each section have their types.
SectionsTypeOK == FormTypeOK /\ RelatedTypeOK /\ MediaTypeOK
=============================================================================
