---------------------------- MODULE ImportDialog ----------------------------
(***************************************************************************)
(* The import and export page of a project and the dialog in which a user  *)
(* goes through the rows of an analysed file before they are imported. The *)
(* page renders again whenever an export or import of it starts or ends    *)
(* and when a message goes; the dialog then analyses its file again.       *)
(***************************************************************************)
EXTENDS Naturals, Sequences, FiniteSets, SequencesExt

CONSTANTS
  Rows,      \* the rows of the file: a sequence of statuses, as analysed
  Unknown,   \* the file was not analysed yet
  NoRow,     \* no row is being compared
  MaxSteps   \* bound: steps of the user

ASSUME ImportDialogAssumption ==
  Rows \in Seq({"new", "noConflict", "conflict"}) /\ MaxSteps \in Nat

\* The jobs of the page's buttons, with the message each ends with.
Exports == {"exportConfiguration", "exportData", "exportVariables"}
Imports == {"importConfiguration", "importData"}
Jobs    == Exports \cup Imports

VARIABLES
  busy,       \* jobs of the page under way
  messages,   \* messages of the page: errors and successes
  dialog,     \* the dialog is open
  data,       \* its rows: [row, result, status], Unknown until analysed
  duplicates, \* remove_duplicates is checked
  comparing,  \* the row being compared and its edited result, or NoRow
  errors,     \* the dialog shows errors
  stage,      \* of the import: "none", "confirm" or "sent"
  analyses,   \* analyses under way
  unattended, \* imports under way whose dialog was closed
  decisions,  \* history: the rows removed and resolved in this dialog
  disturbed,  \* history: an analysis arrived while a row was being compared
  steps

importVars == <<busy, messages, dialog, data, duplicates, comparing, errors, stage, analyses,
                unattended, decisions, disturbed, steps>>
pageVars   == <<busy, messages, unattended>>
dialogVars == <<data, duplicates, comparing, errors, stage, decisions, disturbed>>

\* getStatus: what the analysis makes of the rows; a result holds the values of
\* its own row at first.
Analysed == [n \in DOMAIN Rows |-> [row |-> n, result |-> {n}, status |-> Rows[n]]]

NoDecision == [removed |-> {}, resolved |-> {}, duplicates |-> FALSE]

Step == steps < MaxSteps /\ steps' = steps + 1

\* onLoad is another function whenever the page renders.
Rendered == analyses' = IF dialog THEN analyses + 1 ELSE analyses

(***************************************************************************)
(* The page.                                                               *)
(***************************************************************************)
\* A dialog hides the buttons of the page.
Start(job) ==
  /\ Step /\ ~dialog /\ job \notin busy
  /\ busy' = busy \cup {job}
  /\ UNCHANGED <<messages, dialog, dialogVars, analyses, unattended>>

\* Only data and configuration report how they ended.
Message(job, outcome) ==
  CASE outcome = "failed" -> IF job \in Imports \cup {"exportData"} THEN {"error"} ELSE {}
    [] outcome = "done"   -> CASE job \in Imports -> {"importSuccess"}
                               [] job = "exportData" -> {"exportSuccess"}
                               [] OTHER -> {}

Finish(job, outcome) ==
  /\ job \in busy /\ busy' = busy \ {job}
  /\ messages' = messages \cup Message(job, outcome)
  /\ Rendered
  /\ UNCHANGED <<dialog, dialogVars, unattended, steps>>

Dismiss(message) ==
  /\ message \in messages /\ messages' = messages \ {message}
  /\ Rendered
  /\ UNCHANGED <<busy, dialog, dialogVars, unattended, steps>>

\* A file is chosen: the dialog opens and analyses it.
onAnalyze ==
  /\ Step /\ ~dialog
  /\ dialog' = TRUE
  /\ data' = Unknown /\ duplicates' = FALSE /\ comparing' = NoRow
  /\ errors' = FALSE /\ stage' = "none" /\ analyses' = 1
  /\ decisions' = NoDecision /\ disturbed' = FALSE
  /\ UNCHANGED pageVars

(***************************************************************************)
(* The dialog.                                                             *)
(***************************************************************************)
\* The rows as they arrive replace those that are there.
analyzeData ==
  /\ dialog /\ analyses > 0 /\ analyses' = analyses - 1
  /\ data' = Analysed /\ duplicates' = FALSE
  /\ disturbed' = (disturbed \/ comparing # NoRow)
  /\ UNCHANGED <<pageVars, dialog, comparing, errors, stage, decisions, steps>>

analyzeFailed ==
  /\ dialog /\ analyses > 0 /\ analyses' = analyses - 1
  /\ errors' = TRUE
  /\ UNCHANGED <<pageVars, dialog, data, duplicates, comparing, stage, decisions, disturbed, steps>>

\* Rows can be changed while they are imported, which no longer matters then.
Ready      == dialog /\ data # Unknown /\ stage # "confirm"
RowsListed == Ready /\ comparing = NoRow
\* A row is compared as long as there is one at its index.
Comparing == Ready /\ comparing # NoRow /\ comparing.index \in DOMAIN data

onRemove(n) ==
  /\ Step /\ RowsListed /\ n \in DOMAIN data
  /\ data' = RemoveAt(data, n)
  /\ decisions' = [decisions EXCEPT !.removed = @ \cup {data[n].row}]
  /\ UNCHANGED <<pageVars, dialog, duplicates, comparing, errors, stage, analyses, disturbed>>

onToggleRemoveDuplicates ==
  /\ Step /\ RowsListed
  /\ duplicates' = ~duplicates
  /\ decisions' = [decisions EXCEPT !.duplicates = ~duplicates]
  /\ UNCHANGED <<pageVars, dialog, data, comparing, errors, stage, analyses, disturbed>>

\* mutant: a row is remembered by its place in the file
CompareByRow(n) ==
  /\ Step /\ RowsListed /\ n \in DOMAIN data
  /\ comparing' = [index |-> data[n].row, result |-> data[n].result]
  /\ UNCHANGED <<pageVars, dialog, data, duplicates, errors, stage, analyses, decisions, disturbed>>

\* A row is opened with the result it has by then.
Compare(n) ==
  /\ Step /\ RowsListed /\ n \in DOMAIN data
  /\ comparing' = [index |-> n, result |-> data[n].result]
  /\ UNCHANGED <<pageVars, dialog, data, duplicates, errors, stage, analyses, decisions, disturbed>>

\* A value is taken from the row that is at the index by now.
onUpdate ==
  /\ Comparing
  /\ comparing' = [comparing EXCEPT !.result = @ \cup {data[comparing.index].row}]
  /\ comparing' # comparing
  /\ UNCHANGED <<pageVars, dialog, data, duplicates, errors, stage, analyses, decisions, disturbed,
                 steps>>

onSave ==
  /\ Comparing
  /\ LET n == comparing.index IN
     /\ data' = [data EXCEPT ![n].result = comparing.result,
                             ![n].status = IF @ = "conflict" THEN "resolved" ELSE @]
     /\ decisions' = [decisions EXCEPT !.resolved =
          IF data[n].status = "conflict" THEN @ \cup {data[n].row} ELSE @]
  /\ comparing' = NoRow
  /\ UNCHANGED <<pageVars, dialog, duplicates, errors, stage, analyses, disturbed, steps>>

CloseCompare ==
  /\ Comparing /\ comparing' = NoRow
  /\ UNCHANGED <<pageVars, dialog, data, duplicates, errors, stage, analyses, decisions, disturbed,
                 steps>>

\* After an error nothing can be imported until the dialog is opened again.
Confirm ==
  /\ RowsListed /\ stage = "none" /\ ~errors /\ Step
  /\ stage' = "confirm"
  /\ UNCHANGED <<pageVars, dialog, data, duplicates, comparing, errors, analyses, decisions, disturbed>>

CancelImport ==
  /\ stage = "confirm" /\ stage' = "none"
  /\ UNCHANGED <<pageVars, dialog, data, duplicates, comparing, errors, analyses, decisions, disturbed,
                 steps>>

onImport ==
  /\ stage = "confirm" /\ stage' = "sent"
  /\ UNCHANGED <<pageVars, dialog, data, duplicates, comparing, errors, analyses, decisions, disturbed,
                 steps>>

Closed ==
  /\ dialog' = FALSE /\ analyses' = 0
  /\ data' = Unknown /\ duplicates' = FALSE /\ comparing' = NoRow
  /\ errors' = FALSE /\ stage' = "none" /\ decisions' = NoDecision /\ disturbed' = FALSE

Imported ==
  /\ stage = "sent" /\ Closed
  /\ messages' = messages \cup {"importSuccess"}
  /\ UNCHANGED <<busy, unattended, steps>>

\* An answer that is lost looks as if nothing had been sent.
ImportFailed(shown) ==
  /\ stage = "sent" /\ stage' = "none"
  /\ errors' = (errors \/ shown)
  /\ UNCHANGED <<pageVars, dialog, data, duplicates, comparing, analyses, decisions, disturbed, steps>>

CloseImport ==
  /\ dialog /\ stage # "confirm" /\ Closed
  /\ unattended' = IF stage = "sent" THEN unattended + 1 ELSE unattended
  /\ UNCHANGED <<busy, messages, steps>>

\* The answer to an import whose dialog was closed closes the one open by now.
ImportedUnattended ==
  /\ unattended > 0 /\ unattended' = unattended - 1
  /\ messages' = messages \cup {"importSuccess"} /\ Closed
  /\ UNCHANGED <<busy, steps>>

FailedUnattended ==
  /\ unattended > 0 /\ unattended' = unattended - 1
  /\ UNCHANGED <<busy, messages, dialog, dialogVars, analyses, steps>>

ImportInit ==
  /\ busy = {} /\ messages = {} /\ dialog = FALSE /\ data = Unknown /\ duplicates = FALSE
  /\ comparing = NoRow /\ errors = FALSE /\ stage = "none" /\ analyses = 0 /\ unattended = 0
  /\ decisions = NoDecision /\ disturbed = FALSE /\ steps = 0

ImportNext ==
  \/ \E job \in Jobs : Start(job) \/ \E outcome \in {"done", "failed"} : Finish(job, outcome)
  \/ \E message \in messages : Dismiss(message)
  \/ onAnalyze \/ analyzeData \/ analyzeFailed
  \/ \E n \in DOMAIN Rows : onRemove(n) \/ Compare(n)
  \/ onToggleRemoveDuplicates \/ onUpdate \/ onSave \/ CloseCompare
  \/ Confirm \/ CancelImport \/ onImport \/ Imported
  \/ \E shown \in BOOLEAN : ImportFailed(shown)
  \/ CloseImport \/ ImportedUnattended \/ FailedUnattended

ImportSpec == ImportInit /\ [][ImportNext]_importVars

-----------------------------------------------------------------------------
ImportTypeOK ==
  /\ busy \subseteq Jobs /\ messages \subseteq {"error", "importSuccess", "exportSuccess"}
  /\ dialog \in BOOLEAN /\ duplicates \in BOOLEAN /\ errors \in BOOLEAN /\ disturbed \in BOOLEAN
  /\ data = Unknown \/ (Len(data) <= Len(Rows) /\ \A n \in DOMAIN data :
       data[n] \in [row : DOMAIN Rows, result : SUBSET DOMAIN Rows,
                    status : {"new", "noConflict", "conflict", "resolved"}])
  /\ comparing = NoRow \/ comparing \in [index : DOMAIN Rows, result : SUBSET DOMAIN Rows]
  /\ stage \in {"none", "confirm", "sent"} /\ analyses \in Nat /\ unattended \in Nat
  /\ steps \in 0..MaxSteps

\* A row is imported with values of its own record alone, and a conflict counts
\* as resolved only when its own comparison was saved, however many rows before
\* it were removed; unless the file was analysed again behind a comparison.
RowsKeepTheirRecord ==
  (data # Unknown /\ ~disturbed) => \A n \in DOMAIN data :
    /\ data[n].result = {data[n].row}
    /\ data[n].status = "resolved" => data[n].row \in decisions.resolved
    /\ data[n].status = "noConflict" => Rows[data[n].row] = "noConflict"

\* What was removed, resolved or checked in a dialog that loads its file when it
\* is mounted stays that way.
DecisionsStay ==
  (dialog /\ data # Unknown) =>
    /\ duplicates = decisions.duplicates
    /\ \A n \in DOMAIN data :
         /\ data[n].row \notin decisions.removed
         /\ data[n].row \in decisions.resolved => data[n].status = "resolved"
=============================================================================
