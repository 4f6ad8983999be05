------------------------------ MODULE MCDialogs ------------------------------
(* The dialogs that merge and import records, and the session of the user,  *)
(* for TLC: what happens in one of them leaves the others alone.            *)
EXTENDS MergeDialog, ImportDialog, Session, TLC

CONSTANTS ann, bob

\* A member beside an admin, or beside a guest.
MCCasts == {[u \in Users |-> IF u = ann THEN "member" ELSE r] : r \in {"admin", "guest"}}

\* A file with a new row between two that conflict.
MCRows == <<"conflict", "new", "conflict">>

TabSymmetry == Permutations(Tabs)

VARIABLE screen

MergeRests   == MergeInit /\ list = (CHOOSE l \in MergeClasses : TRUE)
SessionRests == /\ SessionInit /\ exists = {}
                /\ role = (CHOOSE r \in Casts : TRUE)

DialogsInit ==
  \/ screen = "merge"   /\ MergeInit  /\ ImportInit /\ SessionRests
  \/ screen = "import"  /\ MergeRests /\ ImportInit /\ SessionRests
  \/ screen = "session" /\ MergeRests /\ ImportInit /\ SessionInit

DialogsNext ==
  \/ screen = "merge"   /\ MergeNext   /\ UNCHANGED <<screen, importVars, sessionVars>>
  \/ screen = "import"  /\ ImportNext  /\ UNCHANGED <<screen, mergeVars, sessionVars>>
  \/ screen = "session" /\ SessionNext /\ UNCHANGED <<screen, mergeVars, importVars>>

DialogsSpec == DialogsInit /\ [][DialogsNext]_<<screen, mergeVars, importVars, sessionVars>>

\* The variables of the dialogs and of the session have their types.
DialogsTypeOK == MergeTypeOK /\ ImportTypeOK /\ SessionTypeOK
=============================================================================
