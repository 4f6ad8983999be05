---------------------------- MODULE MCRecordPage ----------------------------
(* Instances of RecordPage for TLC.                                        *)
EXTENDS RecordPage

CONSTANTS places, people, place, person

\* Two models of different classes.
MCClassOf == [m \in {places, people} |-> IF m = places THEN place ELSE person]
\* Two records of one class, between which a page stays mounted.
MCStored  == {<<place, 1>>, <<place, 2>>}
=============================================================================
