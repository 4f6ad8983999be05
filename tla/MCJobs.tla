------------------------------- MODULE MCJobs -------------------------------
(***************************************************************************)
(* An import and an export that share their threads, for TLC.              *)
(***************************************************************************)
EXTENDS Jobs

CONSTANTS i1, e1

OneImport == {i1}
OneExport == {e1}

\* Everything outside the rescue clauses may raise.
Anything == Unrescued
=============================================================================
