----------------------------- MODULE MCTaskGroups -----------------------------
(* Instances of TaskGroups for TLC.                                        *)
EXTENDS TaskGroups
=============================================================================
