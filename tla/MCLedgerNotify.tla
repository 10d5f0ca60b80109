---------------------------- MODULE MCLedgerNotify ----------------------------
(* An instance of LedgerNotify for TLC: a follower that asked for one of two  *)
(* types, as those that wait for Outputs do, and that looks again by itself.  *)
EXTENDS LedgerNotify, TLC

CONSTANTS input, output, f1

TheWakes == f1 :> {output}

Symmetry == Permutations(Commits)
=============================================================================
