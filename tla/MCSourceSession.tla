---------------------------- MODULE MCSourceSession ----------------------------
(* Instances of SourceSession for TLC: how often each disturbance happens. *)
EXTENDS SourceSession, TLC

Once(kinds) == [f \in Faults |-> IF f \in kinds THEN 1 ELSE 0]

Undisturbed0 == Once({})
FailAndCancel == Once({"program", "cancel"})
FailAndResend == Once({"program", "crash", "resend"})
GateOnce == Once({"gate"})

Symmetry == Permutations(TaskIds)
=============================================================================
