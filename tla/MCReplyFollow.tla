----------------------------- MODULE MCReplyFollow -----------------------------
(* Instances of ReplyFollow for TLC: each disturbance happens at most once. *)
EXTENDS ReplyFollow

Once(kinds) == [f \in Faults |-> IF f \in kinds THEN 1 ELSE 0]

Reloads == Once({"register", "gate"})
Failures == Once({"fail", "break", "register", "crash"})
Breaking == Once({"break"})
=============================================================================
