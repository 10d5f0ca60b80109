---------------------------- MODULE SourcePromise ----------------------------
(***************************************************************************)
(* What a source of a session promises the person who writes to it.  Every *)
(* message is open until it is closed, by an answer that comes after it or *)
(* by giving it up, or stopped; what is closed stays closed, what was      *)
(* stopped is asked again only when nothing else is open, and the source   *)
(* says something only while something is open.                            *)
(*                                                                         *)
(* Each step is one write to the log.  The module SourceSession, with the  *)
(* tasks, the admissions and the drive behind one source, implements it,   *)
(* and so does every source of ReplyFollow.                                *)
(***************************************************************************)
EXTENDS Naturals

VARIABLES
  fate,  \* what became of the person's messages, by their numbers
  said   \* the numbers of what was replied

pvars == <<fate, said>>

Asked == DOMAIN fate
Some(what) == \E n \in Asked : fate[n] = what

PromiseTypeOK ==
  /\ said \subseteq Nat
  /\ Asked \subseteq Nat
  /\ fate \in [Asked -> {"open", "stopped", "closed"}]

PromiseInit == Asked = {} /\ said = {}

Last(n) == n \in Nat /\ \A m \in Asked \union said : m < n

\* A message of the person, or a steer.
PAsk(n) ==
  /\ Last(n)
  /\ fate' = [m \in Asked \union {n} |-> IF m = n THEN "open" ELSE fate[m]]
  /\ UNCHANGED said

AllClosed == fate' = [m \in Asked |-> "closed"]

\* An output leaves the turn open or, as an answer, closes all that was asked.
PSay(n) ==
  /\ Last(n) /\ Some("open")
  /\ said' = said \union {n}
  /\ UNCHANGED fate \/ AllClosed

\* All is given up, what was stopped too.
PAbandon == AllClosed /\ UNCHANGED said

\* A stop or a failure holds back what was asked up to n.
PStop(n) ==
  /\ fate' = [m \in Asked |-> IF m <= n /\ fate[m] = "open" THEN "stopped" ELSE fate[m]]
  /\ UNCHANGED said

\* What was stopped is asked again.
PRetry ==
  /\ Some("stopped") /\ ~Some("open")
  /\ fate' = [m \in Asked |-> IF fate[m] = "stopped" THEN "open" ELSE fate[m]]
  /\ UNCHANGED said

PromiseNext ==
  \/ \E n \in DOMAIN fate' \ Asked : PAsk(n)
  \/ \E n \in said' \ said : PSay(n)
  \/ \E n \in Asked : PStop(n)
  \/ PAbandon \/ PRetry

PromiseSpec == PromiseInit /\ [][PromiseNext]_pvars

==============================================================================
