----------------------------- MODULE MCScheduler -----------------------------
(* Instances of Scheduler for TLC.                                         *)
EXTENDS Scheduler

RecurringReply == <<TRUE, TRUE>>
SingleText == <<FALSE, FALSE>>
SingleReply == <<FALSE, TRUE>>

Kinds2 == {RecurringReply, SingleText}
KindsOnce == {SingleReply}
=============================================================================
