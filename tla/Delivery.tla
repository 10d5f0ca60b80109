------------------------------- MODULE Delivery -------------------------------
(***************************************************************************)
(* plugins/delivery: the effect that sends one saved message to one        *)
(* destination.  The durable part is the record of each delivery in the    *)
(* owner store; one task at a time may work on a delivery, in the turns    *)
(* the target's group gives it; recovery asks again for what a process     *)
(* left unsettled.                                                         *)
(*                                                                         *)
(* A step of a task ends where the coroutine awaits: a read or a commit in *)
(* a worker thread, the admission of its key, the turn at its target, an   *)
(* answer of the sender.  The groups (admission lock, turns, activity) are *)
(* those of TaskGroups; here only who holds them is kept, and any waiter   *)
(* may be next.  The sender is outside the process: a call it was given    *)
(* may still take effect when nobody waits for it any more.                *)
(***************************************************************************)
EXTENDS Naturals

CONSTANTS
  Deliveries,   \* (message, sink) pairs; all of one target
  Passive,      \* those the reply path asked for
  Idempotent,   \* those whose sender drops a repeated key
  Guarded,      \* those whose first start a guard may refuse
  Faults,       \* which disturbances happen
  Limit         \* how many of them

ASSUME DeliveryAssumption ==
  /\ Passive \subseteq Deliveries /\ Idempotent \subseteq Deliveries
  /\ Guarded \subseteq Deliveries
  /\ Faults \subseteq {"crash", "interrupt", "error", "cancel", "retry"}
  /\ Limit \in Nat

VARIABLES
  record,   \* the saved record: its phase and the version of its row
  task,     \* the task that holds the slot of the delivery, and what it read
  lock,     \* who is inside the admission of the delivery's key
  target,   \* the deliveries inside the exclusive section of the target
  asks,     \* callers that prepared or recovered the delivery and will start it
  left,     \* its last caller was told that it failed or was cancelled
  retry,    \* an explicit retry of the delivery
  call,     \* the answer the task's call waits for or got
  orphans,  \* a call nobody waits for may still take effect
  effects,  \* how often the message reached the address
  spent     \* disturbances so far

vars == <<record, task, lock, target, asks, left, retry, call, orphans, effects, spent>>

Terminal == {"delivered", "rejected", "failed"}
Phases == {"none", "prepared", "started"} \cup Terminal

\* A caller per path that starts a delivery: the completion of the reply (or the
\* tool that waits) and the follower of the log.
MaxAsks == 2

Row == [phase : Phases, version : Nat]
NoRecord == [phase |-> "none", version |-> 0]

\* st is where the coroutine of Deliveries._send awaits; seen is the record it
\* holds; receipt is the outcome it is about to save; a task is cut once.
Free == [st |-> "free", seen |-> NoRecord, receipt |-> "none", cut |-> FALSE]

\* Over, but its scope is still to be left.
Closing == [Free EXCEPT !.st = "closing"]

InLock == {"begin", "starting"}
InTry == {"admit", "begin", "starting", "calling"}
Inside == {"inside", "query", "save", "failing"} \cup InTry
Stages == {"free", "read", "wait", "closing"} \cup Inside

\* A call is under way, has reached the address, or is answered.
Under == {"out", "done"}
Calls == {"none", "error"} \cup Under \cup Terminal

Spend(f) == f \in Faults /\ spent < Limit /\ spent' = spent + 1

Job == [st : Stages, seen : Row, receipt : {"none"} \cup Terminal, cut : BOOLEAN]

TypeOK ==
  /\ record \in [Deliveries -> Row]
  /\ task \in [Deliveries -> Job]
  /\ lock \in [Deliveries -> {"none", "task", "cancel", "withdrawn", "retry"}]
  /\ target \subseteq Deliveries
  /\ asks \in [Deliveries -> Nat]
  /\ left \in [Deliveries -> BOOLEAN]
  /\ retry \in [Deliveries -> {"none", "want", "read", "rearm", "join"}]
  /\ call \in [Deliveries -> Calls]
  /\ orphans \in [Deliveries -> BOOLEAN]
  /\ effects \in [Deliveries -> Nat]
  /\ spent \in 0..Limit

Init ==
  /\ record = [d \in Deliveries |-> NoRecord]
  /\ task = [d \in Deliveries |-> Free]
  /\ lock = [d \in Deliveries |-> "none"]
  /\ target = {}
  /\ asks = [d \in Deliveries |-> 0]
  /\ left = [d \in Deliveries |-> FALSE]
  /\ retry = [d \in Deliveries |-> "none"]
  /\ call = [d \in Deliveries |-> "none"]
  /\ orphans = [d \in Deliveries |-> FALSE]
  /\ effects = [d \in Deliveries |-> 0]
  /\ spent = 0

-----------------------------------------------------------------------------
(* Records.                                                                *)

\* DeliveryRecords._save: the row is written if nobody wrote it since `seen`.
Current(d, seen) == seen.version = record[d].version

Saved(d, phase) == [phase |-> phase, version |-> record[d].version + 1]

Save(d, phase) == record' = [record EXCEPT ![d] = Saved(d, phase)]

\* Where a task goes on, keeping what it read.
Goto(d, st) == task' = [task EXCEPT ![d].st = st]
See(d, st) == task' = [task EXCEPT ![d].st = st, ![d].seen = record[d]]
Leave(d) == task' = [task EXCEPT ![d] = Closing]

Settled(d) == record[d].phase \in Terminal

\* DeliveryRecords._prepare, _add: the message and its destination are fixed in
\* one commit; who prepared it starts it, and so does the follower.
Prepare(d) ==
  /\ record[d].phase = "none"
  /\ Save(d, "prepared")
  /\ asks' = [asks EXCEPT ![d] = MaxAsks]
  /\ UNCHANGED <<task, lock, target, left, retry, call, orphans, effects, spent>>

-----------------------------------------------------------------------------
(* Starting.                                                               *)

\* Deliveries._start: in the admission of the key a task is made unless one is
\* there; the caller waits for either.
Start(d) ==
  /\ asks[d] # 0 /\ lock[d] = "none"
  /\ asks' = [asks EXCEPT ![d] = @ - 1]
  /\ IF task[d].st = "free"
     THEN /\ task' = [task EXCEPT ![d] = [Free EXCEPT !.st = "read"]]
          /\ left' = [left EXCEPT ![d] = FALSE]
     ELSE UNCHANGED <<task, left>>
  /\ UNCHANGED <<record, lock, target, retry, call, orphans, effects, spent>>

\* Who holds the target back from active sends: the passive task that was admitted
\* with something to send, and the scope of its sending.
Claims(d) ==
  /\ d \in Passive
  /\ \/ d \in target
     \/ task[d].st \in {"read", "wait"} /\ ~Settled(d)

-----------------------------------------------------------------------------
(* Deliveries._send.                                                       *)

\* The first reading: a settled delivery is answered from its record.
Read(d) ==
  /\ task[d].st = "read"
  /\ IF Settled(d) THEN Leave(d) ELSE See(d, "wait")
  /\ UNCHANGED <<record, lock, target, asks, left, retry, call, orphans, effects, spent>>

\* The turn at the target; an active send waits until it is idle.
Enter(d) ==
  /\ task[d].st = "wait" /\ target = {}
  /\ d \in Passive \/ \A e \in Deliveries : ~Claims(e)
  /\ target' = {d}
  /\ Goto(d, "inside")
  /\ UNCHANGED <<record, lock, asks, left, retry, call, orphans, effects, spent>>

\* The second reading: the delivery may have been withdrawn during the wait.  The
\* sender is opened; a delivery that was started asks it for its receipt first.
Reread(d) ==
  /\ task[d].st = "inside"
  /\ IF Settled(d) THEN Leave(d)
     ELSE See(d, IF record[d].phase = "started" THEN "query" ELSE "admit")
  /\ UNCHANGED <<record, lock, target, asks, left, retry, call, orphans, effects, spent>>

\* What a sender can say of a key: a delivery that happened, a refusal that will
\* stand, or that it does not know.
True(d, answer) ==
  /\ answer = "delivered" => effects[d] # 0
  /\ answer = "rejected" => effects[d] = 0

\* A key that was refused is refused to the calls nobody waits for, too.
Refuse(d, answer) == orphans' = [orphans EXCEPT ![d] = @ /\ answer # "rejected"]

\* Seeded fault: a receipt that is not found is taken for a call never made.
QueryResends(d) ==
  /\ task[d].st = "query"
  /\ \E found \in {"none"} \cup Terminal :
       /\ True(d, found) /\ Refuse(d, found)
       /\ task' = [task EXCEPT ![d].st = IF found = "none" THEN "admit" ELSE "save",
                               ![d].receipt = found]
  /\ UNCHANGED <<record, lock, target, asks, left, retry, call, effects, spent>>

\* The receipt is saved; without one only an idempotent sender is asked again.
Query(d) ==
  /\ task[d].st = "query"
  /\ \E found \in {"none"} \cup Terminal :
       /\ True(d, found) /\ Refuse(d, found)
       /\ task' = [task EXCEPT
            ![d].st = IF found = "none" /\ d \in Idempotent THEN "admit" ELSE "save",
            ![d].receipt = IF found = "none" /\ d \notin Idempotent THEN "failed" ELSE found]
  /\ UNCHANGED <<record, lock, target, asks, left, retry, call, effects, spent>>

\* The admission of the key, which excludes cancel_prepared and retry.
Admit(d) ==
  /\ task[d].st = "admit" /\ lock[d] = "none"
  /\ lock' = [lock EXCEPT ![d] = "task"]
  /\ Goto(d, "begin")
  /\ UNCHANGED <<record, target, asks, left, retry, call, orphans, effects, spent>>

\* The third reading, inside the admission.
Begin(d) ==
  /\ task[d].st = "begin"
  /\ IF Settled(d)
     THEN /\ Leave(d)
          /\ lock' = [lock EXCEPT ![d] = "none"]
     ELSE See(d, "starting") /\ UNCHANGED lock
  /\ UNCHANGED <<record, target, asks, left, retry, call, orphans, effects, spent>>

\* The verdict of the guard is saved while the guard still holds; only a first
\* start is guarded.
Verdicts(d) ==
  {"started"} \cup (IF d \in Guarded /\ task[d].seen.phase = "prepared" THEN {"rejected"} ELSE {})

Starting(d) ==
  /\ task[d].st = "starting" /\ Current(d, task[d].seen)
  /\ \E verdict \in Verdicts(d) :
       /\ Save(d, verdict)
       /\ task' = [task EXCEPT ![d] =
            IF verdict = "started"
            THEN [@ EXCEPT !.st = "calling", !.seen = Saved(d, verdict)]
            ELSE Closing]
       /\ call' = [call EXCEPT ![d] = IF verdict = "started" THEN "out" ELSE "none"]
  /\ lock' = [lock EXCEPT ![d] = "none"]
  /\ UNCHANGED <<target, asks, left, retry, orphans, effects, spent>>

\* Seeded fault: an exception is saved as if it were a receipt.
AnsweredRaw(d) ==
  /\ task[d].st = "calling" /\ call[d] \notin Under
  /\ task' = [task EXCEPT ![d].st = "save", ![d].receipt = call[d]]
  /\ call' = [call EXCEPT ![d] = "none"]
  /\ UNCHANGED <<record, lock, target, asks, left, retry, orphans, effects, spent>>

\* sender.send came back: with a receipt to save or with an exception.
Answered(d) ==
  /\ task[d].st = "calling" /\ call[d] \notin Under
  /\ task' = [task EXCEPT
       ![d].st = IF call[d] = "error" THEN "failing" ELSE "save",
       ![d].receipt = IF call[d] = "error" THEN "failed" ELSE call[d]]
  /\ call' = [call EXCEPT ![d] = "none"]
  /\ left' = [left EXCEPT ![d] = (call[d] = "error")]
  /\ UNCHANGED <<record, lock, target, asks, retry, orphans, effects, spent>>

\* The outcome is saved; after an exception the task ends with that exception.
Outcome(d) ==
  /\ task[d].st \in {"save", "failing"} /\ Current(d, task[d].seen)
  /\ Save(d, task[d].receipt)
  /\ Leave(d)
  /\ UNCHANGED <<lock, target, asks, left, retry, call, orphans, effects, spent>>

\* Seeded fault: the turn at the target is not given back.
CloseKeepsTarget(d) ==
  /\ task[d].st = "closing"
  /\ task' = [task EXCEPT ![d] = Free]
  /\ UNCHANGED <<record, lock, target, asks, left, retry, call, orphans, effects, spent>>

\* The scope is left and the task is gone: the slot is free.
Close(d) ==
  /\ task[d].st = "closing"
  /\ task' = [task EXCEPT ![d] = Free]
  /\ target' = target \ {d}
  /\ UNCHANGED <<record, lock, asks, left, retry, call, orphans, effects, spent>>

-----------------------------------------------------------------------------
(* Cancellation (the owner of a send, or a shutdown) and errors.           *)

Unlock(d) == lock' = [lock EXCEPT ![d] = IF @ = "task" THEN "none" ELSE @]

\* An exception passes the handler of _send: what was started is to be saved as
\* failed, anything else is left as it is.
Raise(d, seen, cut) ==
  /\ task' = [task EXCEPT ![d] =
       IF @.st \in InTry /\ seen.phase = "started"
       THEN [st |-> "failing", seen |-> seen, receipt |-> "failed", cut |-> cut]
       ELSE Closing]
  /\ Unlock(d)
  /\ left' = [left EXCEPT ![d] = TRUE]
  /\ call' = [call EXCEPT ![d] = "none"]
  /\ orphans' = [orphans EXCEPT ![d] = @ \/ call[d] = "out"]

\* A wait ends with CancelledError; a commit that had not begun is not made.
Interrupt(d) ==
  /\ task[d].st \notin {"free", "closing"} /\ ~task[d].cut /\ Spend("interrupt")
  /\ Raise(d, task[d].seen, TRUE)
  /\ UNCHANGED <<record, target, asks, retry, effects>>

\* A commit that had begun is finished first (run_file_io drains its thread).
InterruptLate(d) ==
  /\ ~task[d].cut /\ Spend("interrupt")
  /\ Current(d, task[d].seen)
  /\ \E phase \in Phases :
       /\ \/ task[d].st = "starting" /\ phase \in Verdicts(d)
          \/ task[d].st \in {"save", "failing"} /\ phase = task[d].receipt
       /\ Save(d, phase)
       /\ Raise(d, Saved(d, phase), TRUE)
  /\ UNCHANGED <<target, asks, retry, effects>>

\* A file, the guard or the sender fails; `call` tells of errors of the send.
Error(d) ==
  /\ task[d].st \notin {"free", "closing", "wait", "admit", "calling"} /\ Spend("error")
  /\ Raise(d, task[d].seen, task[d].cut)
  /\ UNCHANGED <<record, target, asks, retry, effects>>

-----------------------------------------------------------------------------
(* cancel_prepared.                                                        *)

\* Seeded fault: the withdrawal does not wait for the admission of the key.
CancelJumps(d) ==
  /\ record[d].phase # "none" /\ lock[d] \in {"none", "task"} /\ Spend("cancel")
  /\ lock' = [lock EXCEPT ![d] = "cancel"]
  /\ UNCHANGED <<record, task, target, asks, left, retry, call, orphans, effects>>

CancelBegin(d) ==
  /\ record[d].phase # "none" /\ lock[d] = "none" /\ Spend("cancel")
  /\ lock' = [lock EXCEPT ![d] = "cancel"]
  /\ UNCHANGED <<record, task, target, asks, left, retry, call, orphans, effects>>

\* Judged and withdrawn in one commit.
CancelCommit(d) ==
  /\ lock[d] = "cancel"
  /\ IF record[d].phase = "prepared"
     THEN Save(d, "rejected") /\ lock' = [lock EXCEPT ![d] = "withdrawn"]
     ELSE lock' = [lock EXCEPT ![d] = "none"] /\ UNCHANGED record
  /\ UNCHANGED <<task, target, asks, left, retry, call, orphans, effects, spent>>

\* on_commit, back on the loop: the task of the slot is cancelled.
CancelTask(d) ==
  /\ lock[d] = "withdrawn"
  /\ lock' = [lock EXCEPT ![d] = "none"]
  /\ task' = [task EXCEPT ![d] =
       IF @.st = "free" \/ @.cut THEN @ ELSE Closing]
  /\ UNCHANGED <<record, target, asks, left, retry, call, orphans, effects, spent>>

-----------------------------------------------------------------------------
(* retry.                                                                  *)

Retry(d, from, to) == retry[d] = from /\ retry' = [retry EXCEPT ![d] = to]

RetryCall(d) ==
  /\ record[d].phase # "none" /\ Retry(d, "none", "want") /\ Spend("retry")
  /\ UNCHANGED <<record, task, lock, target, asks, left, call, orphans, effects>>

RetryBegin(d) ==
  /\ lock[d] = "none" /\ Retry(d, "want", "read")
  /\ lock' = [lock EXCEPT ![d] = "retry"]
  /\ UNCHANGED <<record, task, target, asks, left, call, orphans, effects, spent>>

\* The end of a retry: the lock is given back and the delivery is sent.
RetrySends(d) ==
  /\ lock' = [lock EXCEPT ![d] = "none"]
  /\ asks' = [asks EXCEPT ![d] = @ + 1]

\* Seeded fault: the task that is still closing is not waited for.
RetryReadAnyway(d) ==
  /\ IF record[d].phase # "rejected"
     THEN Retry(d, "read", "none") /\ RetrySends(d)
     ELSE Retry(d, "read", "rearm") /\ UNCHANGED <<lock, asks>>
  /\ UNCHANGED <<record, task, target, left, call, orphans, effects, spent>>

\* Only what was rejected is armed again, and only once the old task, which may
\* have read the rejection, is gone.
RetryRead(d) ==
  /\ \/ record[d].phase # "rejected" /\ Retry(d, "read", "none") /\ RetrySends(d)
     \/ /\ record[d].phase = "rejected" /\ task[d].st # "free"
        /\ Retry(d, "read", "join")
        /\ lock' = [lock EXCEPT ![d] = "none"]
        /\ UNCHANGED asks
     \/ /\ record[d].phase = "rejected" /\ task[d].st = "free"
        /\ Retry(d, "read", "rearm")
        /\ UNCHANGED <<lock, asks>>
  /\ UNCHANGED <<record, task, target, left, call, orphans, effects, spent>>

RetryJoined(d) ==
  /\ task[d].st = "free" /\ Retry(d, "join", "want")
  /\ UNCHANGED <<record, task, lock, target, asks, left, call, orphans, effects, spent>>

RetryRearm(d) ==
  /\ Retry(d, "rearm", "none")
  /\ Save(d, "prepared")
  /\ RetrySends(d)
  /\ UNCHANGED <<task, target, left, call, orphans, effects, spent>>

\* The caller is cancelled while the commit is made; nobody sends.
RetryCut(d) ==
  /\ Retry(d, "rearm", "none") /\ Spend("interrupt")
  /\ Save(d, "prepared")
  /\ lock' = [lock EXCEPT ![d] = "none"]
  /\ left' = [left EXCEPT ![d] = TRUE]
  /\ UNCHANGED <<task, target, asks, call, orphans, effects>>

-----------------------------------------------------------------------------
(* Outside: the sender (external), and the process itself.                 *)

\* The message reaches the address, unless the sender drops a repeated key.
Reach(d) == effects' = [effects EXCEPT ![d] = IF d \in Idempotent THEN 1 ELSE @ + 1]

CallReaches(d) ==
  /\ call[d] = "out"
  /\ call' = [call EXCEPT ![d] = "done"]
  /\ Reach(d)
  /\ UNCHANGED <<record, task, lock, target, asks, left, retry, orphans, spent>>

\* The answer, or an error that tells nothing: the call may still arrive.
CallAnswers(d) ==
  /\ call[d] \in Under
  /\ \E answer \in Terminal \cup {"error"} :
       /\ True(d, answer)
       /\ call' = [call EXCEPT ![d] = answer]
       /\ orphans' = [orphans EXCEPT ![d] =
            IF answer = "rejected" THEN FALSE ELSE @ \/ call[d] = "out"]
  /\ UNCHANGED <<record, task, lock, target, asks, left, retry, effects, spent>>

Late(d) ==
  /\ orphans[d]
  /\ orphans' = [orphans EXCEPT ![d] = FALSE]
  /\ Reach(d)
  /\ UNCHANGED <<record, task, lock, target, asks, left, retry, call, spent>>

\* The process dies; recovery asks for every delivery that is not settled, and the
\* follower meets its message in the log again.
Crash ==
  /\ Spend("crash")
  /\ task' = [d \in Deliveries |-> Free]
  /\ lock' = [d \in Deliveries |-> "none"]
  /\ target' = {}
  /\ asks' = [d \in Deliveries |->
       IF record[d].phase \in {"prepared", "started"} THEN MaxAsks ELSE 0]
  /\ left' = [d \in Deliveries |-> FALSE]
  /\ retry' = [d \in Deliveries |-> "none"]
  /\ call' = [d \in Deliveries |-> "none"]
  /\ orphans' = [d \in Deliveries |-> orphans[d] \/ call[d] = "out"]
  /\ UNCHANGED <<record, effects>>

-----------------------------------------------------------------------------
Work(d) ==
  \/ Start(d) \/ Read(d) \/ Enter(d) \/ Reread(d) \/ Query(d) \/ Admit(d)
  \/ Begin(d) \/ Starting(d) \/ Answered(d) \/ Outcome(d) \/ Close(d)

Change(d) == CancelCommit(d) \/ CancelTask(d) \/ RetryBegin(d) \/ RetryRead(d)
             \/ RetryJoined(d) \/ RetryRearm(d)

Disturb(d) == Interrupt(d) \/ InterruptLate(d) \/ Error(d) \/ CancelBegin(d)
              \/ RetryCall(d) \/ RetryCut(d)

Next ==
  \/ \E d \in Deliveries :
       Prepare(d) \/ Work(d) \/ Change(d) \/ Disturb(d)
       \/ CallReaches(d) \/ CallAnswers(d) \/ Late(d)
  \/ Crash

Spec == Init /\ [][Next]_vars

\* Coroutines and worker threads go on, whoever waits is let in, and a sender
\* answers (its client has a timeout).
Fairness ==
  \A d \in Deliveries : WF_vars(Work(d) \/ Change(d) \/ CallAnswers(d))

FairSpec == Spec /\ Fairness

-----------------------------------------------------------------------------
(* Properties.                                                             *)

Phase == [d \in Deliveries |-> record[d].phase]

\* The records implement the promise: whatever is cancelled, retried, lost or
\* recovered, one armed delivery has at most one effect, none after it was
\* withdrawn, and no saved outcome lies (_send, cancel_prepared, retry).
Promise == INSTANCE DeliveryPromise WITH state <- Phase

ImplementsPromise == Promise!PromiseSpec

\* A delivery that is not settled has somebody who will look at it: a caller that
\* has yet to start it, a task that has not finished looking, or a caller that was
\* told of the failure (_start returns the task of the slot, whatever it read).
UnsettledIsWanted ==
  \A d \in Deliveries :
    record[d].phase \in {"prepared", "started"} =>
      asks[d] # 0 \/ task[d].st \notin {"free", "closing"} \/ left[d]

\* What a task is about to save replaces the record it has seen: withdrawal, retry
\* and sending of one delivery never conflict in the store (_save).
SavesAreCurrent ==
  \A d \in Deliveries :
    task[d].st \in {"starting", "save", "failing"} => Current(d, task[d].seen)

\* A delivery that was begun is settled, or its caller learns that it is not.
DeliverySettles ==
  \A d \in Deliveries :
    record[d].phase \in {"prepared", "started"}
      ~> (record[d].phase \in Terminal \/ left[d])

=============================================================================
