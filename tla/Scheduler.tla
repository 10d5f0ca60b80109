------------------------------ MODULE Scheduler ------------------------------
(***************************************************************************)
(* plugins/scheduler: timed jobs.  The schedule file holds the jobs and    *)
(* one fire for each time of a job that came; a follower starts one task   *)
(* for a fire, which writes the message, hands it to the delivery service  *)
(* and settles the fire; the cancel tool withdraws jobs and fires in the   *)
(* file first and then tells the tasks.                                    *)
(*                                                                         *)
(* A step ends where a coroutine awaits.  The deliveries are those of      *)
(* DeliveryPromise, which the module Delivery implements; the times of a   *)
(* job are instants of an abstract clock.                                  *)
(***************************************************************************)
EXTENDS Naturals, FiniteSets

CONSTANTS
  Jobs,        \* identities a tool call may schedule
  Kinds,       \* what is scheduled: pairs <<recurring, runs>>
  Horizon,     \* the last instant of the clock
  Interval,    \* between two times of a recurring job
  Grace,       \* how late a job that fires once may still be fired after a start
  MaxActive,   \* scheduled jobs at a time
  Faults,      \* which disturbances happen
  Limit        \* how many of them

ASSUME SchedulerAssumption ==
  /\ Kinds \subseteq BOOLEAN \X BOOLEAN
  /\ {Horizon, Grace, MaxActive, Limit} \subseteq Nat
  /\ Interval \in Nat \ {0}
  /\ Faults \subseteq {"crash", "stop", "error"}

Fires == Jobs \X (0..Horizon)

VARIABLES
  now,
  file,       \* the schedule file: jobs and fires
  stale,      \* it was written since the follower looked at its stamp
  follow,     \* the follower: where it is, the file it read, what it goes through
  attempted,  \* fires this process started, with the status the follower saw
  active,     \* fires whose task the follower counts as running
  task,       \* the task in the slot of a fire
  logged,     \* fires whose task ended in an exception that was only logged
  log,        \* the messages of the fire in its session
  cancel,     \* the cancel tool's call for a job
  sweep,      \* the cancelled fires it has still to tell
  spent,      \* disturbances so far
  state, effects   \* the delivery of a fire's message (DeliveryPromise)

delivery == <<state, effects>>
memory == <<attempted, active, task, logged>>
vars == <<now, file, stale, follow, memory, log, cancel, sweep, spent, delivery>>

P == INSTANCE DeliveryPromise WITH Deliveries <- Fires

\* A recurring job has an interval, the others fire once; a job that runs asks for a
\* reply, the others send their text.
Job == [is : {"none", "on", "off", "gone"}, recurring : BOOLEAN, runs : BOOLEAN,
        at : 0..Horizon + Interval, count : Nat]
NoJob == [is |-> "none", recurring |-> FALSE, runs |-> FALSE, at |-> 0, count |-> 0]
FireStatus == {"none", "pending", "delivered", "failed", "cancelled"}
File == [jobs : [Jobs -> Job], fires : [Fires -> FireStatus]]

\* st is where the coroutine of the fire awaits; cut, that the task was cancelled;
\* outcome, what it is about to settle.
Stages == {"free", "new", "read", "compose", "prepare", "send", "reread",
           "withdraw", "settle", "clean", "closing"}
Task == [st : Stages, cut : BOOLEAN, outcome : {"none", "delivered", "failed"}]
Free == [st |-> "free", cut |-> FALSE, outcome |-> "none"]

\* `view` is what was read, `todo` what the current pass has still to start,
\* `waiting` the cancelled fires not yet cleaned up, `got` a fire just recorded.
Follow == [at : {"boot", "timer", "read", "starts", "again", "jobs", "due", "stopping"},
           view : File, todo : SUBSET Fires, waiting : SUBSET Fires, got : SUBSET Fires]

TypeOK ==
  /\ now \in 0..Horizon
  /\ file \in File
  /\ stale \in BOOLEAN
  /\ follow \in Follow
  /\ attempted \subseteq Fires \X {"pending", "cancelled"}
  /\ active \subseteq Fires
  /\ task \in [Fires -> Task]
  /\ logged \subseteq Fires
  /\ log \in [Fires -> {"none", "begun", "output", "failure", "abandoned"}]
  /\ cancel \in [Jobs -> {"none", "committed", "sweeping", "done"}]
  /\ sweep \in [Jobs -> SUBSET Fires]
  /\ spent \in 0..Limit
  /\ P!PromiseTypeOK

NoFile == [jobs |-> [j \in Jobs |-> NoJob], fires |-> [f \in Fires |-> "none"]]

Booting == [at |-> "boot", view |-> NoFile, todo |-> {}, waiting |-> {}, got |-> {}]

Init ==
  /\ now = 0
  /\ file = NoFile /\ stale = FALSE
  /\ follow = Booting
  /\ attempted = {} /\ active = {} /\ logged = {}
  /\ task = [f \in Fires |-> Free]
  /\ log = [f \in Fires |-> "none"]
  /\ cancel = [j \in Jobs |-> "none"]
  /\ sweep = [j \in Jobs |-> {}]
  /\ spent = 0
  /\ P!PromiseInit

-----------------------------------------------------------------------------
(* The schedule file.                                                      *)

\* Seeded fault: an interval too many.
AdvanceTwice(at, after) ==
  at + ((IF after > at THEN (after - at) \div Interval ELSE 0) + 2) * Interval

\* advance: the first nominal time after `after`.
Advance(at, after) ==
  at + ((IF after > at THEN (after - at) \div Interval ELSE 0) + 1) * Interval

Due(r) == r.is = "on" /\ r.at <= now
Later(a, b) == IF a > b THEN a ELSE b

\* JobStore._change: one commit, seen by the follower through the file's stamp.
Change(jobs, fires) ==
  /\ file' = [jobs |-> jobs, fires |-> fires]
  /\ stale' = (stale \/ file' # file)

\* JobStore.add, within the limit of scheduled jobs; a later add of the same call
\* returns the same operation.
Add(j) ==
  /\ file.jobs[j].is = "none"
  /\ Cardinality({i \in Jobs : file.jobs[i].is = "on"}) < MaxActive
  /\ \E kind \in Kinds, at \in now..Horizon :
       Change([file.jobs EXCEPT ![j] = [NoJob EXCEPT !.is = "on", !.recurring = kind[1],
                                                     !.runs = kind[2], !.at = at]], file.fires)
  /\ UNCHANGED <<now, follow, memory, log, cancel, sweep, spent, delivery>>

\* Seeded fault: the boot moves every overdue job on, a pending fire or not.
RecoveredAll(j) ==
  LET r == file.jobs[j] IN
  IF ~Due(r) THEN r
  ELSE IF r.recurring THEN [r EXCEPT !.at = Advance(r.at, now)]
  ELSE [r EXCEPT !.is = "off"]

\* Seeded fault: the last instant of the grace is too late.
RecoveredEarly(j) ==
  LET r == file.jobs[j] IN
  IF ~Due(r) \/ file.fires[<<j, r.at>>] = "pending" THEN r
  ELSE IF r.recurring THEN [r EXCEPT !.at = Advance(r.at, now)]
  ELSE IF file.fires[<<j, r.at>>] # "none" \/ now >= r.at + Grace THEN [r EXCEPT !.is = "off"]
  ELSE r

\* JobStore.recover for one job: a fire that is pending goes first; the times a
\* recurring job missed are skipped, a single one is dropped when it is too late.
Recovered(j) ==
  LET r == file.jobs[j] IN
  IF ~Due(r) \/ file.fires[<<j, r.at>>] = "pending" THEN r
  ELSE IF r.recurring THEN [r EXCEPT !.at = Advance(r.at, now)]
  ELSE IF file.fires[<<j, r.at>>] # "none" \/ now > r.at + Grace THEN [r EXCEPT !.is = "off"]
  ELSE r

\* JobStore.start_fire, for a job the follower read some time ago.
StartsFire(j, at) ==
  /\ file.jobs[j].is = "on" /\ file.jobs[j].at = at
  /\ file.fires[<<j, at>>] \in {"none", "pending"}

\* Seeded fault: a failed delivery counts, too.
SettledJobCountsAll(j, at, outcome) ==
  LET r == file.jobs[j] IN
  IF r.recurring
  THEN [r EXCEPT !.at = Advance(r.at, Later(now, r.at)), !.count = r.count + 1]
  ELSE [r EXCEPT !.is = "off", !.count = r.count + 1]

\* JobStore.settle: a fire is settled once, and with it its job.
SettledJob(j, at, outcome) ==
  LET r == file.jobs[j]
      count == r.count + (IF outcome = "delivered" THEN 1 ELSE 0)
  IN IF r.recurring
     THEN [r EXCEPT !.at = Advance(r.at, Later(now, r.at)), !.count = count]
     ELSE [r EXCEPT !.is = "off", !.count = count]

StillCurrent(j, at) == file.jobs[j].is \in {"on", "off"} /\ file.jobs[j].at = at

\* Seeded fault: a fire is settled although it was settled before or cancelled.
SettleAgain(j, at, outcome) ==
  Change(IF file.jobs[j].is \in {"on", "off"}
         THEN [file.jobs EXCEPT ![j] = SettledJob(j, at, outcome)] ELSE file.jobs,
         [file.fires EXCEPT ![<<j, at>>] = outcome])

SettleFire(j, at, outcome) ==
  IF file.fires[<<j, at>>] # "pending" THEN UNCHANGED <<file, stale>>
  ELSE Change(IF StillCurrent(j, at)
              THEN [file.jobs EXCEPT ![j] = SettledJob(j, at, outcome)] ELSE file.jobs,
              [file.fires EXCEPT ![<<j, at>>] = outcome])

-----------------------------------------------------------------------------
(* SchedulerRuntime.follow and start.                                      *)

FollowOnly == UNCHANGED <<now, file, log, cancel, sweep, spent, delivery>>

Boot ==
  /\ follow.at = "boot"
  /\ file' = [file EXCEPT !.jobs = [j \in Jobs |-> Recovered(j)]]
  /\ stale' = TRUE
  /\ follow' = [follow EXCEPT !.at = "timer"]
  /\ UNCHANGED <<now, memory, log, cancel, sweep, spent, delivery>>

\* In the admission of the fire's key: a task is made unless one is there.
Admit(f, status) ==
  IF task[f].st = "free"
  THEN /\ task' = [task EXCEPT ![f] = [Free EXCEPT !.st = "new"]]
       /\ active' = active \cup {f}
       /\ attempted' = attempted \cup {<<f, status>>}
       /\ UNCHANGED logged
  ELSE UNCHANGED memory

DueFires(view, done) ==
  {f \in Fires : LET r == view.jobs[f[1]] IN
                 Due(r) /\ r.at = f[2] /\ <<f, "pending">> \notin done}

\* A pass over jobs or fires that has nothing to start does not await.
ToJobs(fl, done) ==
  LET due == DueFires(fl.view, done) IN
     [fl EXCEPT !.at = IF due = {} THEN "timer" ELSE "jobs", !.todo = due,
                !.waiting = {f \in @ : <<f, "cancelled">> \notin done}]

\* The cancelled fires whose old task is still there are tried again at each tick.
ToAgain(fl, done) ==
  IF fl.waiting = {} THEN ToJobs(fl, done)
  ELSE [fl EXCEPT !.at = "again", !.todo = fl.waiting]

Cancelled(view, done) ==
  {f \in Fires : view.fires[f] = "cancelled" /\ <<f, "cancelled">> \notin done}

\* What comes after a start of the pass.
Onward(fl, done) ==
  CASE fl.todo # {} -> fl
    [] fl.todo = {} /\ fl.at = "starts" ->
         ToAgain([fl EXCEPT !.waiting = Cancelled(fl.view, done)], done)
    [] fl.todo = {} /\ fl.at = "again" -> ToJobs(fl, done)
    [] fl.todo = {} /\ fl.at = "jobs" -> [fl EXCEPT !.at = "timer"]

\* The timer runs out.  A tick that would start nothing is left out.
Tick ==
  /\ follow.at = "timer"
  /\ \/ stale
     \/ DueFires(follow.view, attempted) # {}
     \/ \E f \in follow.waiting \ active : task[f].st = "free"
  /\ follow' = IF stale THEN [follow EXCEPT !.at = "read"] ELSE ToAgain(follow, attempted)
  /\ stale' = FALSE
  /\ FollowOnly /\ UNCHANGED memory

Read ==
  /\ follow.at = "read"
  /\ LET unseen == {f \in Fires : /\ file.fires[f] \in {"pending", "cancelled"}
                                  /\ <<f, file.fires[f]>> \notin attempted}
     IN follow' = Onward([follow EXCEPT !.at = "starts", !.view = file, !.todo = unseen], attempted)
  /\ FollowOnly /\ UNCHANGED <<memory, stale>>

StartOne(f) ==
  /\ follow.at = "starts" /\ f \in follow.todo
  /\ Admit(f, follow.view.fires[f])
  /\ follow' = Onward([follow EXCEPT !.todo = @ \ {f}], attempted')
  /\ FollowOnly /\ UNCHANGED stale

StartAgain(f) ==
  /\ follow.at = "again" /\ f \in follow.todo
  /\ IF f \in active THEN UNCHANGED memory ELSE Admit(f, "cancelled")
  /\ follow' = Onward([follow EXCEPT !.todo = @ \ {f}], attempted')
  /\ FollowOnly /\ UNCHANGED stale

\* JobStore.start_fire for a due job of the view; the fire it returns is started.
RecordFire(f) ==
  /\ follow.at = "jobs" /\ f \in follow.todo
  /\ IF StartsFire(f[1], f[2])
     THEN /\ Change(file.jobs, [file.fires EXCEPT ![f] = "pending"])
          /\ follow' = [follow EXCEPT !.at = "due", !.todo = @ \ {f}, !.got = {f}]
     ELSE /\ UNCHANGED <<file, stale>>
          /\ follow' = Onward([follow EXCEPT !.todo = @ \ {f}], attempted)
  /\ UNCHANGED <<now, memory, log, cancel, sweep, spent, delivery>>

StartDue(f) ==
  /\ follow.at = "due" /\ f \in follow.got
  /\ Admit(f, "pending")
  /\ follow' = Onward([follow EXCEPT !.at = "jobs", !.got = {}], attempted')
  /\ FollowOnly /\ UNCHANGED stale

FollowStep ==
  \/ Boot \/ Tick \/ Read
  \/ \E f \in Fires : StartOne(f) \/ StartAgain(f) \/ RecordFire(f) \/ StartDue(f)

-----------------------------------------------------------------------------
(* SchedulerRuntime._fire.                                                 *)

TaskOnly == UNCHANGED <<now, follow, attempted, cancel, sweep, spent>>

Goto(f, st) == task' = [task EXCEPT ![f].st = st] /\ UNCHANGED active

\* The wrapper of the task takes it off the active ones; the slot is free when its
\* scope is closed.
End(f) ==
  /\ task' = [task EXCEPT ![f].st = "closing"]
  /\ active' = active \ {f}

\* Work handed to a thread is done although the task was cancelled meanwhile.
Then(f, st) == IF task[f].cut THEN End(f) ELSE Goto(f, st)

\* A task cancelled before its first step runs nothing of its own, the wrapper
\* included.
Begin(f) ==
  /\ task[f].st = "new"
  /\ Goto(f, IF task[f].cut THEN "closing" ELSE "read")
  /\ TaskOnly /\ UNCHANGED <<file, stale, logged, log, delivery>>

\* Seeded fault: a task trusts the status with which it was started.
ReadFireOnce(f) ==
  /\ task[f].st = "read"
  /\ Then(f, IF <<f, "cancelled">> \in attempted THEN "clean" ELSE "compose")
  /\ TaskOnly /\ UNCHANGED <<file, stale, logged, log, delivery>>

ReadFire(f) ==
  /\ task[f].st = "read"
  /\ CASE file.fires[f] = "cancelled" -> Then(f, "clean")
       [] file.fires[f] = "pending" -> Then(f, "compose")
       [] OTHER -> End(f)
  /\ TaskOnly /\ UNCHANGED <<file, stale, logged, log, delivery>>

RunsReply(f) == file.jobs[f[1]].runs

\* A job that sends its text writes it; one that runs a reply writes an input first,
\* and the reply may fail or be stopped.  A message that is there is kept.
Compose(f) ==
  /\ task[f].st = "compose"
  /\ \/ log[f] = "output" /\ Then(f, "prepare") /\ UNCHANGED log
     \/ log[f] = "none" /\ RunsReply(f) /\ Then(f, "compose") /\ log' = [log EXCEPT ![f] = "begun"]
     \/ log[f] = (IF RunsReply(f) THEN "begun" ELSE "none")
        /\ Then(f, "prepare") /\ log' = [log EXCEPT ![f] = "output"]
  /\ TaskOnly /\ UNCHANGED <<file, stale, logged, delivery>>

\* The model failed, the user stopped the reply, or the session does not exist.
Fails(f) ==
  /\ task[f].st = "compose" /\ RunsReply(f)
  /\ \/ log[f] = "begun" /\ log' = [log EXCEPT ![f] = "failure"]
     \/ log[f] \in {"none", "begun", "failure"} /\ UNCHANGED log
  /\ IF task[f].cut THEN End(f)
     ELSE task' = [task EXCEPT ![f].st = "settle", ![f].outcome = "failed"] /\ UNCHANGED active
  /\ TaskOnly /\ UNCHANGED <<file, stale, logged, delivery>>

\* Deliveries.prepare_async: what was selected before is kept.
Prepare(f) ==
  /\ task[f].st = "prepare"
  /\ IF state[f] = "none" THEN P!PPrepare(f) ELSE UNCHANGED delivery
  /\ Then(f, "send")
  /\ TaskOnly /\ UNCHANGED <<file, stale, logged, log>>

\* What the delivery does while somebody waits for it, and what its sender may do later.
Deliver(f) ==
  /\ \/ /\ task[f].st = "send"
        /\ \/ P!PStart(f)
           \/ \E outcome \in {"delivered", "rejected", "failed"} : P!PSettle(f, outcome)
     \/ P!PEffect(f)
  /\ UNCHANGED <<now, file, stale, follow, memory, log, cancel, sweep, spent>>

Terminal == {"delivered", "rejected", "failed"}
\* Seeded fault: any outcome of the delivery counts as delivered.
OutcomeAny(f) == "delivered"

Outcome(f) == IF state[f] = "delivered" THEN "delivered" ELSE "failed"

Sent(f) ==
  /\ task[f].st = "send" /\ ~task[f].cut /\ state[f] \in Terminal
  /\ task' = [task EXCEPT ![f].st = "settle", ![f].outcome = Outcome(f)]
  /\ TaskOnly /\ UNCHANGED <<file, stale, active, logged, log, delivery>>

\* The cancelled task has drained its delivery; if it was the user who cancelled, what
\* is not yet started is withdrawn.
Drained(f) ==
  /\ task[f].st = "send" /\ task[f].cut
  /\ Goto(f, "reread")
  /\ TaskOnly /\ UNCHANGED <<file, stale, logged, log, delivery>>

Reread(f) ==
  /\ task[f].st = "reread"
  /\ IF file.fires[f] = "cancelled" THEN Goto(f, "withdraw") ELSE End(f)
  /\ TaskOnly /\ UNCHANGED <<file, stale, logged, log, delivery>>

CancelPrepared(f) == IF state[f] = "prepared" THEN P!PWithdraw(f) ELSE UNCHANGED delivery

Withdraw(f) ==
  /\ task[f].st = "withdraw"
  /\ CancelPrepared(f) /\ End(f)
  /\ TaskOnly /\ UNCHANGED <<file, stale, logged, log>>

Settle(f) ==
  /\ task[f].st = "settle"
  /\ SettleFire(f[1], f[2], task[f].outcome)
  /\ End(f)
  /\ TaskOnly /\ UNCHANGED <<logged, log, delivery>>

\* The task of a cancelled fire closes its round or withdraws its message.
Clean(f) ==
  /\ task[f].st = "clean"
  /\ IF log[f] \in {"output", "failure"}
     THEN CancelPrepared(f) /\ UNCHANGED log
     ELSE /\ log' = [log EXCEPT ![f] = IF @ = "begun" THEN "abandoned" ELSE @]
          /\ UNCHANGED delivery
  /\ End(f)
  /\ TaskOnly /\ UNCHANGED <<file, stale, logged>>

\* The cancellation reaches the task before the work was handed over.
Abort(f) ==
  /\ task[f].st \in {"read", "compose", "prepare", "settle", "clean"} /\ task[f].cut
  /\ End(f)
  /\ TaskOnly /\ UNCHANGED <<file, stale, logged, log, delivery>>

TaskEnd(f) ==
  /\ task[f].st = "closing"
  /\ task' = [task EXCEPT ![f] = Free]
  /\ TaskOnly /\ UNCHANGED <<file, stale, active, logged, log, delivery>>

TaskStep(f) ==
  \/ Begin(f) \/ ReadFire(f) \/ Compose(f) \/ Fails(f) \/ Prepare(f) \/ Deliver(f) \/ Sent(f)
  \/ Drained(f) \/ Reread(f) \/ Withdraw(f) \/ Settle(f) \/ Clean(f) \/ Abort(f) \/ TaskEnd(f)

-----------------------------------------------------------------------------
(* The cancel tool: ScheduleTool.invoke and query, cancel_fires.           *)

\* JobStore.cancel: jobs and pending fires, in one commit.
CancelCommit(j) ==
  /\ cancel[j] = "none" /\ file.jobs[j].is \in {"on", "off"}
  /\ Change([file.jobs EXCEPT ![j].is = "gone"],
            [f \in Fires |-> IF f[1] = j /\ file.fires[f] = "pending"
                             THEN "cancelled" ELSE file.fires[f]])
  /\ cancel' = [cancel EXCEPT ![j] = "committed"]
  /\ UNCHANGED <<now, follow, memory, log, sweep, spent, delivery>>

SweepRead(j) ==
  /\ cancel[j] = "committed"
  /\ cancel' = [cancel EXCEPT ![j] = "sweeping"]
  /\ sweep' = [sweep EXCEPT ![j] = {f \in Fires : f[1] = j /\ file.fires[f] = "cancelled"}]
  /\ UNCHANGED <<now, file, stale, follow, memory, log, spent, delivery>>

Cut(f) == IF task[f].st \in {"free", "closing"} THEN task[f] ELSE [task[f] EXCEPT !.cut = TRUE]

SweepOne(j, f) ==
  /\ cancel[j] = "sweeping" /\ f \in sweep[j]
  /\ task' = [task EXCEPT ![f] = Cut(f)]
  /\ sweep' = [sweep EXCEPT ![j] = @ \ {f}]
  /\ UNCHANGED <<now, file, stale, follow, attempted, active, logged, log, cancel, spent, delivery>>

SweepDone(j) ==
  /\ cancel[j] = "sweeping" /\ sweep[j] = {}
  /\ cancel' = [cancel EXCEPT ![j] = "done"]
  /\ UNCHANGED <<now, file, stale, follow, memory, log, sweep, spent, delivery>>

ToolStep(j) ==
  Add(j) \/ CancelCommit(j) \/ SweepRead(j) \/ SweepDone(j) \/ \E f \in Fires : SweepOne(j, f)

-----------------------------------------------------------------------------
(* Disturbances.                                                           *)

Spend(f) == f \in Faults /\ spent < Limit /\ spent' = spent + 1

\* A read, a commit, a binding or a send raises; the fire stays as it is, unless its
\* delivery was recorded as failed.
Error(f) ==
  /\ Spend("error")
  /\ task[f].st \in {"read", "compose", "prepare", "send", "settle", "clean"} /\ ~task[f].cut
  /\ IF task[f].st = "send" /\ state[f] = "failed"
     THEN SettleFire(f[1], f[2], "failed") ELSE UNCHANGED <<file, stale>>
  /\ End(f)
  /\ logged' = logged \cup {f}
  /\ UNCHANGED <<now, follow, attempted, log, cancel, sweep, delivery>>

\* A cancel call that was cut off is asked again what became of it (ScheduleTool.query).
Replayed == [j \in Jobs |-> IF cancel[j] = "sweeping" THEN "committed" ELSE cancel[j]]

\* Seeded fault: the fires started are remembered beyond the runtime that started them.
ForgetFew ==
  /\ follow' = Booting /\ stale' = FALSE
  /\ active' = {} /\ logged' = {}
  /\ UNCHANGED <<now, file, attempted, log, delivery>>

Forget ==
  /\ follow' = Booting /\ stale' = FALSE
  /\ attempted' = {} /\ active' = {} /\ logged' = {}
  /\ UNCHANGED <<now, file, log, delivery>>

Crash ==
  /\ Spend("crash")
  /\ Forget
  /\ task' = [f \in Fires |-> Free]
  /\ cancel' = Replayed /\ sweep' = [j \in Jobs |-> {}]

\* RUNTIME_STOPPING: the follower cancels what it counts as running and waits for it;
\* another runtime starts from the file.
Stop ==
  /\ Spend("stop") /\ follow.at \notin {"boot", "stopping"}
  /\ follow' = [follow EXCEPT !.at = "stopping"]
  /\ task' = [f \in Fires |-> IF f \in active THEN Cut(f) ELSE task[f]]
  /\ UNCHANGED <<now, file, stale, attempted, active, logged, log, cancel, sweep, delivery>>

Stopped ==
  /\ follow.at = "stopping" /\ \A f \in Fires : task[f].st = "free"
  /\ Forget
  /\ UNCHANGED <<task, cancel, sweep, spent>>

Passes ==
  /\ now < Horizon /\ now' = now + 1
  /\ UNCHANGED <<file, stale, follow, memory, log, cancel, sweep, spent, delivery>>

Disturb == Crash \/ Stop \/ \E f \in Fires : Error(f)

Next ==
  \/ FollowStep \/ Stopped \/ Passes \/ Disturb
  \/ \E f \in Fires : TaskStep(f)
  \/ \E j \in Jobs : ToolStep(j)

Spec == Init /\ [][Next]_vars

\* The loop runs what is ready, and a delivery somebody waits for comes to an end; which
\* of the follower and the tasks goes first is left open. Neither the clock nor the user
\* has to do anything.
OwnStep == FollowStep \/ Stopped \/ \E f \in Fires : TaskStep(f)

FairSpec == Spec /\ WF_vars(OwnStep)

-----------------------------------------------------------------------------
(* Properties.                                                             *)

\* A pending fire is that of the current time of a job that is still scheduled: a job
\* has one of them at most, and nothing moves the job on or drops it under its fire
\* (JobStore.start_fire, settle, cancel, recover).
PendingIsCurrent ==
  \A f \in Fires : file.fires[f] = "pending" =>
    file.jobs[f[1]].is = "on" /\ file.jobs[f[1]].at = f[2]

\* What the file says of a fire is true of its delivery, whatever process settled it:
\* a delivered one has reached its address, a failed one is not a delivered message
\* (SchedulerRuntime._fire, JobStore.settle).
FiresAreHonest ==
  \A f \in Fires :
    /\ file.fires[f] = "delivered" => state[f] = "delivered" /\ effects[f] = 1
    /\ file.fires[f] = "failed" => state[f] \in {"none", "rejected", "failed"}

\* A job that is still listed has counted each of its deliveries once, although the
\* delivery, the fire and the job are saved by different owners and a crash may come
\* between them (JobStore.settle).
CountsAreDeliveries ==
  \A j \in Jobs : file.jobs[j].is \in {"on", "off"} =>
    file.jobs[j].count = Cardinality({f \in Fires : f[1] = j /\ file.fires[f] = "delivered"})

\* Once the cancel tool has returned, whoever still works on a cancelled fire has been
\* cancelled: the follower's view may be older than the cancellation, but a task it
\* starts later finds the fire cancelled. A write or a send that was handed over before
\* may still finish (cancel_fires, SchedulerRuntime._fire).
Withdrawn(f) == file.fires[f] = "cancelled" /\ cancel[f[1]] = "done"
Sending == {"compose", "prepare", "send", "settle"}

WithdrawnIsTold == \A f \in Fires : Withdrawn(f) /\ task[f].st \in Sending => task[f].cut

\* What was settled or cancelled stays so: a task that finishes behind a cancellation
\* or a task of an earlier process does not change what the user was told
\* (JobStore.settle, JobStore.cancel).
FiresSettleOnce ==
  [][\A f \in Fires : file.fires[f] \notin {"none", "pending"} => file'.fires[f] = file.fires[f]]_vars

\* A time that has come does not get lost, whatever races with the follower's reading.
\* It is recorded as a fire, or its job was cancelled, or a boot came too late for it: a
\* recurring job has gone on to a later time, a single one is out of its grace. Only a
\* boot passes over a time, so what comes while the follower runs on is recorded. And a
\* fire that was recorded is settled or cancelled in the end, or its failure was logged
\* in this process (SchedulerRuntime.follow, JobStore.recover).
OnAt(f) == file.jobs[f[1]].is = "on" /\ file.jobs[f[1]].at = f[2]
HasCome(f) == OnAt(f) /\ f[2] <= now
Recorded(f) == file.fires[f] # "none" \/ file.jobs[f[1]].is = "gone"
Missed(f) ==
  LET r == file.jobs[f[1]] IN
  IF r.recurring THEN r.at > f[2] ELSE r.is = "off" /\ now > f[2] + Grace

DueIsFired ==
  /\ [][\A f \in Fires :
          OnAt(f) /\ ~Recorded(f) /\ ~OnAt(f)' => Recorded(f)' \/ (follow.at = "boot" /\ Missed(f)')]_vars
  /\ \A f \in Fires :
       /\ HasCome(f) ~> (Recorded(f) \/ Missed(f))
       /\ []<>(file.fires[f] # "pending" \/ f \in logged)

\* The task of a cancelled fire closes its round "so unfinished tool calls cannot block
\* later session compaction" (src/plugins/scheduler/runtime.py:122) and withdraws its
\* message if it was not started, unless an exception was logged.
CleanedUp(f) == log[f] # "begun" /\ state[f] # "prepared"

CancelledIsCleanedUp == \A f \in Fires : file.fires[f] = "cancelled" ~> [](CleanedUp(f) \/ f \in logged)

=============================================================================
