--------------------------- MODULE SchedulerProofs ---------------------------
(***************************************************************************)
(* Theorems about Scheduler, for any jobs, any clock and any number of     *)
(* disturbances.  First the type invariant; then the schedule file: the    *)
(* pending fire of a job and the count of its deliveries; last, fire by    *)
(* fire, how the file, the task, the messages and the delivery agree.      *)
(***************************************************************************)
EXTENDS Scheduler, FiniteSetTheorems, TLAPS

-----------------------------------------------------------------------------
(* Records.                                                                *)

LEMMA Numbers == Horizon \in Nat /\ Limit \in Nat /\ Grace \in Nat
  BY SchedulerAssumption

LEMMA FireParts ==
  ASSUME NEW f \in Fires
  PROVE  f[1] \in Jobs /\ f[2] \in 0..Horizon /\ f = <<f[1], f[2]>>
  BY DEF Fires

LEMMA FireMade ==
  ASSUME NEW j \in Jobs, NEW at \in 0..Horizon
  PROVE  <<j, at>> \in Fires
  BY DEF Fires

LEMMA AdvanceBounded ==
  ASSUME NEW at \in 0..Horizon, NEW after \in 0..Horizon
  PROVE  Advance(at, after) \in 0..Horizon + Interval
  <1>1. CASE after > at
    <2> DEFINE q == (after - at) \div Interval
    <2>1. q \in Nat /\ q * Interval <= after - at
      BY <1>1, SchedulerAssumption
    <2>2. Advance(at, after) = at + (q + 1) * Interval
      BY <1>1 DEF Advance
    <2>3. (q + 1) * Interval = q * Interval + Interval
      BY <2>1, SchedulerAssumption
    <2> QED BY <2>1, <2>2, <2>3, SchedulerAssumption
  <1>2. CASE ~(after > at)
    <2>1. Advance(at, after) = at + (0 + 1) * Interval
      BY <1>2 DEF Advance
    <2> QED BY <2>1, SchedulerAssumption
  <1> QED BY <1>1, <1>2

LEMMA JobMoved ==
  ASSUME NEW r \in Job, NEW is \in {"none", "on", "off", "gone"},
         NEW at \in 0..Horizon + Interval, NEW count \in Nat
  PROVE  /\ [r EXCEPT !.is = is] \in Job /\ [r EXCEPT !.at = at] \in Job
         /\ [r EXCEPT !.at = at, !.count = count] \in Job
         /\ [r EXCEPT !.is = is, !.count = count] \in Job
         /\ [r EXCEPT !.is = is].is = is /\ [r EXCEPT !.at = at].is = r.is
         /\ [r EXCEPT !.at = at, !.count = count].is = r.is
         /\ [r EXCEPT !.is = is, !.count = count].is = is
         /\ [r EXCEPT !.at = at, !.count = count].count = count
         /\ [r EXCEPT !.is = is, !.count = count].count = count
         /\ [r EXCEPT !.is = is].count = r.count /\ [r EXCEPT !.at = at].count = r.count
  BY DEF Job

LEMMA JobFields ==
  ASSUME NEW r \in Job
  PROVE  /\ r.is \in {"none", "on", "off", "gone"} /\ r.at \in 0..Horizon + Interval
         /\ r.count \in Nat /\ r.recurring \in BOOLEAN /\ r.runs \in BOOLEAN
  BY DEF Job

LEMMA FileFields ==
  ASSUME NEW f \in File
  PROVE  /\ f.jobs \in [Jobs -> Job] /\ f.fires \in [Fires -> FireStatus]
         /\ f = [jobs |-> f.jobs, fires |-> f.fires]
  BY DEF File

LEMMA FileMade ==
  ASSUME NEW jobs \in [Jobs -> Job], NEW fires \in [Fires -> FireStatus]
  PROVE  [jobs |-> jobs, fires |-> fires] \in File
  BY DEF File

LEMMA TaskSet ==
  ASSUME NEW t \in Task, NEW st \in Stages
  PROVE  /\ [t EXCEPT !.st = st] \in Task
         /\ [t EXCEPT !.st = st].st = st /\ [t EXCEPT !.st = st].cut = t.cut
         /\ [t EXCEPT !.st = st].outcome = t.outcome
  BY DEF Task

LEMMA TaskCut ==
  ASSUME NEW t \in Task
  PROVE  /\ [t EXCEPT !.cut = TRUE] \in Task
         /\ [t EXCEPT !.cut = TRUE].st = t.st /\ [t EXCEPT !.cut = TRUE].cut = TRUE
         /\ [t EXCEPT !.cut = TRUE].outcome = t.outcome
  BY DEF Task

LEMMA TaskSettles ==
  ASSUME NEW t \in Task, NEW outcome \in {"delivered", "failed"}
  PROVE  /\ [t EXCEPT !.st = "settle", !.outcome = outcome] \in Task
         /\ [t EXCEPT !.st = "settle", !.outcome = outcome].st = "settle"
         /\ [t EXCEPT !.st = "settle", !.outcome = outcome].outcome = outcome
         /\ [t EXCEPT !.st = "settle", !.outcome = outcome].cut = t.cut
  BY DEF Task, Stages

LEMMA TaskFields ==
  ASSUME NEW t \in Task
  PROVE  t.st \in Stages /\ t.cut \in BOOLEAN /\ t.outcome \in {"none", "delivered", "failed"}
  BY DEF Task

LEMMA FreeTasks ==
  /\ Free \in Task /\ Free.st = "free" /\ Free.cut = FALSE
  /\ [Free EXCEPT !.st = "new"] \in Task /\ [Free EXCEPT !.st = "new"].st = "new"
  BY DEF Free, Task, Stages

Stops == {"boot", "timer", "read", "starts", "again", "jobs", "due", "stopping"}

LEMMA FollowAt ==
  ASSUME NEW fl \in Follow, NEW at \in Stops
  PROVE  [fl EXCEPT !.at = at] \in Follow /\ [fl EXCEPT !.at = at].at = at
  BY DEF Follow, Stops

LEMMA FollowTodo ==
  ASSUME NEW fl \in Follow, NEW todo \in SUBSET Fires
  PROVE  /\ [fl EXCEPT !.todo = todo] \in Follow /\ [fl EXCEPT !.todo = todo].at = fl.at
         /\ [fl EXCEPT !.todo = todo].view = fl.view /\ [fl EXCEPT !.todo = todo].todo = todo
  BY DEF Follow

LEMMA FollowWaits ==
  ASSUME NEW fl \in Follow, NEW waiting \in SUBSET Fires
  PROVE  [fl EXCEPT !.waiting = waiting] \in Follow
  BY DEF Follow

LEMMA FollowGoes ==
  ASSUME NEW fl \in Follow, NEW at \in Stops, NEW todo \in SUBSET Fires
  PROVE  /\ [fl EXCEPT !.at = at, !.todo = todo] \in Follow
         /\ [fl EXCEPT !.at = at, !.todo = todo].at = at
  BY DEF Follow, Stops

LEMMA FollowFields ==
  ASSUME NEW fl \in Follow
  PROVE  /\ fl.at \in {"boot", "timer", "read", "starts", "again", "jobs", "due", "stopping"}
         /\ fl.view \in File /\ fl.todo \in SUBSET Fires /\ fl.waiting \in SUBSET Fires
         /\ fl.got \in SUBSET Fires
  BY DEF Follow

LEMMA EmptyFile == NoFile \in File /\ NoJob \in Job
  <1>1. NoJob \in Job
    BY SchedulerAssumption DEF NoJob, Job
  <1>2. [j \in Jobs |-> NoJob] \in [Jobs -> Job] /\ [f \in Fires |-> "none"] \in [Fires -> FireStatus]
    BY <1>1 DEF FireStatus
  <1> QED BY <1>1, <1>2, FileMade DEF NoFile

LEMMA BootingFollows == Booting \in Follow
  BY EmptyFile DEF Booting, Follow

-----------------------------------------------------------------------------
(* Type correctness.                                                       *)

LEMMA DueTyped ==
  ASSUME NEW view, NEW done
  PROVE  DueFires(view, done) \in SUBSET Fires /\ Cancelled(view, done) \in SUBSET Fires
  BY DEF DueFires, Cancelled

LEMMA ToJobsTyped ==
  ASSUME NEW fl \in Follow, NEW done
  PROVE  ToJobs(fl, done) \in Follow /\ ToJobs(fl, done).at # "starts"
  <1> DEFINE due == DueFires(fl.view, done)
             left == {f \in fl.waiting : <<f, "cancelled">> \notin done}
             at == IF due = {} THEN "timer" ELSE "jobs"
  <1>1. due \in SUBSET Fires /\ left \in SUBSET Fires /\ fl.view \in File /\ fl.got \in SUBSET Fires
    BY DueTyped, FollowFields
  <1>2. ToJobs(fl, done) = [fl EXCEPT !.at = at, !.todo = due, !.waiting = left]
    BY DEF ToJobs
  <1>3. at \in Stops /\ at # "starts"
    BY DEF Stops
  <1> DEFINE next == ToJobs(fl, done)
  <1> HIDE DEF due, left, at, next
  <1>4. next = [fl EXCEPT !.at = at, !.todo = due, !.waiting = left]
    BY <1>2 DEF next
  <1>5. next \in Follow /\ next.at = at
    BY <1>1, <1>3, <1>4 DEF Follow, Stops
  <1> QED BY <1>3, <1>5 DEF next

LEMMA ToAgainTyped ==
  ASSUME NEW fl \in Follow, NEW done
  PROVE  ToAgain(fl, done) \in Follow /\ ToAgain(fl, done).at # "starts"
  <1>1. CASE fl.waiting = {}
    BY <1>1, ToJobsTyped DEF ToAgain
  <1>2. CASE fl.waiting # {}
    <2>1. fl.waiting \in SUBSET Fires
      BY FollowFields
    <2>2. /\ [fl EXCEPT !.at = "again", !.todo = fl.waiting] \in Follow
          /\ [fl EXCEPT !.at = "again", !.todo = fl.waiting].at = "again"
      <3>1. "again" \in Stops
        BY DEF Stops
      <3> QED BY <2>1, <3>1, FollowGoes
    <2> QED BY <1>2, <2>2 DEF ToAgain
  <1> QED BY <1>1, <1>2

\* What the first stage of a pass goes through was pending or cancelled when read.
Seen(fl) ==
  fl.at = "starts" => \A f \in fl.todo : fl.view.fires[f] \in {"pending", "cancelled"}

\* A pass comes to its end only from one of its stages.
LEMMA OnwardTyped ==
  ASSUME NEW fl \in Follow, NEW done, fl.at \in {"starts", "again", "jobs"}, Seen(fl)
  PROVE  Onward(fl, done) \in Follow /\ Seen(Onward(fl, done))
  <1>1. CASE fl.todo # {}
    BY <1>1 DEF Onward
  <1>2. CASE fl.todo = {} /\ fl.at = "starts"
    <2> DEFINE cancelled == Cancelled(fl.view, done)
    <2>1. cancelled \in SUBSET Fires
      BY DueTyped
    <2>2. [fl EXCEPT !.waiting = cancelled] \in Follow
      BY <2>1, FollowWaits
    <2>3. Onward(fl, done) = ToAgain([fl EXCEPT !.waiting = cancelled], done)
      BY <1>2 DEF Onward
    <2> DEFINE next == [fl EXCEPT !.waiting = cancelled]
    <2>4. next \in Follow /\ Onward(fl, done) = ToAgain(next, done)
      BY <2>2, <2>3
    <2> HIDE DEF cancelled, next
    <2> QED BY <2>4, ToAgainTyped DEF Seen
  <1>3. CASE fl.todo = {} /\ fl.at = "again"
    BY <1>3, ToJobsTyped DEF Onward, Seen
  <1>4. CASE fl.todo = {} /\ fl.at = "jobs"
    BY <1>4, FollowAt DEF Onward, Stops, Seen
  <1> QED BY <1>1, <1>2, <1>3, <1>4

LEMMA ShorterTyped ==
  ASSUME NEW fl \in Follow, NEW done, NEW f, fl.at \in {"starts", "again", "jobs"}, Seen(fl)
  PROVE  /\ Onward([fl EXCEPT !.todo = @ \ {f}], done) \in Follow
         /\ Seen(Onward([fl EXCEPT !.todo = @ \ {f}], done))
  <1> DEFINE rest == fl.todo \ {f}
  <1>1. rest \in SUBSET Fires
    BY FollowFields
  <1> DEFINE next == [fl EXCEPT !.todo = rest]
  <1>2. next \in Follow /\ next.at = fl.at /\ next.view = fl.view /\ next.todo = rest
    BY <1>1, FollowTodo
  <1> HIDE DEF next
  <1>3. Seen(next)
    BY <1>2 DEF Seen
  <1>4. Onward(next, done) \in Follow /\ Seen(Onward(next, done))
    BY <1>2, <1>3, OnwardTyped
  <1> QED BY <1>4 DEF next

LEMMA ChangeTyped ==
  ASSUME NEW jobs \in [Jobs -> Job], NEW fires \in [Fires -> FireStatus],
         TypeOK, Change(jobs, fires)
  PROVE  file' \in File /\ stale' \in BOOLEAN
  BY FileMade DEF Change, TypeOK

LEMMA AdmitTyped ==
  ASSUME TypeOK, NEW f \in Fires, NEW status \in {"pending", "cancelled"}, Admit(f, status)
  PROVE  /\ attempted' \subseteq Fires \X {"pending", "cancelled"} /\ active' \subseteq Fires
         /\ task' \in [Fires -> Task] /\ logged' \subseteq Fires
  <1>1. CASE task[f].st = "free"
    <2>1. task' = [task EXCEPT ![f] = [Free EXCEPT !.st = "new"]]
      BY <1>1 DEF Admit
    <2>2. task' \in [Fires -> Task]
      BY <2>1, FreeTasks DEF TypeOK
    <2> QED BY <1>1, <2>2 DEF Admit, TypeOK
  <1>2. CASE task[f].st # "free"
    BY <1>2 DEF Admit, TypeOK, memory
  <1> QED BY <1>1, <1>2

LEMMA SettledTyped ==
  ASSUME TypeOK, NEW j \in Jobs, NEW at \in 0..Horizon, NEW outcome \in {"none", "delivered", "failed"},
         file.jobs[j].at = at
  PROVE  SettledJob(j, at, outcome) \in Job
  <1> DEFINE r == file.jobs[j]
             count == r.count + (IF outcome = "delivered" THEN 1 ELSE 0)
  <1>1. r \in Job
    BY FileFields DEF TypeOK
  <1>2. r.count \in Nat /\ r.at = at
    BY <1>1, JobFields
  <1>3. count \in Nat
    BY <1>2
  <1>4. Later(now, r.at) \in 0..Horizon
    BY <1>2 DEF Later, TypeOK
  <1>5. Advance(r.at, Later(now, r.at)) \in 0..Horizon + Interval
    BY <1>2, <1>4, AdvanceBounded
  <1>6. /\ [r EXCEPT !.at = Advance(r.at, Later(now, r.at)), !.count = count] \in Job
        /\ [r EXCEPT !.is = "off", !.count = count] \in Job
    <2> DEFINE next == Advance(r.at, Later(now, r.at))
    <2>1. next \in 0..Horizon + Interval
      BY <1>5
    <2> HIDE DEF r, count, next
    <2>2. [r EXCEPT !.at = next, !.count = count] \in Job
      BY <1>1, <1>3, <2>1, JobMoved
    <2>3. [r EXCEPT !.is = "off", !.count = count] \in Job
      BY <1>1, <1>3, <2>1, JobMoved
    <2> QED BY <2>2, <2>3 DEF next
  <1> QED BY <1>6 DEF SettledJob

LEMMA SettleTyped ==
  ASSUME TypeOK, NEW f \in Fires, NEW outcome \in {"none", "delivered", "failed"},
         SettleFire(f[1], f[2], outcome)
  PROVE  file' \in File /\ stale' \in BOOLEAN
  <1> DEFINE j == f[1]
             at == f[2]
  <1>1. j \in Jobs /\ at \in 0..Horizon /\ <<j, at>> \in Fires
    BY FireParts, FireMade
  <1>2. CASE file.fires[<<j, at>>] # "pending"
    BY <1>2 DEF SettleFire, TypeOK
  <1>3. CASE file.fires[<<j, at>>] = "pending"
    <2> DEFINE jobs == IF StillCurrent(j, at)
                       THEN [file.jobs EXCEPT ![j] = SettledJob(j, at, outcome)] ELSE file.jobs
               fires == [file.fires EXCEPT ![<<j, at>>] = outcome]
    <2>1. file.jobs \in [Jobs -> Job] /\ file.fires \in [Fires -> FireStatus]
      BY FileFields DEF TypeOK
    <2>2. jobs \in [Jobs -> Job]
      BY <1>1, <2>1, SettledTyped DEF StillCurrent
    <2>3. fires \in [Fires -> FireStatus]
      BY <1>1, <2>1 DEF FireStatus
    <2>4. Change(jobs, fires)
      BY <1>3 DEF SettleFire
    <2> HIDE DEF jobs, fires
    <2> QED BY <2>2, <2>3, <2>4, ChangeTyped
  <1> QED BY <1>2, <1>3

-----------------------------------------------------------------------------
(* What a step of a task does to the slots.                                *)

\* Only the task of f moves, and what it carries stays.
Moves(f, st) ==
  /\ task' \in [Fires -> Task] /\ active' \subseteq Fires
  /\ task'[f].st = st /\ task'[f].cut = task[f].cut /\ task'[f].outcome = task[f].outcome
  /\ \A e \in Fires : e # f => task'[e] = task[e]

LEMMA TaskMoved ==
  ASSUME TypeOK, NEW f \in Fires, NEW st \in Stages, active' \subseteq Fires,
         task' = [task EXCEPT ![f].st = st]
  PROVE  Moves(f, st)
  <1> DEFINE t == task[f]
             next == [t EXCEPT !.st = st]
  <1>1. task \in [Fires -> Task] /\ t \in Task
    BY DEF TypeOK
  <1>2. next \in Task /\ next.st = st /\ next.cut = t.cut /\ next.outcome = t.outcome
    <2> HIDE DEF t
    <2> QED BY <1>1, TaskSet
  <1>3. task' = [task EXCEPT ![f] = next]
    OBVIOUS
  <1> HIDE DEF next
  <1>4. task' \in [Fires -> Task] /\ task'[f] = next /\ \A e \in Fires : e # f => task'[e] = task[e]
    BY <1>1, <1>2, <1>3
  <1> QED BY <1>2, <1>4 DEF Moves

LEMMA StagesAre ==
  Stages = {"free", "new", "read", "compose", "prepare", "send", "reread",
            "withdraw", "settle", "clean", "closing"}
  BY DEF Stages

LEMMA GotoMoves ==
  ASSUME TypeOK, NEW f \in Fires, NEW st \in Stages, Goto(f, st)
  PROVE  Moves(f, st)
  BY TaskMoved DEF Goto, TypeOK

LEMMA EndMoves ==
  ASSUME TypeOK, NEW f \in Fires, End(f)
  PROVE  Moves(f, "closing")
  <1>1. active' \subseteq Fires
    BY DEF End, TypeOK
  <1> QED BY <1>1, TaskMoved, StagesAre DEF End

LEMMA ThenMoves ==
  ASSUME TypeOK, NEW f \in Fires, NEW st \in Stages, Then(f, st)
  PROVE  IF task[f].cut THEN Moves(f, "closing") ELSE Moves(f, st)
  BY GotoMoves, EndMoves DEF Then

\* The task goes to settle an outcome.
Concludes(f, outcome) ==
  /\ task' \in [Fires -> Task]
  /\ task'[f].st = "settle" /\ task'[f].cut = task[f].cut /\ task'[f].outcome = outcome
  /\ \A e \in Fires : e # f => task'[e] = task[e]

LEMMA TaskConcluded ==
  ASSUME TypeOK, NEW f \in Fires, NEW outcome \in {"delivered", "failed"},
         task' = [task EXCEPT ![f].st = "settle", ![f].outcome = outcome]
  PROVE  Concludes(f, outcome)
  <1> DEFINE t == task[f]
             next == [t EXCEPT !.st = "settle", !.outcome = outcome]
  <1>1. task \in [Fires -> Task] /\ t \in Task
    BY DEF TypeOK
  <1>2. next \in Task /\ next.st = "settle" /\ next.cut = t.cut /\ next.outcome = outcome
    <2> HIDE DEF t
    <2> QED BY <1>1, TaskSettles
  <1>3. task' = [task EXCEPT ![f] = next]
    BY <1>1
  <1> HIDE DEF next
  <1>4. task' \in [Fires -> Task] /\ task'[f] = next /\ \A e \in Fires : e # f => task'[e] = task[e]
    BY <1>1, <1>2, <1>3
  <1> QED BY <1>2, <1>4 DEF Concludes

LEMMA CutIs ==
  ASSUME TypeOK, NEW f \in Fires
  PROVE  /\ Cut(f) \in Task /\ Cut(f).st = task[f].st /\ Cut(f).outcome = task[f].outcome
         /\ task[f].cut => Cut(f).cut
         /\ task[f].st \notin {"free", "closing"} => Cut(f).cut
  <1> DEFINE t == task[f]
  <1>1. t \in Task
    BY DEF TypeOK
  <1>2. Cut(f) = IF t.st \in {"free", "closing"} THEN t ELSE [t EXCEPT !.cut = TRUE]
    BY DEF Cut
  <1> HIDE DEF t
  <1>3. /\ Cut(f) \in Task /\ Cut(f).st = t.st /\ Cut(f).outcome = t.outcome
        /\ t.cut => Cut(f).cut
        /\ t.st \notin {"free", "closing"} => Cut(f).cut
    BY <1>1, <1>2, TaskCut
  <1> QED BY <1>3 DEF t

-----------------------------------------------------------------------------
(* The delivery of a fire.                                                 *)

Settles(f) == \E outcome \in {"delivered", "rejected", "failed"} : P!PSettle(f, outcome)

Delivers(f) ==
  \/ P!PPrepare(f) \/ P!PWithdraw(f) \/ P!PStart(f) \/ P!PEffect(f) \/ Settles(f)
  \/ UNCHANGED delivery

LEMMA DeliversTyped ==
  ASSUME TypeOK, NEW f \in Fires, Delivers(f)
  PROVE  P!PromiseTypeOK' /\ \A e \in Fires : e # f => state'[e] = state[e] /\ effects'[e] = effects[e]
  <1>1. ASSUME NEW from, NEW to \in P!States, P!Become(f, from, to)
        PROVE  P!PromiseTypeOK' /\ \A e \in Fires : e # f => state'[e] = state[e] /\ effects'[e] = effects[e]
    BY <1>1 DEF P!Become, P!PromiseTypeOK, TypeOK
  <1>2. CASE P!PEffect(f)
    BY <1>2 DEF P!PEffect, P!PromiseTypeOK, TypeOK
  <1>3. CASE UNCHANGED delivery
    BY <1>3 DEF delivery, P!PromiseTypeOK, TypeOK
  <1>4. CASE P!PPrepare(f)
    BY <1>1, <1>4 DEF P!PPrepare, P!States
  <1>5. CASE P!PWithdraw(f)
    BY <1>1, <1>5 DEF P!PWithdraw, P!States
  <1>6. CASE P!PStart(f)
    BY <1>1, <1>6 DEF P!PStart, P!States
  <1>7. CASE Settles(f)
    BY <1>1, <1>7 DEF Settles, P!PSettle, P!States
  <1> QED BY <1>2, <1>3, <1>4, <1>5, <1>6, <1>7 DEF Delivers

-----------------------------------------------------------------------------
(* Type correctness, step by step.                                         *)

TInv == TypeOK /\ Seen(follow)

LEMMA FollowKeepsType ==
  ASSUME TInv, FollowStep
  PROVE  TInv'
  <1> USE DEF delivery, memory
  <1>0. follow \in Follow /\ file \in File /\ TypeOK /\ Seen(follow)
    BY DEF TypeOK, TInv
  <1>1. CASE Boot
    <2>1. \A j \in Jobs : Recovered(j) \in Job
      <3> TAKE j \in Jobs
      <3> DEFINE r == file.jobs[j]
                 next == Advance(r.at, now)
      <3>1. r \in Job /\ now \in 0..Horizon
        BY <1>0, FileFields DEF TypeOK
      <3>2. CASE r.at <= now
        <4>1. r.at \in 0..Horizon
          BY <3>1, <3>2, JobFields, SchedulerAssumption
        <4>2. next \in 0..Horizon + Interval
          BY <3>1, <4>1, AdvanceBounded
        <4>3. [r EXCEPT !.at = next] \in Job /\ [r EXCEPT !.is = "off"] \in Job
          <5> HIDE DEF r, next
          <5>1. [r EXCEPT !.at = next] \in Job
            BY <3>1, <4>2, JobFields, JobMoved
          <5>2. [r EXCEPT !.is = "off"] \in Job
            BY <3>1, <4>2, JobFields, JobMoved
          <5> QED BY <5>1, <5>2
        <4>4. Recovered(j) \in {r, [r EXCEPT !.at = next], [r EXCEPT !.is = "off"]}
          BY DEF Recovered
        <4> QED BY <3>1, <4>3, <4>4
      <3>3. CASE ~(r.at <= now)
        <4>1. Recovered(j) = r
          BY <3>3 DEF Recovered, Due
        <4> QED BY <3>1, <4>1
      <3> QED BY <3>2, <3>3
    <2> DEFINE jobs == [j \in Jobs |-> Recovered(j)]
    <2>2. jobs \in [Jobs -> Job]
      BY <2>1
    <2> HIDE DEF jobs
    <2>3. [file EXCEPT !.jobs = jobs] \in File
      BY <1>0, <2>2 DEF File
    <2>4. [follow EXCEPT !.at = "timer"] \in Follow /\ [follow EXCEPT !.at = "timer"].at = "timer"
      BY <1>0, FollowAt DEF Stops
    <2>5. file' \in File /\ follow' \in Follow /\ follow'.at = "timer"
      BY <1>1, <2>3, <2>4 DEF Boot, jobs
    <2> QED BY <1>1, <2>5 DEF Boot, TypeOK, TInv, Seen, P!PromiseTypeOK
  <1>2. CASE Tick
    <2>1. [follow EXCEPT !.at = "read"] \in Follow /\ [follow EXCEPT !.at = "read"].at = "read"
      BY <1>0, FollowAt DEF Stops
    <2>2. follow' \in Follow /\ follow'.at # "starts" /\ stale' \in BOOLEAN
      BY <1>0, <1>2, <2>1, ToAgainTyped DEF Tick
    <2> QED BY <1>2, <2>2 DEF Tick, FollowOnly, TypeOK, TInv, Seen, P!PromiseTypeOK
  <1>3. CASE Read
    <2> DEFINE unseen == {f \in Fires : /\ file.fires[f] \in {"pending", "cancelled"}
                                        /\ <<f, file.fires[f]>> \notin attempted}
               next == [follow EXCEPT !.at = "starts", !.view = file, !.todo = unseen]
    <2>1. unseen \in SUBSET Fires
      OBVIOUS
    <2> HIDE DEF unseen
    <2>2. next = [follow EXCEPT !.at = "starts", !.view = file, !.todo = unseen]
      OBVIOUS
    <2>3. follow' = Onward(next, attempted)
      BY <1>3 DEF Read, unseen
    <2> HIDE DEF next
    <2>4. next \in Follow /\ next.at = "starts" /\ next.view = file /\ next.todo = unseen
      <3>1. "starts" \in Stops
        BY DEF Stops
      <3> QED BY <1>0, <2>1, <2>2, <3>1 DEF Follow, Stops
    <2>5. Seen(next)
      BY <2>4 DEF Seen, unseen
    <2>6. follow' \in Follow /\ Seen(follow')
      BY <2>3, <2>4, <2>5, OnwardTyped
    <2> QED BY <1>3, <2>6 DEF Read, FollowOnly, TypeOK, TInv, P!PromiseTypeOK
  <1>4. ASSUME NEW f \in Fires, StartOne(f) \/ StartAgain(f)
        PROVE  TInv'
    <2>1. follow.at \in {"starts", "again"}
      BY <1>4 DEF StartOne, StartAgain
    <2>2. follow' = Onward([follow EXCEPT !.todo = @ \ {f}], attempted')
      BY <1>4 DEF StartOne, StartAgain
    <2>3. follow' \in Follow /\ Seen(follow')
      BY <1>0, <2>1, <2>2, ShorterTyped
    <2>4. CASE UNCHANGED memory /\ FollowOnly /\ UNCHANGED stale
      BY <1>0, <2>3, <2>4 DEF FollowOnly, TypeOK, TInv, P!PromiseTypeOK
    <2>5. ASSUME NEW status \in {"pending", "cancelled"}, Admit(f, status), FollowOnly,
                 UNCHANGED stale
          PROVE  TInv'
      <3>1. /\ attempted' \subseteq Fires \X {"pending", "cancelled"} /\ active' \subseteq Fires
            /\ task' \in [Fires -> Task] /\ logged' \subseteq Fires
        BY <1>0, <2>5, AdmitTyped
      <3> QED BY <1>0, <2>3, <2>5, <3>1 DEF FollowOnly, TypeOK, TInv, P!PromiseTypeOK
    <2>6. CASE StartAgain(f)
      BY <2>4, <2>5, <2>6 DEF StartAgain
    <2>7. CASE StartOne(f)
      <3>1. follow.view.fires[f] \in {"pending", "cancelled"}
        BY <1>0, <2>7 DEF StartOne, Seen
      <3> QED BY <2>5, <2>7, <3>1 DEF StartOne
    <2> QED BY <1>4, <2>6, <2>7
  <1>5. ASSUME NEW f \in Fires, RecordFire(f)
        PROVE  TInv'
    <2>1. CASE StartsFire(f[1], f[2])
      <3> DEFINE rest == follow.todo \ {f}
                 got == {f}
                 next == [follow EXCEPT !.at = "due", !.todo = rest, !.got = got]
      <3>1. rest \in SUBSET Fires /\ got \in SUBSET Fires
        BY <1>0, <1>5, FollowFields
      <3>2. next \in Follow /\ next.at = "due"
        <4> HIDE DEF rest, got
        <4>1. "due" \in Stops
          BY DEF Stops
        <4>2. next = [follow EXCEPT !.at = "due", !.todo = rest, !.got = got]
          OBVIOUS
        <4> HIDE DEF next
        <4> QED BY <1>0, <3>1, <4>1, <4>2 DEF Follow, Stops
      <3>3. follow' = next
        BY <1>5, <2>1 DEF RecordFire
      <3> DEFINE fires == [file.fires EXCEPT ![f] = "pending"]
      <3>4. file.jobs \in [Jobs -> Job] /\ fires \in [Fires -> FireStatus]
        BY <1>0, FileFields DEF FireStatus
      <3>5. Change(file.jobs, fires)
        BY <1>5, <2>1 DEF RecordFire
      <3> HIDE DEF next, fires
      <3>6. file' \in File /\ stale' \in BOOLEAN
        BY <1>0, <3>4, <3>5, ChangeTyped
      <3> QED BY <1>0, <1>5, <3>2, <3>3, <3>6 DEF RecordFire, TypeOK, TInv, P!PromiseTypeOK, Seen
    <2>2. CASE ~StartsFire(f[1], f[2])
      <3>1. follow' = Onward([follow EXCEPT !.todo = @ \ {f}], attempted) /\ follow.at = "jobs"
        BY <1>5, <2>2 DEF RecordFire
      <3>2. follow' \in Follow /\ Seen(follow')
        BY <1>0, <3>1, ShorterTyped
      <3> QED BY <1>0, <1>5, <2>2, <3>2 DEF RecordFire, TypeOK, TInv, P!PromiseTypeOK
    <2> QED BY <2>1, <2>2
  <1>6. ASSUME NEW f \in Fires, StartDue(f)
        PROVE  TInv'
    <2> DEFINE next == [follow EXCEPT !.at = "jobs", !.got = {}]
    <2>1. next \in Follow /\ next.at = "jobs"
      <3>1. "jobs" \in Stops
        BY DEF Stops
      <3>2. next = [follow EXCEPT !.at = "jobs", !.got = {}]
        OBVIOUS
      <3> HIDE DEF next
      <3> QED BY <1>0, <3>1, <3>2 DEF Follow, Stops
    <2>2. follow' = Onward(next, attempted') /\ Admit(f, "pending")
      BY <1>6 DEF StartDue
    <2> HIDE DEF next
    <2>3. follow' \in Follow /\ Seen(follow')
      BY <2>1, <2>2, OnwardTyped DEF Seen
    <2>4. /\ attempted' \subseteq Fires \X {"pending", "cancelled"} /\ active' \subseteq Fires
          /\ task' \in [Fires -> Task] /\ logged' \subseteq Fires
      BY <1>0, <2>2, AdmitTyped
    <2> QED BY <1>0, <1>6, <2>3, <2>4 DEF StartDue, FollowOnly, TypeOK, TInv, P!PromiseTypeOK
  <1> QED BY <1>1, <1>2, <1>3, <1>4, <1>5, <1>6 DEF FollowStep

\* The steps of a task: what they do to the file is a settlement or nothing.
LEMMA TaskKeepsType ==
  ASSUME TypeOK, NEW f \in Fires, TaskStep(f) \/ Error(f)
  PROVE  TypeOK'
  <1> USE DEF delivery, memory, TaskOnly
  <1> DEFINE Typed == task' \in [Fires -> Task] /\ active' \subseteq Fires
             FileTyped == file' \in File /\ stale' \in BOOLEAN
  <1>1. ASSUME Typed, FileTyped, logged' \subseteq Fires, P!PromiseTypeOK', TaskOnly,
               log' \in [Fires -> {"none", "begun", "output", "failure", "abandoned"}]
        PROVE  TypeOK'
    BY <1>1 DEF TypeOK
  <1>2. ASSUME UNCHANGED <<file, stale>> PROVE FileTyped
    BY <1>2 DEF TypeOK
  <1>3. ASSUME NEW st \in Stages, Goto(f, st) \/ Then(f, st) \/ End(f) PROVE Typed
    BY <1>3, GotoMoves, EndMoves, ThenMoves DEF Moves
  <1>4. ASSUME Delivers(f) PROVE P!PromiseTypeOK'
    BY <1>4, DeliversTyped
  <1>5. ASSUME NEW x, log' = [log EXCEPT ![f] = x],
               x \in {"none", "begun", "output", "failure", "abandoned"}
        PROVE  log' \in [Fires -> {"none", "begun", "output", "failure", "abandoned"}]
    BY <1>5 DEF TypeOK
  <1>6. ASSUME UNCHANGED <<log, logged, state, effects>>
        PROVE  /\ log' \in [Fires -> {"none", "begun", "output", "failure", "abandoned"}]
               /\ logged' \subseteq Fires /\ P!PromiseTypeOK'
    BY <1>6 DEF TypeOK, P!PromiseTypeOK
  <1> HIDE DEF Typed, FileTyped
  <1>7. CASE Begin(f)
    <2>1. Typed
      BY <1>3, <1>7, StagesAre DEF Begin
    <2> QED BY <1>1, <1>2, <1>6, <1>7, <2>1 DEF Begin
  <1>8. CASE ReadFire(f)
    <2>1. Typed
      BY <1>3, <1>8, StagesAre DEF ReadFire
    <2> QED BY <1>1, <1>2, <1>6, <1>8, <2>1 DEF ReadFire
  <1>9. CASE Compose(f)
    <2>1. Typed
      BY <1>3, <1>9, StagesAre DEF Compose
    <2>2. log' \in [Fires -> {"none", "begun", "output", "failure", "abandoned"}]
      BY <1>5, <1>9 DEF Compose, TypeOK
    <2> QED BY <1>1, <1>2, <1>9, <2>1, <2>2 DEF Compose, TypeOK, P!PromiseTypeOK
  <1>10. CASE Fails(f)
    <2>1. CASE task[f].cut
      <3>1. Typed
        BY <1>3, <1>10, <2>1, StagesAre DEF Fails
      <3> QED BY <1>10, <3>1 DEF Fails, Typed, TypeOK, P!PromiseTypeOK
    <2>2. CASE ~task[f].cut
      <3>1. Concludes(f, "failed")
        BY <1>10, <2>2, TaskConcluded DEF Fails
      <3>2. Typed
        BY <1>10, <2>2, <3>1 DEF Fails, Concludes, Typed, TypeOK
      <3> QED BY <1>10, <3>2 DEF Fails, Typed, TypeOK, P!PromiseTypeOK
    <2> QED BY <2>1, <2>2
  <1>11. CASE Prepare(f)
    <2>1. Typed
      BY <1>3, <1>11, StagesAre DEF Prepare
    <2>2. P!PromiseTypeOK'
      BY <1>4, <1>11 DEF Prepare, Delivers
    <2> QED BY <1>11, <2>1, <2>2 DEF Prepare, Typed, TypeOK
  <1>12. CASE Deliver(f)
    <2>1. P!PromiseTypeOK'
      BY <1>4, <1>12 DEF Deliver, Delivers, Settles
    <2> QED BY <1>12, <2>1 DEF Deliver, TypeOK
  <1>13. CASE Sent(f)
    <2>1. Outcome(f) \in {"delivered", "failed"}
      BY DEF Outcome
    <2>2. Concludes(f, Outcome(f))
      BY <1>13, <2>1, TaskConcluded DEF Sent
    <2>3. Typed
      BY <1>13, <2>2 DEF Sent, Concludes, Typed, TypeOK
    <2> QED BY <1>1, <1>2, <1>6, <1>13, <2>3 DEF Sent
  <1>14. CASE Drained(f)
    <2>1. Typed
      BY <1>3, <1>14, StagesAre DEF Drained
    <2> QED BY <1>1, <1>2, <1>6, <1>14, <2>1 DEF Drained
  <1>15. CASE Reread(f)
    <2>1. Typed
      BY <1>3, <1>15, StagesAre DEF Reread
    <2> QED BY <1>1, <1>2, <1>6, <1>15, <2>1 DEF Reread
  <1>16. CASE Withdraw(f)
    <2>1. Typed
      BY <1>3, <1>16, StagesAre DEF Withdraw
    <2>2. P!PromiseTypeOK'
      BY <1>4, <1>16 DEF Withdraw, CancelPrepared, Delivers
    <2> QED BY <1>16, <2>1, <2>2 DEF Withdraw, Typed, TypeOK
  <1>17. CASE Settle(f)
    <2>1. Typed
      BY <1>3, <1>17, StagesAre DEF Settle
    <2>2. FileTyped
      <3>1. task[f].outcome \in {"none", "delivered", "failed"}
        BY TaskFields DEF TypeOK
      <3> QED BY <1>17, <3>1, SettleTyped DEF Settle, FileTyped
    <2> QED BY <1>1, <1>6, <1>17, <2>1, <2>2 DEF Settle
  <1>18. CASE Clean(f)
    <2>1. Typed
      BY <1>3, <1>18, StagesAre DEF Clean
    <2>2. P!PromiseTypeOK'
      BY <1>4, <1>18 DEF Clean, CancelPrepared, Delivers
    <2>3. log' \in [Fires -> {"none", "begun", "output", "failure", "abandoned"}]
      BY <1>5, <1>18 DEF Clean, TypeOK
    <2> QED BY <1>18, <2>1, <2>2, <2>3 DEF Clean, Typed, TypeOK
  <1>19. CASE Abort(f)
    <2>1. Typed
      BY <1>3, <1>19, StagesAre DEF Abort
    <2> QED BY <1>1, <1>2, <1>6, <1>19, <2>1 DEF Abort
  <1>20. CASE TaskEnd(f)
    <2>1. Typed
      BY <1>20, FreeTasks DEF TaskEnd, Typed, TypeOK
    <2> QED BY <1>1, <1>2, <1>6, <1>20, <2>1 DEF TaskEnd
  <1>21. CASE Error(f)
    <2>1. Typed
      BY <1>3, <1>21, StagesAre DEF Error
    <2>2. FileTyped
      <3>1. CASE SettleFire(f[1], f[2], "failed")
        BY <3>1, SettleTyped DEF FileTyped
      <3>2. CASE UNCHANGED <<file, stale>>
        BY <1>2, <3>2
      <3> QED BY <1>21, <3>1, <3>2 DEF Error
    <2>3. spent' \in 0..Limit /\ logged' \subseteq Fires
      BY <1>21, SchedulerAssumption DEF Error, Spend, TypeOK
    <2> QED BY <1>21, <2>1, <2>2, <2>3 DEF Error, Typed, FileTyped, TypeOK, P!PromiseTypeOK
  <1> QED BY <1>7, <1>8, <1>9, <1>10, <1>11, <1>12, <1>13, <1>14, <1>15, <1>16, <1>17, <1>18,
             <1>19, <1>20, <1>21 DEF TaskStep

LEMMA ToolKeepsType ==
  ASSUME TypeOK, NEW j \in Jobs, ToolStep(j)
  PROVE  TypeOK'
  <1> USE DEF delivery, memory
  <1>0. file.jobs \in [Jobs -> Job] /\ file.fires \in [Fires -> FireStatus]
    BY FileFields DEF TypeOK
  <1>1. CASE Add(j)
    <2> PICK kind \in Kinds, at \in now..Horizon :
          Change([file.jobs EXCEPT ![j] = [NoJob EXCEPT !.is = "on", !.recurring = kind[1],
                                                        !.runs = kind[2], !.at = at]], file.fires)
      BY <1>1 DEF Add
    <2> DEFINE added == [NoJob EXCEPT !.is = "on", !.recurring = kind[1],
                                      !.runs = kind[2], !.at = at]
               jobs == [file.jobs EXCEPT ![j] = added]
    <2>1. kind[1] \in BOOLEAN /\ kind[2] \in BOOLEAN /\ at \in 0..Horizon + Interval
      BY SchedulerAssumption DEF TypeOK
    <2>2. added \in Job
      BY <2>1 DEF Job, NoJob
    <2> HIDE DEF added
    <2>3. jobs \in [Jobs -> Job]
      BY <1>0, <2>2
    <2>4. Change(jobs, file.fires)
      BY DEF added
    <2> HIDE DEF jobs
    <2>5. file' \in File /\ stale' \in BOOLEAN
      BY <1>0, <2>3, <2>4, ChangeTyped
    <2> QED BY <1>1, <2>5 DEF Add, TypeOK, P!PromiseTypeOK
  <1>2. CASE CancelCommit(j)
    <2> DEFINE gone == [file.jobs[j] EXCEPT !.is = "gone"]
               jobs == [file.jobs EXCEPT ![j] = gone]
               fires == [f \in Fires |-> IF f[1] = j /\ file.fires[f] = "pending"
                                         THEN "cancelled" ELSE file.fires[f]]
    <2>1. file.jobs[j] \in Job
      BY <1>0
    <2>2. gone \in Job
      BY <2>1 DEF Job
    <2>3. fires \in [Fires -> FireStatus]
      BY <1>0 DEF FireStatus
    <2>4. Change(jobs, fires)
      BY <1>2 DEF CancelCommit
    <2> HIDE DEF gone
    <2>5. jobs \in [Jobs -> Job]
      BY <1>0, <2>2
    <2> HIDE DEF jobs, fires
    <2>6. file' \in File /\ stale' \in BOOLEAN
      BY <2>3, <2>4, <2>5, ChangeTyped
    <2> QED BY <1>2, <2>6 DEF CancelCommit, TypeOK, P!PromiseTypeOK
  <1>3. CASE SweepRead(j)
    BY <1>3 DEF SweepRead, TypeOK, P!PromiseTypeOK
  <1>4. CASE SweepDone(j)
    BY <1>4 DEF SweepDone, TypeOK, P!PromiseTypeOK
  <1>5. ASSUME NEW f \in Fires, SweepOne(j, f)
        PROVE  TypeOK'
    <2>1. Cut(f) \in Task
      BY CutIs
    <2>2. task' \in [Fires -> Task] /\ sweep' \in [Jobs -> SUBSET Fires]
      BY <1>5, <2>1 DEF SweepOne, TypeOK
    <2> QED BY <1>5, <2>2 DEF SweepOne, TypeOK, P!PromiseTypeOK
  <1> QED BY <1>1, <1>2, <1>3, <1>4, <1>5 DEF ToolStep

LEMMA RestKeepsType ==
  ASSUME TInv, Crash \/ Stop \/ Stopped \/ Passes
  PROVE  TInv'
  <1> USE DEF delivery, memory
  <1>0. TypeOK /\ follow \in Follow /\ Seen(follow)
    BY DEF TInv, TypeOK
  <1>1. \A act : Spend(act) => spent' \in 0..Limit
    BY <1>0, SchedulerAssumption DEF Spend, TypeOK
  <1>2. Booting \in Follow /\ Booting.at = "boot"
    BY BootingFollows DEF Booting
  <1>3. CASE Crash
    <2>1. task' \in [Fires -> Task]
      BY <1>3, FreeTasks DEF Crash
    <2>2. cancel' \in [Jobs -> {"none", "committed", "sweeping", "done"}]
      BY <1>0, <1>3 DEF Crash, Replayed, TypeOK
    <2>3. sweep' \in [Jobs -> SUBSET Fires]
      BY <1>3 DEF Crash
    <2> QED BY <1>0, <1>1, <1>2, <1>3, <2>1, <2>2, <2>3
            DEF Crash, Forget, TypeOK, TInv, Seen, P!PromiseTypeOK
  <1>4. CASE Stop
    <2>1. \A f \in Fires : Cut(f) \in Task /\ task[f] \in Task
      BY <1>0, CutIs DEF TypeOK
    <2>2. task' \in [Fires -> Task]
      BY <1>4, <2>1 DEF Stop
    <2>3. "stopping" \in Stops
      BY DEF Stops
    <2>4. [follow EXCEPT !.at = "stopping"] \in Follow
          /\ [follow EXCEPT !.at = "stopping"].at = "stopping"
      BY <1>0, <2>3, FollowAt
    <2>5. follow' \in Follow /\ follow'.at = "stopping"
      BY <1>4, <2>4 DEF Stop
    <2> QED BY <1>0, <1>1, <1>4, <2>2, <2>5 DEF Stop, TypeOK, TInv, Seen, P!PromiseTypeOK
  <1>5. CASE Stopped
    BY <1>0, <1>2, <1>5 DEF Stopped, Forget, TypeOK, TInv, Seen, P!PromiseTypeOK
  <1>6. CASE Passes
    BY <1>0, <1>6, SchedulerAssumption DEF Passes, TypeOK, TInv, Seen, P!PromiseTypeOK
  <1> QED BY <1>3, <1>4, <1>5, <1>6

LEMMA StartTyped ==
  ASSUME Init
  PROVE  TInv
  <1>1. NoFile \in File /\ Booting \in Follow /\ Booting.at = "boot"
    BY EmptyFile, BootingFollows DEF Booting
  <1>2. task \in [Fires -> Task]
    BY FreeTasks DEF Init
  <1>3. P!PromiseTypeOK
    BY DEF Init, P!PromiseInit, P!PromiseTypeOK, P!States
  <1>4. now \in 0..Horizon /\ spent \in 0..Limit /\ stale \in BOOLEAN
    <2>1. 0 \in 0..Horizon
      BY Numbers
    <2>2. 0 \in 0..Limit
      BY Numbers
    <2> QED BY <2>1, <2>2 DEF Init
  <1>5. /\ file \in File /\ follow \in Follow /\ Seen(follow)
        /\ attempted \subseteq Fires \X {"pending", "cancelled"}
        /\ active \subseteq Fires /\ logged \subseteq Fires
    BY <1>1 DEF Init, Seen
  <1>6. /\ log \in [Fires -> {"none", "begun", "output", "failure", "abandoned"}]
        /\ cancel \in [Jobs -> {"none", "committed", "sweeping", "done"}]
        /\ sweep \in [Jobs -> SUBSET Fires]
    BY DEF Init
  <1> QED BY <1>2, <1>3, <1>4, <1>5, <1>6 DEF TInv, TypeOK

LEMMA StepTyped ==
  ASSUME TInv, [Next]_vars
  PROVE  TInv'
  <1>0. TypeOK /\ Seen(follow)
    BY DEF TInv
  <1>1. CASE FollowStep
    BY <1>1, FollowKeepsType
  <1>2. ASSUME NEW f \in Fires, TaskStep(f) \/ Error(f)
        PROVE  TInv'
    <2>1. TypeOK'
      BY <1>0, <1>2, TaskKeepsType
    <2>2. UNCHANGED follow
      BY <1>2 DEF TaskStep, Error, Begin, ReadFire, Compose, Fails, Prepare, Deliver, Sent, Drained,
                  Reread, Withdraw, Settle, Clean, Abort, TaskEnd, TaskOnly
    <2> QED BY <1>0, <2>1, <2>2 DEF TInv, Seen
  <1>3. ASSUME NEW j \in Jobs, ToolStep(j)
        PROVE  TInv'
    <2>1. TypeOK'
      BY <1>0, <1>3, ToolKeepsType
    <2>2. UNCHANGED follow
      BY <1>3 DEF ToolStep, Add, CancelCommit, SweepRead, SweepDone, SweepOne
    <2> QED BY <1>0, <2>1, <2>2 DEF TInv, Seen
  <1>4. CASE Crash \/ Stop \/ Stopped \/ Passes
    BY <1>4, RestKeepsType
  <1>5. CASE UNCHANGED vars
    BY <1>0, <1>5 DEF vars, memory, delivery, TInv, TypeOK, Seen, P!PromiseTypeOK
  <1> QED BY <1>1, <1>2, <1>3, <1>4, <1>5 DEF Next, Disturb

\* Every variable of the scheduler stays within its type (JobStore, SchedulerRuntime):
\* the times of the jobs, the fires a pass goes through, the stages of the tasks.
THEOREM TypeCorrect == Spec => []TypeOK
  <1>1. TInv => TypeOK
    BY DEF TInv
  <1> QED BY <1>1, StartTyped, StepTyped, PTL DEF Spec

-----------------------------------------------------------------------------
(* The schedule file: a pending fire is the current one of its job, and a  *)
(* job counts its delivered fires.                                         *)

Delivered(j) == {f \in Fires : f[1] = j /\ file.fires[f] = "delivered"}

FireCurrent(f) ==
  /\ file.fires[f] = "pending" => file.jobs[f[1]].is = "on" /\ file.jobs[f[1]].at = f[2]
  /\ file.fires[f] # "none" => file.jobs[f[1]].is # "none"

Counted(j) == file.jobs[j].is # "none" => file.jobs[j].count = Cardinality(Delivered(j))

FileInv == (\A f \in Fires : FireCurrent(f)) /\ (\A j \in Jobs : Counted(j))

LEMMA FiniteDelivered ==
  ASSUME NEW j \in Jobs
  PROVE  IsFiniteSet(Delivered(j))
  <1>1. IsFiniteSet({j}) /\ IsFiniteSet(0..Horizon)
    <2>1. 0 \in Int /\ Horizon \in Int
      BY Numbers
    <2>2. IsFiniteSet(0..Horizon)
      BY <2>1, FS_Interval
    <2>3. IsFiniteSet({j})
      BY FS_Singleton
    <2> QED BY <2>2, <2>3
  <1>2. IsFiniteSet({j} \X (0..Horizon))
    BY <1>1, FS_Product
  <1>3. Delivered(j) \subseteq {j} \X (0..Horizon)
    BY DEF Delivered, Fires
  <1> QED BY <1>2, <1>3, FS_Subset

\* Nothing is delivered: jobs may move as long as they keep their count, and the time
\* under a pending fire.
LEMMA FileMoves ==
  ASSUME TypeOK, FileInv,
         \A f \in Fires : file'.fires[f] = "delivered" <=> file.fires[f] = "delivered",
         \A j \in Jobs : file.jobs[j].is # "none" => file'.jobs[j].is # "none"
                                                     /\ file'.jobs[j].count = file.jobs[j].count,
         \A j \in Jobs : file.jobs[j].is = "none" /\ file'.jobs[j].is # "none"
                           => file'.jobs[j].count = 0,
         \A f \in Fires : file'.fires[f] = "pending" =>
                            file'.jobs[f[1]].is = "on" /\ file'.jobs[f[1]].at = f[2],
         \A f \in Fires : file'.fires[f] # "none" => file'.jobs[f[1]].is # "none"
  PROVE  FileInv'
  <1>1. ASSUME NEW f \in Fires PROVE FireCurrent(f)'
    BY DEF FireCurrent
  <1>2. ASSUME NEW j \in Jobs PROVE Counted(j)'
    <2>1. Delivered(j)' = Delivered(j)
      BY DEF Delivered
    <2>2. CASE file.jobs[j].is # "none"
      BY <2>1, <2>2 DEF FileInv, Counted
    <2>3. CASE file.jobs[j].is = "none"
      <3>1. \A f \in Fires : f[1] = j => file.fires[f] = "none"
        BY <2>3 DEF FileInv, FireCurrent
      <3>2. Delivered(j) = {}
        BY <3>1 DEF Delivered
      <3> QED BY <2>1, <2>3, <3>2, FS_EmptySet DEF Counted
    <2> QED BY <2>2, <2>3
  <1> QED BY <1>1, <1>2 DEF FileInv

LEMMA FileStays ==
  ASSUME TypeOK, FileInv, file' = file
  PROVE  FileInv'
  BY DEF FileInv, FireCurrent, Counted, Delivered

\* What a settlement does: the fire was pending, or nothing happens.
LEMMA SettlementIs ==
  ASSUME TypeOK, FileInv, NEW f \in Fires, NEW outcome \in {"none", "delivered", "failed"},
         SettleFire(f[1], f[2], outcome)
  PROVE  \/ file.fires[f] # "pending" /\ file' = file
         \/ /\ file.fires[f] = "pending" /\ file'.fires[f] = outcome
            /\ \A e \in Fires : e # f => file'.fires[e] = file.fires[e]
            /\ \A i \in Jobs : i # f[1] => file'.jobs[i] = file.jobs[i]
            /\ file'.jobs[f[1]].is \in {"on", "off"}
            /\ file'.jobs[f[1]].count =
                 file.jobs[f[1]].count + (IF outcome = "delivered" THEN 1 ELSE 0)
  <1> DEFINE j == f[1]
             at == f[2]
  <1>1. j \in Jobs /\ at \in 0..Horizon /\ <<j, at>> = f
    BY FireParts
  <1>2. file.jobs \in [Jobs -> Job] /\ file.fires \in [Fires -> FireStatus]
    BY FileFields DEF TypeOK
  <1>3. CASE file.fires[<<j, at>>] # "pending"
    BY <1>1, <1>3 DEF SettleFire
  <1>4. CASE file.fires[<<j, at>>] = "pending"
    <2>1. file.jobs[j].is = "on" /\ file.jobs[j].at = at
      BY <1>1, <1>4 DEF FileInv, FireCurrent
    <2> DEFINE r == file.jobs[j]
               settled == SettledJob(j, at, outcome)
               count == r.count + (IF outcome = "delivered" THEN 1 ELSE 0)
               next == Advance(r.at, Later(now, r.at))
    <2>2. r \in Job
      BY <1>1, <1>2
    <2>3. count \in Nat /\ next \in 0..Horizon + Interval
      <3>1. r.count \in Nat /\ r.at = at
        BY <2>1, <2>2, JobFields
      <3>2. Later(now, r.at) \in 0..Horizon
        BY <1>1, <3>1 DEF Later, TypeOK
      <3>3. next \in 0..Horizon + Interval
        BY <1>1, <3>1, <3>2, AdvanceBounded
      <3> QED BY <3>1, <3>3
    <2>4. settled.is \in {"on", "off"} /\ settled.count = count
      <3>1. settled \in {[r EXCEPT !.at = next, !.count = count],
                         [r EXCEPT !.is = "off", !.count = count]}
        BY DEF SettledJob
      <3>2. r.is = "on"
        BY <2>1
      <3> HIDE DEF r, count, next, settled
      <3>3. [r EXCEPT !.at = next, !.count = count].is = r.is
            /\ [r EXCEPT !.at = next, !.count = count].count = count
        BY <2>2, <2>3 DEF Job
      <3>4. [r EXCEPT !.is = "off", !.count = count].is = "off"
            /\ [r EXCEPT !.is = "off", !.count = count].count = count
        BY <2>2, <2>3 DEF Job
      <3> QED BY <3>1, <3>2, <3>3, <3>4
    <2>5. file' = [jobs |-> [file.jobs EXCEPT ![j] = settled],
                   fires |-> [file.fires EXCEPT ![f] = outcome]]
      BY <1>1, <1>4, <2>1 DEF SettleFire, Change, StillCurrent
    <2> HIDE DEF settled
    <2>6. file'.jobs = [file.jobs EXCEPT ![j] = settled]
          /\ file'.fires = [file.fires EXCEPT ![f] = outcome]
      BY <2>5
    <2>7. file'.jobs[j] = settled /\ file'.fires[f] = outcome
      BY <1>1, <1>2, <2>6
    <2>8. /\ \A e \in Fires : e # f => file'.fires[e] = file.fires[e]
          /\ \A i \in Jobs : i # j => file'.jobs[i] = file.jobs[i]
      BY <1>1, <1>2, <2>6
    <2> QED BY <1>1, <1>4, <2>4, <2>7, <2>8
  <1> QED BY <1>1, <1>3, <1>4

LEMMA SettlementKeepsFile ==
  ASSUME TypeOK, FileInv, NEW f \in Fires, NEW outcome \in {"none", "delivered", "failed"},
         SettleFire(f[1], f[2], outcome)
  PROVE  FileInv'
  <1>1. CASE file' = file
    BY <1>1, FileStays
  <1>2. CASE file.fires[f] = "pending" /\ file' # file
    <2> DEFINE j == f[1]
    <2>1. j \in Jobs /\ f = <<j, f[2]>>
      BY FireParts
    <2>2. /\ file'.fires[f] = outcome
          /\ \A e \in Fires : e # f => file'.fires[e] = file.fires[e]
          /\ \A i \in Jobs : i # j => file'.jobs[i] = file.jobs[i]
          /\ file'.jobs[j].is \in {"on", "off"}
          /\ file'.jobs[j].count = file.jobs[j].count + (IF outcome = "delivered" THEN 1 ELSE 0)
      BY <1>2, SettlementIs
    <2>3. file.jobs[j].is = "on" /\ file.jobs[j].at = f[2]
      BY <1>2 DEF FileInv, FireCurrent
    <2>4. ASSUME NEW e \in Fires, e # f, file.fires[e] = "pending"
          PROVE  e[1] # j
      <3>1. SUFFICES ASSUME e[1] = j PROVE FALSE
        OBVIOUS
      <3>2. file.jobs[j].at = e[2]
        BY <2>4, <3>1 DEF FileInv, FireCurrent
      <3>3. e = <<e[1], e[2]>>
        BY FireParts
      <3> QED BY <2>1, <2>3, <2>4, <3>1, <3>2, <3>3
    <2>5. ASSUME NEW e \in Fires PROVE FireCurrent(e)'
      <3>1. e[1] \in Jobs
        BY FireParts
      <3>2. CASE e = f
        BY <2>2, <3>2 DEF FireCurrent
      <3>3. CASE e # f /\ e[1] # j
        BY <2>2, <3>1, <3>3 DEF FileInv, FireCurrent
      <3>4. CASE e # f /\ e[1] = j
        BY <2>2, <2>4, <3>4 DEF FireCurrent
      <3> QED BY <3>2, <3>3, <3>4
    <2>6. ASSUME NEW i \in Jobs PROVE Counted(i)'
      <3>1. CASE i # j
        <4>1. Delivered(i)' = Delivered(i)
          BY <2>1, <2>2, <3>1 DEF Delivered
        <4> QED BY <2>2, <3>1, <4>1 DEF FileInv, Counted
      <3>2. CASE i = j /\ outcome # "delivered"
        <4>1. Delivered(i)' = Delivered(i)
          BY <1>2, <2>2, <3>2 DEF Delivered
        <4>2. file.jobs[j].count \in Nat
          BY <2>1, FileFields, JobFields DEF TypeOK
        <4> QED BY <2>2, <2>3, <3>2, <4>1, <4>2 DEF FileInv, Counted
      <3>3. CASE i = j /\ outcome = "delivered"
        <4>1. Delivered(i)' = Delivered(i) \cup {f} /\ f \notin Delivered(i)
          BY <1>2, <2>2, <3>3 DEF Delivered
        <4>2. Cardinality(Delivered(i)') = Cardinality(Delivered(i)) + 1
          BY <4>1, FiniteDelivered, FS_AddElement
        <4> QED BY <2>2, <2>3, <3>3, <4>2 DEF FileInv, Counted
      <3> QED BY <3>1, <3>2, <3>3
    <2> QED BY <2>5, <2>6 DEF FileInv
  <1> QED BY <1>1, <1>2, SettlementIs

LEMMA BootKeepsFile ==
  ASSUME TypeOK, FileInv, Boot
  PROVE  FileInv'
  <1>1. file.jobs \in [Jobs -> Job]
    BY FileFields DEF TypeOK
  <1>2. /\ file'.fires = file.fires
        /\ \A j \in Jobs : file'.jobs[j] = Recovered(j)
    <2>1. file' = [file EXCEPT !.jobs = [j \in Jobs |-> Recovered(j)]] /\ file \in File
      BY DEF Boot, TypeOK
    <2> DEFINE jobs == [j \in Jobs |-> Recovered(j)]
    <2>2. \A j \in Jobs : jobs[j] = Recovered(j)
      OBVIOUS
    <2>3. file' = [file EXCEPT !.jobs = jobs]
      BY <2>1
    <2> HIDE DEF jobs
    <2>4. file'.fires = file.fires /\ file'.jobs = jobs
      BY <2>1, <2>3 DEF File
    <2> QED BY <2>2, <2>4
  <1>3. ASSUME NEW j \in Jobs
        PROVE  /\ file'.jobs[j].count = file.jobs[j].count
               /\ file.jobs[j].is = "none" <=> file'.jobs[j].is = "none"
               /\ \A at : /\ file.jobs[j].is = "on" /\ file.jobs[j].at = at
                          /\ file.fires[<<j, at>>] = "pending"
                          => file'.jobs[j] = file.jobs[j]
    <2> DEFINE r == file.jobs[j]
               next == Advance(r.at, now)
    <2>1. r \in Job
      BY <1>1
    <2>2. Recovered(j) = r \/ (r.is = "on" /\ Recovered(j) = [r EXCEPT !.at = next])
          \/ (r.is = "on" /\ Recovered(j) = [r EXCEPT !.is = "off"])
      BY DEF Recovered, Due
    <2>3. \A at : r.at = at /\ file.fires[<<j, at>>] = "pending" => Recovered(j) = r
      BY DEF Recovered
    <2>4. file'.jobs[j] = Recovered(j)
      BY <1>2
    <2> HIDE DEF r, next
    <2>5. /\ Recovered(j).count = r.count
          /\ r.is = "none" <=> Recovered(j).is = "none"
      BY <2>1, <2>2 DEF Job
    <2> QED BY <2>3, <2>4, <2>5 DEF r
  <1>4. ASSUME NEW f \in Fires
        PROVE  /\ file'.fires[f] = "pending" => file'.jobs[f[1]].is = "on"
                                                /\ file'.jobs[f[1]].at = f[2]
               /\ file'.fires[f] # "none" => file'.jobs[f[1]].is # "none"
    <2>1. f[1] \in Jobs /\ f = <<f[1], f[2]>>
      BY FireParts
    <2>2. FireCurrent(f) /\ file'.fires[f] = file.fires[f]
      BY <1>2 DEF FileInv
    <2> QED BY <1>3, <2>1, <2>2 DEF FireCurrent
  <1>5. \A j \in Jobs : /\ file.jobs[j].is = "none" => file'.jobs[j].is = "none"
                        /\ file.jobs[j].is # "none" => file'.jobs[j].is # "none"
                        /\ file'.jobs[j].count = file.jobs[j].count
    BY <1>3
  <1> QED BY <1>2, <1>4, <1>5, FileMoves

LEMMA RecordKeepsFile ==
  ASSUME TypeOK, FileInv, NEW f \in Fires, RecordFire(f)
  PROVE  FileInv'
  <1>1. CASE StartsFire(f[1], f[2])
    <2>1. f[1] \in Jobs /\ f = <<f[1], f[2]>>
      BY FireParts
    <2>2. file.fires \in [Fires -> FireStatus]
      BY FileFields DEF TypeOK
    <2>3. file'.jobs = file.jobs /\ file'.fires = [file.fires EXCEPT ![f] = "pending"]
      BY <1>1 DEF RecordFire, Change
    <2>4. /\ file'.fires[f] = "pending"
          /\ \A e \in Fires : e # f => file'.fires[e] = file.fires[e]
      BY <2>2, <2>3
    <2>5. /\ file.jobs[f[1]].is = "on" /\ file.jobs[f[1]].at = f[2]
          /\ file.fires[f] \in {"none", "pending"}
      BY <1>1, <2>1 DEF StartsFire
    <2>6. ASSUME NEW e \in Fires
          PROVE  /\ file'.fires[e] = "pending" => file'.jobs[e[1]].is = "on"
                                                  /\ file'.jobs[e[1]].at = e[2]
                 /\ file'.fires[e] # "none" => file'.jobs[e[1]].is # "none"
                 /\ file'.fires[e] = "delivered" <=> file.fires[e] = "delivered"
      <3>1. CASE e = f
        BY <2>3, <2>4, <2>5, <3>1
      <3>2. CASE e # f
        BY <2>3, <2>4, <3>2 DEF FileInv, FireCurrent
      <3> QED BY <3>1, <3>2
    <2> QED BY <2>3, <2>6, FileMoves
  <1>2. CASE ~StartsFire(f[1], f[2])
    BY <1>2, FileStays DEF RecordFire
  <1> QED BY <1>1, <1>2

LEMMA ToolKeepsFile ==
  ASSUME TypeOK, FileInv, NEW j \in Jobs, ToolStep(j)
  PROVE  FileInv'
  <1>0. file.jobs \in [Jobs -> Job] /\ file.fires \in [Fires -> FireStatus]
    BY FileFields DEF TypeOK
  <1>1. CASE Add(j)
    <2> PICK kind \in Kinds, at \in now..Horizon :
          Change([file.jobs EXCEPT ![j] = [NoJob EXCEPT !.is = "on", !.recurring = kind[1],
                                                        !.runs = kind[2], !.at = at]], file.fires)
      BY <1>1 DEF Add
    <2> DEFINE added == [NoJob EXCEPT !.is = "on", !.recurring = kind[1],
                                      !.runs = kind[2], !.at = at]
    <2>1. added.is = "on" /\ added.count = 0
      BY DEF NoJob
    <2>2. file'.jobs = [file.jobs EXCEPT ![j] = added] /\ file'.fires = file.fires
      BY DEF Change
    <2> HIDE DEF added
    <2>3. file'.jobs[j] = added /\ \A i \in Jobs : i # j => file'.jobs[i] = file.jobs[i]
      BY <1>0, <2>2
    <2>4. file.jobs[j].is = "none"
      BY <1>1 DEF Add
    <2>5. ASSUME NEW f \in Fires
          PROVE  /\ file'.fires[f] = "pending" => file'.jobs[f[1]].is = "on"
                                                  /\ file'.jobs[f[1]].at = f[2]
                 /\ file'.fires[f] # "none" => file'.jobs[f[1]].is # "none"
                 /\ file'.fires[f] = "delivered" <=> file.fires[f] = "delivered"
      <3>1. f[1] \in Jobs
        BY FireParts
      <3>2. f[1] = j => file.fires[f] = "none"
        BY <2>4 DEF FileInv, FireCurrent
      <3> QED BY <2>2, <2>3, <3>1, <3>2 DEF FileInv, FireCurrent
    <2>6. \A i \in Jobs : /\ file.jobs[i].is # "none" => file'.jobs[i].is # "none"
                                                      /\ file'.jobs[i].count = file.jobs[i].count
                          /\ file.jobs[i].is = "none" /\ file'.jobs[i].is # "none"
                               => file'.jobs[i].count = 0
      BY <2>1, <2>3, <2>4
    <2> QED BY <2>5, <2>6, FileMoves
  <1>2. CASE CancelCommit(j)
    <2> DEFINE gone == [file.jobs[j] EXCEPT !.is = "gone"]
    <2>1. file.jobs[j] \in Job
      BY <1>0
    <2>2. gone.is = "gone" /\ gone.count = file.jobs[j].count
      BY <2>1 DEF Job
    <2>3. file'.jobs = [file.jobs EXCEPT ![j] = gone]
      BY <1>2 DEF CancelCommit, Change
    <2>4. \A f \in Fires : file'.fires[f] = IF f[1] = j /\ file.fires[f] = "pending"
                                            THEN "cancelled" ELSE file.fires[f]
      BY <1>2 DEF CancelCommit, Change
    <2> HIDE DEF gone
    <2>5. file'.jobs[j] = gone /\ \A i \in Jobs : i # j => file'.jobs[i] = file.jobs[i]
      BY <1>0, <2>3
    <2>6. file.jobs[j].is # "none"
      BY <1>2 DEF CancelCommit
    <2>7. ASSUME NEW f \in Fires
          PROVE  /\ file'.fires[f] = "pending" => file'.jobs[f[1]].is = "on"
                                                  /\ file'.jobs[f[1]].at = f[2]
                 /\ file'.fires[f] # "none" => file'.jobs[f[1]].is # "none"
                 /\ file'.fires[f] = "delivered" <=> file.fires[f] = "delivered"
      <3>1. f[1] \in Jobs
        BY FireParts
      <3> QED BY <2>2, <2>4, <2>5, <3>1 DEF FileInv, FireCurrent
    <2>8. \A i \in Jobs : /\ file.jobs[i].is # "none" => file'.jobs[i].is # "none"
                                                      /\ file'.jobs[i].count = file.jobs[i].count
                          /\ file.jobs[i].is = "none" /\ file'.jobs[i].is # "none"
                               => file'.jobs[i].count = 0
      BY <2>2, <2>5, <2>6
    <2> QED BY <2>7, <2>8, FileMoves
  <1>3. CASE file' = file
    BY <1>3, FileStays
  <1> QED BY <1>1, <1>2, <1>3 DEF ToolStep, SweepRead, SweepDone, SweepOne

LEMMA StepKeepsFile ==
  ASSUME TypeOK, FileInv, [Next]_vars
  PROVE  FileInv'
  <1>1. CASE FollowStep
    <2>1. CASE Boot
      BY <2>1, BootKeepsFile
    <2>2. ASSUME NEW f \in Fires, RecordFire(f) PROVE FileInv'
      BY <2>2, RecordKeepsFile
    <2>3. CASE file' = file
      BY <2>3, FileStays
    <2> QED BY <1>1, <2>1, <2>2, <2>3
            DEF FollowStep, Tick, Read, StartOne, StartAgain, StartDue, FollowOnly
  <1>2. ASSUME NEW f \in Fires, TaskStep(f) \/ Error(f)
        PROVE  FileInv'
    <2>1. CASE file' = file
      BY <2>1, FileStays
    <2>2. CASE Settle(f)
      <3>1. task[f].outcome \in {"none", "delivered", "failed"}
        BY TaskFields DEF TypeOK
      <3> QED BY <2>2, <3>1, SettlementKeepsFile DEF Settle
    <2>3. CASE Error(f)
      BY <2>1, <2>3, SettlementKeepsFile DEF Error
    <2> QED BY <1>2, <2>1, <2>2, <2>3
            DEF TaskStep, Begin, ReadFire, Compose, Fails, Prepare, Deliver, Sent, Drained,
                Reread, Withdraw, Clean, Abort, TaskEnd
  <1>3. ASSUME NEW j \in Jobs, ToolStep(j)
        PROVE  FileInv'
    BY <1>3, ToolKeepsFile
  <1>4. CASE Crash \/ Stop \/ Stopped \/ Passes \/ UNCHANGED vars
    <2>1. file' = file
      BY <1>4 DEF Crash, Stop, Stopped, Passes, Forget, vars
    <2> QED BY <2>1, FileStays
  <1> QED BY <1>1, <1>2, <1>3, <1>4 DEF Next, Disturb

-----------------------------------------------------------------------------
(* The tasks, the messages and the deliveries, fire by fire.               *)

\* What may be settled of a delivery.
Fits(f, outcome) ==
  \/ outcome = "delivered" /\ state[f] = "delivered"
  \/ outcome = "failed" /\ state[f] \in {"none", "rejected", "failed"}

\* Whoever goes on to a settlement found the fire pending, and has a message before it
\* has a delivery.
TaskInv(f) ==
  /\ task[f].st \in Sending => file.fires[f] \in {"pending", "cancelled"}
  /\ task[f].st = "prepare" => log[f] = "output"
  /\ task[f].st = "settle" => Fits(f, task[f].outcome)

RecordInv(f) ==
  /\ state[f] # "none" => log[f] = "output"
  /\ state[f] = "delivered" => effects[f] = 1
  /\ file.fires[f] \in {"delivered", "failed"} => Fits(f, file.fires[f])

\* The tool has been past the fire, or there is nothing left of its call.
Passed(f) == cancel[f[1]] = "done" \/ (cancel[f[1]] = "sweeping" /\ f \notin sweep[f[1]])

Told(f) ==
  file.fires[f] = "cancelled" /\ Passed(f) /\ task[f].st \in Sending => task[f].cut

WorkInv(f) == TaskInv(f) /\ RecordInv(f) /\ Told(f)

IInv == TInv /\ FileInv /\ \A f \in Fires : WorkInv(f)

\* The invariant of e looks at these only.
SameFire(e) == file'.fires[e] = file.fires[e]
SameTask(e) == task'[e] = task[e]
SameWork(e) == log'[e] = log[e] /\ state'[e] = state[e] /\ effects'[e] = effects[e]
SameCall(e) == cancel'[e[1]] = cancel[e[1]] /\ sweep'[e[1]] = sweep[e[1]]

LEMMA Undisturbed ==
  ASSUME NEW e \in Fires, WorkInv(e), SameFire(e), SameTask(e), SameWork(e), SameCall(e)
  PROVE  WorkInv(e)'
  BY DEF WorkInv, TaskInv, RecordInv, Told, Passed, Fits, Sending,
         SameFire, SameTask, SameWork, SameCall

\* A task that is not on its way to a settlement, of a fire that is as it was.
LEMMA Harmless ==
  ASSUME NEW e \in Fires, WorkInv(e), task'[e].st \notin Sending, SameFire(e), SameWork(e)
  PROVE  WorkInv(e)'
  BY DEF WorkInv, TaskInv, RecordInv, Told, Fits, Sending, SameFire, SameWork

LEMMA FollowKeepsWork ==
  ASSUME IInv, FollowStep, NEW e \in Fires
  PROVE  WorkInv(e)'
  <1>0. WorkInv(e) /\ TypeOK
    BY DEF IInv, TInv
  <1>1. SameWork(e) /\ SameCall(e)
    BY DEF FollowStep, Boot, Tick, Read, StartOne, StartAgain, RecordFire, StartDue, FollowOnly,
           SameWork, SameCall, delivery
  <1>2. CASE SameFire(e) /\ SameTask(e)
    BY <1>0, <1>1, <1>2, Undisturbed
  <1>3. CASE Boot
    <2>1. SameTask(e)
      BY <1>3 DEF Boot, memory, SameTask
    <2>2. SameFire(e)
      <3> DEFINE jobs == [j \in Jobs |-> Recovered(j)]
      <3>1. file' = [file EXCEPT !.jobs = jobs] /\ file \in File
        BY <1>0, <1>3 DEF Boot, TypeOK
      <3> HIDE DEF jobs
      <3> QED BY <3>1 DEF File, SameFire
    <2> QED BY <1>2, <2>1, <2>2
  <1>4. CASE Tick \/ Read
    BY <1>2, <1>4 DEF Tick, Read, FollowOnly, memory, SameFire, SameTask
  <1>5. ASSUME NEW f \in Fires, NEW status, Admit(f, status), FollowOnly
        PROVE  WorkInv(e)'
    <2>1. SameFire(e)
      BY <1>5 DEF FollowOnly, SameFire
    <2>2. SameTask(e) \/ task'[e].st = "new"
      BY <1>0, <1>5, FreeTasks DEF Admit, memory, SameTask, TypeOK
    <2> QED BY <1>0, <1>1, <1>2, <2>1, <2>2, Harmless DEF Sending
  <1>6. ASSUME NEW f \in Fires, StartOne(f) \/ StartDue(f)
        PROVE  WorkInv(e)'
    BY <1>5, <1>6 DEF StartOne, StartDue
  <1>7. ASSUME NEW f \in Fires, StartAgain(f)
        PROVE  WorkInv(e)'
    BY <1>2, <1>5, <1>7 DEF StartAgain, FollowOnly, memory, SameFire, SameTask
  <1>8. ASSUME NEW f \in Fires, RecordFire(f)
        PROVE  WorkInv(e)'
    <2>1. SameTask(e)
      BY <1>8 DEF RecordFire, memory, SameTask
    <2>2. CASE SameFire(e)
      BY <1>2, <2>1, <2>2
    <2>3. CASE e = f /\ StartsFire(f[1], f[2])
      <3>1. file.fires \in [Fires -> FireStatus] /\ f = <<f[1], f[2]>>
        BY <1>0, FileFields, FireParts DEF TypeOK
      <3>2. file'.fires = [file.fires EXCEPT ![f] = "pending"]
        BY <1>8, <2>3 DEF RecordFire, Change
      <3>3. file'.fires[e] = "pending"
        BY <2>3, <3>1, <3>2
      <3> QED BY <1>0, <1>1, <2>1, <3>3
              DEF WorkInv, TaskInv, RecordInv, Told, Fits, Sending, SameTask, SameWork
    <2>4. CASE e # f
      <3>1. file.fires \in [Fires -> FireStatus]
        BY <1>0, FileFields DEF TypeOK
      <3>2. SameFire(e)
        BY <1>8, <2>4, <3>1 DEF RecordFire, Change, SameFire
      <3> QED BY <2>2, <3>2
    <2>5. CASE ~StartsFire(f[1], f[2])
      BY <1>8, <2>2, <2>5 DEF RecordFire, SameFire
    <2> QED BY <2>3, <2>4, <2>5
  <1> QED BY <1>3, <1>4, <1>6, <1>7, <1>8 DEF FollowStep

\* A step of the task of f leaves the other fires alone.
LEMMA OthersStay ==
  ASSUME IInv, NEW f \in Fires, TaskStep(f) \/ Error(f), NEW e \in Fires, e # f
  PROVE  SameFire(e) /\ SameTask(e) /\ SameWork(e) /\ SameCall(e)
  <1>0. TypeOK /\ FileInv
    BY DEF IInv, TInv
  <1> USE DEF TaskOnly
  <1>1. SameCall(e)
    BY DEF TaskStep, Error, Begin, ReadFire, Compose, Fails, Prepare, Deliver, Sent, Drained,
           Reread, Withdraw, Settle, Clean, Abort, TaskEnd, SameCall
  <1>2. SameFire(e)
    <2>1. ASSUME NEW outcome \in {"none", "delivered", "failed"}, SettleFire(f[1], f[2], outcome)
          PROVE  SameFire(e)
      BY <1>0, <2>1, SettlementIs DEF SameFire
    <2>2. task[f].outcome \in {"none", "delivered", "failed"}
      BY <1>0, TaskFields DEF TypeOK
    <2>3. CASE file' = file
      BY <2>3 DEF SameFire
    <2> QED BY <2>1, <2>2, <2>3
            DEF TaskStep, Error, Begin, ReadFire, Compose, Fails, Prepare, Deliver, Sent, Drained,
                Reread, Withdraw, Settle, Clean, Abort, TaskEnd
  <1>3. SameTask(e)
    <2>1. ASSUME NEW st \in Stages, Goto(f, st) \/ Then(f, st) \/ End(f) PROVE SameTask(e)
      BY <1>0, <2>1, GotoMoves, EndMoves, ThenMoves DEF Moves, SameTask
    <2>2. CASE task' = task
      BY <2>2 DEF SameTask
    <2>3. CASE task' = [task EXCEPT ![f] = Free]
      BY <1>0, <2>3 DEF SameTask, TypeOK
    <2>4. ASSUME NEW outcome \in {"delivered", "failed"},
                 task' = [task EXCEPT ![f].st = "settle", ![f].outcome = outcome]
          PROVE  SameTask(e)
      BY <1>0, <2>4, TaskConcluded DEF Concludes, SameTask
    <2>5. Outcome(f) \in {"delivered", "failed"}
      BY DEF Outcome
    <2>6. CASE Fails(f) \/ Sent(f)
      BY <2>1, <2>4, <2>5, <2>6, StagesAre DEF Fails, Sent
    <2>7. CASE Deliver(f) \/ TaskEnd(f)
      BY <2>2, <2>3, <2>7 DEF Deliver, TaskEnd, memory
    <2>8. CASE Begin(f) \/ ReadFire(f) \/ Compose(f) \/ Prepare(f) \/ Drained(f)
      BY <2>1, <2>8, StagesAre DEF Begin, ReadFire, Compose, Prepare, Drained
    <2>9. CASE Reread(f) \/ Withdraw(f) \/ Settle(f) \/ Clean(f) \/ Abort(f) \/ Error(f)
      BY <2>1, <2>9, StagesAre DEF Reread, Withdraw, Settle, Clean, Abort, Error
    <2> QED BY <2>6, <2>7, <2>8, <2>9 DEF TaskStep
  <1>4. SameWork(e)
    <2>1. ASSUME Delivers(f) PROVE state'[e] = state[e] /\ effects'[e] = effects[e]
      BY <1>0, <2>1, DeliversTyped
    <2>2. Delivers(f)
      BY DEF TaskStep, Error, Begin, ReadFire, Compose, Fails, Prepare, Deliver, Sent, Drained,
             Reread, Withdraw, Settle, Clean, Abort, TaskEnd, CancelPrepared, Delivers, Settles
    <2>3. log' = log \/ \E x : log' = [log EXCEPT ![f] = x]
      BY DEF TaskStep, Error, Begin, ReadFire, Compose, Fails, Prepare, Deliver, Sent, Drained,
             Reread, Withdraw, Settle, Clean, Abort, TaskEnd, memory
    <2>4. log'[e] = log[e]
      BY <1>0, <2>3 DEF TypeOK
    <2> QED BY <2>1, <2>2, <2>4 DEF SameWork
  <1> QED BY <1>1, <1>2, <1>3, <1>4

\* What a withdrawal makes of a delivery.
LEMMA Withdrawal ==
  ASSUME TypeOK, NEW f \in Fires, CancelPrepared(f)
  PROVE  \/ state'[f] = state[f] /\ effects'[f] = effects[f]
         \/ state[f] = "prepared" /\ state'[f] = "rejected" /\ effects'[f] = effects[f]
  BY DEF CancelPrepared, P!PWithdraw, P!Become, P!PromiseTypeOK, TypeOK, delivery

LEMMA TaskKeepsWork ==
  ASSUME IInv, NEW f \in Fires, TaskStep(f) \/ Error(f)
  PROVE  WorkInv(f)'
  <1>0. WorkInv(f) /\ TypeOK /\ FileInv
    BY DEF IInv, TInv
  <1> USE DEF TaskOnly
  <1>1. ASSUME NEW st \in Stages, Goto(f, st) \/ Then(f, st) \/ End(f)
        PROVE  /\ task'[f].st = "closing" \/ (task'[f].st = st /\ task'[f].cut = task[f].cut)
               /\ Goto(f, st) => task'[f].st = st
               /\ End(f) => task'[f].st = "closing"
               /\ Then(f, st) /\ ~task[f].cut => task'[f].st = st
               /\ task'[f].cut = task[f].cut /\ task'[f].outcome = task[f].outcome
    BY <1>0, <1>1, GotoMoves, EndMoves, ThenMoves DEF Moves
  <1>2. SameCall(f)
    BY DEF TaskStep, Error, Begin, ReadFire, Compose, Fails, Prepare, Deliver, Sent, Drained,
           Reread, Withdraw, Settle, Clean, Abort, TaskEnd, SameCall
  <1>3. ASSUME UNCHANGED <<file, log, delivery>>, task'[f].st \notin Sending
        PROVE  WorkInv(f)'
    BY <1>0, <1>3, Harmless DEF SameFire, SameWork, delivery
  <1>4. CASE Begin(f)
    <2>1. task'[f].st \notin Sending
      BY <1>1, <1>4, StagesAre DEF Begin, Sending
    <2> QED BY <1>3, <1>4, <2>1 DEF Begin
  <1>5. CASE ReadFire(f)
    <2>1. CASE file.fires[f] = "pending"
      <3>1. task'[f].st \in {"compose", "closing"} /\ task'[f].cut = task[f].cut
        BY <1>1, <1>5, <2>1, StagesAre DEF ReadFire
      <3> QED BY <1>0, <1>5, <2>1, <3>1
              DEF ReadFire, WorkInv, TaskInv, RecordInv, Told, Fits, Sending, delivery
    <2>2. CASE file.fires[f] # "pending"
      <3>1. task'[f].st \in {"clean", "closing"}
        BY <1>1, <1>5, <2>2, StagesAre DEF ReadFire
      <3> QED BY <1>3, <1>5, <3>1 DEF ReadFire, Sending
    <2> QED BY <2>1, <2>2
  <1>6. CASE Compose(f)
    <2>1. /\ task'[f].st \in {"compose", "prepare", "closing"} /\ task'[f].cut = task[f].cut
          /\ task'[f].st = "prepare" => log'[f] = "output"
      BY <1>0, <1>1, <1>6, StagesAre DEF Compose, TypeOK
    <2>2. log[f] = "output" => log'[f] = "output"
      BY <1>0, <1>6 DEF Compose, TypeOK
    <2> QED BY <1>0, <1>2, <1>6, <2>1, <2>2
            DEF Compose, WorkInv, TaskInv, RecordInv, Told, Passed, Fits, Sending, SameCall, delivery
  <1>7. CASE Fails(f)
    <2>1. log[f] # "output" /\ state[f] = "none" /\ log'[f] # "output" /\ SameFire(f)
      BY <1>0, <1>7 DEF Fails, WorkInv, RecordInv, TypeOK, SameFire
    <2>2. state'[f] = "none" /\ effects'[f] = effects[f]
      BY <1>7, <2>1 DEF Fails, delivery
    <2>3. CASE task[f].cut
      <3>1. task'[f].st = "closing"
        BY <1>1, <1>7, <2>3, StagesAre DEF Fails
      <3> QED BY <1>0, <2>1, <2>2, <3>1
              DEF WorkInv, TaskInv, RecordInv, Told, Fits, Sending, SameFire
    <2>4. CASE ~task[f].cut
      <3>1. Concludes(f, "failed")
        BY <1>0, <1>7, <2>4, TaskConcluded DEF Fails
      <3>2. task[f].st \in Sending /\ task'[f].cut = task[f].cut
            /\ task'[f].st = "settle" /\ task'[f].outcome = "failed"
        BY <1>7, <3>1 DEF Fails, Sending, Concludes
      <3> QED BY <1>0, <1>2, <2>1, <2>2, <3>2
              DEF WorkInv, TaskInv, RecordInv, Told, Passed, Fits, SameFire, SameCall
    <2> QED BY <2>3, <2>4
  <1>8. CASE Prepare(f)
    <2>1. task'[f].st \in {"send", "closing"} /\ task'[f].cut = task[f].cut
      BY <1>1, <1>8, StagesAre DEF Prepare
    <2>2. /\ effects'[f] = effects[f]
          /\ state'[f] = state[f] \/ (state[f] = "none" /\ state'[f] = "prepared")
      BY <1>0, <1>8 DEF Prepare, P!PPrepare, P!Become, P!PromiseTypeOK, TypeOK, delivery
    <2>3. /\ task[f].st \in Sending /\ log[f] = "output" /\ log'[f] = log[f]
          /\ file.fires[f] \in {"pending", "cancelled"} /\ SameFire(f)
      BY <1>0, <1>8 DEF Prepare, WorkInv, TaskInv, Sending, SameFire
    <2> QED BY <1>0, <1>2, <2>1, <2>2, <2>3
            DEF WorkInv, TaskInv, RecordInv, Told, Passed, Sending, SameFire, SameCall
  <1>9. CASE Deliver(f)
    <2>1. SameFire(f) /\ SameTask(f) /\ log'[f] = log[f]
      BY <1>9 DEF Deliver, SameFire, SameTask, memory
    <2>2. \/ /\ task[f].st = "send" /\ effects'[f] = effects[f]
             /\ state[f] \in {"prepared", "started"}
             /\ state'[f] \in {"started", "delivered", "rejected", "failed"}
             /\ state'[f] = "delivered" => effects[f] = 1
          \/ state'[f] = state[f] /\ effects[f] = 0 /\ effects'[f] = 1
      BY <1>0, <1>9 DEF Deliver, P!PStart, P!PSettle, P!PEffect, P!Become, P!PromiseTypeOK, TypeOK
    <2> QED BY <1>0, <1>2, <2>1, <2>2
            DEF WorkInv, TaskInv, RecordInv, Told, Passed, Fits, Sending,
                SameFire, SameTask, SameCall
  <1>10. CASE Sent(f)
    <2>1. Outcome(f) \in {"delivered", "failed"}
      BY DEF Outcome
    <2>2. Concludes(f, Outcome(f))
      BY <1>0, <1>10, <2>1, TaskConcluded DEF Sent
    <2>3. Fits(f, Outcome(f))
      BY <1>10 DEF Sent, Outcome, Terminal, Fits
    <2>4. SameFire(f) /\ SameWork(f) /\ task[f].st \in Sending
      BY <1>10 DEF Sent, SameFire, SameWork, delivery, Sending
    <2>5. task'[f].st = "settle" /\ task'[f].cut = task[f].cut /\ Fits(f, task'[f].outcome)
      BY <2>2, <2>3 DEF Concludes
    <2> QED BY <1>0, <1>2, <2>4, <2>5
            DEF WorkInv, TaskInv, RecordInv, Told, Passed, Fits, SameFire, SameWork, SameCall
  <1>11. CASE Drained(f)
    <2>1. task'[f].st \notin Sending
      BY <1>1, <1>11, StagesAre DEF Drained, Sending
    <2> QED BY <1>3, <1>11, <2>1 DEF Drained
  <1>12. CASE Reread(f)
    <2>1. task'[f].st \notin Sending
      BY <1>1, <1>12, StagesAre DEF Reread, Sending
    <2> QED BY <1>3, <1>12, <2>1 DEF Reread
  <1>13. CASE Withdraw(f)
    <2>1. task'[f].st = "closing"
      BY <1>1, <1>13, StagesAre DEF Withdraw
    <2>2. \/ state'[f] = state[f] /\ effects'[f] = effects[f]
          \/ state[f] = "prepared" /\ state'[f] = "rejected" /\ effects'[f] = effects[f]
      BY <1>0, <1>13, Withdrawal DEF Withdraw
    <2>3. log'[f] = log[f] /\ SameFire(f)
      BY <1>13 DEF Withdraw, SameFire
    <2> QED BY <1>0, <2>1, <2>2, <2>3
            DEF WorkInv, TaskInv, RecordInv, Told, Fits, Sending, SameFire
  <1>14. ASSUME NEW outcome \in {"none", "delivered", "failed"}, SettleFire(f[1], f[2], outcome),
                Fits(f, outcome), End(f), UNCHANGED <<log, delivery>>
         PROVE  WorkInv(f)'
    <2>1. task'[f].st = "closing"
      BY <1>1, <1>14, StagesAre
    <2>2. SameFire(f) \/ file'.fires[f] = outcome
      BY <1>0, <1>14, SettlementIs DEF SameFire
    <2> QED BY <1>0, <1>14, <2>1, <2>2
            DEF WorkInv, TaskInv, RecordInv, Told, Fits, Sending, SameFire, delivery
  <1>15. CASE Settle(f)
    <2>1. task[f].outcome \in {"none", "delivered", "failed"} /\ Fits(f, task[f].outcome)
      BY <1>0, <1>15, TaskFields DEF Settle, WorkInv, TaskInv, TypeOK
    <2> QED BY <1>14, <1>15, <2>1 DEF Settle
  <1>16. CASE Clean(f)
    <2>1. task'[f].st = "closing" /\ SameFire(f)
      BY <1>1, <1>16, StagesAre DEF Clean, SameFire
    <2>2. CASE log[f] \in {"output", "failure"}
      <3>1. \/ state'[f] = state[f] /\ effects'[f] = effects[f]
            \/ state[f] = "prepared" /\ state'[f] = "rejected" /\ effects'[f] = effects[f]
        BY <1>0, <1>16, <2>2, Withdrawal DEF Clean
      <3>2. log'[f] = log[f]
        BY <1>16, <2>2 DEF Clean
      <3> QED BY <1>0, <2>1, <3>1, <3>2
              DEF WorkInv, TaskInv, RecordInv, Told, Fits, Sending, SameFire
    <2>3. CASE log[f] \notin {"output", "failure"}
      <3>1. state[f] = "none" /\ state'[f] = state[f] /\ effects'[f] = effects[f]
        BY <1>0, <1>16, <2>3 DEF Clean, WorkInv, RecordInv, delivery
      <3> QED BY <1>0, <2>1, <3>1 DEF WorkInv, TaskInv, RecordInv, Told, Fits, Sending, SameFire
    <2> QED BY <2>2, <2>3
  <1>17. CASE Abort(f)
    <2>1. task'[f].st \notin Sending
      BY <1>1, <1>17, StagesAre DEF Abort, Sending
    <2> QED BY <1>3, <1>17, <2>1 DEF Abort
  <1>18. CASE TaskEnd(f)
    <2>1. task'[f].st = "free"
      BY <1>0, <1>18, FreeTasks DEF TaskEnd, TypeOK
    <2> QED BY <1>3, <1>18, <2>1 DEF TaskEnd, Sending
  <1>19. CASE Error(f)
    <2>1. CASE task[f].st = "send" /\ state[f] = "failed"
      BY <1>14, <1>19, <2>1 DEF Error, Fits
    <2>2. CASE ~(task[f].st = "send" /\ state[f] = "failed")
      <3>1. task'[f].st \notin Sending
        BY <1>1, <1>19, StagesAre DEF Error, Sending
      <3> QED BY <1>3, <1>19, <2>2, <3>1 DEF Error
    <2> QED BY <2>1, <2>2
  <1> QED BY <1>4, <1>5, <1>6, <1>7, <1>8, <1>9, <1>10, <1>11, <1>12, <1>13, <1>15, <1>16,
             <1>17, <1>18, <1>19 DEF TaskStep

LEMMA ToolKeepsWork ==
  ASSUME IInv, NEW j \in Jobs, ToolStep(j), NEW e \in Fires
  PROVE  WorkInv(e)'
  <1>0. WorkInv(e) /\ TypeOK /\ e[1] \in Jobs
    BY FireParts DEF IInv, TInv
  <1>1. SameWork(e)
    BY DEF ToolStep, Add, CancelCommit, SweepRead, SweepDone, SweepOne, SameWork, delivery
  <1>2. CASE Add(j)
    <2>1. SameFire(e) /\ SameTask(e) /\ SameCall(e)
      BY <1>2 DEF Add, Change, memory, SameFire, SameTask, SameCall
    <2> QED BY <1>0, <1>1, <2>1, Undisturbed
  <1>3. CASE CancelCommit(j)
    <2>1. SameTask(e)
      BY <1>3 DEF CancelCommit, memory, SameTask
    <2>2. file'.fires[e] = IF e[1] = j /\ file.fires[e] = "pending" THEN "cancelled" ELSE file.fires[e]
      BY <1>3 DEF CancelCommit, Change
    <2>3. CASE e[1] = j
      <3>1. cancel'[e[1]] = "committed"
        BY <1>0, <1>3, <2>3 DEF CancelCommit, TypeOK
      <3> QED BY <1>0, <1>1, <2>1, <2>2, <3>1
              DEF WorkInv, TaskInv, RecordInv, Told, Passed, Fits, SameTask, SameWork
    <2>4. CASE e[1] # j
      <3>1. SameCall(e) /\ SameFire(e)
        BY <1>0, <1>3, <2>2, <2>4 DEF CancelCommit, SameCall, SameFire, TypeOK
      <3> QED BY <1>0, <1>1, <2>1, <3>1, Undisturbed
    <2> QED BY <2>3, <2>4
  <1>4. CASE SweepRead(j)
    <2>1. SameFire(e) /\ SameTask(e)
      BY <1>4 DEF SweepRead, memory, SameFire, SameTask
    <2>2. file.fires[e] = "cancelled" /\ Passed(e)' => Passed(e)
      BY <1>0, <1>4 DEF SweepRead, Passed, TypeOK
    <2> QED BY <1>0, <1>1, <2>1, <2>2
            DEF WorkInv, TaskInv, RecordInv, Told, Fits, SameFire, SameTask, SameWork
  <1>5. CASE SweepDone(j)
    <2>1. SameFire(e) /\ SameTask(e)
      BY <1>5 DEF SweepDone, memory, SameFire, SameTask
    <2>2. Passed(e)' => Passed(e)
      BY <1>0, <1>5 DEF SweepDone, Passed, TypeOK
    <2> QED BY <1>0, <1>1, <2>1, <2>2
            DEF WorkInv, TaskInv, RecordInv, Told, Fits, SameFire, SameTask, SameWork
  <1>6. ASSUME NEW f \in Fires, SweepOne(j, f)
        PROVE  WorkInv(e)'
    <2>1. SameFire(e)
      BY <1>6 DEF SweepOne, SameFire
    <2>2. CASE e # f
      <3>1. SameTask(e)
        BY <1>0, <1>6, <2>2 DEF SweepOne, SameTask, TypeOK
      <3>2. Passed(e)' => Passed(e)
        BY <1>0, <1>6, <2>2 DEF SweepOne, Passed, TypeOK
      <3> QED BY <1>0, <1>1, <2>1, <3>1, <3>2
              DEF WorkInv, TaskInv, RecordInv, Told, Fits, SameFire, SameTask, SameWork
    <2>3. CASE e = f
      <3>1. task'[e] = Cut(e)
        BY <1>0, <1>6, <2>3 DEF SweepOne, TypeOK
      <3>2. /\ task'[e].st = task[e].st /\ task'[e].outcome = task[e].outcome
            /\ task'[e].st \in Sending => task'[e].cut
        BY <1>0, <3>1, CutIs DEF Sending
      <3> QED BY <1>0, <1>1, <2>1, <3>2
              DEF WorkInv, TaskInv, RecordInv, Told, Fits, SameFire, SameWork
    <2> QED BY <2>2, <2>3
  <1> QED BY <1>2, <1>3, <1>4, <1>5, <1>6 DEF ToolStep

LEMMA RestKeepsWork ==
  ASSUME IInv, Crash \/ Stop \/ Stopped \/ Passes \/ UNCHANGED vars, NEW e \in Fires
  PROVE  WorkInv(e)'
  <1>0. WorkInv(e) /\ TypeOK
    BY DEF IInv, TInv
  <1>1. SameFire(e) /\ SameWork(e)
    BY DEF Crash, Stop, Stopped, Passes, Forget, vars, delivery, SameFire, SameWork
  <1>2. CASE Crash
    <2>1. task'[e].st = "free"
      BY <1>2, FreeTasks DEF Crash
    <2> QED BY <1>0, <1>1, <2>1, Harmless DEF Sending
  <1>3. CASE Stop
    <2>1. task'[e] = task[e] \/ task'[e] = Cut(e)
      BY <1>3 DEF Stop
    <2>2. /\ task'[e].st = task[e].st /\ task'[e].outcome = task[e].outcome
          /\ task[e].cut => task'[e].cut
      BY <1>0, <2>1, CutIs
    <2>3. SameCall(e)
      BY <1>3 DEF Stop, SameCall
    <2> QED BY <1>0, <1>1, <2>2, <2>3
            DEF WorkInv, TaskInv, RecordInv, Told, Passed, Fits, SameFire, SameWork, SameCall
  <1>4. CASE Stopped \/ Passes \/ UNCHANGED vars
    <2>1. SameTask(e) /\ SameCall(e)
      BY <1>4 DEF Stopped, Passes, vars, memory, SameTask, SameCall
    <2> QED BY <1>0, <1>1, <2>1, Undisturbed
  <1> QED BY <1>2, <1>3, <1>4

-----------------------------------------------------------------------------
(* The invariant, and what follows from it.                                *)

LEMMA StartKeeps ==
  ASSUME Init
  PROVE  IInv
  <1>1. \A f \in Fires : /\ file.fires[f] = "none" /\ task[f].st = "free"
                         /\ log[f] = "none" /\ state[f] = "none"
    BY FreeTasks DEF Init, NoFile, P!PromiseInit
  <1>2. \A j \in Jobs : file.jobs[j].is = "none"
    BY DEF Init, NoFile, NoJob
  <1>3. FileInv
    BY <1>1, <1>2 DEF FileInv, FireCurrent, Counted
  <1>4. \A f \in Fires : WorkInv(f)
    BY <1>1 DEF WorkInv, TaskInv, RecordInv, Told, Sending
  <1> QED BY <1>3, <1>4, StartTyped DEF IInv

LEMMA StepKeeps ==
  ASSUME IInv, [Next]_vars
  PROVE  IInv'
  <1>1. TInv' /\ FileInv'
    BY StepTyped, StepKeepsFile DEF IInv, TInv
  <1>2. ASSUME NEW e \in Fires PROVE WorkInv(e)'
    <2>1. CASE FollowStep
      BY <2>1, FollowKeepsWork
    <2>2. ASSUME NEW f \in Fires, TaskStep(f) \/ Error(f)
          PROVE  WorkInv(e)'
      <3>1. CASE e = f
        BY <2>2, <3>1, TaskKeepsWork
      <3>2. CASE e # f
        BY <2>2, <3>2, OthersStay, Undisturbed DEF IInv
      <3> QED BY <3>1, <3>2
    <2>3. ASSUME NEW j \in Jobs, ToolStep(j)
          PROVE  WorkInv(e)'
      BY <2>3, ToolKeepsWork
    <2>4. CASE Crash \/ Stop \/ Stopped \/ Passes \/ UNCHANGED vars
      BY <2>4, RestKeepsWork
    <2> QED BY <2>1, <2>2, <2>3, <2>4 DEF Next, Disturb
  <1> QED BY <1>1, <1>2 DEF IInv

LEMMA Inductive == Spec => []IInv
  BY StartKeeps, StepKeeps, PTL DEF Spec

\* A pending fire is the current one of a job that is still scheduled, whatever the
\* follower, a settlement, a start and the cancel tool do to the schedule file
\* (JobStore.start_fire, settle, cancel, recover).
THEOREM PendingStaysCurrent == Spec => []PendingIsCurrent
  <1>1. IInv => PendingIsCurrent
    BY DEF IInv, FileInv, FireCurrent, PendingIsCurrent
  <1> QED BY <1>1, Inductive, PTL

\* What the file says of a fire is true of its delivery (SchedulerRuntime._fire,
\* JobStore.settle).
THEOREM FiresStayHonest == Spec => []FiresAreHonest
  <1>1. IInv => FiresAreHonest
    BY DEF IInv, WorkInv, RecordInv, Fits, FiresAreHonest
  <1> QED BY <1>1, Inductive, PTL

\* A job has counted each of its deliveries once (JobStore.settle).
THEOREM CountsStayDeliveries == Spec => []CountsAreDeliveries
  <1>1. IInv => CountsAreDeliveries
    BY DEF IInv, FileInv, Counted, Delivered, CountsAreDeliveries
  <1> QED BY <1>1, Inductive, PTL

\* When the cancel tool has returned, whoever works on a cancelled fire was told
\* (cancel_fires).
THEOREM WithdrawnStaysTold == Spec => []WithdrawnIsTold
  <1>1. IInv => WithdrawnIsTold
    BY DEF IInv, WorkInv, Told, Passed, Withdrawn, WithdrawnIsTold
  <1> QED BY <1>1, Inductive, PTL

\* A fire that was settled or cancelled stays what it is (JobStore.settle, cancel).
THEOREM SettledOnce == Spec => FiresSettleOnce
  <1>1. ASSUME IInv, [Next]_vars, NEW e \in Fires, file.fires[e] \notin {"none", "pending"}
        PROVE  file'.fires[e] = file.fires[e]
    <2>0. TypeOK /\ FileInv
      BY <1>1 DEF IInv, TInv
    <2>1. CASE FollowStep
      <3>1. CASE Boot
        <4> DEFINE jobs == [j \in Jobs |-> Recovered(j)]
        <4>1. file' = [file EXCEPT !.jobs = jobs] /\ file \in File
          BY <2>0, <3>1 DEF Boot, TypeOK
        <4> HIDE DEF jobs
        <4> QED BY <4>1 DEF File
      <3>2. ASSUME NEW f \in Fires, RecordFire(f)
            PROVE  file'.fires[e] = file.fires[e]
        <4>1. CASE StartsFire(f[1], f[2])
          <5>1. file.fires \in [Fires -> FireStatus] /\ f = <<f[1], f[2]>>
            BY <2>0, FileFields, FireParts DEF TypeOK
          <5>2. file'.fires = [file.fires EXCEPT ![f] = "pending"]
            BY <3>2, <4>1 DEF RecordFire, Change
          <5>3. e # f
            BY <1>1, <4>1, <5>1 DEF StartsFire
          <5> QED BY <5>1, <5>2, <5>3
        <4>2. CASE ~StartsFire(f[1], f[2])
          BY <3>2, <4>2 DEF RecordFire
        <4> QED BY <4>1, <4>2
      <3> QED BY <2>1, <3>1, <3>2
              DEF FollowStep, Tick, Read, StartOne, StartAgain, StartDue, FollowOnly
    <2>2. ASSUME NEW f \in Fires, TaskStep(f) \/ Error(f)
          PROVE  file'.fires[e] = file.fires[e]
      <3>1. ASSUME NEW outcome \in {"none", "delivered", "failed"}, SettleFire(f[1], f[2], outcome)
            PROVE  file'.fires[e] = file.fires[e]
        BY <1>1, <2>0, <3>1, SettlementIs
      <3>2. task[f].outcome \in {"none", "delivered", "failed"}
        BY <2>0, TaskFields DEF TypeOK
      <3> QED BY <2>2, <3>1, <3>2
              DEF TaskStep, Error, Begin, ReadFire, Compose, Fails, Prepare, Deliver, Sent, Drained,
                  Reread, Withdraw, Settle, Clean, Abort, TaskEnd
    <2>3. ASSUME NEW j \in Jobs, ToolStep(j)
          PROVE  file'.fires[e] = file.fires[e]
      <3>1. CASE Add(j)
        BY <3>1 DEF Add, Change
      <3>2. CASE CancelCommit(j)
        BY <1>1, <3>2 DEF CancelCommit, Change
      <3> QED BY <2>3, <3>1, <3>2 DEF ToolStep, SweepRead, SweepDone, SweepOne
    <2>4. CASE Crash \/ Stop \/ Stopped \/ Passes \/ UNCHANGED vars
      BY <2>4 DEF Crash, Stop, Stopped, Passes, Forget, vars
    <2> QED BY <1>1, <2>1, <2>2, <2>3, <2>4 DEF Next, Disturb
  <1>2. IInv /\ [Next]_vars =>
          [\A f \in Fires : file.fires[f] \notin {"none", "pending"} => file'.fires[f] = file.fires[f]]_vars
    BY <1>1
  <1> QED BY <1>2, Inductive, PTL DEF Spec, FiresSettleOnce

=============================================================================
