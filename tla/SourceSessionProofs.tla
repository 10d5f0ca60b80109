------------------------- MODULE SourceSessionProofs -------------------------
(* What holds of SourceSession for every value of its constants.           *)
EXTENDS SourceSession, NumberProofs, TLAPS

-----------------------------------------------------------------------------
(* Typing.                                                                 *)

\* The states a revoked task may be in are states of a task (Task.cancel).
LEMMA RevokedTyped ==
  ASSUME NEW tk \in Task
  PROVE  Revoked(tk) \in Task /\ Superseded(tk) \in Task
BY DEF Revoked, Superseded, Task, TaskStates

\* A task that TaskSlot.start creates is a task, whomever it works for.
LEMMA NewTaskTyped ==
  ASSUME NEW hint \in Nat, NEW for \in Completions \union {NoId}
  PROVE  NewTask(hint, for) \in Task /\ FreeTask \in Task
BY DEF NewTask, FreeTask, Task, TaskStates

\* The head of a source is a natural number.
LEMMA HeadTyped == ASSUME TypeOK PROVE SourceHead \in Nat
BY DEF TypeOK, SourceHead

\* A message of a known type, identity and prefix may be appended.
LEMMA WriteTyped ==
  ASSUME TypeOK, NEW type \in MessageTypes, NEW id \in Ids, NEW through \in Nat,
         Write(Msg(type, id, through))
  PROVE  log' \in Seq(Message)
BY DEF TypeOK, Write, Msg, Message

\* Taking the admission records a typed holder; releasing it a typed nobody.
LEMMA HoldTyped ==
  ASSUME TypeOK, NEW op \in LaneOps, NEW at \in {"decide", "commit", "notify"},
         NEW id \in Ids, NEW t \in TaskIds \union {NoTask}
  PROVE  /\ Hold(op, at, id, t) => lane' \in Lane
         /\ Release => lane' \in Lane
BY HeadTyped DEF Hold, Release, Lane, FreeLane, LaneOps, Ids

\* The admission nobody holds is typed.
LEMMA FreeLaneTyped == FreeLane \in Lane /\ FreeLane.op = "none"
BY DEF FreeLane, Lane, LaneOps, Ids

\* A step of a task leaves a typed table of tasks.
LEMMA StepTyped ==
  ASSUME TypeOK, NEW t \in TaskIds, NEW st \in TaskStates, Step(t, st)
  PROVE  task' \in [TaskIds -> Task]
BY DEF TypeOK, Step, Task

\* A change of one entry keeps the table typed, also when there is no such entry.
LEMMA EntryTyped ==
  ASSUME TypeOK, NEW t, NEW tk, t \in TaskIds => tk \in Task
  PROVE  [task EXCEPT ![t] = tk] \in [TaskIds -> Task]
BY DEF TypeOK

\* Where a coroutine goes on after its admission it is in a state of a task.
LEMMA GoOnTyped ==
  ASSUME TypeOK, NEW t, NEW from, NEW to \in TaskStates, GoOn(t, from, to)
  PROVE  task' \in [TaskIds -> Task]
<1>1. ASSUME t \in TaskIds PROVE [task[t] EXCEPT !.st = to] \in Task
  BY <1>1 DEF TypeOK, Task
<1> QED BY <1>1, EntryTyped DEF GoOn, TypeOK

\* A disturbance stays within the counters it is bounded by.
LEMMA SpendTyped ==
  ASSUME TypeOK, NEW f \in Faults, Spend(f)
  PROVE  spent' \in [Faults -> Nat]
BY SlotAssumption DEF TypeOK, Spend

\* A steer is in the log before it is announced to its task.
SteerWritten == At("steer", "notify") => Recorded(lane.id)

\* A completion is admitted under the name of its program.
CompletionNamed == lane.op = "complete" => lane.id \in Completions

TypeInv == TypeOK /\ SteerWritten /\ CompletionNamed

USE DEF LaneFree, At

\* What users and finished programs ask for takes the admission and nothing else.
LEMMA UserTyped == ASSUME TypeInv, UserStep PROVE TypeInv'
<1> USE HoldTyped DEF TypeInv, SteerWritten, CompletionNamed, Hold, TypeOK, Ids, LaneOps
<1>1. CASE \E i \in Inputs : AcceptBegin(i) BY <1>1 DEF AcceptBegin
<1>2. CASE \E i \in Pauses : PauseBegin(i) BY <1>2 DEF PauseBegin
<1>3. CASE \E i \in Abandons : AbandonBegin(i) BY <1>3 DEF AbandonBegin
<1>4. CASE \E i \in Retries : ResumeBegin(i) BY <1>4 DEF ResumeBegin
<1>5. CASE \E c \in Completions : CompleteBegin(c) BY <1>5 DEF CompleteBegin
<1> QED BY <1>1, <1>2, <1>3, <1>4, <1>5 DEF UserStep

\* The actions that only write a message and move the admission on.
LEMMA WritersTyped ==
  ASSUME TypeInv, AcceptCommit \/ PauseCommit \/ ControlCommit \/ ReportCommit \/ SteerCommit
  PROVE  TypeInv'
<1> USE HeadTyped DEF TypeInv, SteerWritten, CompletionNamed, TypeOK, Release
<1>1. CASE AcceptCommit
  <2>1. log' \in Seq(Message) BY <1>1, WriteTyped DEF AcceptCommit, MessageTypes, Lane
  <2> QED BY <1>1, <2>1 DEF AcceptCommit, Lane
<1>2. CASE PauseCommit
  <2>1. log' \in Seq(Message) BY <1>2, WriteTyped DEF PauseCommit, MessageTypes, ControlTypes, Lane
  <2> QED BY <1>2, <2>1 DEF PauseCommit, Lane
<1>3. CASE ControlCommit
  <2>1. log' \in Seq(Message) BY <1>3, WriteTyped DEF ControlCommit, MessageTypes, ControlTypes, Lane
  <2>2. lane' \in Lane BY <1>3, HoldTyped DEF ControlCommit, Lane
  <2>3. lane'.op \notin {"steer", "complete"} BY <1>3 DEF ControlCommit, Lane, FreeLane
  <2> QED BY <1>3, <2>1, <2>2, <2>3 DEF ControlCommit
<1>4. CASE ReportCommit
  <2>1. log' \in Seq(Message)
    BY <1>4, WriteTyped DEF ReportCommit, MessageTypes, ControlTypes, Lane, Ids
  <2>2. IdleDrive \in Drive BY DEF IdleDrive, Drive, DriveStates
  <2> QED BY <1>4, <2>1, <2>2, FreeLaneTyped DEF ReportCommit
<1>5. CASE SteerCommit
  <2>1. log' \in Seq(Message) BY <1>5, WriteTyped DEF SteerCommit, MessageTypes, Lane
  <2>2. lane' \in Lane BY <1>5, HoldTyped DEF SteerCommit, Lane
  <2>3. task' \in [TaskIds -> Task]
    BY <1>5, GoOnTyped DEF SteerCommit, BackToReading, TaskStates
  <2>4. SteerWritten'
    <3>1. CASE Recorded(lane.id) /\ UNCHANGED <<log, task>> /\ lane' = [lane EXCEPT !.at = "notify"]
      BY <1>5, <3>1 DEF Recorded, Lane
    <3>2. CASE Write(Msg("input", lane.id, lane.head)) /\ lane' = [lane EXCEPT !.at = "notify"]
      <4>1. Len(log') = Len(log) + 1 /\ log'[Len(log')].id = lane.id
        BY <3>2 DEF Write, Msg
      <4>2. Len(log') \in 1..Len(log') BY <4>1
      <4> QED BY <3>2, <4>1, <4>2 DEF Recorded, Lane
    <3>3. CASE Release BY <3>3 DEF FreeLane
    <3> QED BY <1>5, <3>1, <3>2, <3>3 DEF SteerCommit
  <2>5. CompletionNamed' BY <1>5, FreeLaneTyped DEF SteerCommit, Lane
  <2> QED BY <1>5, <2>1, <2>2, <2>3, <2>4, <2>5 DEF SteerCommit
<1> QED BY <1>1, <1>2, <1>3, <1>4, <1>5

\* The actions of the admission that revoke, decide and start.
LEMMA HoldersTyped ==
  ASSUME TypeInv, LaneStep,
         ~(AcceptCommit \/ PauseCommit \/ ControlCommit \/ ReportCommit \/ SteerCommit)
  PROVE  TypeInv'
<1> USE FreeLaneTyped DEF TypeInv, SteerWritten, CompletionNamed, TypeOK, Release
<1>1. CASE Committed
  <2>1. task' \in [TaskIds -> Task] BY <1>1, RevokedTyped DEF Committed
  <2> QED BY <1>1, <2>1 DEF Committed
<1>2. CASE PauseDecide
  <2>1. PauseThrough \in Nat
    <3>1. lane.head \in Nat BY DEF Lane
    <3>2. current # NoTask => task[current].hint \in Nat BY DEF Task
    <3> QED BY <3>1, <3>2 DEF PauseThrough
  <2>2. lane' \in Lane /\ lane'.op = "pause" BY <1>2, <2>1 DEF PauseDecide, Lane
  <2> QED BY <1>2, <2>2 DEF PauseDecide
<1>3. CASE PauseRetry BY <1>3, HeadTyped DEF PauseRetry, Hold, LaneOps, Lane
<1>4. CASE ControlDecide BY <1>4 DEF ControlDecide, Lane, LaneOps
<1>5. CASE SteerDecide BY <1>5, GoOnTyped DEF SteerDecide, BackToReading, Lane, TaskStates
<1>6. CASE AdmissionDrop BY <1>6 DEF AdmissionDrop
<1>7. CASE SteerNotify
  <2>1. SeqOf(lane.id) \in Nat
    <3>1. \E n \in 1..Len(log) : log[n].id = lane.id BY <1>7 DEF SteerNotify, Recorded
    <3>2. SeqOf(lane.id) \in 1..Len(log) BY <3>1 DEF SeqOf
    <3> QED BY <3>2
  <2>2. ASSUME lane.task \in TaskIds
        PROVE  [task[lane.task] EXCEPT !.st = "reading", !.hint = SeqOf(lane.id)] \in Task
    <3>1. task[lane.task] \in Task BY <2>2
    <3> QED BY <2>1, <3>1 DEF Task, TaskStates
  <2>3. task' \in [TaskIds -> Task] BY <1>7, <2>2, EntryTyped DEF SteerNotify
  <2> QED BY <1>7, <2>3 DEF SteerNotify
<1>8. CASE FailDecide BY <1>8, GoOnTyped DEF FailDecide, Lane, TaskStates
<1>9. CASE FailCommit
  <2>1. log' \in Seq(Message)
    BY <1>9, WriteTyped DEF FailCommit, MessageTypes, ControlTypes, Lane, Ids
  <2> QED BY <1>9, <2>1, GoOnTyped DEF FailCommit, TaskStates
<1>10. CASE ReportConflict BY <1>10 DEF ReportConflict, IdleDrive, Drive, DriveStates
<1>11. CASE StartRetry \/ CompleteRetry
  BY <1>11, HeadTyped DEF StartRetry, CompleteRetry, Hold, Lane, LaneOps, Ids
<1>12. CASE CompleteFull BY <1>12 DEF CompleteFull
<1>13. Yielded \in [TaskIds -> Task] BY RevokedTyped DEF Yielded
<1>14. CASE StartResidual BY <1>14 DEF StartResidual, Undisturbed, Drive, DriveStates
<1>15. CASE StartNothing
  BY <1>13, <1>15 DEF StartNothing, Undisturbed, IdleDrive, Drive, DriveStates
<1>16. CASE StartFull
  BY <1>13, <1>16 DEF StartFull, Undisturbed, Aside, Drive, DriveStates
<1>17. ASSUME NEW t \in TaskIds, StartTask(t) PROVE TypeInv'
  <2>1. NewTask(lane.head, NoId) \in Task BY NewTaskTyped DEF Lane
  <2>2. task' \in [TaskIds -> Task] BY <1>13, <1>17, <2>1 DEF StartTask
  <2> QED BY <1>17, <2>2 DEF StartTask, Undisturbed, Aside, Drive, DriveStates
<1>18. ASSUME NEW t \in TaskIds, CompleteStart(t) PROVE TypeInv'
  <2>1. NewTask(lane.head, lane.id) \in Task BY <1>18, NewTaskTyped DEF CompleteStart, Lane
  <2> QED BY <1>18, <2>1, EntryTyped DEF CompleteStart
<1> QED
  BY <1>1, <1>2, <1>3, <1>4, <1>5, <1>6, <1>7, <1>8, <1>9, <1>10, <1>11, <1>12, <1>14,
     <1>15, <1>16, <1>17, <1>18 DEF LaneStep

\* The follower's drive.
LEMMA DriveTyped == ASSUME TypeInv, DriveStep PROVE TypeInv'
<1> USE DEF TypeInv, SteerWritten, CompletionNamed, TypeOK, Recorded
<1>1. CASE DriveBegin BY <1>1, HeadTyped DEF DriveBegin, Drive, DriveStates
<1>2. CASE StartActive BY <1>2 DEF StartActive, Drive, DriveStates
<1>3. CASE StartYield BY <1>3 DEF StartYield, Drive, DriveStates
<1>4. CASE StartBegin BY <1>4, HeadTyped DEF StartBegin, Hold, Lane, LaneOps, Ids
<1>5. CASE DriveDetach
  <2>1. task' \in [TaskIds -> Task] BY <1>5, RevokedTyped, EntryTyped DEF DriveDetach
  <2> QED BY <1>5, <2>1 DEF DriveDetach, IdleDrive, Drive, DriveStates
<1>6. CASE ReportBegin
  <2>1. drive.boundary \in Nat /\ SourceHead \in Nat BY HeadTyped DEF Drive
  <2>2. CASE Pending(SourceHead) /\ drive.boundary > 0
    BY <1>6, <2>1, <2>2 DEF ReportBegin, Lane, LaneOps, Ids
  <2>3. CASE ~(Pending(SourceHead) /\ drive.boundary > 0)
    BY <1>6, <2>3 DEF ReportBegin, IdleDrive, Drive, DriveStates
  <2> QED BY <2>2, <2>3
<1> QED BY <1>1, <1>2, <1>3, <1>4, <1>5, <1>6 DEF DriveStep

\* The reply task's own steps that write to the log.
LEMMA AuthorTyped ==
  ASSUME TypeInv, NEW t \in TaskIds,
         \/ \E n \in 1..SourceHead : SettleCall(t, n)
         \/ \E finish \in OutputTypes : Commit(t, finish)
         \/ ToolFinish(t) \/ CloseCommit(t)
  PROVE  TypeInv'
<1> USE HeadTyped DEF TypeInv, TypeOK
<1>1. task[t] \in Task OBVIOUS
<1>2. task[t].read \in Nat BY <1>1 DEF Task
<1>3. log' \in Seq(Message) /\ task' \in [TaskIds -> Task]
  <2>1. ASSUME NEW n \in 1..SourceHead, SettleCall(t, n)
        PROVE  log' \in Seq(Message) /\ task' \in [TaskIds -> Task]
    <3>1. n \in Nat BY <2>1
    <3>2. log' \in Seq(Message) BY <2>1, <3>1, WriteTyped DEF SettleCall, MessageTypes, Ids
    <3> QED BY <2>1, <3>2 DEF SettleCall
  <2>2. ASSUME NEW finish \in OutputTypes, Commit(t, finish)
        PROVE  log' \in Seq(Message) /\ task' \in [TaskIds -> Task]
    <3>1. log' \in Seq(Message) BY <1>2, <2>2, WriteTyped DEF Commit, MessageTypes, Ids
    <3>2. [task[t] EXCEPT !.read = SourceHead + 1,
                          !.st = IF finish = "continue" THEN "tools" ELSE "finished"] \in Task
      <4> DEFINE st == IF finish = "continue" THEN "tools" ELSE "finished"
      <4>1. st \in TaskStates BY DEF TaskStates
      <4>2. SourceHead + 1 \in Nat BY HeadTyped
      <4> HIDE DEF st
      <4>3. [task[t] EXCEPT !.read = SourceHead + 1, !.st = st] \in Task
        BY <1>1, <4>1, <4>2 DEF Task
      <4> QED BY <4>3 DEF st
    <3> QED BY <2>2, <3>1, <3>2 DEF Commit
  <2>3. CASE ToolFinish(t)
    <3>1. log' \in Seq(Message) BY <1>2, <2>3, WriteTyped DEF ToolFinish, MessageTypes, Ids
    <3> QED BY <2>3, <3>1, StepTyped DEF ToolFinish, TaskStates
  <2>4. CASE CloseCommit(t)
    <3>1. Msg("abandon", NoId, task[t].read) \in Message
      BY <1>2 DEF Msg, Message, MessageTypes, ControlTypes, Ids
    <3>2. log' \in Seq(Message) BY <2>4, <3>1 DEF CloseCommit
    <3>3. Step(t, "finished") \/ Step(t, "failing") BY <2>4 DEF CloseCommit
    <3>4. task' \in [TaskIds -> Task] BY <3>3, StepTyped DEF TaskStates
    <3> QED BY <3>2, <3>4
  <2> QED BY <2>1, <2>2, <2>3, <2>4
<1>4. SteerWritten' /\ CompletionNamed'
  <2>1. log' = log \/ \E m : log' = Append(log, m)
    BY DEF SettleCall, Commit, ToolFinish, CloseCommit, Write
  <2>2. lane' = lane BY DEF SettleCall, Commit, ToolFinish, CloseCommit
  <2>3. Recorded(lane.id) => Recorded(lane.id)'
    <3>1. CASE log' = log BY <2>2, <3>1 DEF Recorded
    <3>2. ASSUME NEW m, log' = Append(log, m), Recorded(lane.id) PROVE Recorded(lane.id)'
      <4>1. PICK n \in 1..Len(log) : log[n].id = lane.id BY <3>2 DEF Recorded
      <4>2. n \in 1..Len(log') /\ log'[n] = log[n] BY <3>2, <4>1
      <4> QED BY <2>2, <4>1, <4>2 DEF Recorded
    <3> QED BY <2>1, <3>1, <3>2
  <2> QED BY <2>2, <2>3 DEF SteerWritten, CompletionNamed
<1> QED BY <1>3, <1>4 DEF SettleCall, Commit, ToolFinish, CloseCommit

\* A task that has read a prefix goes on as a task.
LEMMA ReaderTyped ==
  ASSUME NEW tk \in Task, NEW n \in Nat, NEW st \in TaskStates
  PROVE  [tk EXCEPT !.read = n, !.st = st] \in Task
BY DEF Task

\* A step that only moves a task on is typed when the table of tasks is.
LEMMA MoveTyped ==
  ASSUME TypeInv, task' \in [TaskIds -> Task],
         UNCHANGED <<log, lane, current, residual, drive, waiting, accepting, spent>>
  PROVE  TypeInv'
<1>1. TypeOK' BY DEF TypeInv, TypeOK
<1>2. SteerWritten' /\ CompletionNamed' BY DEF TypeInv, SteerWritten, CompletionNamed, Recorded
<1> QED BY <1>1, <1>2 DEF TypeInv

\* The reply task's other steps.
LEMMA TaskTyped == ASSUME TypeInv, NEW t \in TaskIds, TaskStep(t) PROVE TypeInv'
<1> USE DEF TypeInv, SteerWritten, CompletionNamed, TypeOK, Recorded
<1>1. CASE Read(t)
  <2>1. task[t] \in Task /\ SourceHead \in Nat BY HeadTyped
  <2> DEFINE st == IF Steps(SourceHead) >= MaxSteps THEN "limit" ELSE "preparing"
  <2>2. st \in TaskStates BY DEF TaskStates
  <2>3. [task[t] EXCEPT !.read = SourceHead, !.st = st] \in Task
    BY <2>1, <2>2, ReaderTyped
  <2>4. task' \in [TaskIds -> Task] BY <1>1, <2>3 DEF Read
  <2>5. UNCHANGED <<log, lane, current, residual, drive, waiting, accepting, spent>>
    BY <1>1 DEF Read
  <2> HIDE DEF TypeInv, SteerWritten, CompletionNamed, TypeOK, Recorded
  <2> QED BY <2>4, <2>5, MoveTyped
<1>2. CASE Prepare(t) BY <1>2, StepTyped DEF Prepare, TaskStates
<1>3. CASE CommitRefused(t) BY <1>3, StepTyped DEF CommitRefused, TaskStates
<1>4. CASE Deliver(t) BY <1>4, StepTyped DEF Deliver, TaskStates
<1>5. CASE CloseCheck(t) BY <1>5, StepTyped DEF CloseCheck, TaskStates
<1>6. CASE CloseHead(t)
  <2>1. task[t] \in Task /\ SourceHead \in Nat /\ "abandoning" \in TaskStates
    BY HeadTyped DEF TaskStates
  <2>2. [task[t] EXCEPT !.read = SourceHead, !.st = "abandoning"] \in Task
    BY <2>1, ReaderTyped
  <2>3. task' \in [TaskIds -> Task] BY <1>6, <2>2 DEF CloseHead
  <2>4. UNCHANGED <<log, lane, current, residual, drive, waiting, accepting, spent>>
    BY <1>6 DEF CloseHead
  <2> HIDE DEF TypeInv, SteerWritten, CompletionNamed, TypeOK, Recorded
  <2> QED BY <2>3, <2>4, MoveTyped
<1>7. CASE FailBegin(t)
  <2>1. task' \in [TaskIds -> Task] BY <1>7, StepTyped DEF FailBegin, TaskStates
  <2>2. lane' \in Lane BY <1>7, HeadTyped DEF FailBegin, Hold, Lane, LaneOps, Ids
  <2> QED BY <1>7, <2>1, <2>2 DEF FailBegin, Hold
<1>8. CASE TaskEnd(t)
  <2>1. FreeTask \in Task BY DEF FreeTask, Task, TaskStates
  <2>2. task[t].hint \in Nat BY DEF Task
  <2>3. drive' \in Drive BY <1>8, <2>2 DEF TaskEnd, IdleDrive, Drive, DriveStates
  <2> QED BY <1>8, <2>1, <2>3 DEF TaskEnd
<1> QED
  BY AuthorTyped, <1>1, <1>2, <1>3, <1>4, <1>5, <1>6, <1>7, <1>8 DEF TaskStep

\* Steers, failing programs, withdrawn rights, crashes and the restart gate.
LEMMA DisturbTyped == ASSUME TypeInv, Disturb PROVE TypeInv'
<1> USE DEF TypeInv, SteerWritten, CompletionNamed, TypeOK, Recorded
<1>1. ASSUME NEW t \in TaskIds, NEW i \in Inputs, SteerBegin(t, i) PROVE TypeInv'
  <2>1. spent' \in [Faults -> Nat] BY <1>1, SpendTyped DEF SteerBegin, Faults
  <2>2. lane' \in Lane BY <1>1, HeadTyped DEF SteerBegin, Hold, Lane, LaneOps, Ids
  <2>3. task' \in [TaskIds -> Task] BY <1>1, StepTyped DEF SteerBegin, Step, TaskStates
  <2>4. lane'.op = "steer" /\ lane'.at = "decide" BY <1>1 DEF SteerBegin, Hold
  <2> QED BY <1>1, <2>1, <2>2, <2>3, <2>4 DEF SteerBegin
<1>2. ASSUME NEW t \in TaskIds, ProgramFail(t) PROVE TypeInv'
  BY <1>2, StepTyped, SpendTyped DEF ProgramFail, TaskStates, Faults
<1>3. ASSUME NEW t \in TaskIds, OwnerCancel(t) PROVE TypeInv'
  BY <1>3, RevokedTyped, SpendTyped DEF OwnerCancel, Faults
<1>4. CASE Crash
  <2>1. FreeTask \in Task BY DEF FreeTask, Task, TaskStates
  <2>2. IdleDrive \in Drive BY DEF IdleDrive, Drive, DriveStates
  <2> QED BY <1>4, <2>1, <2>2, FreeLaneTyped, SpendTyped DEF Crash, Faults
<1>5. CASE GateClose BY <1>5, SpendTyped DEF GateClose, Faults
<1>6. CASE GateOpen BY <1>6 DEF GateOpen
<1> QED BY <1>1, <1>2, <1>3, <1>4, <1>5, <1>6 DEF Disturb

\* A process starts typed.
LEMMA InitTyped == Init => TypeInv
<1> SUFFICES ASSUME Init PROVE TypeInv OBVIOUS
<1>1. FreeTask \in Task BY DEF FreeTask, Task, TaskStates
<1>2. IdleDrive \in Drive BY DEF IdleDrive, Drive, DriveStates
<1> QED
  BY <1>1, <1>2, FreeLaneTyped DEF Init, TypeInv, TypeOK, SteerWritten, CompletionNamed

\* Typing is inductive.
LEMMA NextTyped == ASSUME TypeInv, [Next]_vars PROVE TypeInv'
<1>1. CASE Next
  BY <1>1, UserTyped, WritersTyped, HoldersTyped, DriveTyped, TaskTyped, DisturbTyped DEF Next
<1>2. CASE UNCHANGED vars
  BY <1>2 DEF vars, TypeInv, TypeOK, SteerWritten, CompletionNamed, Recorded
<1> QED BY <1>1, <1>2

\* Whatever the users, the follower and the tasks do, every part of the state
\* keeps its type, for any number of clients, tasks and disturbances.
THEOREM TypeCorrect == Spec => []TypeOK
<1>1. TypeInv => TypeOK BY DEF TypeInv
<1> QED BY <1>1, InitTyped, NextTyped, PTL DEF Spec

-----------------------------------------------------------------------------
(* The log.                                                                *)

\* What a step may do to the log: append one message, an output only to a
\* prefix its author has read.
Appended(m) ==
  /\ log' = Append(log, m)
  /\ m.type \in OutputTypes => ~Competing(m.through)

\* The log of a source is append-only, and whoever appends an output has read
\* everything that competes with it (the ledger's append; react's transaction).
LEMMA LogGrows == ASSUME TypeInv, [Next]_vars PROVE UNCHANGED log \/ \E m : Appended(m)
<1> USE DEF Appended, Write, Msg, OutputTypes
<1>1. CASE UserStep
  BY <1>1 DEF UserStep, AcceptBegin, PauseBegin, AbandonBegin, ResumeBegin, CompleteBegin
<1>2. CASE LaneStep
  <2>1. CASE AcceptCommit BY <2>1 DEF AcceptCommit
  <2>2. CASE PauseCommit BY <2>2 DEF PauseCommit
  <2>3. CASE ControlCommit BY <2>3 DEF ControlCommit
  <2>4. CASE SteerCommit BY <2>4 DEF SteerCommit
  <2>5. CASE FailCommit BY <2>5 DEF FailCommit
  <2>6. CASE ReportCommit BY <2>6 DEF ReportCommit
  <2> QED
    BY <1>2, <2>1, <2>2, <2>3, <2>4, <2>5, <2>6
       DEF LaneStep, PauseDecide, PauseRetry, ControlDecide, Committed, SteerDecide,
           AdmissionDrop, SteerNotify, FailDecide, ReportConflict, StartRetry, StartResidual,
           StartNothing, StartFull, CompleteRetry, CompleteFull, StartTask, CompleteStart
<1>3. CASE DriveStep
  BY <1>3 DEF DriveStep, DriveBegin, StartActive, StartYield, StartBegin, DriveDetach, ReportBegin
<1>4. ASSUME NEW t \in TaskIds, TaskStep(t) PROVE UNCHANGED log \/ \E m : Appended(m)
  <2>1. ASSUME NEW n \in 1..SourceHead, SettleCall(t, n) PROVE \E m : Appended(m)
    BY <2>1 DEF SettleCall
  <2>2. ASSUME NEW finish \in OutputTypes, Commit(t, finish) PROVE \E m : Appended(m)
    BY <2>2 DEF Commit, MayCommit
  <2>3. CASE ToolFinish(t) BY <2>3 DEF ToolFinish
  <2>4. CASE CloseCommit(t) BY <2>4 DEF CloseCommit
  <2> QED
    BY <1>4, <2>1, <2>2, <2>3, <2>4
       DEF TaskStep, Read, Prepare, CommitRefused, Deliver, CloseCheck, CloseHead, FailBegin, TaskEnd
<1>5. CASE Disturb
  BY <1>5 DEF Disturb, SteerBegin, ProgramFail, OwnerCancel, Crash, GateClose, GateOpen
<1>6. CASE UNCHANGED vars BY <1>6 DEF vars
<1> QED BY <1>1, <1>2, <1>3, <1>4, <1>5, <1>6 DEF Next

\* An appended message keeps every answer on the prefix its author had read.
LEMMA AnswersStep ==
  ASSUME TypeInv, AnswersReadTheirPrefix, [Next]_vars
  PROVE  AnswersReadTheirPrefix'
<1> DEFINE rivals == {"input"} \union ControlTypes \union OutputTypes
<1>1. log \in Seq(Message) /\ Len(log) \in Nat BY DEF TypeInv, TypeOK
<1>2. CASE UNCHANGED log
  BY <1>2 DEF AnswersReadTheirPrefix, Seqs, SourceHead
<1>3. ASSUME NEW m, Appended(m) PROVE AnswersReadTheirPrefix'
  <2>1. log' = Append(log, m) BY <1>3 DEF Appended
  <2>2. Len(log') = Len(log) + 1 /\ log'[Len(log) + 1] = m
        /\ \A n \in 1..Len(log) : log'[n] = log[n]
    BY <1>1, <2>1
  <2> SUFFICES ASSUME NEW n \in 1..Len(log'), log'[n].type \in OutputTypes,
                      NEW k \in 1..Len(log'), k > log'[n].through, k <= n - 1
               PROVE  log'[k].type \notin rivals
    BY DEF AnswersReadTheirPrefix, Seqs, SourceHead
  <2>3. k \in 1..Len(log) /\ log'[k] = log[k] BY <1>1, <2>2
  <2>4. CASE n <= Len(log)
    <3>1. n \in 1..Len(log) /\ log'[n] = log[n] BY <1>1, <2>2, <2>4
    <3>2. n \in Seqs(OutputTypes, 0, SourceHead) BY <1>1, <3>1 DEF Seqs, SourceHead
    <3>3. Seqs(rivals, log[n].through, n - 1) = {} BY <3>2 DEF AnswersReadTheirPrefix
    <3> QED BY <2>3, <3>1, <3>3 DEF Seqs
  <2>5. CASE n = Len(log) + 1
    <3>1. ~Competing(m.through) BY <1>3, <2>2, <2>5 DEF Appended
    <3> QED BY <1>1, <2>2, <2>3, <2>5, <3>1 DEF Competing, Seqs, SourceHead
  <2> QED BY <1>1, <2>2, <2>4, <2>5
<1> QED BY <1>2, <1>3, LogGrows

\* No answer ignores what arrived while it was written, however many users,
\* tasks and crashes there are: react's transaction alone sees to it.
THEOREM AnswersReadTheirPrefixAlways == Spec => []AnswersReadTheirPrefix
<1>1. Init => AnswersReadTheirPrefix
  BY DEF Init, AnswersReadTheirPrefix, Seqs, SourceHead
<1>2. TypeInv /\ AnswersReadTheirPrefix /\ [Next]_vars => AnswersReadTheirPrefix'
  BY AnswersStep
<1> QED BY <1>1, <1>2, InitTyped, NextTyped, PTL DEF Spec

-----------------------------------------------------------------------------
(* The slot.                                                               *)

\* Only the task in the slot may commit.
HolderInSlot == \A t \in TaskIds : task[t].active => t = current

\* The slot holds a task that has not ended.
SlotOccupied == current # NoTask => task[current].st # "free"

\* Where a superseded task may be: it only has to end.
EndStates == {"tools", "draining", "failing", "failed"}

\* A superseded task has lost its right and is about to end, and its turn is
\* closed in the log.
SupersededEnds ==
  \A t \in TaskIds : task[t].superseded =>
    /\ ~task[t].active
    /\ task[t].st \in EndStates
    /\ BoundaryCommitted(task[t].hint, SourceHead)

ResidualSuperseded == \A t \in residual : task[t].superseded

\* While a completion is admitted the slot stays empty; while an abandon or a
\* retry is written nobody may commit.
SlotReserved ==
  /\ lane.op = "complete" => current = NoTask
  /\ lane.op \in {"abandon", "resume"} /\ lane.at # "decide" /\ current # NoTask
       => ~task[current].active

SlotInv ==
  HolderInSlot /\ SlotOccupied /\ SupersededEnds /\ ResidualSuperseded /\ SlotReserved

\* A boundary that is in the log stays in it.
LEMMA BoundaryStays ==
  ASSUME TypeInv, [Next]_vars, NEW hint \in Nat, BoundaryCommitted(hint, SourceHead)
  PROVE  BoundaryCommitted(hint, SourceHead)'
<1>1. log \in Seq(Message) /\ Len(log) \in Nat BY DEF TypeInv, TypeOK
<1>2. CASE UNCHANGED log BY <1>2 DEF BoundaryCommitted, Seqs, SourceHead
<1>3. ASSUME NEW m, Appended(m) PROVE BoundaryCommitted(hint, SourceHead)'
  <2>1. PICK n \in 1..Len(log) : n > hint /\ log[n].type \in {"complete"} \union ControlTypes
    BY DEF BoundaryCommitted, Seqs
  <2>2. log' = Append(log, m) BY <1>3 DEF Appended
  <2>3. Len(log') = Len(log) + 1 /\ n \in 1..Len(log') /\ n <= Len(log') /\ log'[n] = log[n]
    BY <1>1, <2>1, <2>2
  <2> QED BY <2>1, <2>3 DEF BoundaryCommitted, Seqs, SourceHead
<1> QED BY <1>2, <1>3, LogGrows

\* A step that gives nobody the right to commit, supersedes nobody, and frees
\* nobody.
Quiet ==
  \A t \in TaskIds :
    /\ task'[t].active => task[t].active
    /\ task'[t].superseded => task[t].superseded
    /\ task[t].superseded =>
         /\ task'[t].superseded
         /\ task'[t].hint = task[t].hint
         /\ task[t].st \in EndStates => task'[t].st \in EndStates
    /\ task'[t].st = "free" => task[t].st = "free"

\* A step that gives nobody a right and leaves the slot alone keeps its order.
LEMMA QuietKeepsSlot ==
  ASSUME TypeInv, SlotInv, [Next]_vars, Quiet, UNCHANGED <<current, residual>>, SlotReserved'
  PROVE  SlotInv'
<1> USE DEF SlotInv, TypeInv, TypeOK, Quiet
<1>1. HolderInSlot' BY DEF HolderInSlot
<1>2. SlotOccupied' BY DEF SlotOccupied
<1>3. SupersededEnds'
  <2> SUFFICES ASSUME NEW t \in TaskIds, task'[t].superseded
               PROVE  /\ ~task'[t].active
                      /\ task'[t].st \in EndStates
                      /\ BoundaryCommitted(task[t].hint, SourceHead)'
    BY DEF SupersededEnds, BoundaryCommitted, Seqs, SourceHead
  <2>1. /\ task[t].superseded /\ ~task[t].active /\ task[t].st \in EndStates
        /\ BoundaryCommitted(task[t].hint, SourceHead)
    BY DEF SupersededEnds
  <2>2. task[t].hint \in Nat /\ task'[t].hint = task[t].hint BY <2>1 DEF Task
  <2>3. PICK hint \in Nat : hint = task[t].hint BY <2>2
  <2>4. BoundaryCommitted(hint, SourceHead)' BY <2>1, <2>3, BoundaryStays
  <2>5. task'[t].hint = hint BY <2>2, <2>3
  <2>6. BoundaryCommitted(task[t].hint, SourceHead)'
    BY <2>4, <2>5 DEF BoundaryCommitted
  <2> QED BY <2>1, <2>6
<1>4. ResidualSuperseded' BY DEF ResidualSuperseded
<1> QED BY <1>1, <1>2, <1>3, <1>4

\* The rights of a table entry that a step changes alone.
LEMMA EntryQuiet ==
  ASSUME TypeInv, NEW t \in TaskIds, NEW tk \in Task, task' = [task EXCEPT ![t] = tk],
         tk.active => task[t].active,
         tk.superseded => task[t].superseded,
         task[t].superseded =>
           /\ tk.superseded
           /\ tk.hint = task[t].hint
           /\ task[t].st \in EndStates => tk.st \in EndStates,
         tk.st = "free" => task[t].st = "free"
  PROVE  Quiet
BY DEF Quiet, TypeInv, TypeOK

\* A change of a task's state alone is quiet, unless it brings a superseded
\* task back to work or frees it.
LEMMA StepQuiet ==
  ASSUME TypeInv, SlotInv, NEW t \in TaskIds, NEW st \in TaskStates, Step(t, st),
         st # "free", task[t].superseded => st \in EndStates
  PROVE  Quiet
<1>1. task[t] \in Task BY DEF TypeInv, TypeOK
<1>2. [task[t] EXCEPT !.st = st] \in Task BY <1>1 DEF Task
<1>3. task' = [task EXCEPT ![t] = [task[t] EXCEPT !.st = st]] BY DEF Step
<1> QED BY <1>1, <1>2, <1>3, EntryQuiet DEF Task

\* Revoking a task of the table is quiet.
LEMMA RevokeQuiet ==
  ASSUME TypeInv, NEW t \in TaskIds, task' = [task EXCEPT ![t] = Revoked(@)]
  PROVE  Quiet
<1>1. task[t] \in Task /\ Revoked(task[t]) \in Task BY RevokedTyped DEF TypeInv, TypeOK
<1> QED BY <1>1, EntryQuiet DEF Revoked, Task, EndStates

\* A step that touches no task is quiet.
LEMMA StillQuiet == UNCHANGED task => Quiet BY DEF Quiet

\* Going on after an admission never brings a superseded task back to work.
LEMMA GoOnQuiet ==
  ASSUME TypeInv, SlotInv, NEW t, NEW from \in TaskStates \ {"tools", "draining", "failed"},
         NEW to \in TaskStates \ {"free"}, GoOn(t, from, to),
         from = "failing" => to \in EndStates
  PROVE  Quiet
<1>1. CASE t \in TaskIds /\ task[t].st = from
  <2>1. Step(t, to) BY <1>1 DEF GoOn, Step
  <2>2. task[t].superseded => to \in EndStates
    BY <1>1 DEF SlotInv, SupersededEnds, EndStates
  <2> QED BY <1>1, <2>1, <2>2, StepQuiet
<1>2. CASE t \notin TaskIds \/ task[t].st # from
  <2>1. task' = task BY <1>2, EntryTyped DEF GoOn, TypeInv, TypeOK
  <2> QED BY <2>1, StillQuiet
<1> QED BY <1>1, <1>2

\* What the user asks for touches no task.
LEMMA UserKeepsSlot == ASSUME TypeInv, SlotInv, UserStep PROVE SlotInv'
<1>1. UNCHANGED <<task, current, residual>> /\ SlotReserved'
  BY DEF UserStep, AcceptBegin, PauseBegin, AbandonBegin, ResumeBegin, CompleteBegin, Hold,
         SlotInv, SlotReserved
<1> QED BY <1>1, StillQuiet, QuietKeepsSlot DEF Next

\* The admission's steps that move no task.
LEMMA WritersKeepSlot ==
  ASSUME TypeInv, SlotInv,
         \/ AcceptCommit \/ PauseCommit \/ ControlCommit \/ ReportCommit \/ ReportConflict
         \/ PauseDecide \/ PauseRetry \/ ControlDecide \/ AdmissionDrop
         \/ StartRetry \/ StartResidual \/ CompleteRetry \/ CompleteFull
  PROVE  SlotInv'
<1> USE DEF SlotInv, SlotReserved, TypeInv, TypeOK, Lane
<1>1. UNCHANGED <<task, current, residual>>
  BY DEF AcceptCommit, PauseCommit, ControlCommit, ReportCommit, ReportConflict, PauseDecide,
         PauseRetry, ControlDecide, AdmissionDrop, StartRetry, StartResidual, CompleteRetry,
         CompleteFull, Undisturbed
<1>2. SlotReserved'
  <2>1. CASE AcceptCommit \/ PauseCommit BY <1>1, <2>1 DEF AcceptCommit, PauseCommit
  <2>2. CASE ControlCommit BY <1>1, <2>2 DEF ControlCommit, Release, FreeLane
  <2>3. CASE ReportCommit \/ ReportConflict \/ AdmissionDrop \/ StartResidual \/ CompleteFull
    BY <2>3 DEF ReportCommit, ReportConflict, AdmissionDrop, StartResidual, CompleteFull,
                Release, FreeLane
  <2>4. CASE PauseDecide BY <2>4 DEF PauseDecide
  <2>5. CASE PauseRetry \/ StartRetry BY <2>5 DEF PauseRetry, StartRetry, Hold
  <2>6. CASE ControlDecide BY <1>1, <2>6 DEF ControlDecide, Release, FreeLane
  <2>7. CASE CompleteRetry BY <1>1, <2>7 DEF CompleteRetry, Hold, Release, FreeLane
  <2> QED BY <2>1, <2>2, <2>3, <2>4, <2>5, <2>6, <2>7
<1>3. LaneStep BY DEF LaneStep
<1> QED BY <1>1, <1>2, <1>3, StillQuiet, QuietKeepsSlot DEF Next

\* The notification after a commit only revokes: an abandon finds nobody active.
LEMMA CommittedKeepsSlot == ASSUME TypeInv, SlotInv, Committed PROVE SlotInv'
<1> USE DEF TypeInv, TypeOK
<1>1. UNCHANGED <<current, residual>> /\ lane' = FreeLane BY DEF Committed, Release
<1>2. Quiet
  <2>1. CASE task' = task BY <2>1, StillQuiet
  <2>2. CASE current # NoTask /\ task' # task
    <3>1. current \in TaskIds BY <2>2
    <3>2. ~(lane.op = "abandon" /\ task[current].active)
      BY <2>2 DEF Committed, SlotInv, SlotReserved
    <3>3. task' = [task EXCEPT ![current] = Revoked(@)] \/ task' = [task EXCEPT ![current] = @]
      BY <2>2, <3>2 DEF Committed
    <3> QED BY <2>2, <3>1, <3>3, RevokeQuiet
  <2> QED BY <2>1, <2>2 DEF Committed
<1>3. SlotReserved' BY <1>1 DEF SlotReserved, FreeLane
<1> QED BY <1>1, <1>2, <1>3, QuietKeepsSlot DEF Next, LaneStep

\* A steer and a task's own failure return to its coroutine.
LEMMA ReturnsKeepSlot ==
  ASSUME TypeInv, SlotInv, SteerDecide \/ SteerCommit \/ SteerNotify \/ FailDecide \/ FailCommit
  PROVE  SlotInv'
<1>1. UNCHANGED <<current, residual>>
  BY DEF SteerDecide, SteerCommit, SteerNotify, FailDecide, FailCommit
<1>2. lane'.op \in {"steer", "fail", "none"}
  BY DEF SteerDecide, SteerCommit, SteerNotify, FailDecide, FailCommit, Release, FreeLane, TypeInv,
         TypeOK, Lane
<1>3. Quiet
  <2>1. CASE SteerDecide \/ SteerCommit
    BY <2>1, StillQuiet, GoOnQuiet DEF SteerDecide, SteerCommit, BackToReading, TaskStates
  <2>2. CASE FailDecide \/ FailCommit
    BY <2>2, StillQuiet, GoOnQuiet DEF FailDecide, FailCommit, TaskStates, EndStates
  <2>3. CASE SteerNotify
    <3>1. CASE lane.task \in TaskIds /\ task[lane.task].st = "steering"
      <4>1. ~task[lane.task].superseded /\ task[lane.task] \in Task
        BY <3>1 DEF SlotInv, SupersededEnds, EndStates, TypeInv, TypeOK
      <4>2. SeqOf(lane.id) \in Nat
        BY <2>3 DEF SteerNotify, SeqOf, Recorded, TypeInv, SteerWritten
      <4>3. [task[lane.task] EXCEPT !.st = "reading", !.hint = SeqOf(lane.id)] \in Task
        BY <4>1, <4>2 DEF Task, TaskStates
      <4> QED BY <2>3, <3>1, <4>1, <4>3, EntryQuiet DEF SteerNotify, Task
    <3>2. CASE ~(lane.task \in TaskIds /\ task[lane.task].st = "steering")
      BY <2>3, <3>2, StillQuiet DEF SteerNotify, TypeInv, TypeOK
    <3> QED BY <3>1, <3>2
  <2> QED BY <2>1, <2>2, <2>3
<1>4. LaneStep BY DEF LaneStep
<1> QED BY <1>1, <1>2, <1>3, <1>4, QuietKeepsSlot DEF Next, SlotReserved

-----------------------------------------------------------------------------
(* The slot changes hands.                                                 *)

\* What start leaves in the table before it creates a task: the old holder is
\* superseded, and its boundary is in the log.
LEMMA YieldedEnds ==
  ASSUME TypeInv, SlotInv, Undisturbed, ~Uncommitted
  PROVE  /\ Yielded \in [TaskIds -> Task]
         /\ \A u \in TaskIds : /\ ~Yielded[u].active
                               /\ Yielded[u].hint = task[u].hint
                               /\ Yielded[u].st = "free" <=> task[u].st = "free"
                               /\ task[u].superseded => Yielded[u] = task[u]
                               /\ Yielded[u].superseded =>
                                    /\ Yielded[u].st \in EndStates
                                    /\ BoundaryCommitted(Yielded[u].hint, SourceHead)
         /\ current # NoTask => Yielded[current].superseded
<1> USE DEF TypeInv, TypeOK
<1>1. CASE MustYield
  <2>1. current \in TaskIds /\ task[current] \in Task BY <1>1 DEF MustYield
  <2>2. Yielded = [task EXCEPT ![current] = Superseded(task[current])]
    BY <1>1 DEF Yielded
  <2>3. Superseded(task[current]) \in Task BY <2>1, RevokedTyped
  <2>4. BoundaryCommitted(task[current].hint, SourceHead)
    BY <1>1 DEF Undisturbed, Uncommitted, HeadMoved
  <2>5. /\ ~Superseded(task[current]).active /\ Superseded(task[current]).superseded
        /\ Superseded(task[current]).hint = task[current].hint
        /\ Superseded(task[current]).st \in EndStates
    BY <2>1 DEF Superseded, Revoked, Task, EndStates
  <2>6. task[current].st # "free" BY <1>1 DEF MustYield, SlotInv, SlotOccupied
  <2>7. ~task[current].superseded BY <1>1 DEF MustYield
  <2>8. \A u \in TaskIds \ {current} : Yielded[u] = task[u] /\ ~task[u].active
    BY <2>2 DEF SlotInv, HolderInSlot
  <2>9. Yielded[current] = Superseded(task[current]) BY <2>1, <2>2
  <2>10. \A u \in TaskIds : task[u].superseded =>
           task[u].st \in EndStates /\ BoundaryCommitted(task[u].hint, SourceHead)
    BY DEF SlotInv, SupersededEnds
  <2> QED BY <2>1, <2>2, <2>3, <2>4, <2>5, <2>6, <2>7, <2>8, <2>9, <2>10 DEF EndStates
<1>2. CASE ~MustYield
  <2>1. Yielded = task BY <1>2 DEF Yielded
  <2>2. current # NoTask => task[current].superseded BY <1>2 DEF MustYield
  <2>3. \A u \in TaskIds : ~task[u].active
    BY <2>2, SlotAssumption DEF SlotInv, SupersededEnds, HolderInSlot
  <2> QED BY <2>1, <2>2, <2>3 DEF SlotInv, SupersededEnds
<1> QED BY <1>1, <1>2

\* start, when it finds nothing to answer or no room, and when it creates a task.
LEMMA StartKeepsSlot ==
  ASSUME TypeInv, SlotInv, StartNothing \/ StartFull \/ \E t \in TaskIds : StartTask(t)
  PROVE  SlotInv'
<1> USE DEF TypeInv, TypeOK
<1>1. /\ Yielded \in [TaskIds -> Task]
      /\ \A u \in TaskIds : /\ ~Yielded[u].active
                            /\ Yielded[u].st = "free" <=> task[u].st = "free"
                            /\ task[u].superseded => Yielded[u] = task[u]
                            /\ Yielded[u].superseded =>
                                 /\ Yielded[u].st \in EndStates
                                 /\ BoundaryCommitted(Yielded[u].hint, SourceHead)
      /\ current # NoTask => Yielded[current].superseded
  BY YieldedEnds DEF StartNothing, StartFull, StartTask
<1>2. log' = log /\ lane' = FreeLane
  BY DEF StartNothing, StartFull, StartTask, Release
<1>3. SlotReserved' BY <1>2 DEF SlotReserved, FreeLane
<1>4. \A t \in residual : Yielded[t].superseded
  <2> TAKE t \in residual
  <2>1. t \in TaskIds /\ task[t].superseded BY DEF SlotInv, ResidualSuperseded
  <2> QED BY <1>1, <2>1
<1> DEFINE closed(hint) == BoundaryCommitted(hint, SourceHead)
<1>5. \A hint : closed(hint) => BoundaryCommitted(hint, SourceHead)'
  BY <1>2 DEF BoundaryCommitted, Seqs, SourceHead
<1>6. \A u \in TaskIds : Yielded[u].superseded =>
        /\ ~Yielded[u].active /\ Yielded[u].st \in EndStates
        /\ BoundaryCommitted(Yielded[u].hint, SourceHead)
  BY <1>1
<1>7. ASSUME NEW u \in TaskIds, task'[u] = Yielded[u], task'[u].superseded
       PROVE  /\ ~task'[u].active /\ task'[u].st \in EndStates
              /\ BoundaryCommitted(task[u].hint, SourceHead)'
  <2>1. PICK hint : hint = Yielded[u].hint OBVIOUS
  <2>2. BoundaryCommitted(hint, SourceHead)' BY <1>5, <1>6, <1>7, <2>1
  <2>3. task'[u].hint = hint BY <1>7, <2>1
  <2>4. BoundaryCommitted(task[u].hint, SourceHead)' BY <2>2, <2>3 DEF BoundaryCommitted
  <2> QED BY <1>6, <1>7, <2>4
<1>8. CASE StartNothing
  <2>1. task' = Yielded /\ UNCHANGED <<current, residual>> BY <1>8 DEF StartNothing
  <2>2. HolderInSlot' BY <1>1, <2>1 DEF HolderInSlot
  <2>3. SlotOccupied' BY <1>1, <2>1 DEF SlotInv, SlotOccupied
  <2>4. SupersededEnds' BY <1>7, <2>1 DEF SupersededEnds
  <2>5. ResidualSuperseded' BY <1>4, <2>1 DEF ResidualSuperseded
  <2> QED BY <1>3, <2>2, <2>3, <2>4, <2>5 DEF SlotInv
<1>9. CASE StartFull
  <2>1. task' = Yielded /\ current' = NoTask /\ residual' = Aside BY <1>9 DEF StartFull
  <2>2. HolderInSlot' BY <1>1, <2>1 DEF HolderInSlot
  <2>3. SlotOccupied' BY <2>1 DEF SlotOccupied
  <2>4. SupersededEnds' BY <1>7, <2>1 DEF SupersededEnds
  <2>5. ResidualSuperseded' BY <1>1, <1>4, <2>1 DEF ResidualSuperseded, Aside
  <2> QED BY <1>3, <2>2, <2>3, <2>4, <2>5 DEF SlotInv
<1>10. ASSUME NEW t \in TaskIds, StartTask(t) PROVE SlotInv'
  <2>1. /\ task' = [Yielded EXCEPT ![t] = NewTask(lane.head, NoId)]
        /\ current' = t /\ residual' = Aside /\ task[t].st = "free"
    BY <1>10 DEF StartTask
  <2>2. NewTask(lane.head, NoId).st = "reading" /\ ~NewTask(lane.head, NoId).superseded
    BY DEF NewTask
  <2>3. ~task[t].superseded /\ t # current
    BY <2>1, SlotAssumption DEF SlotInv, SupersededEnds, SlotOccupied, EndStates
  <2>4. t \notin Aside BY <2>3 DEF Aside, SlotInv, ResidualSuperseded
  <2>5. \A u \in TaskIds \ {t} : task'[u] = Yielded[u] BY <1>1, <2>1
  <2>6. task'[t] = NewTask(lane.head, NoId) BY <1>1, <2>1
  <2>7. HolderInSlot'
    <3> SUFFICES ASSUME NEW u \in TaskIds, task'[u].active PROVE u = t
      BY <2>1 DEF HolderInSlot
    <3> QED BY <1>1, <2>5
  <2>8. SlotOccupied' BY <2>1, <2>2, <2>6 DEF SlotOccupied
  <2>9. SupersededEnds'
    <3>1. ~task'[t].superseded BY <2>2, <2>6
    <3> QED BY <1>7, <2>5, <3>1 DEF SupersededEnds
  <2>10. ResidualSuperseded'
    BY <1>1, <1>4, <2>1, <2>4, <2>5 DEF ResidualSuperseded, Aside
  <2> QED BY <1>3, <2>7, <2>8, <2>9, <2>10 DEF SlotInv
<1> QED BY <1>8, <1>9, <1>10

\* A completion finds the slot empty.
LEMMA CompletionKeepsSlot ==
  ASSUME TypeInv, SlotInv, NEW t \in TaskIds, CompleteStart(t)
  PROVE  SlotInv'
<1> USE DEF TypeInv, TypeOK
<1>1. current = NoTask /\ NoTask \notin TaskIds
  BY SlotAssumption DEF CompleteStart, SlotInv, SlotReserved
<1>2. \A u \in TaskIds : ~task[u].active BY <1>1 DEF SlotInv, HolderInSlot
<1>3. /\ task' = [task EXCEPT ![t] = NewTask(lane.head, lane.id)] /\ current' = t
      /\ residual' = residual /\ log' = log /\ lane' = FreeLane /\ task[t].st = "free"
  BY DEF CompleteStart, Release
<1>4. NewTask(lane.head, lane.id).st # "free" /\ ~NewTask(lane.head, lane.id).superseded
  BY DEF NewTask
<1>5. t \notin residual
  BY <1>3 DEF SlotInv, ResidualSuperseded, SupersededEnds, EndStates
<1> QED
  BY <1>2, <1>3, <1>4, <1>5
     DEF SlotInv, HolderInSlot, SlotOccupied, SupersededEnds, ResidualSuperseded, SlotReserved,
         FreeLane, BoundaryCommitted, Seqs, SourceHead

\* The drive revokes at most the task it watched.
LEMMA DriveKeepsSlot == ASSUME TypeInv, SlotInv, DriveStep PROVE SlotInv'
<1>1. UNCHANGED <<current, residual>>
  BY DEF DriveStep, DriveBegin, StartActive, StartYield, StartBegin, DriveDetach, ReportBegin
<1>2. lane' = lane \/ lane'.op \in {"start", "report"}
  BY DEF DriveStep, DriveBegin, StartActive, StartYield, StartBegin, DriveDetach, ReportBegin, Hold
<1>3. Quiet
  <2>1. CASE DriveDetach
    <3>1. CASE drive.task \in TaskIds BY <2>1, <3>1, RevokeQuiet DEF DriveDetach
    <3>2. CASE drive.task \notin TaskIds
      BY <2>1, <3>2, StillQuiet DEF DriveDetach, TypeInv, TypeOK
    <3> QED BY <3>1, <3>2
  <2>2. CASE ~DriveDetach
    BY <2>2, StillQuiet
       DEF DriveStep, DriveBegin, StartActive, StartYield, StartBegin, ReportBegin
  <2> QED BY <2>1, <2>2
<1>4. SlotReserved'
  BY <1>1, <1>2, <1>3 DEF SlotInv, SlotReserved, Quiet, TypeInv, TypeOK
<1> QED BY <1>1, <1>3, <1>4, QuietKeepsSlot DEF Next

\* The end of a task empties its place.
LEMMA EndKeepsSlot ==
  ASSUME TypeInv, SlotInv, NEW t \in TaskIds, TaskEnd(t)
  PROVE  SlotInv'
<1> USE DEF TypeInv, TypeOK
<1>1. /\ task' = [task EXCEPT ![t] = FreeTask] /\ log' = log /\ lane' = lane
      /\ current' = IF current = t THEN NoTask ELSE current
      /\ residual' = residual \ {t}
  BY DEF TaskEnd
<1>2. ~FreeTask.active /\ ~FreeTask.superseded BY DEF FreeTask
<1>3. task'[t] = FreeTask /\ \A u \in TaskIds \ {t} : task'[u] = task[u] BY <1>1
<1>4. HolderInSlot' BY <1>1, <1>2, <1>3 DEF SlotInv, HolderInSlot
<1>5. SlotOccupied' BY <1>1, <1>3 DEF SlotInv, SlotOccupied
<1>6. SupersededEnds'
  BY <1>1, <1>2, <1>3 DEF SlotInv, SupersededEnds, BoundaryCommitted, Seqs, SourceHead
<1>7. ResidualSuperseded' BY <1>1, <1>3 DEF SlotInv, ResidualSuperseded
<1>8. SlotReserved' BY <1>1, <1>3 DEF SlotInv, SlotReserved
<1> QED BY <1>4, <1>5, <1>6, <1>7, <1>8 DEF SlotInv

\* The other steps of a task change its own state alone.
LEMMA TaskKeepsSlot ==
  ASSUME TypeInv, SlotInv, NEW t \in TaskIds, TaskStep(t), ~TaskEnd(t)
  PROVE  SlotInv'
<1>1. UNCHANGED <<current, residual>>
  BY DEF TaskStep, SettleCall, Read, Prepare, CommitRefused, Commit, Deliver, ToolFinish,
         CloseCheck, CloseHead, CloseCommit, FailBegin
<1>2. lane' = lane \/ lane'.op = "fail"
  BY DEF TaskStep, SettleCall, Read, Prepare, CommitRefused, Commit, Deliver, ToolFinish,
         CloseCheck, CloseHead, CloseCommit, FailBegin, Hold
<1>3. task[t] \in Task /\ SourceHead \in Nat BY HeadTyped DEF TypeInv, TypeOK
<1>4. task[t].superseded => ~task[t].active /\ task[t].st \in EndStates
  BY DEF SlotInv, SupersededEnds
<1>5. Quiet
  <2>1. ASSUME NEW n \in 1..SourceHead, SettleCall(t, n) PROVE Quiet
    BY <2>1, StillQuiet DEF SettleCall
  <2>2. CASE Read(t)
    <3> DEFINE tk == [task[t] EXCEPT !.read = SourceHead,
                        !.st = IF Steps(SourceHead) >= MaxSteps THEN "limit" ELSE "preparing"]
    <3>1. task' = [task EXCEPT ![t] = tk] BY <2>2 DEF Read
    <3>2. ~task[t].superseded BY <1>4, <2>2 DEF Read, EndStates
    <3>3. tk \in Task /\ tk.active = task[t].active /\ tk.superseded = task[t].superseded
          /\ tk.st # "free"
      BY <1>3 DEF Task, TaskStates
    <3> HIDE DEF tk
    <3> QED BY <3>1, <3>2, <3>3, EntryQuiet
  <2>3. ASSUME NEW finish \in OutputTypes, Commit(t, finish) PROVE Quiet
    <3> DEFINE tk == [task[t] EXCEPT !.read = SourceHead + 1,
                        !.st = IF finish = "continue" THEN "tools" ELSE "finished"]
    <3>1. task' = [task EXCEPT ![t] = tk] BY <2>3 DEF Commit
    <3>2. ~task[t].superseded BY <1>4, <2>3 DEF Commit, EndStates
    <3>3. SourceHead + 1 \in Nat BY <1>3
    <3>4. tk \in Task /\ tk.active = task[t].active /\ tk.superseded = task[t].superseded
          /\ tk.st # "free"
      BY <1>3, <3>3 DEF Task, TaskStates
    <3> HIDE DEF tk
    <3> QED BY <3>1, <3>2, <3>4, EntryQuiet
  <2>4. CASE CloseHead(t)
    <3> DEFINE tk == [task[t] EXCEPT !.read = SourceHead, !.st = "abandoning"]
    <3>1. task' = [task EXCEPT ![t] = tk] BY <2>4 DEF CloseHead
    <3>2. ~task[t].superseded BY <1>4, <2>4 DEF CloseHead, EndStates
    <3>3. tk \in Task /\ tk.active = task[t].active /\ tk.superseded = task[t].superseded
          /\ tk.st # "free"
      BY <1>3 DEF Task, TaskStates
    <3> HIDE DEF tk
    <3> QED BY <3>1, <3>2, <3>3, EntryQuiet
  <2>5. CASE Prepare(t) \/ CommitRefused(t) \/ Deliver(t) \/ CloseCheck(t)
    BY <1>4, <2>5, StepQuiet
       DEF Prepare, CommitRefused, Deliver, CloseCheck, TaskStates, EndStates
  <2>6. CASE ToolFinish(t) BY <1>4, <2>6, StepQuiet DEF ToolFinish, TaskStates, EndStates
  <2>7. CASE CloseCommit(t)
    <3>1. ~task[t].superseded BY <1>4, <2>7 DEF CloseCommit, EndStates
    <3>2. Step(t, "finished") \/ Step(t, "failing") BY <2>7 DEF CloseCommit
    <3> QED BY <3>1, <3>2, StepQuiet DEF TaskStates
  <2>8. CASE FailBegin(t)
    BY <2>8, StillQuiet, StepQuiet DEF FailBegin, TaskStates, EndStates
  <2> QED BY <2>1, <2>2, <2>3, <2>4, <2>5, <2>6, <2>7, <2>8 DEF TaskStep
<1>6. SlotReserved'
  BY <1>1, <1>2, <1>5 DEF SlotInv, SlotReserved, Quiet, TypeInv, TypeOK
<1> QED BY <1>1, <1>5, <1>6, QuietKeepsSlot DEF Next

\* Disturbances never give a right back.
LEMMA DisturbKeepsSlot == ASSUME TypeInv, SlotInv, Disturb PROVE SlotInv'
<1>1. CASE Crash
  <2>1. /\ \A u \in TaskIds : ~task'[u].active /\ ~task'[u].superseded
        /\ current' = NoTask /\ residual' = {} /\ lane'.op = "none"
    BY <1>1 DEF Crash, FreeTask, FreeLane
  <2> QED
    BY <2>1 DEF SlotInv, HolderInSlot, SlotOccupied, SupersededEnds, ResidualSuperseded, SlotReserved
<1>2. CASE ~Crash
  <2>1. UNCHANGED <<current, residual>>
    BY <1>2 DEF Disturb, SteerBegin, ProgramFail, OwnerCancel, GateClose, GateOpen
  <2>2. lane' = lane \/ lane'.op = "steer"
    BY <1>2 DEF Disturb, SteerBegin, ProgramFail, OwnerCancel, GateClose, GateOpen, Hold
  <2>3. Quiet
    <3>1. ASSUME NEW t \in TaskIds, NEW i \in Inputs, SteerBegin(t, i) PROVE Quiet
      <4>1. Step(t, "steering") BY <3>1 DEF SteerBegin, Step
      <4>2. ~task[t].superseded BY <3>1 DEF SteerBegin, SlotInv, SupersededEnds
      <4> QED BY <4>1, <4>2, StepQuiet DEF TaskStates
    <3>2. ASSUME NEW t \in TaskIds, ProgramFail(t) PROVE Quiet
      BY <3>2, StepQuiet DEF ProgramFail, TaskStates, EndStates
    <3>3. ASSUME NEW t \in TaskIds, OwnerCancel(t) PROVE Quiet
      BY <3>3, RevokeQuiet DEF OwnerCancel
    <3>4. CASE GateClose \/ GateOpen BY <3>4, StillQuiet DEF GateClose, GateOpen
    <3> QED BY <1>2, <3>1, <3>2, <3>3, <3>4 DEF Disturb
  <2>4. SlotReserved'
    BY <2>1, <2>2, <2>3 DEF SlotInv, SlotReserved, Quiet, TypeInv, TypeOK
  <2> QED BY <2>1, <2>3, <2>4, QuietKeepsSlot DEF Next
<1> QED BY <1>1, <1>2

\* The order of the slot is inductive, given the types.
LEMMA SlotStep == ASSUME TypeInv, SlotInv, [Next]_vars PROVE SlotInv'
<1>1. CASE LaneStep
  BY <1>1, WritersKeepSlot, CommittedKeepsSlot, ReturnsKeepSlot, StartKeepsSlot,
     CompletionKeepsSlot DEF LaneStep
<1>2. CASE \E t \in TaskIds : TaskStep(t) BY <1>2, EndKeepsSlot, TaskKeepsSlot
<1>3. CASE UNCHANGED vars
  BY <1>3 DEF vars, SlotInv, HolderInSlot, SlotOccupied, SupersededEnds, ResidualSuperseded,
              SlotReserved, BoundaryCommitted, Seqs, SourceHead
<1> QED BY <1>1, <1>2, <1>3, UserKeepsSlot, DriveKeepsSlot, DisturbKeepsSlot DEF Next

\* Types and the order of the slot hold in every state the program reaches.
LEMMA SlotAlways == Spec => [](TypeInv /\ SlotInv)
<1>1. Init => SlotInv
  BY DEF Init, FreeTask, FreeLane, SlotInv, HolderInSlot, SlotOccupied, SupersededEnds,
         ResidualSuperseded, SlotReserved
<1> QED BY <1>1, InitTyped, NextTyped, SlotStep, PTL DEF Spec

\* Of all the tasks of a source only the one in the slot may ever commit, and
\* whoever was moved aside never gets that right back (TaskSlot.start).
THEOREM OneCommitterAlways == Spec => []OneCommitter
<1>1. TypeInv /\ SlotInv => OneCommitter
  BY DEF TypeInv, TypeOK, SlotInv, HolderInSlot, SupersededEnds, ResidualSuperseded,
         OneCommitter, Live
<1> QED BY <1>1, SlotAlways, PTL

\* A task is moved aside only when its turn is closed in the log (session.start).
THEOREM SupersededIsClosedAlways == Spec => []SupersededIsClosed
<1>1. SlotInv => SupersededIsClosed
  BY DEF SlotInv, SupersededEnds, SupersededIsClosed, Live
<1> QED BY <1>1, SlotAlways, PTL

-----------------------------------------------------------------------------
(* What a failure covers.                                                  *)

\* All input of the log is known to the task.
InputsKnown(t) == \A n \in Seqs({"input"}, 0, SourceHead) : n <= Known(t)

\* An input has been written and the holder of the slot is not told yet.
Announcing == lane.op \in {"accept", "steer"} /\ lane.at = "notify"

\* Whoever may commit knows all input, but for the one about to be announced.
HolderKnows == \A t \in TaskIds : task[t].active => Announcing \/ InputsKnown(t)

\* While a steer is admitted nobody else may commit, and its task waits for it.
SteererWaits ==
  lane.op = "steer" =>
    /\ lane.id \in Inputs
    /\ \A t \in TaskIds : task[t].active => t = lane.task /\ task[t].st = "steering"

\* A steer is new until it is written, and then the latest input.
SteerIsLatest ==
  lane.op = "steer" =>
    IF lane.at # "notify"
    THEN ~Recorded(lane.id)
    ELSE \E s \in 1..Len(log) :
           /\ log[s].id = lane.id
           /\ \A k \in 1..Len(log) : log[k].id = lane.id => k = s
           /\ \A n \in Seqs({"input"}, 0, SourceHead) : n <= s

\* A task whose failure is being recorded knows all input.
FailerKnows == lane.op = "fail" => lane.task \in TaskIds /\ InputsKnown(lane.task)

CoverInv == HolderKnows /\ SteererWaits /\ SteerIsLatest /\ FailerKnows

\* The log stays, or grows by a message that is no input and no steer's.
NoNewInput ==
  \/ UNCHANGED log
  \/ \E m : /\ log' = Append(log, m)
            /\ m.type # "input"
            /\ lane.op = "steer" => m.id = NoId

\* The task keeps what it knows, or reads the whole log.
KeepsKnown(t) ==
  \/ task'[t].hint = task[t].hint /\ task'[t].read = task[t].read
  \/ task'[t].hint \in Nat /\ task'[t].read \in Nat /\ task'[t].read >= Len(log)

\* Whoever knew all input knows it after a step that brings none.
LEMMA KnownStays ==
  ASSUME TypeInv, TypeInv', NoNewInput, NEW t \in TaskIds, InputsKnown(t), KeepsKnown(t)
  PROVE  InputsKnown(t)'
<1>1. /\ log \in Seq(Message) /\ Len(log) \in Nat
      /\ task[t].hint \in Nat /\ task[t].read \in Nat
      /\ task'[t].hint \in Nat /\ task'[t].read \in Nat
  BY DEF TypeInv, TypeOK, Task
<1> SUFFICES ASSUME NEW n \in 1..Len(log'), log'[n].type = "input" PROVE n <= Known(t)'
  BY DEF InputsKnown, Seqs, SourceHead
<1>2. n \in 1..Len(log) /\ log[n].type = "input"
  <2>1. CASE UNCHANGED log BY <2>1
  <2>2. ASSUME NEW m, log' = Append(log, m), m.type # "input"
        PROVE  n \in 1..Len(log) /\ log[n].type = "input"
    <3>1. Len(log') = Len(log) + 1 /\ log'[Len(log) + 1] = m BY <1>1, <2>2
    <3>2. n \in 1..Len(log) BY <1>1, <2>2, <3>1
    <3> QED BY <1>1, <2>2, <3>2
  <2> QED BY <2>1, <2>2 DEF NoNewInput
<1>3. n <= Known(t) BY <1>1, <1>2 DEF InputsKnown, Seqs, SourceHead
<1>4. CASE task'[t].hint = task[t].hint /\ task'[t].read = task[t].read
  BY <1>3, <1>4 DEF Known, Larger
<1>5. CASE task'[t].read >= Len(log) BY <1>1, <1>2, <1>5 DEF Known, Larger
<1> QED BY <1>4, <1>5 DEF KeepsKnown

\* The admission goes on without an announcement, or passes to somebody who is
\* neither a steer nor a failure.
LaneCalm ==
  \/ /\ lane'.op = lane.op /\ lane'.id = lane.id /\ lane'.task = lane.task
     /\ lane'.at = lane.at \/ "notify" \notin {lane.at, lane'.at}
  \/ ~Announcing /\ lane'.op \notin {"steer", "fail"}

\* Nobody gains the right to commit, a steering task waits on, and those whose
\* knowledge matters keep it.
TasksCalm ==
  \A t \in TaskIds :
    /\ task'[t].active => task[t].active
    /\ task'[t].active /\ task[t].st = "steering" => task'[t].st = "steering" \/ lane'.op # "steer"
    /\ task'[t].active \/ (lane.op = "fail" /\ lane.task = t) => KeepsKnown(t)

\* A step without a new input leaves everybody who knew all input with it.
LEMMA CalmCovers ==
  ASSUME TypeInv, TypeInv', CoverInv, NoNewInput, LaneCalm, TasksCalm
  PROVE  CoverInv'
<1>1. HolderKnows'
  <2> SUFFICES ASSUME NEW t \in TaskIds, task'[t].active, ~Announcing' PROVE InputsKnown(t)'
    BY DEF HolderKnows
  <2>1. task[t].active /\ KeepsKnown(t) BY DEF TasksCalm
  <2>2. ~Announcing BY DEF LaneCalm, Announcing
  <2>3. InputsKnown(t) BY <2>1, <2>2 DEF CoverInv, HolderKnows
  <2> QED BY <2>1, <2>3, KnownStays
<1>2. CASE lane'.op \notin {"steer", "fail"}
  BY <1>1, <1>2 DEF CoverInv, SteererWaits, SteerIsLatest, FailerKnows
<1>3. CASE lane'.op \in {"steer", "fail"}
  <2>1. /\ lane'.op = lane.op /\ lane'.id = lane.id /\ lane'.task = lane.task
        /\ lane'.at = lane.at \/ "notify" \notin {lane.at, lane'.at}
    BY <1>3 DEF LaneCalm
  <2>2. SteererWaits' BY <2>1 DEF CoverInv, SteererWaits, TasksCalm
  <2>3. FailerKnows'
    <3> SUFFICES ASSUME lane'.op = "fail" PROVE lane.task \in TaskIds /\ InputsKnown(lane.task)'
      BY <2>1 DEF FailerKnows, InputsKnown, Known
    <3>1. PICK t \in TaskIds : t = lane.task /\ InputsKnown(t)
      BY <2>1 DEF CoverInv, FailerKnows
    <3>2. KeepsKnown(t) BY <2>1, <3>1 DEF TasksCalm
    <3>3. InputsKnown(t)' BY <3>1, <3>2, KnownStays
    <3> QED BY <2>1, <3>1, <3>3 DEF InputsKnown, Known
  <2>4. SteerIsLatest'
    <3> SUFFICES ASSUME lane'.op = "steer" PROVE SteerIsLatest' BY DEF SteerIsLatest
    <3>1. CASE UNCHANGED log
      BY <2>1, <3>1 DEF CoverInv, SteerIsLatest, Recorded, Seqs, SourceHead
    <3>2. ASSUME NEW m, log' = Append(log, m), m.type # "input", m.id = NoId
          PROVE  SteerIsLatest'
      <4>1. log \in Seq(Message) /\ Len(log) \in Nat BY DEF TypeInv, TypeOK
      <4>2. Len(log') = Len(log) + 1 /\ log'[Len(log) + 1] = m
            /\ \A k \in 1..Len(log) : log'[k] = log[k]
        BY <3>2, <4>1
      <4>3. lane.id # NoId BY <2>1, SlotAssumption DEF CoverInv, SteererWaits
      <4>4. \A k \in 1..Len(log') : k \in 1..Len(log) \/ k = Len(log) + 1 BY <4>1, <4>2
      <4>5. CASE lane'.at # "notify"
        <5>1. ~Recorded(lane.id) BY <2>1, <4>5 DEF CoverInv, SteerIsLatest
        <5>2. \A k \in 1..Len(log') : log'[k].id # lane.id
          BY <3>2, <4>2, <4>3, <4>4, <5>1 DEF Recorded
        <5> QED BY <2>1, <4>5, <5>2 DEF SteerIsLatest, Recorded
      <4>6. CASE lane'.at = "notify"
        <5>1. PICK s \in 1..Len(log) :
                /\ log[s].id = lane.id
                /\ \A k \in 1..Len(log) : log[k].id = lane.id => k = s
                /\ \A n \in Seqs({"input"}, 0, SourceHead) : n <= s
          BY <2>1, <4>6 DEF CoverInv, SteerIsLatest
        <5>2. s \in 1..Len(log') /\ log'[s].id = lane'.id BY <2>1, <4>1, <4>2, <5>1
        <5>3. \A k \in 1..Len(log') : log'[k].id = lane'.id => k = s
          BY <2>1, <3>2, <4>2, <4>3, <4>4, <5>1
        <5>4. \A n \in Seqs({"input"}, 0, SourceHead)' : n <= s
          BY <3>2, <4>1, <4>2, <4>4, <5>1 DEF Seqs, SourceHead
        <5> QED BY <4>6, <5>2, <5>3, <5>4 DEF SteerIsLatest
      <4> QED BY <4>5, <4>6
    <3> QED BY <2>1, <3>1, <3>2 DEF NoNewInput
  <2> QED BY <1>1, <2>2, <2>3, <2>4 DEF CoverInv
<1> QED BY <1>2, <1>3

\* A step that touches no task is calm.
LEMMA StillCalm == UNCHANGED task => TasksCalm BY DEF TasksCalm, KeepsKnown

\* A step that changes one entry of the table, and what it must not do.
LEMMA EntryCalm ==
  ASSUME TypeInv, NEW t \in TaskIds, NEW tk, task' = [task EXCEPT ![t] = tk],
         tk.active => task[t].active,
         tk.active /\ task[t].st = "steering" => tk.st = "steering" \/ lane'.op # "steer",
         tk.active \/ (lane.op = "fail" /\ lane.task = t) =>
           \/ tk.hint = task[t].hint /\ tk.read = task[t].read
           \/ tk.hint \in Nat /\ tk.read \in Nat /\ tk.read >= Len(log)
  PROVE  TasksCalm
<1>1. task'[t] = tk /\ \A u \in TaskIds \ {t} : task'[u] = task[u] BY DEF TypeInv, TypeOK
<1> QED BY <1>1 DEF TasksCalm, KeepsKnown

\* A change of a task's state alone is calm, but for a steering task.
LEMMA StepCalm ==
  ASSUME TypeInv, NEW t \in TaskIds, NEW st, Step(t, st),
         task[t].st = "steering" => lane'.op # "steer"
  PROVE  TasksCalm
<1>1. task[t] \in Task BY DEF TypeInv, TypeOK
<1> DEFINE tk == [task[t] EXCEPT !.st = st]
<1>2. task' = [task EXCEPT ![t] = tk] BY DEF Step
<1>3. tk.active = task[t].active /\ tk.hint = task[t].hint /\ tk.read = task[t].read
  BY <1>1 DEF Task
<1> HIDE DEF tk
<1> QED BY <1>2, <1>3, EntryCalm

\* Revoking and superseding are calm.
LEMMA RevokeCalm ==
  ASSUME TypeInv, NEW t \in TaskIds, NEW tk \in {Revoked(task[t]), Superseded(task[t])},
         task' = [task EXCEPT ![t] = tk]
  PROVE  TasksCalm
<1>1. task[t] \in Task BY DEF TypeInv, TypeOK
<1>2. ~tk.active /\ tk.hint = task[t].hint /\ tk.read = task[t].read
  BY <1>1 DEF Revoked, Superseded, Task
<1> QED BY <1>2, EntryCalm

\* Going on after an admission is calm once the admission is over.
LEMMA GoOnCalm ==
  ASSUME TypeInv, NEW t, NEW from, NEW to, GoOn(t, from, to), lane'.op # "steer"
  PROVE  TasksCalm
<1>1. CASE t \in TaskIds /\ task[t].st = from BY <1>1, StepCalm DEF GoOn, Step
<1>2. CASE t \notin TaskIds \/ task[t].st # from
  BY <1>2, EntryTyped, StillCalm DEF GoOn, TypeInv, TypeOK
<1> QED BY <1>1, <1>2

\* What users ask for: the admission was free.
LEMMA UserCovers ==
  ASSUME TypeInv, TypeInv', CoverInv, UserStep
  PROVE  CoverInv'
<1>1. UNCHANGED task /\ NoNewInput /\ LaneCalm
  BY DEF UserStep, AcceptBegin, PauseBegin, AbandonBegin, ResumeBegin, CompleteBegin, Hold,
         NoNewInput, LaneCalm, Announcing
<1> QED BY <1>1, StillCalm, CalmCovers

\* The admission's steps that touch no task and write no input.
LEMMA WritersCover ==
  ASSUME TypeInv, TypeInv', CoverInv,
         \/ PauseCommit \/ ControlCommit \/ ReportCommit \/ ReportConflict
         \/ PauseDecide \/ PauseRetry \/ ControlDecide \/ AdmissionDrop
         \/ StartRetry \/ StartResidual \/ CompleteRetry \/ CompleteFull
  PROVE  CoverInv'
<1> USE DEF TypeInv, TypeOK, Lane
<1>1. UNCHANGED task
  BY DEF PauseCommit, ControlCommit, ReportCommit, ReportConflict, PauseDecide, PauseRetry,
         ControlDecide, AdmissionDrop, StartRetry, StartResidual, CompleteRetry, CompleteFull
<1>2. NoNewInput
  <2>1. CASE PauseCommit BY <2>1 DEF PauseCommit, Write, Msg, NoNewInput
  <2>2. CASE ControlCommit BY <2>2 DEF ControlCommit, Write, Msg, NoNewInput
  <2>3. CASE ReportCommit BY <2>3 DEF ReportCommit, Write, Msg, NoNewInput
  <2>4. CASE ~(PauseCommit \/ ControlCommit \/ ReportCommit)
    BY <2>4
       DEF NoNewInput, ReportConflict, PauseDecide, PauseRetry, ControlDecide, AdmissionDrop,
           StartRetry, StartResidual, CompleteRetry, CompleteFull
  <2> QED BY <2>1, <2>2, <2>3, <2>4
<1>3. LaneCalm
  <2> USE DEF LaneCalm, Announcing
  <2>1. CASE PauseCommit \/ PauseDecide \/ PauseRetry
    <3>1. lane.op = "pause" BY <2>1 DEF PauseCommit, PauseDecide, PauseRetry
    <3>2. lane'.op = "pause"
      <4>1. CASE PauseCommit \/ PauseDecide BY <3>1, <4>1 DEF PauseCommit, PauseDecide
      <4>2. CASE PauseRetry BY <4>2 DEF PauseRetry, Hold
      <4> QED BY <2>1, <4>1, <4>2
    <3> QED BY <3>1, <3>2
  <2>2. CASE ControlCommit \/ ControlDecide
    BY <2>2 DEF ControlCommit, ControlDecide, Release, FreeLane
  <2>3. CASE ReportCommit \/ ReportConflict \/ AdmissionDrop
    BY <2>3 DEF ReportCommit, ReportConflict, AdmissionDrop, Release, FreeLane
  <2>4. CASE StartRetry \/ StartResidual
    BY <2>4 DEF StartRetry, StartResidual, Undisturbed, Hold, Release, FreeLane
  <2>5. CASE CompleteRetry \/ CompleteFull
    BY <2>5 DEF CompleteRetry, CompleteFull, Hold, Release, FreeLane
  <2> QED BY <2>1, <2>2, <2>3, <2>4, <2>5
<1> QED BY <1>1, <1>2, <1>3, StillCalm, CalmCovers

\* An input is announced to the holder of the slot, who knows it no more.
LEMMA AcceptCovers ==
  ASSUME TypeInv, TypeInv', SlotInv, CoverInv, AcceptCommit \/ Committed
  PROVE  CoverInv'
<1> USE DEF TypeInv, TypeOK
<1>1. CASE AcceptCommit
  <2>1. lane'.op = "accept" /\ lane'.at = "notify" BY <1>1 DEF AcceptCommit, Lane
  <2> QED BY <2>1 DEF CoverInv, HolderKnows, SteererWaits, SteerIsLatest, FailerKnows, Announcing
<1>2. CASE Committed
  <2>1. log' = log /\ lane' = FreeLane BY <1>2 DEF Committed, Release
  <2>2. CASE task' = task /\ lane.op = "accept"
    <3>1. \A t \in TaskIds : ~task[t].active
      <4>1. CASE current = NoTask
        BY <4>1, SlotAssumption DEF SlotInv, HolderInSlot
      <4>2. CASE current # NoTask
        <5>1. current \in TaskIds BY <4>2
        <5>2. task[current].active => task[current] = Revoked(task[current])
          BY <1>2, <2>2, <4>2, <5>1 DEF Committed
        <5>3. task[current] \in Task => ~Revoked(task[current]).active
          BY DEF Revoked, Task
        <5>4. ~task[current].active BY <5>1, <5>2, <5>3
        <5> QED BY <5>4 DEF SlotInv, HolderInSlot
      <4> QED BY <4>1, <4>2
    <3> QED
      BY <2>1, <2>2, <3>1
         DEF CoverInv, HolderKnows, SteererWaits, SteerIsLatest, FailerKnows, FreeLane
  <2>3. CASE task' # task /\ lane.op = "accept"
    <3>1. current \in TaskIds BY <1>2, <2>3 DEF Committed
    <3>2. task' = [task EXCEPT ![current] = Revoked(@)] BY <1>2, <2>3, <3>1 DEF Committed
    <3>3. ~task'[current].active BY <3>1, <3>2 DEF Revoked, Task
    <3>4. \A t \in TaskIds \ {current} : ~task'[t].active
      BY <3>1, <3>2 DEF SlotInv, HolderInSlot
    <3> QED
      BY <2>1, <3>3, <3>4
         DEF CoverInv, HolderKnows, SteererWaits, SteerIsLatest, FailerKnows, FreeLane
  <2>4. CASE lane.op # "accept"
    <3>1. NoNewInput /\ LaneCalm
      BY <1>2, <2>1, <2>4 DEF NoNewInput, LaneCalm, Committed, Announcing, FreeLane
    <3>2. TasksCalm
      <4>1. CASE task' = task BY <4>1, StillCalm
      <4>2. CASE task' # task
        <5>1. current \in TaskIds BY <1>2, <4>2 DEF Committed
        <5>2. \/ task' = [task EXCEPT ![current] = Revoked(task[current])]
              \/ task' = [task EXCEPT ![current] = Superseded(task[current])]
              \/ task' = [task EXCEPT ![current] = task[current]]
          BY <1>2, <2>4, <5>1 DEF Committed
        <5>3. \/ task' = [task EXCEPT ![current] = Revoked(task[current])]
              \/ task' = [task EXCEPT ![current] = Superseded(task[current])]
          BY <4>2, <5>1, <5>2
        <5> QED BY <5>1, <5>3, RevokeCalm
      <4> QED BY <4>1, <4>2
    <3> QED BY <3>1, <3>2, CalmCovers
  <2> QED BY <2>2, <2>3, <2>4
<1> QED BY <1>1, <1>2

\* The admission of a steer: refused it writes nothing, written it is the
\* latest input, and announced it becomes the boundary of its task.
LEMMA SteerCovers ==
  ASSUME TypeInv, TypeInv', CoverInv, SteerDecide \/ SteerCommit \/ SteerNotify
  PROVE  CoverInv'
<1>1. log \in Seq(Message) /\ Len(log) \in Nat /\ lane \in Lane /\ task \in [TaskIds -> Task]
  BY DEF TypeInv, TypeOK
<1>2. CASE lane' = FreeLane /\ UNCHANGED log /\ lane.at # "notify"
           /\ (SteerDecide \/ SteerCommit)
  <2>1. UNCHANGED task \/ BackToReading(lane.task)
    BY <1>2 DEF SteerDecide, SteerCommit
  <2>2. TasksCalm BY <1>2, <2>1, StillCalm, GoOnCalm DEF BackToReading, FreeLane
  <2>3. NoNewInput /\ LaneCalm BY <1>2 DEF NoNewInput, LaneCalm, Announcing, FreeLane
  <2> QED BY <2>2, <2>3, CalmCovers
<1>3. CASE SteerDecide /\ lane' = [lane EXCEPT !.at = "commit"] /\ UNCHANGED task
  <2>1. NoNewInput BY <1>3 DEF SteerDecide, NoNewInput
  <2>2. LaneCalm BY <1>1, <1>3 DEF SteerDecide, LaneCalm, Lane
  <2> QED BY <1>3, <2>1, <2>2, StillCalm, CalmCovers
<1>4. CASE SteerCommit /\ lane' = [lane EXCEPT !.at = "notify"] /\ UNCHANGED task
  <2>1. lane.op = "steer" /\ lane.at = "commit" BY <1>4 DEF SteerCommit
  <2>2. lane'.op = "steer" /\ lane'.at = "notify" /\ lane'.id = lane.id /\ lane'.task = lane.task
    BY <1>1, <1>4, <2>1 DEF Lane
  <2>3. ~Recorded(lane.id) BY <2>1 DEF CoverInv, SteerIsLatest
  <2>4. log' = Append(log, Msg("input", lane.id, lane.head))
    <3>1. lane' # FreeLane BY <2>2 DEF FreeLane
    <3> QED BY <1>4, <2>3, <3>1 DEF SteerCommit, Write, Release
  <2> DEFINE s == Len(log) + 1
  <2>5. Len(log') = s /\ log'[s].id = lane.id /\ \A k \in 1..Len(log) : log'[k] = log[k]
    BY <1>1, <2>4 DEF Msg
  <2>6. \A k \in 1..Len(log') : log'[k].id = lane.id => k = s
    BY <1>1, <2>3, <2>5 DEF Recorded
  <2>7. \A n \in Seqs({"input"}, 0, SourceHead)' : n <= s
    BY <1>1, <2>5 DEF Seqs, SourceHead
  <2>8. s \in 1..Len(log') BY <1>1, <2>5
  <2>9. SteerIsLatest' BY <2>2, <2>5, <2>6, <2>7, <2>8 DEF SteerIsLatest
  <2>10. SteererWaits' BY <1>4, <2>1, <2>2 DEF CoverInv, SteererWaits
  <2> QED BY <2>2, <2>9, <2>10 DEF CoverInv, HolderKnows, FailerKnows, Announcing
<1>5. CASE SteerNotify
  <2>1. lane.op = "steer" /\ lane.at = "notify" /\ lane' = FreeLane /\ log' = log
    BY <1>5 DEF SteerNotify, Release
  <2>2. PICK s \in 1..Len(log) :
          /\ log[s].id = lane.id
          /\ \A k \in 1..Len(log) : log[k].id = lane.id => k = s
          /\ \A n \in Seqs({"input"}, 0, SourceHead) : n <= s
    BY <2>1 DEF CoverInv, SteerIsLatest
  <2>3. SeqOf(lane.id) = s BY <2>2 DEF SeqOf
  <2>4. ASSUME NEW t \in TaskIds, task'[t].active PROVE InputsKnown(t)'
    <3>1. task[t] \in Task BY <1>1
    <3>2. task[t].active
      <4>1. CASE lane.task = t BY <1>5, <1>1, <2>4, <4>1 DEF SteerNotify, Task
      <4>2. CASE lane.task # t BY <1>5, <1>1, <2>4, <4>2 DEF SteerNotify
      <4> QED BY <4>1, <4>2
    <3>3. t = lane.task /\ task[t].st = "steering"
      BY <2>1, <3>2 DEF CoverInv, SteererWaits
    <3>4. task'[t] = [task[t] EXCEPT !.st = "reading", !.hint = s]
      BY <1>1, <1>5, <2>3, <3>3 DEF SteerNotify
    <3>5. task'[t].hint = s /\ task'[t].read = task[t].read /\ task[t].read \in Nat
      BY <3>1, <3>4 DEF Task
    <3>6. s <= Known(t)' BY <1>1, <3>5 DEF Known, Larger
    <3>7. Known(t)' \in Nat BY <3>5 DEF Known, Larger
    <3>8. \A n \in Seqs({"input"}, 0, SourceHead) : n \in Nat /\ n <= s
      BY <1>1, <2>2 DEF Seqs
    <3>9. \A n \in Seqs({"input"}, 0, SourceHead) : n <= Known(t)'
      BY <3>6, <3>7, <3>8
    <3> QED BY <2>1, <3>9 DEF InputsKnown, Seqs, SourceHead
  <2> QED
    BY <2>1, <2>4
       DEF CoverInv, HolderKnows, SteererWaits, SteerIsLatest, FailerKnows, FreeLane
<1> QED
  BY <1>2, <1>3, <1>4, <1>5 DEF SteerDecide, SteerCommit, Release

\* A task's own failure is recorded or given up; it writes no input.
LEMMA FailCovers ==
  ASSUME TypeInv, TypeInv', CoverInv, FailDecide \/ FailCommit
  PROVE  CoverInv'
<1>1. lane \in Lane BY DEF TypeInv, TypeOK
<1>2. lane.op = "fail" BY DEF FailDecide, FailCommit
<1>3. NoNewInput
  <2>1. UNCHANGED log \/ Write(Msg("failure", NoId, lane.through))
    BY DEF FailDecide, FailCommit
  <2> QED BY <1>2, <2>1 DEF NoNewInput, Write, Msg
<1>4. CASE lane' = FreeLane /\ GoOn(lane.task, "failing", "failed")
  <2>1. TasksCalm BY <1>4, GoOnCalm DEF FreeLane
  <2>2. LaneCalm BY <1>2, <1>4 DEF LaneCalm, Announcing, FreeLane
  <2> QED BY <1>3, <2>1, <2>2, CalmCovers
<1>5. CASE FailDecide /\ lane' = [lane EXCEPT !.at = "commit"] /\ UNCHANGED task
  <2>1. LaneCalm BY <1>1, <1>5 DEF FailDecide, LaneCalm, Lane
  <2> QED BY <1>3, <1>5, <2>1, StillCalm, CalmCovers
<1> QED BY <1>4, <1>5 DEF FailDecide, FailCommit, Release

\* A new task is admitted at the head it knows.
LEMMA StartCovers ==
  ASSUME TypeInv, TypeInv', SlotInv, SlotInv', CoverInv,
         \/ StartNothing \/ StartFull
         \/ \E t \in TaskIds : StartTask(t) \/ CompleteStart(t)
  PROVE  CoverInv'
<1>1. lane' = FreeLane /\ log' = log /\ task \in [TaskIds -> Task]
  BY DEF StartNothing, StartFull, StartTask, CompleteStart, Release, TypeInv, TypeOK
<1>2. lane.op \in {"start", "complete"}
  BY DEF StartNothing, StartFull, StartTask, CompleteStart, Undisturbed
<1>3. CASE StartNothing \/ StartFull
  <2>1. task' = Yielded BY <1>3 DEF StartNothing, StartFull
  <2>2. NoNewInput /\ LaneCalm
    BY <1>1, <1>2 DEF NoNewInput, LaneCalm, Announcing, FreeLane
  <2>3. TasksCalm
    <3>1. CASE MustYield
      <4>1. current \in TaskIds BY <3>1 DEF MustYield, TypeInv, TypeOK
      <4>2. task' = [task EXCEPT ![current] = Superseded(task[current])]
        BY <2>1, <3>1 DEF Yielded
      <4> QED BY <4>1, <4>2, RevokeCalm
    <3>2. CASE ~MustYield BY <2>1, <3>2, StillCalm DEF Yielded
    <3> QED BY <3>1, <3>2
  <2> QED BY <2>2, <2>3, CalmCovers
<1>4. ASSUME NEW t \in TaskIds, StartTask(t) \/ CompleteStart(t) PROVE CoverInv'
  <2>1. current' = t /\ lane.head = Len(log)
    BY <1>4 DEF StartTask, CompleteStart, Undisturbed, HeadMoved, SourceHead
  <2>2. task'[t] = NewTask(lane.head, NoId) \/ task'[t] = NewTask(lane.head, lane.id)
    <3>1. CASE StartTask(t)
      <4>1. Yielded \in [TaskIds -> Task]
        BY <1>1, RevokedTyped DEF Yielded
      <4> QED BY <3>1, <4>1 DEF StartTask
    <3>2. CASE CompleteStart(t) BY <1>1, <3>2 DEF CompleteStart
    <3> QED BY <1>4, <3>1, <3>2
  <2>3. task'[t].hint = Len(log) /\ task'[t].read = 0 BY <2>1, <2>2 DEF NewTask
  <2>4. log \in Seq(Message) /\ Len(log) \in Nat BY DEF TypeInv, TypeOK
  <2>5. InputsKnown(t)'
    BY <1>1, <2>3, <2>4 DEF InputsKnown, Seqs, SourceHead, Known, Larger
  <2>6. \A u \in TaskIds : task'[u].active => u = t
    BY <2>1 DEF SlotInv, HolderInSlot
  <2> QED
    BY <1>1, <2>5, <2>6
       DEF CoverInv, HolderKnows, SteererWaits, SteerIsLatest, FailerKnows, FreeLane
<1> QED BY <1>3, <1>4

\* The admission as a whole.
LEMMA LaneCovers ==
  ASSUME TypeInv, TypeInv', SlotInv, SlotInv', CoverInv, LaneStep
  PROVE  CoverInv'
BY WritersCover, AcceptCovers, SteerCovers, FailCovers, StartCovers DEF LaneStep

\* The drive revokes at most the task it watched.
LEMMA DriveCovers ==
  ASSUME TypeInv, TypeInv', CoverInv, DriveStep
  PROVE  CoverInv'
<1>1. NoNewInput
  BY DEF DriveStep, DriveBegin, StartActive, StartYield, StartBegin, DriveDetach, ReportBegin,
         NoNewInput
<1>2. LaneCalm
  BY DEF DriveStep, DriveBegin, StartActive, StartYield, StartBegin, DriveDetach, ReportBegin, Hold,
         LaneCalm, Announcing
<1>3. TasksCalm
  <2>1. CASE DriveDetach /\ drive.task \in TaskIds
    BY <2>1, RevokeCalm DEF DriveDetach
  <2>2. CASE DriveDetach /\ drive.task \notin TaskIds
    BY <2>2, StillCalm DEF DriveDetach, TypeInv, TypeOK
  <2>3. CASE ~DriveDetach
    BY <2>3, StillCalm
       DEF DriveStep, DriveBegin, StartActive, StartYield, StartBegin, ReportBegin
  <2> QED BY <2>1, <2>2, <2>3
<1> QED BY <1>1, <1>2, <1>3, CalmCovers

\* A task that reads takes all input into account; none of its messages is one.
LEMMA TaskCovers ==
  ASSUME TypeInv, TypeInv', CoverInv, NEW t \in TaskIds, TaskStep(t)
  PROVE  CoverInv'
<1> USE DEF TypeInv, TypeOK
<1>1. task[t] \in Task /\ SourceHead \in Nat /\ SourceHead = Len(log)
  BY HeadTyped DEF SourceHead
<1>2. CASE FailBegin(t)
  <2>1. NoNewInput BY <1>2 DEF FailBegin, NoNewInput
  <2>2. CASE UNCHANGED lane
    <3>1. Step(t, "failed") BY <1>2, <2>2 DEF FailBegin, Hold
    <3>2. TasksCalm BY <1>2, <3>1, StepCalm DEF FailBegin
    <3>3. LaneCalm BY <2>2 DEF LaneCalm
    <3> QED BY <2>1, <3>2, <3>3, CalmCovers
  <2>3. CASE ~UNCHANGED lane
    <3>1. /\ lane.op = "none" /\ lane'.op = "fail" /\ lane'.task = t
          /\ task[t].active /\ UNCHANGED <<task, log>>
      BY <1>2, <2>3 DEF FailBegin, Hold
    <3>2. \A u \in TaskIds : task[u].active => InputsKnown(u)
      BY <3>1 DEF CoverInv, HolderKnows, Announcing
    <3>3. \A u \in TaskIds : InputsKnown(u) => InputsKnown(u)'
      BY <3>1 DEF InputsKnown, Known, Seqs, SourceHead
    <3>4. HolderKnows' BY <3>1, <3>2, <3>3 DEF HolderKnows
    <3>5. InputsKnown(t)' BY <3>1, <3>2, <3>3
    <3>6. FailerKnows' BY <3>1, <3>5 DEF FailerKnows, InputsKnown, Known
    <3> QED BY <3>1, <3>4, <3>6 DEF CoverInv, SteererWaits, SteerIsLatest
  <2> QED BY <2>2, <2>3
<1>3. CASE TaskEnd(t)
  <2>1. task' = [task EXCEPT ![t] = FreeTask] /\ log' = log /\ lane' = lane
    BY <1>3 DEF TaskEnd
  <2>2. ~FreeTask.active /\ ~(lane.op = "fail" /\ lane.task = t)
    BY <1>3 DEF TaskEnd, InLane, FreeTask
  <2>3. TasksCalm BY <2>1, <2>2, EntryCalm
  <2>4. NoNewInput /\ LaneCalm BY <2>1 DEF NoNewInput, LaneCalm
  <2> QED BY <2>3, <2>4, CalmCovers
<1>4. CASE ~FailBegin(t) /\ ~TaskEnd(t)
  <2>1. lane' = lane
    BY <1>4 DEF TaskStep, SettleCall, Read, Prepare, CommitRefused, Commit, Deliver, ToolFinish,
               CloseCheck, CloseHead, CloseCommit
  <2>2. NoNewInput
    <3> USE DEF NoNewInput, Write, Msg
    <3>1. ASSUME NEW n \in 1..SourceHead, SettleCall(t, n) PROVE NoNewInput
      BY <3>1 DEF SettleCall
    <3>2. ASSUME NEW finish \in OutputTypes, Commit(t, finish) PROVE NoNewInput
      BY <3>2 DEF Commit, OutputTypes
    <3>3. CASE ToolFinish(t) BY <3>3 DEF ToolFinish
    <3>4. CASE CloseCommit(t) BY <3>4 DEF CloseCommit
    <3>5. CASE Read(t) \/ Prepare(t) \/ CommitRefused(t) \/ Deliver(t) \/ CloseCheck(t)
               \/ CloseHead(t)
      BY <3>5 DEF Read, Prepare, CommitRefused, Deliver, CloseCheck, CloseHead
    <3> QED BY <1>4, <3>1, <3>2, <3>3, <3>4, <3>5 DEF TaskStep
  <2>3. TasksCalm
    <3>1. ASSUME NEW n \in 1..SourceHead, SettleCall(t, n) PROVE TasksCalm
      BY <3>1, StillCalm DEF SettleCall
    <3>2. ASSUME NEW n \in Nat, NEW st \in TaskStates, n >= Len(log),
                 task' = [task EXCEPT ![t].read = n, ![t].st = st], task[t].st # "steering"
          PROVE  TasksCalm
      <4> DEFINE tk == [task[t] EXCEPT !.read = n, !.st = st]
      <4>1. task' = [task EXCEPT ![t] = tk] BY <3>2
      <4>2. tk.active = task[t].active /\ tk.hint \in Nat /\ tk.read = n
        BY <1>1 DEF Task
      <4>3. tk.hint \in Nat /\ tk.read \in Nat /\ tk.read >= Len(log) BY <3>2, <4>2
      <4>4. TypeInv OBVIOUS
      <4> HIDE DEF tk, TypeInv, TypeOK
      <4> QED BY <3>2, <4>1, <4>2, <4>3, <4>4, EntryCalm
    <3>3. CASE Read(t)
      <4> DEFINE st == IF Steps(SourceHead) >= MaxSteps THEN "limit" ELSE "preparing"
      <4>1. st \in TaskStates BY DEF TaskStates
      <4>2. task' = [task EXCEPT ![t].read = SourceHead, ![t].st = st] BY <3>3 DEF Read
      <4>3. task[t].st # "steering" /\ SourceHead >= Len(log) BY <1>1, <3>3 DEF Read
      <4> HIDE DEF st
      <4> QED BY <1>1, <3>2, <4>1, <4>2, <4>3
    <3>4. ASSUME NEW finish \in OutputTypes, Commit(t, finish) PROVE TasksCalm
      <4> DEFINE st == IF finish = "continue" THEN "tools" ELSE "finished"
      <4>1. st \in TaskStates BY DEF TaskStates
      <4>2. task' = [task EXCEPT ![t].read = SourceHead + 1, ![t].st = st]
        BY <3>4 DEF Commit
      <4>3. /\ task[t].st # "steering" /\ SourceHead + 1 \in Nat
            /\ SourceHead + 1 >= Len(log)
        BY <1>1, <3>4 DEF Commit
      <4> HIDE DEF st
      <4> QED BY <3>2, <4>1, <4>2, <4>3
    <3>5. CASE CloseHead(t)
      <4>1. "abandoning" \in TaskStates /\ SourceHead >= Len(log) BY <1>1 DEF TaskStates
      <4> QED BY <1>1, <3>2, <3>5, <4>1 DEF CloseHead
    <3>6. CASE Prepare(t) \/ CommitRefused(t) \/ Deliver(t) \/ CloseCheck(t) \/ ToolFinish(t)
      BY <3>6, StepCalm DEF Prepare, CommitRefused, Deliver, CloseCheck, ToolFinish
    <3>7. CASE CloseCommit(t)
      BY <3>7, StepCalm DEF CloseCommit
    <3> QED BY <1>4, <3>1, <3>3, <3>4, <3>5, <3>6, <3>7 DEF TaskStep
  <2>4. LaneCalm BY <2>1 DEF LaneCalm
  <2> QED BY <2>2, <2>3, <2>4, CalmCovers
<1> QED BY <1>2, <1>3, <1>4

\* Disturbances teach nobody anything and write nothing; a new steer finds that
\* its task knows all input.
LEMMA DisturbCovers ==
  ASSUME TypeInv, TypeInv', SlotInv, CoverInv, Disturb, spent'["resend"] = 0
  PROVE  CoverInv'
<1> USE DEF TypeInv, TypeOK
<1>1. CASE Crash
  <2>1. lane' = FreeLane /\ \A t \in TaskIds : ~task'[t].active
    BY <1>1 DEF Crash, FreeTask
  <2> QED
    BY <2>1 DEF CoverInv, HolderKnows, SteererWaits, SteerIsLatest, FailerKnows, FreeLane
<1>2. ASSUME NEW t \in TaskIds, NEW i \in Inputs, SteerBegin(t, i) PROVE CoverInv'
  <2>1. ~Recorded(i)
    <3>1. "resend" \in Faults /\ spent["resend"] \in Nat BY DEF Faults
    <3>2. ~Spend("resend") BY <3>1 DEF Spend
    <3> QED BY <1>2, <3>2 DEF SteerBegin
  <2>2. /\ lane.op = "none" /\ lane'.op = "steer" /\ lane'.at = "decide" /\ lane'.id = i
        /\ lane'.task = t /\ log' = log /\ current = t
    BY <1>2 DEF SteerBegin, Hold
  <2>3. task' = [task EXCEPT ![t].st = "steering"] /\ task[t] \in Task
    BY <1>2 DEF SteerBegin
  <2>4. \A u \in TaskIds : /\ task'[u].active = task[u].active
                           /\ task'[u].hint = task[u].hint /\ task'[u].read = task[u].read
    BY <2>3 DEF Task
  <2>5. \A u \in TaskIds : task[u].active => InputsKnown(u)
    BY <2>2 DEF CoverInv, HolderKnows, Announcing
  <2>6. \A u \in TaskIds : InputsKnown(u) => InputsKnown(u)'
    BY <2>2, <2>4 DEF InputsKnown, Known, Seqs, SourceHead
  <2>7. HolderKnows' BY <2>4, <2>5, <2>6 DEF HolderKnows
  <2>8. task'[t].st = "steering" BY <2>3 DEF Task
  <2>9. SteererWaits' BY <2>2, <2>4, <2>8 DEF SteererWaits, SlotInv, HolderInSlot
  <2>10. SteerIsLatest' BY <2>1, <2>2 DEF SteerIsLatest, Recorded
  <2> QED BY <2>2, <2>7, <2>9, <2>10 DEF CoverInv, FailerKnows
<1>3. CASE \/ \E t \in TaskIds : ProgramFail(t) \/ OwnerCancel(t)
           \/ GateClose \/ GateOpen
  <2>1. UNCHANGED <<log, lane>> BY <1>3 DEF ProgramFail, OwnerCancel, GateClose, GateOpen
  <2>2. TasksCalm
    <3>1. ASSUME NEW t \in TaskIds, ProgramFail(t) PROVE TasksCalm
      BY <3>1, StepCalm DEF ProgramFail
    <3>2. ASSUME NEW t \in TaskIds, OwnerCancel(t) PROVE TasksCalm
      BY <3>2, RevokeCalm DEF OwnerCancel
    <3>3. CASE GateClose \/ GateOpen BY <3>3, StillCalm DEF GateClose, GateOpen
    <3> QED BY <1>3, <3>1, <3>2, <3>3
  <2> QED BY <2>1, <2>2, CalmCovers DEF NoNewInput, LaneCalm
<1> QED BY <1>1, <1>2, <1>3 DEF Disturb

\* What is proved of the runs without a steer that is sent again.
Covered == spent["resend"] = 0 => CoverInv

\* No step takes back that a steer was sent again.
LEMMA ResendStays ==
  ASSUME TypeInv, [Next]_vars, spent'["resend"] = 0
  PROVE  spent["resend"] = 0
<1>1. spent \in [Faults -> Nat] BY DEF TypeInv, TypeOK
<1>2. ASSUME NEW f \in Faults, Spend(f) PROVE spent["resend"] = 0
  BY <1>1, <1>2 DEF Spend, Faults
<1>3. CASE UserStep
  BY <1>3 DEF UserStep, AcceptBegin, PauseBegin, AbandonBegin, ResumeBegin, CompleteBegin
<1>4. CASE LaneStep
  BY <1>4
     DEF LaneStep, AcceptCommit, PauseCommit, ControlCommit, PauseDecide, PauseRetry,
         ControlDecide, Committed, SteerDecide, SteerCommit, AdmissionDrop, SteerNotify,
         FailDecide, FailCommit, ReportCommit, ReportConflict, StartRetry, StartResidual,
         StartNothing, StartFull, CompleteRetry, CompleteFull, StartTask, CompleteStart
<1>5. CASE DriveStep
  BY <1>5 DEF DriveStep, DriveBegin, StartActive, StartYield, StartBegin, DriveDetach, ReportBegin
<1>6. CASE \E t \in TaskIds : TaskStep(t)
  BY <1>6 DEF TaskStep, SettleCall, Read, Prepare, CommitRefused, Commit, Deliver, ToolFinish,
              CloseCheck, CloseHead, CloseCommit, FailBegin, TaskEnd
<1>7. CASE Disturb
  BY <1>2, <1>7 DEF Disturb, SteerBegin, ProgramFail, OwnerCancel, Crash, GateClose, GateOpen, Faults
<1>8. CASE UNCHANGED vars BY <1>8 DEF vars
<1> QED BY <1>3, <1>4, <1>5, <1>6, <1>7, <1>8 DEF Next

\* What holders and failing tasks know is inductive, given the slot.
LEMMA CoverStep ==
  ASSUME TypeInv, SlotInv, Covered, [Next]_vars
  PROVE  Covered'
<1> SUFFICES ASSUME spent'["resend"] = 0 PROVE CoverInv' BY DEF Covered
<1>1. TypeInv' /\ SlotInv' BY NextTyped, SlotStep
<1>2. CoverInv BY ResendStays DEF Covered
<1>3. CASE UNCHANGED vars
  <2>1. NoNewInput /\ LaneCalm /\ UNCHANGED task BY <1>3 DEF vars, NoNewInput, LaneCalm
  <2> QED BY <1>1, <1>2, <2>1, StillCalm, CalmCovers
<1> QED
  BY <1>1, <1>2, <1>3, UserCovers, LaneCovers, DriveCovers, TaskCovers, DisturbCovers DEF Next

\* The latest of some sequence numbers is one of them, if there are any and all
\* are known to be at most a bound.
LEMMA LatestBounded ==
  ASSUME NEW S \in SUBSET Nat, NEW bound \in Nat, \A n \in S : n <= bound
  PROVE  Latest(S) <= bound
<1>1. CASE S = {} BY <1>1 DEF Latest
<1>2. CASE S # {}
  <2>1. S \in SUBSET (0..bound) OBVIOUS
  <2>2. \E n \in S : \A m \in S : m <= n BY <1>2, <2>1, LastNumber
  <2> QED BY <1>2, <2>2 DEF Latest
<1> QED BY <1>1, <1>2

\* A failing reply stops only input it had taken into account: whatever else is
\* written first revokes it, and its own failure is admitted before anything
\* else is (start.failed, TaskSlot).  Re-sent steers are the exception.
THEOREM FailureCoversKnown == Spec => FailureCoversKnownInput
<1>1. Init => Covered
  BY DEF Init, FreeTask, FreeLane, Covered, CoverInv, HolderKnows, SteererWaits, SteerIsLatest,
         FailerKnows
<1>2. ASSUME TypeInv, Covered, [Next]_vars
      PROVE  [spent["resend"] = 0 /\ FailCommit /\ log' # log
                => LatestInput(SourceHead) <= Known(lane.task)]_vars
  <2> SUFFICES ASSUME spent["resend"] = 0, FailCommit
               PROVE  LatestInput(SourceHead) <= Known(lane.task)
    OBVIOUS
  <2>1. lane.task \in TaskIds /\ InputsKnown(lane.task)
    BY <1>2 DEF FailCommit, Covered, CoverInv, FailerKnows
  <2>2. PICK t \in TaskIds : t = lane.task BY <2>1
  <2>3. Known(t) \in Nat BY <1>2 DEF TypeInv, TypeOK, Task, Known, Larger
  <2>4. Seqs({"input"}, 0, SourceHead) \in SUBSET Nat BY DEF Seqs
  <2> QED BY <2>1, <2>2, <2>3, <2>4, LatestBounded DEF InputsKnown, LatestInput
<1> QED
  BY <1>1, <1>2, InitTyped, NextTyped, SlotAlways, CoverStep, PTL
     DEF Spec, FailureCoversKnownInput

=============================================================================
