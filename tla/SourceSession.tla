---------------------------- MODULE SourceSession ----------------------------
(***************************************************************************)
(* One source of one session: the durable log, the task slot that holds    *)
(* the source's reply, the per-key admission that serialises everything    *)
(* written on the user's behalf, the reply task that commits answers from  *)
(* outside that admission, and the follower's drive that starts replies    *)
(* and records their failures.                                             *)
(*                                                                         *)
(* Code: plugins/sources/session.py, agent/plugin_composition/tasks.py,    *)
(* the commit path of plugins/react/plugin.py and                          *)
(* plugins/reply_program/program.py, the drive of plugins/reply/follow.py. *)
(*                                                                         *)
(* Sequence numbers are positions of the log, from 1; the code counts from *)
(* 0 and writes -1 where this module writes 0.  The log holds the messages *)
(* of this source only, so a source head is the length of the log.         *)
(***************************************************************************)
EXTENDS Integers, Sequences, FiniteSets

CONSTANTS
  Inputs,       \* client identities of user inputs
  Pauses,       \* client identities of /stop commands
  Abandons,     \* client identities of /abandon commands
  Retries,      \* client identities of explicit retries
  Completions,  \* programs that report finished work when nobody waits
  TaskIds,      \* names for the tasks alive at one time
  NoTask,       \* the slot holds no task
  NoId,         \* an identity the program draws itself (uuid4)
  MaxResident,  \* Tasks(max_resident): live tasks of the owner
  MaxSteps,     \* react's max_steps: model outputs of one open turn
  Limit         \* bound on each kind of disturbance in Faults

Faults == {"program", "cancel", "crash", "gate", "resend"}

ASSUME SlotAssumption ==
  /\ NoTask \notin TaskIds
  /\ NoId \notin Inputs \union Completions
  /\ Inputs \intersect (Pauses \union Abandons \union Retries) = {}
  /\ MaxResident \in Nat \ {0}
  /\ MaxSteps \in Nat \ {0}
  /\ Limit \in [Faults -> Nat]

VARIABLES
  log,        \* the durable messages of the source
  lane,       \* who holds the admission of the key, and how far it got
  task,       \* the tasks of the owner, by name
  current,    \* the task in the slot of the key
  residual,   \* superseded tasks that still drain
  drive,      \* the follower's drive of this source
  waiting,    \* the completions whose caller still waits
  accepting,  \* the restart gate is open
  spent       \* disturbances used up, for the bounds in Limit

vars == <<log, lane, task, current, residual, drive, waiting, accepting, spent>>

-----------------------------------------------------------------------------
(* Messages. `through` is what the message is about: the prefix a control  *)
(* covers, the call a result answers, and for an output the prefix its     *)
(* author had read (React's local `head`, which the ledger does not keep). *)

ControlTypes == {"pause", "resume", "abandon", "failure"}
OutputTypes == {"continue", "complete"}
MessageTypes == {"input", "result"} \union ControlTypes \union OutputTypes

Ids == Inputs \union Pauses \union Abandons \union Retries \union Completions \union {NoId}

Message == [type : MessageTypes, id : Ids, through : Nat]

Msg(type, id, through) == [type |-> type, id |-> id, through |-> through]

SourceHead == Len(log)

\* The sequence numbers after `after` and up to `upto` with a type of `types`.
Seqs(types, after, upto) ==
  {n \in 1..Len(log) : n > after /\ n <= upto /\ log[n].type \in types}

\* The last of a set of sequence numbers, 0 when there is none.
Latest(S) == IF S = {} THEN 0 ELSE CHOOSE n \in S : \A m \in S : m <= n

LatestInput(upto) == Latest(Seqs({"input"}, 0, upto))

Recorded(id) == \E n \in 1..Len(log) : log[n].id = id

SeqOf(id) == CHOOSE n \in 1..Len(log) : log[n].id = id

\* reader.source_changed: only inputs and controls disturb a holder.
SourceChanged(after) == Seqs({"input"} \union ControlTypes, after, SourceHead) # {}

\* react._competing: anything of this source that takes the output's place.
Competing(after) ==
  Seqs({"input"} \union ControlTypes \union OutputTypes, after, SourceHead) # {}

\* _read_boundary: a finished output or any control after the task's hint.
BoundaryCommitted(hint, upto) ==
  hint > 0 /\ Seqs({"complete"} \union ControlTypes, hint, upto) # {}

-----------------------------------------------------------------------------
(* What is pending: _ReplyState folded over a prefix of the log.           *)

EmptyState == [latest |-> 0, boundary |-> 0, paused |-> 0]

Larger(a, b) == IF a > b THEN a ELSE b

AddControl(state, m) ==
  CASE m.type = "abandon" ->
         [state EXCEPT !.boundary = Larger(state.boundary, m.through)]
    [] m.type \in {"pause", "failure"} ->
         [state EXCEPT !.paused = Larger(state.paused, m.through)]
    [] m.type = "resume" /\ m.through >= state.paused ->
         [state EXCEPT !.paused = 0]
    [] OTHER -> state

AddMessage(state, n) ==
  CASE log[n].type = "input" -> [state EXCEPT !.latest = n]
    [] log[n].type = "complete" -> [state EXCEPT !.boundary = n]
    [] OTHER -> AddControl(state, log[n])

IsPending(state) == state.latest > Larger(state.boundary, state.paused)

\* The reference reading: every message of the prefix, in order.
FoldedState(upto) ==
  LET state[n \in 0..upto] ==
        IF n = 0 THEN EmptyState ELSE AddMessage(state[n - 1], n)
  IN state[upto]

\* Seeded fault: the indexed reading forgets the controls after the input.
ReadStateNoControls(upto) ==
  LET latest == LatestInput(upto)
  IN [latest |-> latest, boundary |-> Latest(Seqs({"complete"}, latest, upto)), paused |-> 0]

\* What the reader computes: the latest input, the finished output after it
\* and the controls after it, found by index instead of by a full scan.
ReadState(upto) ==
  LET latest == LatestInput(upto)
      state[n \in latest..upto] ==
        IF n = latest
        THEN [latest |-> latest,
              boundary |-> Latest(Seqs({"complete"}, latest, upto)),
              paused |-> 0]
        ELSE AddControl(state[n - 1], log[n])
  IN IF latest = 0 THEN EmptyState ELSE state[upto]

Pending(upto) == IsPending(ReadState(upto))

\* history.steps: model outputs of the turn that is still open.
Steps(upto) ==
  LET boundary == Latest(Seqs({"complete"}, 0, upto)
                         \union {log[n].through : n \in Seqs({"abandon"}, 0, upto)})
  IN Cardinality(Seqs({"continue"}, boundary, upto))

\* The outputs whose tool call has no result yet.
OpenCalls ==
  {n \in Seqs({"continue"}, 0, SourceHead) :
     \A r \in Seqs({"result"}, n, SourceHead) : log[r].through # n}

-----------------------------------------------------------------------------
(* Tasks. A task is `active` while it may commit; `superseded` once its    *)
(* business boundary is durable, so that the slot need not wait for it.    *)

TaskStates ==
  {"free",       \* no such task
   "reading",    \* before a step: tools settled, steers may be injected
   "steering",   \* waits for the admission to write a steer
   "preparing",  \* holds its snapshot, builds materials
   "thinking",   \* the model runs
   "tools",      \* its tool call runs
   "limit",      \* out of steps
   "working",    \* a completion: its program runs under its own source
   "closing",    \* checked the source, about to read the head to abandon
   "abandoning", \* about to append its own abandon control
   "finished",   \* answered, cleaning up
   "failing",    \* raised an exception, not yet recorded
   "failed",     \* about to end with the exception
   "draining"}   \* cancelled, cleaning up

Task == [st : TaskStates, active : BOOLEAN, superseded : BOOLEAN,
         hint : Nat, read : Nat, for : Completions \union {NoId}]

FreeTask == [st |-> "free", active |-> FALSE, superseded |-> FALSE,
             hint |-> 0, read |-> 0, for |-> NoId]

\* Seeded fault: boundary_hint keeps the -1 it was created with.
NewTaskUnbound(hint, for) == [st |-> IF for = NoId THEN "reading" ELSE "working",
                              active |-> TRUE, superseded |-> FALSE,
                              hint |-> -1, read |-> 0, for |-> for]

\* TaskSlot.start: the new holder, admitted at this boundary, for the user's
\* input or for a completion.
NewTask(hint, for) == [st |-> IF for = NoId THEN "reading" ELSE "working",
                       active |-> TRUE, superseded |-> FALSE,
                       hint |-> hint, read |-> 0, for |-> for]

Live == {t \in TaskIds : task[t].st # "free"}

\* Task.cancel: the right to commit goes first, then the coroutine is
\* cancelled where it waits; only a running tool is waited for.
Revoked(tk) ==
  [tk EXCEPT !.active = FALSE,
             !.st = IF tk.st \in {"tools", "failed", "draining"}
                    THEN tk.st ELSE "draining"]

\* Task.supersede: the boundary is durable, so the slot is given up too.
Superseded(tk) == [Revoked(tk) EXCEPT !.superseded = TRUE]

\* Seeded fault: the guard looks at the task and not at the log.
SourceUnread(t) == task[t].active

\* check_source: the task may act only while nothing arrived after its hint.
SourceHeld(t) == task[t].active /\ ~SourceChanged(task[t].hint)

-----------------------------------------------------------------------------
LaneOps == {"none", "accept", "pause", "abandon", "resume", "steer", "start",
            "fail", "report", "complete"}

Lane == [op : LaneOps, at : {"decide", "commit", "notify"}, id : Ids,
         head : Nat, through : Nat, task : TaskIds \union {NoTask}]

FreeLane == [op |-> "none", at |-> "decide", id |-> NoId, head |-> 0,
             through |-> 0, task |-> NoTask]

LaneFree == lane.op = "none"

\* Tasks.admit_async: the key's lock is taken and the log is read; every
\* later reading of this admission is the prefix of length lane.head.
Hold(op, at, id, t) ==
  lane' = [op |-> op, at |-> at, id |-> id, head |-> SourceHead,
           through |-> SourceHead, task |-> t]

Release == lane' = FreeLane

At(op, at) == lane.op = op /\ lane.at = at

\* A steer and a task's own failure are admitted from the task's coroutine,
\* which does not end before the admission does.
InLane(t) == lane.op \in {"steer", "fail"} /\ lane.task = t

\* "dead": the follower ended with an error and drives no session any more.
DriveStates == {"idle", "starting", "admitting", "watching", "reporting", "dead"}

Drive == [st : DriveStates, boundary : Nat, task : TaskIds \union {NoTask}]

IdleDrive == [st |-> "idle", boundary |-> 0, task |-> NoTask]

TypeOK ==
  /\ log \in Seq(Message)
  /\ lane \in Lane
  /\ task \in [TaskIds -> Task]
  /\ current \in TaskIds \union {NoTask}
  /\ residual \subseteq TaskIds
  /\ drive \in Drive
  /\ waiting \subseteq Completions
  /\ accepting \in BOOLEAN
  /\ spent \in [Faults -> Nat]

Init ==
  /\ log = <<>>
  /\ lane = FreeLane
  /\ task = [t \in TaskIds |-> FreeTask]
  /\ current = NoTask
  /\ residual = {}
  /\ drive = IdleDrive
  /\ waiting = Completions
  /\ accepting = TRUE
  /\ spent = [f \in Faults |-> 0]

Spend(f) ==
  /\ spent[f] < Limit[f]
  /\ spent' = [spent EXCEPT ![f] = @ + 1]

Write(m) == log' = Append(log, m)

-----------------------------------------------------------------------------
(* The user's side: accept, /stop, /abandon, explicit retry.  Each holds   *)
(* the admission from its read to its notification.                        *)

\* accept: the identity is new; only a new input asks the restart gate.
AcceptBegin(i) ==
  /\ LaneFree
  /\ ~Recorded(i)
  /\ accepting
  /\ Hold("accept", "commit", i, NoTask)
  /\ UNCHANGED <<log, task, current, residual, drive, waiting, accepting, spent>>

\* An input carries no expected head: it is accepted whatever came before.
AcceptCommit ==
  /\ At("accept", "commit")
  /\ Write(Msg("input", lane.id, 0))
  /\ lane' = [lane EXCEPT !.at = "notify"]
  /\ UNCHANGED <<task, current, residual, drive, waiting, accepting, spent>>

\* Seeded fault: a new input supersedes the holder as an abandon does.
CommittedSupersedes ==
  /\ lane.op \in {"accept", "pause", "abandon", "resume"}
  /\ lane.at = "notify"
  /\ task' = IF current = NoTask THEN task
             ELSE [task EXCEPT ![current] =
                     CASE lane.op = "pause" -> Revoked(@)
                       [] lane.op \in {"abandon", "accept"} /\ @.active -> Superseded(@)
                       [] OTHER -> @]
  /\ Release
  /\ UNCHANGED <<log, current, residual, drive, waiting, accepting, spent>>

\* Seeded fault: a new input leaves the holder its right to commit.
CommittedKeeps ==
  /\ lane.op \in {"accept", "pause", "abandon", "resume"}
  /\ lane.at = "notify"
  /\ task' = IF current = NoTask \/ lane.op \in {"accept", "resume"} THEN task
             ELSE [task EXCEPT ![current] = Revoked(@)]
  /\ Release
  /\ UNCHANGED <<log, current, residual, drive, waiting, accepting, spent>>

\* SourceSession._committed, back on the loop.  A pause interrupts whatever is
\* in the slot; an abandon supersedes and anything but a resume revokes an
\* active holder.
Committed ==
  /\ lane.op \in {"accept", "pause", "abandon", "resume"}
  /\ lane.at = "notify"
  /\ task' = IF current = NoTask THEN task
             ELSE [task EXCEPT ![current] =
                     CASE lane.op = "pause" -> Revoked(@)
                       [] lane.op = "abandon" /\ @.active -> Superseded(@)
                       [] lane.op = "accept" /\ @.active -> Revoked(@)
                       [] OTHER -> @]
  /\ Release
  /\ UNCHANGED <<log, current, residual, drive, waiting, accepting, spent>>

PauseBegin(i) ==
  /\ LaneFree
  /\ ~Recorded(i)
  /\ SourceHead > 0
  /\ Hold("pause", "decide", i, NoTask)
  /\ UNCHANGED <<log, task, current, residual, drive, waiting, accepting, spent>>

\* Seeded fault: a stop covers the whole head, the queued input included.
PauseThroughHead == lane.head

\* A revoked turn that still waits for its tools is stopped alone: the input
\* queued behind it stays pending for the next turn.
PauseThrough ==
  IF /\ current # NoTask
     /\ ~task[current].active
     /\ task[current].hint > 0
     /\ LatestInput(lane.head) > task[current].hint
  THEN task[current].hint
  ELSE lane.head

PauseDecide ==
  /\ At("pause", "decide")
  /\ lane' = [lane EXCEPT !.at = "commit", !.through = PauseThrough]
  /\ UNCHANGED <<log, task, current, residual, drive, waiting, accepting, spent>>

\* The write of a control or of a steer compares the source head it was
\* decided on; the loser of that race is refused.
HeadMoved == SourceHead # lane.head

PauseCommit ==
  /\ At("pause", "commit")
  /\ ~HeadMoved
  /\ Write(Msg("pause", lane.id, lane.through))
  /\ lane' = [lane EXCEPT !.at = "notify"]
  /\ UNCHANGED <<task, current, residual, drive, waiting, accepting, spent>>

\* SourceHeadConflict: pause reads again and decides again.
PauseRetry ==
  /\ At("pause", "commit")
  /\ HeadMoved
  /\ Hold("pause", "decide", lane.id, NoTask)
  /\ UNCHANGED <<log, task, current, residual, drive, waiting, accepting, spent>>

\* /abandon closes the open turn: there is an input, not answered and not
\* abandoned since.
Abandonable(upto) ==
  LET latest == LatestInput(upto) IN
  /\ latest > 0
  /\ Seqs({"complete"}, latest, upto) = {}
  /\ \A n \in Seqs({"abandon"}, latest, upto) : log[n].through < latest

AbandonBegin(i) ==
  /\ LaneFree
  /\ ~Recorded(i)
  /\ Abandonable(SourceHead)
  /\ Hold("abandon", "decide", i, NoTask)
  /\ UNCHANGED <<log, task, current, residual, drive, waiting, accepting, spent>>

\* resume: the latest input, still open, stopped by the last control.
Resumable(upto) ==
  LET latest == LatestInput(upto)
      last == Latest(Seqs(ControlTypes, 0, upto))
  IN /\ Abandonable(upto)
     /\ last > 0
     /\ log[last].type \in {"failure", "pause"}
     /\ log[last].through >= latest

ResumeBegin(i) ==
  /\ LaneFree
  /\ ~Recorded(i)
  /\ Resumable(SourceHead)
  /\ Hold("resume", "decide", i, NoTask)
  /\ UNCHANGED <<log, task, current, residual, drive, waiting, accepting, spent>>

\* Neither command may act on a running reply; a retry also asks the gate.
ControlDecide ==
  /\ lane.op \in {"abandon", "resume"}
  /\ lane.at = "decide"
  /\ IF \/ current # NoTask /\ task[current].active
        \/ lane.op = "resume" /\ ~accepting
     THEN Release
     ELSE lane' = [lane EXCEPT !.at = "commit"]
  /\ UNCHANGED <<log, task, current, residual, drive, waiting, accepting, spent>>

ControlCommit ==
  /\ lane.op \in {"abandon", "resume"}
  /\ lane.at = "commit"
  /\ IF HeadMoved
     THEN Release /\ UNCHANGED log
     ELSE /\ Write(Msg(lane.op, lane.id, lane.through))
          /\ lane' = [lane EXCEPT !.at = "notify"]
  /\ UNCHANGED <<task, current, residual, drive, waiting, accepting, spent>>

-----------------------------------------------------------------------------
(* Steering: the holder of the slot writes an input of its own turn between *)
(* two steps, and moves its boundary to it.                                 *)

\* A steer's `through` is the head it followed; a plain input has none.
Steered(i) == Recorded(i) /\ log[SeqOf(i)].through > 0

\* The coroutine of a task goes on where its admission returns, unless it was
\* cancelled meanwhile.
GoOn(t, from, to) ==
  task' = IF task[t].st = from THEN [task EXCEPT ![t].st = to] ELSE task

\* A client that missed the acknowledgement of a steer sends it again; the
\* staging area only knows what is still staged.
SteerBegin(t, i) ==
  /\ LaneFree
  /\ task[t].st = "reading"
  /\ current = t /\ task[t].active
  /\ IF Recorded(i) THEN Steered(i) /\ Spend("resend") ELSE UNCHANGED spent
  /\ Hold("steer", "decide", i, t)
  /\ task' = [task EXCEPT ![t].st = "steering"]
  /\ UNCHANGED <<log, current, residual, drive, waiting, accepting>>

\* Steers.inject catches the refusal and stages the item again.
BackToReading(t) == GoOn(t, "steering", "reading")

SteerDecide ==
  /\ At("steer", "decide")
  /\ IF current = lane.task /\ task[lane.task].active /\ accepting
     THEN lane' = [lane EXCEPT !.at = "commit"] /\ UNCHANGED task
     ELSE Release /\ BackToReading(lane.task)
  /\ UNCHANGED <<log, current, residual, drive, waiting, accepting, spent>>

\* The append replays an identity the log already has.
SteerCommit ==
  /\ At("steer", "commit")
  /\ \/ /\ Recorded(lane.id)
        /\ UNCHANGED <<log, task>>
        /\ lane' = [lane EXCEPT !.at = "notify"]
     \/ /\ ~Recorded(lane.id) /\ ~HeadMoved
        /\ Write(Msg("input", lane.id, lane.head))
        /\ lane' = [lane EXCEPT !.at = "notify"]
        /\ UNCHANGED task
     \/ /\ ~Recorded(lane.id) /\ HeadMoved
        /\ Release /\ BackToReading(lane.task)
        /\ UNCHANGED log
  /\ UNCHANGED <<current, residual, drive, waiting, accepting, spent>>

\* The task was cancelled before its write reached the worker.
AdmissionDrop ==
  /\ \/ At("steer", "commit") /\ task[lane.task].st # "steering"
     \/ At("fail", "commit") /\ task[lane.task].st # "failing"
  /\ Release
  /\ UNCHANGED <<log, task, current, residual, drive, waiting, accepting, spent>>

\* The boundary follows the written message; a cancelled steer never sets it.
SteerNotify ==
  /\ At("steer", "notify")
  /\ task' = [task EXCEPT ![lane.task] =
                IF @.st = "steering"
                THEN [@ EXCEPT !.st = "reading", !.hint = SeqOf(lane.id)]
                ELSE @]
  /\ Release
  /\ UNCHANGED <<log, current, residual, drive, waiting, accepting, spent>>

-----------------------------------------------------------------------------
(* The follower's drive of this source, and SourceSession.start.           *)

\* _drive_source: the head is read before anything is admitted.
DriveBegin ==
  /\ drive.st = "idle"
  /\ SourceHead > 0
  /\ drive' = [st |-> "starting", boundary |-> SourceHead, task |-> NoTask]
  /\ UNCHANGED <<log, lane, task, current, residual, waiting, accepting, spent>>

\* A holder that is still active is the one to wait for.
StartActive ==
  /\ drive.st = "starting"
  /\ current # NoTask /\ task[current].active
  /\ drive' = [drive EXCEPT !.st = "watching", !.task = current]
  /\ UNCHANGED <<log, lane, task, current, residual, waiting, accepting, spent>>

\* A revoked task whose boundary is not durable is drained first.
StartYield ==
  /\ drive.st = "starting"
  /\ current # NoTask =>
       /\ ~task[current].active
       /\ \/ task[current].superseded
          \/ BoundaryCommitted(task[current].hint, SourceHead)
  /\ drive' = [drive EXCEPT !.st = "admitting"]
  /\ UNCHANGED <<log, lane, task, current, residual, waiting, accepting, spent>>

StartBegin ==
  /\ drive.st = "admitting"
  /\ LaneFree
  /\ Hold("start", "decide", NoId, current)
  /\ UNCHANGED <<log, task, current, residual, drive, waiting, accepting, spent>>

\* The slot or the head moved while the log was read: read again.
StartRetry ==
  /\ At("start", "decide")
  /\ current # lane.task \/ HeadMoved
  /\ Hold("start", "decide", NoId, current)
  /\ UNCHANGED <<log, task, current, residual, drive, waiting, accepting, spent>>

Undisturbed == At("start", "decide") /\ current = lane.task /\ ~HeadMoved

\* The task in the slot whose durable boundary is what lets it go.
MustYield == current # NoTask /\ ~task[current].superseded

Uncommitted ==
  MustYield /\ ~BoundaryCommitted(task[current].hint, lane.head)

\* start returns whom it found with an open turn (a completion that took the
\* slot first); the drive waits for it.
StartResidual ==
  /\ Undisturbed
  /\ Uncommitted
  /\ drive' = [drive EXCEPT !.st = "watching", !.task = current]
  /\ Release
  /\ UNCHANGED <<log, task, current, residual, waiting, accepting, spent>>

\* Seeded fault: the slot moves on without superseding its holder.
YieldedLate == task

Yielded == IF MustYield THEN [task EXCEPT ![current] = Superseded(@)] ELSE task

\* Nothing to answer, or the restart gate is closed.
StartNothing ==
  /\ Undisturbed
  /\ ~Uncommitted
  /\ ~Pending(lane.head) \/ ~accepting
  /\ task' = Yielded
  /\ drive' = IdleDrive
  /\ Release
  /\ UNCHANGED <<log, current, residual, waiting, accepting, spent>>

\* TaskSlot.start moves the superseded task aside before it counts.
Aside == IF current = NoTask THEN residual ELSE residual \union {current}

StartTask(t) ==
  /\ Undisturbed
  /\ ~Uncommitted
  /\ Pending(lane.head)
  /\ accepting
  /\ Cardinality(Aside) < MaxResident
  /\ task[t].st = "free"
  /\ task' = [Yielded EXCEPT ![t] = NewTask(lane.head, NoId)]
  /\ current' = t
  /\ residual' = Aside
  /\ drive' = [drive EXCEPT !.st = "watching", !.task = t]
  /\ Release
  /\ UNCHANGED <<log, waiting, accepting, spent>>

\* TaskCapacity reaches the drive like any other error of the start.
StartFull ==
  /\ Undisturbed
  /\ ~Uncommitted
  /\ Pending(lane.head)
  /\ accepting
  /\ Cardinality(Aside) >= MaxResident
  /\ task' = Yielded
  /\ current' = NoTask
  /\ residual' = Aside
  /\ drive' = [drive EXCEPT !.st = "reporting"]
  /\ Release
  /\ UNCHANGED <<log, waiting, accepting, spent>>

\* _terminal_committed: the watched turn is closed in the log and a later
\* input waits; the drive cancels the task and leaves it to settle alone.
TerminalCommitted(boundary) ==
  \E n \in Seqs({"complete"} \union ControlTypes, boundary, SourceHead) :
    Seqs({"input"}, n, SourceHead) # {}

DriveDetach ==
  /\ drive.st = "watching"
  /\ TerminalCommitted(drive.boundary)
  /\ task' = [task EXCEPT ![drive.task] = Revoked(@)]
  /\ drive' = IdleDrive
  /\ UNCHANGED <<log, lane, current, residual, waiting, accepting, spent>>

\* record_failure: the drive reports the error its task ended with, whether
\* or not the task recorded it itself.  A completion that began on an empty
\* source has no boundary to report (ValueError): the drive raises.
ReportBegin ==
  /\ drive.st = "reporting"
  /\ LaneFree
  /\ IF Pending(SourceHead) /\ drive.boundary > 0
     THEN /\ lane' = [op |-> "report", at |-> "commit", id |-> NoId, head |-> SourceHead,
                      through |-> IF drive.boundary < SourceHead THEN drive.boundary ELSE SourceHead,
                      task |-> NoTask]
          /\ UNCHANGED drive
     ELSE /\ drive' = [IdleDrive EXCEPT !.st = IF Pending(SourceHead) THEN "dead" ELSE "idle"]
          /\ UNCHANGED lane
  /\ UNCHANGED <<log, task, current, residual, waiting, accepting, spent>>

ReportCommit ==
  /\ At("report", "commit")
  /\ ~HeadMoved
  /\ Write(Msg("failure", NoId, lane.through))
  /\ Release
  /\ drive' = IdleDrive
  /\ UNCHANGED <<task, current, residual, waiting, accepting, spent>>

\* Losing the race for the head is "no progress": the drive raises, and with
\* it the follower that drives every session.
ReportConflict ==
  /\ At("report", "commit")
  /\ HeadMoved
  /\ Release
  /\ drive' = [IdleDrive EXCEPT !.st = "dead"]
  /\ UNCHANGED <<log, task, current, residual, waiting, accepting, spent>>

-----------------------------------------------------------------------------
(* SourceSession.complete: a program that reports finished work takes the  *)
(* slot only when it is empty and no input waits.                          *)

CompleteBegin(c) ==
  /\ LaneFree
  /\ c \in waiting
  /\ current = NoTask
  /\ ~Pending(SourceHead)
  /\ Hold("complete", "decide", c, NoTask)
  /\ UNCHANGED <<log, task, current, residual, drive, waiting, accepting, spent>>

CompleteRetry ==
  /\ At("complete", "decide")
  /\ HeadMoved
  /\ IF Pending(SourceHead)
     THEN Release
     ELSE Hold("complete", "decide", lane.id, NoTask)
  /\ UNCHANGED <<log, task, current, residual, drive, waiting, accepting, spent>>

CompleteStart(t) ==
  /\ At("complete", "decide")
  /\ ~HeadMoved
  /\ Cardinality(residual) < MaxResident
  /\ task[t].st = "free"
  /\ task' = [task EXCEPT ![t] = NewTask(lane.head, lane.id)]
  /\ current' = t
  /\ Release
  /\ UNCHANGED <<log, residual, drive, waiting, accepting, spent>>

\* TaskCapacity goes to the caller.
CompleteFull ==
  /\ At("complete", "decide")
  /\ ~HeadMoved
  /\ Cardinality(residual) >= MaxResident
  /\ Release
  /\ UNCHANGED <<log, task, current, residual, drive, waiting, accepting, spent>>

-----------------------------------------------------------------------------
(* The reply task: run_reply and React.  A completion runs the same program *)
(* under a source of its own, so that of all it does only its checks of    *)
(* this source matter here.                                                *)

Step(t, st) == task' = [task EXCEPT ![t].st = st]

\* React settles what the log left open before it reads: a call another task
\* still runs is waited for unless it was abandoned.
SettleCall(t, n) ==
  /\ task[t].st = "reading" /\ task[t].active
  /\ n \in OpenCalls
  /\ \/ \A u \in Live : ~(task[u].st = "tools" /\ task[u].read = n)
     \/ \E c \in Seqs({"abandon"}, 0, SourceHead) : log[c].through >= n
  /\ Write(Msg("result", NoId, n))
  /\ UNCHANGED <<lane, task, current, residual, drive, waiting, accepting, spent>>

Read(t) ==
  /\ task[t].st = "reading"
  /\ OpenCalls = {}
  /\ task' = [task EXCEPT ![t].read = SourceHead,
                          ![t].st = IF Steps(SourceHead) >= MaxSteps
                                    THEN "limit" ELSE "preparing"]
  /\ UNCHANGED <<log, lane, current, residual, drive, waiting, accepting, spent>>

\* The materials are built and the source is checked once more before the
\* model is asked; the check that opens the program is the same one.
Prepare(t) ==
  /\ task[t].st = "preparing"
  /\ Step(t, IF SourceHeld(t) THEN "thinking" ELSE "draining")
  /\ UNCHANGED <<log, lane, current, residual, drive, waiting, accepting, spent>>

\* Seeded fault: the narrow transaction trusts the check made before the model ran.
MayCommitChecked(t) == task[t].active

\* React's commit: one transaction checks the source and what was written
\* since the draft's prefix was read, and appends the draft.
MayCommit(t) == SourceHeld(t) /\ ~Competing(task[t].read)

Commit(t, finish) ==
  /\ task[t].st = "thinking"
  /\ MayCommit(t)
  /\ Write(Msg(finish, NoId, task[t].read))
  /\ task' = [task EXCEPT ![t].read = SourceHead + 1,
                          ![t].st = IF finish = "continue" THEN "tools" ELSE "finished"]
  /\ UNCHANGED <<lane, current, residual, drive, waiting, accepting, spent>>

CommitRefused(t) ==
  /\ task[t].st = "thinking"
  /\ ~MayCommit(t)
  /\ Step(t, "draining")
  /\ UNCHANGED <<log, lane, current, residual, drive, waiting, accepting, spent>>

\* A completion's last output asks the same of this source and is appended to
\* its own; refused, the program ends cancelled.
Deliver(t) ==
  /\ task[t].st = "working"
  /\ Step(t, IF SourceHeld(t) THEN "finished" ELSE "draining")
  /\ UNCHANGED <<log, lane, current, residual, drive, waiting, accepting, spent>>

\* A started tool records its one result, even when its turn was revoked.
ToolFinish(t) ==
  /\ task[t].st = "tools"
  /\ IF task[t].read \in OpenCalls
     THEN Write(Msg("result", NoId, task[t].read))
     ELSE UNCHANGED log
  /\ Step(t, IF task[t].active THEN "reading" ELSE "draining")
  /\ UNCHANGED <<lane, current, residual, drive, waiting, accepting, spent>>

\* Out of steps, run_reply's `aborted` checks the source ...
CloseCheck(t) ==
  /\ task[t].st = "limit"
  /\ Step(t, IF SourceHeld(t) THEN "closing" ELSE "draining")
  /\ UNCHANGED <<log, lane, current, residual, drive, waiting, accepting, spent>>

\* ... then reads the head it will abandon.  The two readings follow each other
\* on the loop but share no snapshot, and a worker may commit between them.
\* (Steps of the loop in between commute with the first reading.)
CloseHead(t) ==
  /\ task[t].st = "closing"
  /\ task' = [task EXCEPT ![t].read = SourceHead, ![t].st = "abandoning"]
  /\ UNCHANGED <<log, lane, current, residual, drive, waiting, accepting, spent>>

\* ... and appends the control if that head still stands.
CloseCommit(t) ==
  /\ task[t].st = "abandoning"
  /\ IF SourceHead = task[t].read
     THEN log' = Append(log, Msg("abandon", NoId, task[t].read)) /\ Step(t, "finished")
     ELSE UNCHANGED log /\ Step(t, "failing")
  /\ UNCHANGED <<lane, current, residual, drive, waiting, accepting, spent>>

\* The program or its cleanup raises an Exception.
ProgramFail(t) ==
  /\ task[t].st \in {"reading", "preparing", "thinking", "working", "draining"}
  /\ ~InLane(t)
  /\ Spend("program")
  /\ Step(t, "failing")
  /\ UNCHANGED <<log, lane, current, residual, drive, waiting, accepting>>

\* start.failed: only the holder of the slot records its failure.
FailBegin(t) ==
  /\ task[t].st = "failing"
  /\ LaneFree
  /\ IF current = t /\ task[t].active /\ task[t].for = NoId
     THEN Hold("fail", "decide", NoId, t) /\ UNCHANGED task
     ELSE Step(t, "failed") /\ UNCHANGED lane
  /\ UNCHANGED <<log, current, residual, drive, waiting, accepting, spent>>

FailDecide ==
  /\ At("fail", "decide")
  /\ IF current = lane.task /\ task[lane.task].active
     THEN lane' = [lane EXCEPT !.at = "commit"] /\ UNCHANGED task
     ELSE Release /\ GoOn(lane.task, "failing", "failed")
  /\ UNCHANGED <<log, current, residual, drive, waiting, accepting, spent>>

\* A lost race for the head replaces the error; either way the task ends.
FailCommit ==
  /\ At("fail", "commit")
  /\ IF HeadMoved
     THEN UNCHANGED log
     ELSE Write(Msg("failure", NoId, lane.through))
  /\ GoOn(lane.task, "failing", "failed")
  /\ Release
  /\ UNCHANGED <<current, residual, drive, waiting, accepting, spent>>

\* A completion is run again unless it ended by itself or the user stopped it:
\* the last control after its boundary is a pause (_read_pause).
Returned(t) ==
  \/ task[t].st # "draining"
  \/ LET last == Latest(Seqs(ControlTypes, task[t].hint, SourceHead))
     IN last > 0 /\ log[last].type = "pause"

\* Seeded fault: a finished task is not released from its slot.
TaskEndKeepsSlot(t) ==
  /\ task[t].st \in {"finished", "failed", "draining"}
  /\ ~InLane(t)
  /\ task' = [task EXCEPT ![t] = FreeTask]
  /\ residual' = residual \ {t}
  /\ drive' = IF drive.st = "watching" /\ drive.task = t THEN IdleDrive ELSE drive
  /\ UNCHANGED <<log, lane, current, waiting, accepting, spent>>

\* The task ends and leaves the slot; its drive learns how it ended.
TaskEnd(t) ==
  /\ task[t].st \in {"finished", "failed", "draining"}
  /\ ~InLane(t)
  /\ task' = [task EXCEPT ![t] = FreeTask]
  /\ current' = IF current = t THEN NoTask ELSE current
  /\ residual' = residual \ {t}
  /\ drive' = IF drive.st = "watching" /\ drive.task = t
              THEN IF task[t].st = "failed"
                   THEN [st |-> "reporting", boundary |-> task[t].hint, task |-> NoTask]
                   ELSE IdleDrive
              ELSE drive
  /\ waiting' = IF Returned(t) THEN waiting \ {task[t].for} ELSE waiting
  /\ UNCHANGED <<log, lane, accepting, spent>>

-----------------------------------------------------------------------------
(* Disturbances.                                                           *)

\* The owner of a task takes its right away: a plugin scope closes.
OwnerCancel(t) ==
  /\ task[t].active
  /\ Spend("cancel")
  /\ task' = [task EXCEPT ![t] = Revoked(@)]
  /\ UNCHANGED <<log, lane, current, residual, drive, waiting, accepting>>

\* The process dies; an open transaction is rolled back, the log stays.
Crash ==
  /\ Spend("crash")
  /\ lane' = FreeLane
  /\ task' = [t \in TaskIds |-> FreeTask]
  /\ current' = NoTask
  /\ residual' = {}
  /\ drive' = IdleDrive
  /\ waiting' = {}
  /\ accepting' = TRUE
  /\ UNCHANGED log

\* A restart is prepared, which closes the gate, and is given up.
GateClose ==
  /\ accepting
  /\ Spend("gate")
  /\ accepting' = FALSE
  /\ UNCHANGED <<log, lane, task, current, residual, drive, waiting>>

GateOpen ==
  /\ ~accepting
  /\ accepting' = TRUE
  /\ UNCHANGED <<log, lane, task, current, residual, drive, waiting, spent>>

-----------------------------------------------------------------------------
UserStep ==
  \/ \E i \in Inputs : AcceptBegin(i)
  \/ \E i \in Pauses : PauseBegin(i)
  \/ \E i \in Abandons : AbandonBegin(i)
  \/ \E i \in Retries : ResumeBegin(i)
  \/ \E c \in Completions : CompleteBegin(c)

LaneStep ==
  \/ AcceptCommit \/ PauseCommit \/ ControlCommit
  \/ PauseDecide \/ PauseRetry \/ ControlDecide \/ Committed
  \/ SteerDecide \/ SteerCommit \/ AdmissionDrop \/ SteerNotify
  \/ FailDecide \/ FailCommit \/ ReportCommit \/ ReportConflict
  \/ StartRetry \/ StartResidual \/ StartNothing \/ StartFull
  \/ CompleteRetry \/ CompleteFull
  \/ \E t \in TaskIds : StartTask(t) \/ CompleteStart(t)

DriveStep == DriveBegin \/ StartActive \/ StartYield \/ StartBegin \/ DriveDetach \/ ReportBegin

TaskStep(t) ==
  \/ \E n \in 1..SourceHead : SettleCall(t, n)
  \/ Read(t) \/ Prepare(t) \/ CommitRefused(t)
  \/ \E finish \in OutputTypes : Commit(t, finish)
  \/ Deliver(t) \/ ToolFinish(t) \/ CloseCheck(t) \/ CloseHead(t) \/ CloseCommit(t)
  \/ FailBegin(t) \/ TaskEnd(t)

Disturb ==
  \/ \E t \in TaskIds, i \in Inputs : SteerBegin(t, i)
  \/ \E t \in TaskIds : ProgramFail(t) \/ OwnerCancel(t)
  \/ Crash \/ GateClose \/ GateOpen

Next ==
  \/ UserStep \/ LaneStep \/ DriveStep
  \/ \E t \in TaskIds : TaskStep(t)
  \/ Disturb

Spec == Init /\ [][Next]_vars

-----------------------------------------------------------------------------
(* Safety.                                                                 *)

\* At most one task of the source may commit, and it is the one in the slot;
\* whoever was moved aside has lost that right for good (TaskSlot.start).
OneCommitter ==
  /\ \A t \in Live : task[t].active => t = current
  /\ \A t \in residual : task[t].superseded /\ ~task[t].active

\* Nothing is answered that was not waiting: a reply's output is appended to
\* a log whose folded state is pending, so that a stop, an abandon, a failure
\* or an earlier answer is never followed by output of the turn it ended
\* (session.start admits, check_source and react's commit keep it so).
AnswersArePending ==
  \A n \in Seqs(OutputTypes, 0, SourceHead) : IsPending(FoldedState(n - 1))

\* The user goes first: a completion delivers only while no input waits, even
\* one that arrived after the completion was admitted (session.complete).
DeliveriesYield ==
  [][\A t \in TaskIds :
       task[t].st = "working" /\ task'[t].st = "finished"
         => ~IsPending(FoldedState(SourceHead))]_vars

\* No answer ignores what arrived while it was written: between the prefix an
\* output's author had read and the output there is no other input, control
\* or output (react's narrow transaction).
AnswersReadTheirPrefix ==
  \A n \in Seqs(OutputTypes, 0, SourceHead) :
    Seqs({"input"} \union ControlTypes \union OutputTypes, log[n].through, n - 1) = {}

\* _read_state finds by index what the fold over every message finds.
ReadersAgree == Pending(SourceHead) = IsPending(FoldedState(SourceHead))

\* What the log says of the person's messages: closed by an answer or an abandon
\* at or after them, stopped by a control that no retry has taken back.
Fate ==
  LET state == FoldedState(SourceHead) IN
    [n \in Seqs({"input"}, 0, SourceHead) |->
       IF n <= state.boundary THEN "closed" ELSE IF n <= state.paused THEN "stopped" ELSE "open"]

Promise == INSTANCE SourcePromise WITH fate <- Fate, said <- Seqs(OutputTypes, 0, SourceHead)

\* The source keeps its promise, although what is written, who may write and
\* who holds the slot change in separate steps of many coroutines: no output
\* follows what stopped, closed or answered its turn, a retry brings back only
\* what is stopped, when nothing else waits (session.start, check_source,
\* react's narrow transaction, session.resume).
ImplementsPromise ==
  /\ Promise!PromiseInit
  /\ [][UNCHANGED log \/ Promise!PromiseNext \/ UNCHANGED Promise!pvars]_vars

\* A task is moved aside only when its turn is closed in the log, so no draft
\* of it can still be missing (session.start, _read_boundary).
SupersededIsClosed ==
  \A t \in Live :
    task[t].superseded => BoundaryCommitted(task[t].hint, SourceHead)

\* What a task has taken into account: its boundary and what it read.
Known(t) == Larger(task[t].hint, task[t].read)

\* /stop ends the turn that runs and leaves an input that queued behind it
\* pending (session.pause).  A completion admitted on an empty source is the
\* exception, and so is a turn whose boundary a re-sent steer moved back.
PauseKeepsQueuedInput ==
  [][spent["resend"] = 0 /\ PauseCommit
     /\ current # NoTask /\ task[current].for = NoId /\ ~task[current].active
     /\ LatestInput(SourceHead) > Known(current) /\ Pending(SourceHead)
       => Pending(SourceHead)']_vars

\* A failing reply stops only input it had taken into account, although it
\* covers the whole head: an input that arrives meanwhile revokes it first.
\* A steer that is sent again is the exception: it moves the boundary back.
FailureCoversKnownInput ==
  [][spent["resend"] = 0 /\ FailCommit /\ log' # log
       => LatestInput(SourceHead) <= Known(lane.task)]_vars

-----------------------------------------------------------------------------
(* What the code's comments say and the code does not do.                  *)

\* "A failure recorded after an explicit retry is about a reply that started
\* after it" (session.resume: an explicit retry restores the original input).
RetryHolds ==
  \A r \in Seqs({"resume"}, 0, SourceHead) :
    \A n \in Seqs({"failure"}, r, SourceHead) : log[n].through >= r

\* "The boundary moves forward with the steer" (session.steer).
HintAdvances ==
  [][\A t \in TaskIds :
       task[t].st # "free" /\ task'[t].st # "free" => task'[t].hint >= task[t].hint]_vars

\* "After a new input took its right, the old run cannot close the new task"
\* (reply_program.aborted).
AbandonCoversOwnTurn ==
  [][\A t \in TaskIds :
       CloseCommit(t) /\ log' # log
         => Seqs({"input"}, task[t].hint, SourceHead) = {}]_vars

\* "Each session drains its old work on its own" (_Follower._drive): a failure
\* of one source never ends the follower.
FollowerSurvives == drive.st # "dead"

\* "Waiting for capacity is no failure" (session.wait_capacity): without an
\* exception of a program no failure is recorded.
CapacityIsNoFailure ==
  spent["program"] = 0 => Seqs({"failure"}, 0, SourceHead) = {}

-----------------------------------------------------------------------------
(* Liveness. The loop and its workers go on; a waiter for the key's lock is *)
(* served in turn (asyncio.Lock is first come, first served); a restart that *)
(* closed the gate is given up in the end.                                 *)

Fairness ==
  /\ WF_vars(LaneStep)
  /\ WF_vars(DriveBegin \/ StartActive \/ StartYield)
  /\ WF_vars(GateOpen)
  /\ SF_vars(StartBegin)
  /\ SF_vars(ReportBegin)
  /\ \A t \in TaskIds : SF_vars(TaskStep(t))

FairSpec == Spec /\ Fairness

\* An accepted input does not wait for ever: the source comes to rest by an
\* answer, an abandon, a stop or a recorded failure.
PendingSettles == Pending(SourceHead) ~> ~Pending(SourceHead)

=============================================================================
