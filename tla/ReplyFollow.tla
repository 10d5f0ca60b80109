------------------------------ MODULE ReplyFollow ------------------------------
(***************************************************************************)
(* The follower that answers one session: notifications of the ledger and  *)
(* of the source registry reach a dispatcher, which compares heads and     *)
(* wakes one lane per source; a lane starts replies until its wake is      *)
(* quiet.                                                                  *)
(*                                                                         *)
(* Code: plugins/reply/follow.py (class _Follower), MessageCatalog.follow  *)
(* of plugins/ledger/log.py, Sources of plugins/sources/plugin.py.  What a *)
(* reply does is reduced to how it ends; SourceSession has the rest.       *)
(***************************************************************************)
EXTENDS Integers, Sequences, FiniteSets

CONSTANTS
  Sources,      \* names of registered sources
  MaxMessages,  \* bound on the length of the log
  MaxEvents,    \* bound on messages and disturbances together, for what begins something
  Limit         \* bound on each kind of disturbance in Faults

Faults == {"fail", "break", "gate", "register", "crash"}

ASSUME FollowAssumption ==
  /\ Sources # {} /\ IsFiniteSet(Sources)
  /\ {MaxMessages, MaxEvents} \subseteq Nat
  /\ Limit \in [Faults -> Nat]

VARIABLES
  log,         \* the messages of the session
  registered,  \* the registration of each source, a number; 0 when it has none
  accepting,   \* the restart gate is open
  task,        \* the reply in each source's slot
  owed,        \* a commit has not been announced yet (flush_notify)
  catalog,     \* _watch_catalog: its event, whether it reads, what it last read
  changes,     \* the event of _watch_sources
  wake,        \* _wake_event
  dispatch,    \* _dispatch_changes, with what it works on
  seen,        \* _previous_heads, _previous_sources, _observed_source_heads
  lane,        \* _active: the wake and the drive of each source
  spent        \* disturbances used up, for the bounds in Limit

vars == <<log, registered, accepting, task, owed, catalog, changes, wake,
          dispatch, seen, lane, spent>>
memory == <<catalog, changes, wake, dispatch, seen>>

-----------------------------------------------------------------------------
(* The log.  A control's `through` is the prefix it covers.                 *)

MessageTypes == {"input", "answer", "stop", "failure"}
Message == [source : Sources, type : MessageTypes, through : Nat]

Seqs(s, types) == {n \in 1..Len(log) : log[n].source = s /\ log[n].type \in types}

Latest(S) == IF S = {} THEN 0 ELSE CHOOSE n \in S : \A m \in S : m <= n

SourceHead(s) == Latest(Seqs(s, MessageTypes))

\* An input is pending until an answer follows it or a control covers it.
Pending(s) ==
  LET i == Latest(Seqs(s, {"input"})) IN
    /\ i > 0
    /\ \A n \in Seqs(s, {"answer", "stop", "failure"}) : log[n].through < i

\* Seeded fault: the prefix a control covers is recorded exclusively.
WriteExclusive(s, type, through) ==
  /\ log' = Append(log, [source |-> s, type |-> type, through |-> through - 1])
  /\ owed' = TRUE

\* Every write is announced once its writer runs again.
Write(s, type, through) ==
  /\ log' = Append(log, [source |-> s, type |-> type, through |-> through])
  /\ owed' = TRUE

-----------------------------------------------------------------------------
(* Replies: "closing" has written its answer, "failed" has raised an error,  *)
(* "broken" was revoked and could not settle what it had begun.              *)

Task == [st : {"none", "running", "revoked", "closing", "failed", "broken"}, hint : Nat]
NoReply == [st |-> "none", hint |-> 0]

\* Cancelling takes the right to commit; the task goes on until it ends.
Cancelled(tk) == IF tk.st = "running" THEN [tk EXCEPT !.st = "revoked"] ELSE tk

LaneStates == {"none", "loop", "head", "enter", "start", "watch", "join", "stop",
               "record", "recorded", "gate"}
\* `source` and `changed` and `event` are the wake; `by`, `boundary` and `last`
\* (a settlement error: the drive ends whatever the wake says) the drive.
Lane == [st : LaneStates, source : Nat, changed : BOOLEAN, event : BOOLEAN,
         by : Nat, boundary : Nat, last : BOOLEAN]
NoLane == [st |-> "none", source |-> 0, changed |-> FALSE, event |-> FALSE,
           by |-> 0, boundary |-> 0, last |-> FALSE]

Heads == [Sources -> Nat]
AllZero == [s \in Sources |-> 0]

\* Nothing but a name in current_sources reaches the comparison of heads.
Dispatch == [st : {"wait", "read", "apply"}, head : Nat, sources : Heads, heads : Heads]
Waiting == [st |-> "wait", head |-> 0, sources |-> AllZero, heads |-> AllZero]

TypeOK ==
  /\ log \in Seq(Message) /\ Len(log) <= MaxMessages
  /\ registered \in Heads
  /\ {accepting, owed, changes, wake} \subseteq BOOLEAN
  /\ task \in [Sources -> Task]
  /\ catalog \in [event : BOOLEAN, st : {"idle", "reading", "read"}, got : Nat, latest : Nat]
  /\ dispatch \in Dispatch
  /\ seen \in [head : Nat, sources : Heads, heads : Heads]
  /\ lane \in [Sources -> Lane]
  /\ spent \in [Faults -> Nat]

\* What a process knows when it starts: nothing; it reads the log and the
\* registry.
NoTasks == [s \in Sources |-> NoReply]
NoLanes == [s \in Sources |-> NoLane]
Unread == [event |-> FALSE, st |-> "reading", got |-> 0, latest |-> 0]
Unseen == [head |-> 0, sources |-> AllZero, heads |-> AllZero]

Init ==
  /\ log = <<>> /\ owed = FALSE
  /\ registered = [s \in Sources |-> 1] /\ changes = TRUE
  /\ accepting = TRUE
  /\ task = NoTasks /\ lane = NoLanes
  /\ catalog = Unread /\ wake = FALSE
  /\ dispatch = Waiting /\ seen = Unseen
  /\ spent = [f \in Faults |-> 0]

\* Users and disturbances share the bound MaxEvents.
Disturbances == spent["fail"] + spent["break"] + spent["gate"] + spent["register"] + spent["crash"]
Lively == Len(log) + Disturbances < MaxEvents

Spend(f) == Lively /\ spent[f] < Limit[f] /\ spent' = [spent EXCEPT ![f] = @ + 1]

-----------------------------------------------------------------------------
(* Users and replies.                                                      *)

\* The bound leaves room for what settles the inputs.
Room(s) == Len(log) + Cardinality({o \in Sources : Pending(o) \/ o = s}) < MaxMessages

\* accept and pause: written first, then the holder of the slot is revoked.
Accept(s) ==
  /\ registered[s] # 0 /\ accepting /\ Room(s) /\ Lively
  /\ Write(s, "input", 0)
  /\ task' = [task EXCEPT ![s] = Cancelled(@)]
  /\ UNCHANGED <<registered, accepting, memory, lane, spent>>

\* A new input took the right of the holder, which still winds down: a stop means that
\* turn, and the input stays queued.
StopsTurn(s) ==
  task[s].st \notin {"none", "running"} /\ task[s].hint < Latest(Seqs(s, {"input"}))

Stop(s) ==
  /\ registered[s] # 0 /\ Pending(s)
  /\ IF StopsTurn(s) THEN Room(s) /\ Write(s, "stop", task[s].hint)
     ELSE Write(s, "stop", SourceHead(s))
  /\ task' = [task EXCEPT ![s] = Cancelled(@)]
  /\ UNCHANGED <<registered, accepting, memory, lane, spent>>

\* Seeded fault: a reply that was cancelled still commits.
AnswerCancelled(s) ==
  /\ task[s].st \in {"running", "revoked"}
  /\ Write(s, "answer", task[s].hint)
  /\ task' = [task EXCEPT ![s].st = "closing"]
  /\ UNCHANGED <<registered, accepting, memory, lane, spent>>

\* The last output of a turn: nothing arrived since the task was admitted.
Answer(s) ==
  /\ task[s].st = "running" /\ SourceHead(s) = task[s].hint
  /\ Write(s, "answer", task[s].hint)
  /\ task' = [task EXCEPT ![s].st = "closing"]
  /\ UNCHANGED <<registered, accepting, memory, lane, spent>>

\* The program raises; who still holds the slot records it (session.start).
Fail(s) ==
  /\ Spend("fail")
  /\ \/ task[s].st = "running" /\ Write(s, "failure", SourceHead(s))
     \/ task[s].st = "revoked" /\ UNCHANGED <<log, owed>>
  /\ task' = [task EXCEPT ![s].st = "failed"]
  /\ UNCHANGED <<registered, accepting, memory, lane>>

\* react._settle: a running tool that was waited for fails; the cancellation
\* is raised from that failure.
Break(s) ==
  /\ task[s].st = "revoked"
  /\ Spend("break")
  /\ task' = [task EXCEPT ![s].st = "broken"]
  /\ UNCHANGED <<log, registered, accepting, owed, memory, lane>>

-----------------------------------------------------------------------------
(* Notifications.                                                          *)

\* flush_notify and _deliver: every reader's event is set.
Announce ==
  /\ owed
  /\ owed' = FALSE
  /\ catalog' = [catalog EXCEPT !.event = TRUE]
  /\ UNCHANGED <<log, registered, accepting, task, changes, wake, dispatch, seen, lane, spent>>

\* follow: the event is cleared before the heads are read ...
CatalogWake ==
  /\ catalog.event /\ catalog.st = "idle"
  /\ catalog' = [catalog EXCEPT !.event = FALSE, !.st = "reading"]
  /\ UNCHANGED <<log, registered, accepting, task, owed, changes, wake, dispatch, seen, lane, spent>>

CatalogRead ==
  /\ catalog.st = "reading"
  /\ catalog' = [catalog EXCEPT !.st = "read", !.got = Len(log)]
  /\ UNCHANGED <<log, registered, accepting, task, owed, changes, wake, dispatch, seen, lane, spent>>

\* Seeded fault: the event is cleared after the heads were read.
CatalogYieldClears ==
  /\ catalog.st = "read"
  /\ catalog' = [event |-> FALSE, st |-> "idle", got |-> 0, latest |-> catalog.got]
  /\ wake' = (wake \/ catalog.got # catalog.latest)
  /\ UNCHANGED <<log, registered, accepting, task, owed, changes, dispatch, seen, lane, spent>>

\* ... and changed heads wake the dispatcher.
CatalogYield ==
  /\ catalog.st = "read"
  /\ catalog' = [catalog EXCEPT !.st = "idle", !.got = 0, !.latest = catalog.got]
  /\ wake' = (wake \/ catalog.got # catalog.latest)
  /\ UNCHANGED <<log, registered, accepting, task, owed, changes, dispatch, seen, lane, spent>>

\* _watch_sources: any change of the registry is a reason to look again.
SourcesRead ==
  /\ changes
  /\ changes' = FALSE
  /\ wake' = TRUE
  /\ UNCHANGED <<log, registered, accepting, task, owed, catalog, dispatch, seen, lane, spent>>

-----------------------------------------------------------------------------
(* The dispatcher.                                                         *)

\* run: the heads and the registrations to work on.
DispatchBegin ==
  /\ wake /\ dispatch.st = "wait"
  /\ wake' = FALSE
  /\ dispatch' = [st |-> "read", head |-> catalog.latest,
                  sources |-> registered, heads |-> AllZero]
  /\ UNCHANGED <<log, registered, accepting, task, owed, catalog, changes, seen, lane, spent>>

\* A worker reads the source heads while the loop goes on.
DispatchRead ==
  /\ dispatch.st = "read"
  /\ dispatch' = [dispatch EXCEPT !.st = "apply",
       !.heads = [s \in Sources |->
                    IF dispatch.head = 0 \/ dispatch.sources[s] = 0 THEN 0 ELSE SourceHead(s)]]
  /\ UNCHANGED <<log, registered, accepting, task, owed, catalog, changes, wake, seen, lane, spent>>

Identified(s) == dispatch.sources[s] # seen.sources[s]

\* _schedule: a lane is created, or the one there is told to read again.
Scheduled(l, id) ==
  IF l.st = "none" THEN [NoLane EXCEPT !.st = "loop", !.source = id, !.changed = TRUE]
  ELSE [l EXCEPT !.source = id, !.changed = TRUE, !.event = TRUE]

\* A lane hears of a registration that came or went without being interrupted.
Told(s) ==
  IF lane[s].st # "none" /\ Identified(s)
  THEN [lane[s] EXCEPT !.source = dispatch.sources[s], !.changed = TRUE]
  ELSE lane[s]

\* Seeded fault: a source that was registered again waits for a new message.
MovedByHeads(s) ==
  dispatch.heads[s] # 0 /\ seen.heads[s] # dispatch.heads[s]

\* A source is due when it has messages and they or its registration changed.
Moved(s) ==
  /\ dispatch.heads[s] # 0
  /\ dispatch.head # seen.head \/ Identified(s)
  /\ Identified(s) \/ seen.heads[s] # dispatch.heads[s]

\* Registrations that changed during the reading start nothing and leave the
\* heads to the next round.
DispatchAgain ==
  /\ dispatch.st = "apply" /\ registered # dispatch.sources
  /\ dispatch' = Waiting
  /\ wake' = TRUE
  /\ UNCHANGED <<log, registered, accepting, task, owed, catalog, changes, seen, lane, spent>>

DispatchApply ==
  /\ dispatch.st = "apply" /\ registered = dispatch.sources
  /\ seen' = [head |-> dispatch.head, sources |-> dispatch.sources,
              heads |-> [s \in Sources |-> IF Moved(s) THEN dispatch.heads[s] ELSE seen.heads[s]]]
  /\ lane' = [s \in Sources |->
       IF Moved(s) THEN Scheduled(Told(s), dispatch.sources[s]) ELSE Told(s)]
  /\ dispatch' = Waiting
  /\ UNCHANGED <<log, registered, accepting, task, owed, catalog, changes, wake, spent>>

-----------------------------------------------------------------------------
(* A lane: _drive and _drive_source.                                       *)

SetLane(s, l) == lane' = [lane EXCEPT ![s] = l]
To(s, st) == [lane[s] EXCEPT !.st = st]

\* The drive is over; of the lane only its wake is left.
Between(s, st) == [To(s, st) EXCEPT !.by = 0, !.boundary = 0]

\* The registration a lane worked for is not the current one.
Rebound(s) ==
  IF registered[s] = 0 THEN NoLane
  ELSE [Between(s, "loop") EXCEPT !.source = registered[s], !.changed = TRUE]

\* while wake.changed: one round for the source the wake names.
LaneLoop(s) ==
  /\ lane[s].st = "loop"
  /\ SetLane(s,
       IF ~lane[s].changed \/ lane[s].source = 0 THEN NoLane
       ELSE IF registered[s] # lane[s].source THEN Rebound(s)
       ELSE [To(s, "head") EXCEPT !.changed = FALSE, !.by = lane[s].source])
  /\ UNCHANGED <<log, registered, accepting, task, owed, memory, spent>>

LaneHead(s) ==
  /\ lane[s].st = "head"
  /\ SetLane(s, [To(s, "enter") EXCEPT !.boundary = SourceHead(s)])
  /\ UNCHANGED <<log, registered, accepting, task, owed, memory, spent>>

\* The registration is compared again; a drive for it is begun.
LaneEnter(s) ==
  /\ lane[s].st = "enter"
  /\ SetLane(s, IF registered[s] # lane[s].by THEN Rebound(s) ELSE To(s, "start"))
  /\ UNCHANGED <<log, registered, accepting, task, owed, memory, spent>>

\* session.start waits for a revoked holder and moves a closing one aside; no
\* task is returned when nothing is pending or the gate is closed.
LaneStart(s) ==
  /\ lane[s].st = "start" /\ registered[s] = lane[s].by
  /\ \/ task[s].st = "running" /\ SetLane(s, To(s, "watch")) /\ UNCHANGED task
     \/ /\ task[s].st \in {"none", "closing"} /\ Pending(s) /\ accepting
        /\ SetLane(s, To(s, "watch"))
        /\ task' = [task EXCEPT ![s] = [st |-> "running", hint |-> SourceHead(s)]]
     \/ /\ task[s].st \in {"none", "closing"} /\ ~(Pending(s) /\ accepting)
        /\ SetLane(s, Between(s, IF accepting THEN "loop" ELSE "gate"))
        /\ UNCHANGED task
  /\ UNCHANGED <<log, registered, accepting, owed, memory, spent>>

\* Seeded fault: the lane goes on without being told to read again.
LaneReopenedQuietly(s) ==
  /\ lane[s].st = "gate" /\ accepting
  /\ SetLane(s, To(s, "loop"))
  /\ UNCHANGED <<log, registered, accepting, task, owed, memory, spent>>

\* wait_until_open, and then another round.
LaneReopened(s) ==
  /\ lane[s].st = "gate" /\ accepting
  /\ SetLane(s, [To(s, "loop") EXCEPT !.changed = TRUE])
  /\ UNCHANGED <<log, registered, accepting, task, owed, memory, spent>>

\* _terminal_committed: after the boundary the turn was closed and then asked
\* again.
TerminalCommitted(s) ==
  \E n \in Seqs(s, {"answer", "stop", "failure"}), m \in Seqs(s, {"input"}) :
    lane[s].boundary < n /\ n < m

Current(s) == lane[s].source = lane[s].by /\ registered[s] = lane[s].by

\* _await_task is over: read the log again.
Joined(s) == [Between(s, "loop") EXCEPT !.changed = TRUE, !.event = FALSE]

\* _await_task is notified: it leaves a closed turn behind or waits for its end.
LaneNotified(s) ==
  /\ lane[s].st = "watch" /\ lane[s].event
  /\ IF Current(s) /\ TerminalCommitted(s)
     THEN SetLane(s, Joined(s)) /\ task' = [task EXCEPT ![s] = Cancelled(@)]
     ELSE SetLane(s, To(s, "join")) /\ UNCHANGED task
  /\ UNCHANGED <<log, registered, accepting, owed, memory, spent>>

\* _conclude for a drive that is to stop: only a new registration goes on, and
\* none does after a task that could not be settled.
Stopped(s) ==
  IF ~lane[s].last /\ lane[s].source \notin {0, lane[s].by} THEN Between(s, "loop") ELSE NoLane

\* The owner's scope closes: the drive stops, before its task or with it.
RevokedLane(s) ==
  IF lane[s].st = "start" THEN Stopped(s) ELSE [To(s, "stop") EXCEPT !.event = FALSE]

\* Seeded fault: the monitor stops the drive and forgets its task.
LaneRevokedAlone(s) ==
  /\ lane[s].st \in {"start", "watch", "join"} /\ registered[s] # lane[s].by
  /\ SetLane(s, IF lane[s].st = "start" THEN Stopped(s) ELSE NoLane)
  /\ UNCHANGED <<log, registered, accepting, task, owed, memory, spent>>

\* watch_admission, request_admission_stop and settle_task.
LaneRevoked(s) ==
  /\ lane[s].st \in {"start", "watch", "join"} /\ registered[s] # lane[s].by
  /\ SetLane(s, RevokedLane(s))
  /\ task' = [task EXCEPT ![s] = IF lane[s].st = "start" THEN @ ELSE Cancelled(@)]
  /\ UNCHANGED <<log, registered, accepting, owed, memory, spent>>

\* What the drive that waits for a task makes of its end.
Settled(s, end) ==
  CASE lane[s].st \in {"watch", "join"} /\ end \in {"revoked", "closing"} -> Joined(s)
    [] lane[s].st = "stop" /\ end \in {"revoked", "closing"} -> Stopped(s)
    [] lane[s].st \in {"watch", "join", "stop"} /\ end = "failed" ->
         [To(s, "record") EXCEPT !.event = FALSE, !.boundary = task[s].hint,
                                 !.last = (lane[s].st = "stop")]
    [] lane[s].st \in {"watch", "join", "stop"} /\ end = "broken" -> NoLane
    [] OTHER -> lane[s]

TaskEnd(s) ==
  /\ task[s].st \in {"revoked", "closing", "failed", "broken"}
  /\ task' = [task EXCEPT ![s] = NoReply]
  /\ SetLane(s, Settled(s, task[s].st))
  /\ UNCHANGED <<log, registered, accepting, owed, memory, spent>>

\* _record_failure: what the task had been admitted for is covered, if it is
\* not closed already ...
LaneRecord(s) ==
  /\ lane[s].st = "record"
  /\ IF Pending(s) THEN Room(s) /\ Write(s, "failure", lane[s].boundary)
     ELSE UNCHANGED <<log, owed>>
  /\ SetLane(s, To(s, "recorded"))
  /\ UNCHANGED <<registered, accepting, task, memory, spent>>

\* ... and the drive stops.
LaneRecorded(s) ==
  /\ lane[s].st = "recorded"
  /\ SetLane(s, Stopped(s))
  /\ UNCHANGED <<log, registered, accepting, task, owed, memory, spent>>

-----------------------------------------------------------------------------
(* Disturbances.                                                           *)

\* A plugin that owns a source is unloaded ...
Unregister(s) ==
  /\ registered[s] # 0
  /\ Spend("register")
  /\ registered' = [registered EXCEPT ![s] = 0]
  /\ changes' = TRUE
  /\ UNCHANGED <<log, accepting, task, owed, catalog, wake, dispatch, seen, lane>>

\* ... and loaded again, as another registration.
Register(s) ==
  /\ registered[s] = 0
  /\ registered' = [registered EXCEPT ![s] = 1 + spent["register"]]
  /\ changes' = TRUE
  /\ UNCHANGED <<log, accepting, task, owed, catalog, wake, dispatch, seen, lane, spent>>

GateClose ==
  /\ accepting
  /\ Spend("gate")
  /\ accepting' = FALSE
  /\ UNCHANGED <<log, registered, task, owed, memory, lane>>

GateOpen ==
  /\ ~accepting
  /\ accepting' = TRUE
  /\ UNCHANGED <<log, registered, task, owed, memory, lane, spent>>

\* The process dies; the next one reads the log from the start.
Crash ==
  /\ Spend("crash")
  /\ owed' = FALSE /\ changes' = TRUE /\ accepting' = TRUE
  /\ task' = NoTasks /\ lane' = NoLanes
  /\ catalog' = Unread /\ wake' = FALSE
  /\ dispatch' = Waiting /\ seen' = Unseen
  /\ UNCHANGED <<log, registered>>

-----------------------------------------------------------------------------
UserStep(s) == Accept(s) \/ Stop(s)
Notify == Announce \/ CatalogWake \/ CatalogRead \/ CatalogYield \/ SourcesRead
DispatchStep == DispatchBegin \/ DispatchRead \/ DispatchAgain \/ DispatchApply
LaneStep(s) ==
  \/ LaneLoop(s) \/ LaneHead(s) \/ LaneEnter(s) \/ LaneStart(s) \/ LaneReopened(s)
  \/ LaneNotified(s) \/ LaneRevoked(s) \/ LaneRecord(s) \/ LaneRecorded(s)
TaskStep(s) == Answer(s) \/ TaskEnd(s)
Disturb ==
  \/ \E s \in Sources : Fail(s) \/ Break(s) \/ Unregister(s)
  \/ GateClose \/ Crash

Next ==
  \/ \E s \in Sources : UserStep(s) \/ LaneStep(s) \/ TaskStep(s) \/ Register(s)
  \/ Notify \/ DispatchStep \/ Disturb \/ GateOpen

Spec == Init /\ [][Next]_vars

-----------------------------------------------------------------------------
(* Safety.                                                                 *)

\* Nothing is on its way: no announcement, no reading, no lane, no reply.
AtRest ==
  /\ ~owed /\ ~catalog.event /\ catalog.st = "idle" /\ ~changes /\ ~wake
  /\ dispatch.st = "wait"
  /\ \A s \in Sources : lane[s].st = "none" /\ task[s].st = "none"

\* When everything is quiet nobody waits for an answer: no notification, no
\* head and no registration was lost on the way to a lane (follow).
NoInputStranded ==
  AtRest => \A s \in Sources : registered[s] # 0 => ~Pending(s)

\* A reply that may commit has a lane that waits for it, so that it is stopped
\* with its source and its end is settled (_release, _conclude).
RepliesAreWatched ==
  \A s \in Sources : task[s].st = "running" => lane[s].st # "none"

\* What the log says of the inputs of a source.
Covered(s, n, types) == \E c \in Seqs(s, types) : n <= log[c].through

Fate(s) ==
  [n \in Seqs(s, {"input"}) |->
     IF Covered(s, n, {"answer"}) THEN "closed"
     ELSE IF Covered(s, n, {"stop", "failure"}) THEN "stopped" ELSE "open"]

Promise(s) == INSTANCE SourcePromise WITH fate <- Fate(s), said <- Seqs(s, {"answer"})

\* Every source keeps the promise that SourceSession keeps, so that what is
\* reduced here to how a reply ends is what a reply does to its source.
ImplementsPromise ==
  /\ \A s \in Sources : Promise(s)!PromiseInit
  /\ [][\/ UNCHANGED log
        \/ \A s \in Sources : Promise(s)!PromiseNext \/ UNCHANGED Promise(s)!pvars]_vars

\* A message the dispatcher has not compared yet is on its way to it: owed by
\* its writer, in the event of the reader, in what it reads, or in the wake
\* (flush_notify, follow, _dispatch_changes).
HeadsReachDispatch ==
  Len(log) > seen.head =>
    owed \/ catalog.event \/ catalog.st # "idle" \/ wake \/ dispatch.st # "wait"

-----------------------------------------------------------------------------
(* Liveness: as long as the loop, a worker, a told task, a reload or a     *)
(* restart that is given up can go on, one of them does.                   *)

OwnStep ==
  \/ Notify \/ DispatchStep \/ GateOpen
  \/ \E s \in Sources : LaneStep(s) \/ TaskStep(s) \/ Register(s)

FairSpec == Spec /\ WF_vars(OwnStep)

\* Every input is settled in the end, whatever is reloaded or restarted
\* meanwhile, and whenever in a lane's round it arrives (_Follower._drive).
PendingSettles == \A s \in Sources : []<>~Pending(s)

=============================================================================
