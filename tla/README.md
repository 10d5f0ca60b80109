# A TLA+ model of Kirakira's runtime

Kirakira is a personal agent that runs in one Python process on asyncio. What
its users rely on is a set of protocols rather than an algorithm: every message a
person writes is stored in an append-only ledger; every reply is a task that reads a
prefix of that ledger, works for a long time outside any lock and then has to
commit its answers into the same ledger, while the person goes on writing,
stops, steers, retries, and while plugins are reloaded and the process restarts;
what was answered has to be sent out once, and what was scheduled has to happen
once. This directory models these protocols in TLA+, checks them with TLC on
small instances and proves their central invariants with TLAPS for every
instance.

Paths below are relative to `src/`.

- [The system](#the-system)
- [What is hard](#what-is-hard)
- [Modules](#modules)
- [Source sessions](#source-sessions)
- [Following the log](#following-the-log)
- [Becoming known](#becoming-known)
- [Task groups](#task-groups)
- [Deliveries](#deliveries)
- [Scheduler](#scheduler)
- [Runs](#runs)
- [Proofs](#proofs)
- [Findings](#findings)
- [What is not modelled](#what-is-not-modelled)
- [Plan](#plan)

## The system

| Part | State | Operations | Talks to |
|---|---|---|---|
| **Ledger log** `plugins/ledger/log.py` | messages of all sessions (SQLite, WAL), one head per session and per (session, source); bindings; listeners and a notification in flight | `append_async` with a compare-and-set of the source head and replay of a known identity; `OwnerTransaction`; readers on snapshots; `follow`, `flush_notify` | everything; commits run on worker threads, notifications on the loop |
| **Source session** `plugins/sources/session.py` | none of its own: the log of its source and the task slot of its key | `accept`, `control`, `pause`, `steer`, `resume`, `complete`, `start`, `record_failure` | ledger, task service, restart gate |
| **Task service** `agent/plugin_composition/tasks.py` | per key a slot (holder, superseded residuals) and an admission lock; per group exclusive entries and activities; `closed` | `admit_async`, `TaskSlot.start`, `Task.cancel`/`supersede`/join, `exclusive`, `activity`, `wait_idle`, `close` | owners of tasks: replies, deliveries, jobs, subagents |
| **Reply follower** `plugins/reply/follow.py` | heads seen, one lane (`_Wake`) per (session, source) | dispatch of changed heads, drive of one lane, detaching, recording a failure | ledger notifications, source session, restart gate |
| **Reply program, ReAct** `plugins/reply_program/program.py`, `plugins/react/plugin.py` | the prefix read, the current draft, tool calls in flight | read, check, ask the model, commit an output, run tools, abandon, complete | source session (checks), ledger (writers), tools |
| **Conversation, steers** `plugins/conversation/*.py` | staged steers per session | accept, stop, abandon, retry, steer | source session |
| **Restart gate** `agent/restart.py` | permits, request id, accepting, committed | `acquire`, `prepare`, `commit`, `abort`, `wait_drained` | supervisor pipe, every owner of long work |
| **Delivery** `plugins/delivery/*.py`, `plugins/delivery_policy/*.py`, `plugins/ledger/durable_delivery_store.py` | a durable record per (message, sink): prepared, started, delivered, rejected, cancelled, uncertain; cursors | prepare, send, retry, cancel, query an uncertain send | ledger, task service, channel senders |
| **Tools** `plugins/tools/*.py` | a call's intent and outcome in the log; order gate | run, settle abandoned calls, cleanup | ReAct, ledger |
| **Plugin composition, manager** `agent/plugin_composition/*.py`, `agent/plugins/*.py` | scopes, effects, generations; reload journal | load, reload, roll back, dispose | everything |
| **Supervisor, bootstrap** `agent/supervisor.py`, `bootstrap/` | child process, boot id | start, restart, guard a boot | restart gate |
| **Scheduler** `plugins/scheduler/*.py`, `plugins/timer` | the schedule file: jobs, one fire per time that came; tasks of fires in progress | add, cancel, start a fire, settle it, recover after a start | timer, source session, delivery, task service |
| **Proactive side** `plugins/{goal,wake,eventmail,drift,followups,jobs,subagent}` | tables with due times, claims and settlements | fire, claim, settle, pause | source sessions, task service |
| **Front ends** `plugins/{channels,gateway,telegram_*,akashic_*}` | connections | accept a message, send one | conversation, delivery |
| **Models, context, memory** `plugins/{models,context,compaction,akasha,...}` | settings, embeddings | calls | ReAct |

What makes the central parts correct:

- *Ledger*: the log only grows; a write that names an expected source head
  happens only on that head; a retried identity is stored once; every commit is
  eventually announced.
- *Source session*: an accepted input stays pending until an output, a stop, an
  abandon or a failure covers it; nothing is answered that is not pending; no
  answer ignores what arrived while it was written.
- *Task slot*: at most one task of a key may commit; a task that was moved aside
  never gets the right back, and it was moved aside only because its turn is
  closed in the log.
- *Follower*: a pending input is driven; a failure is recorded once and covers no
  input the failing reply had not seen; one session's failure is one session's.
- *Task groups*: first come, first served; no waiter sleeps through its turn;
  `close` ends.
- *Restart gate*: nothing external is in flight when the restart is published,
  and only a request that still stands is published.
- *Delivery*: what a non-idempotent channel accepted is never sent again; a
  cancelled delivery was never sent; a started one is eventually resolved.
- *Becoming known*: nobody waits for a message that is there; what is read from a
  cache is what is stored; a caller knows whether its write happened.
- *Scheduler*: a time that came is fired and settled unless a start comes too late for
  it; the file does not claim a delivery that did not happen; who works on a fire of a
  cancelled job is told.

## What is hard

The loop is cooperative, but every ledger access awaits a worker thread: what
was read before an `await` is old after it. Four kinds of actor write to one
source: the person's commands, which hold the admission lock of the source's key;
the reply task, which commits *outside* that lock and is held back only by a
check inside its write transaction; older tasks of the same source that were
revoked and still record the results of running tools; and the follower, which
records failures. A cancelled coroutine may have its write in a worker already.
The process may die anywhere, and then only the log counts. The hazards are
listed one by one, with the line where each bites, in `PROJECT.json`.

## Modules

| Module | What it is |
|---|---|
| `SourcePromise` | abstract: what a source promises the person who writes to it |
| `SourceSession` | one source: log, admission, slot, reply tasks, drive; its properties |
| `MCSourceSession` | instances for TLC: how often each disturbance may happen |
| `SourceSessionProofs` | inductive invariants and theorems about `SourceSession` |
| `SourceTurnProofs` | theorems about which turn of `SourceSession` is open: folds over the whole log; it implements `SourcePromise` |
| `ReplyFollow`, `MCReplyFollow` | the follower: notifications, dispatcher, lanes, registered sources |
| `ReplyFollowProofs` | invariants and theorems about `ReplyFollow`, up to "no input is stranded"; its sources implement `SourcePromise` |
| `NumberProofs` | facts about natural numbers that these cite, induction over them among them |
| `LedgerNotify`, `MCLedgerNotify` | how a commit becomes known: caches, wake-ups, followers, snapshots |
| `LedgerNotifyProofs` | four layers of invariants and theorems about `LedgerNotify` |
| `TaskGroups`, `MCTaskGroups` | the groups of a task service: activity, idleness, exclusive work, admissions, close |
| `TaskGroupsProofs` | inductive invariant and theorems about `TaskGroups` |
| `DeliveryPromise` | abstract: what a delivery promises whoever asked for it |
| `Delivery`, `MCDelivery` | deliveries at one target: records, tasks, withdrawal, retry, crash |
| `DeliveryProofs` | inductive invariant of `Delivery`; it implements `DeliveryPromise` |
| `Scheduler`, `MCScheduler` | the schedule file, its follower, the tasks of fires, the cancel tool |
| `SchedulerProofs` | inductive invariant and theorems about `Scheduler` |

How they fit together. `SourceSession` and `ReplyFollow` meet at the drive: the
first has every step a reply and the person's commands can take against one drive,
which may begin a round whenever it likes; the second says when a round is begun,
for replies that are reduced to how they end. What such a reply, a user and a drive may
do to a source is the same in both: each implements `SourcePromise`. `LedgerNotify` takes apart what
`ReplyFollow` has as one step, `Announce`, and the reading of heads. `TaskGroups` is
the service whose admission lock and turns `SourceSession`, `Delivery` and
`Scheduler` use: there only who holds a lock is kept, and any waiter may be next.
`Delivery` implements `DeliveryPromise`, and `Scheduler` is composed with
`DeliveryPromise` in its place, so that what is shown of the scheduler holds over
any service that keeps the promise.

Operators whose comment begins "Seeded fault" are variants of a modelled
definition with a plausible bug; no specification uses them. Each property is
known to fail when the definition they vary is replaced by them.

## Source sessions

`SourcePromise` is what the rest is for. Its two variables are what became of the
person's messages (`fate`: open, stopped or closed) and which replies there are
(`said`); its steps are single writes to the log. `PAsk` adds an open message; `PSay`
is a reply, only while something is open, and leaves the turn open or closes all that
was asked; `PAbandon` closes all; `PStop` holds back what was asked up to some message
and touches nothing that is closed; `PRetry` opens what was stopped, only when nothing
else is open. `SourceSession` maps its log to these variables by folding
it (`Fate`, `_ReplyState`), `ReplyFollow` by the controls that cover an input. Both state
the mapping as `ImplementsPromise`, the next-state relation of `SourcePromise` with a
first disjunct `UNCHANGED log`, which spares TLC the comparison where no message is
written; the theorems `RefinesPromise` conclude `PromiseSpec` itself.

`SourceSession` composes five parts of the code that share one source of one
session.

| Variable | Code |
|---|---|
| `log` | the messages of this source in the ledger, in order; position = sequence number (from 1; the code's -1 for "none" is 0) |
| `lane` | the admission lock of the key (`Tasks.admit_async`) with the locals of the operation that holds it: which command, the source head and the boundary it read |
| `task` | the `Task`s of the owner: how far each coroutine got, `active` (may commit), `superseded`, `boundary_hint`, the prefix React last read, the program it completes |
| `current`, `residual` | `TaskSlot.current`, `TaskSlot._residual` |
| `drive` | the follower's coroutine for this source: `_Iteration`, with `admission_boundary` |
| `waiting` | callers of `SourceSession.complete` that still wait |
| `accepting` | `RestartGate.accepting` |
| `spent` | counters that bound the disturbances; nothing in the code |

**Messages.** A message is its type, its client identity and `through`. For a
control `through` is the field of that name, for a tool result it is the call
answered. For an output it is the prefix React had read when it made the draft -
a history variable: the code keeps it in a local and compares it in the write
transaction. Payloads, metadata, bindings and content checks are left out.

**Atomicity.** An action is what happens between two points where something else
can run. Reads of the log by an admission happen at once and are compared with
the log later as the code compares them (`lane.head`); a commit is a step of its
own, because a worker performs it while the loop runs; going on after the commit
(`_committed`, `SteerNotify`) is another. The check and the append of React's
narrow transaction are one step, since SQLite serialises writers; the two
readings of `aborted` in `run_reply` are two. A drain waits in one place.

**The person's side.** `Accept*`, `Pause*`, `Abandon*`/`Resume*` with `Control*`
and `Complete*` follow `SourceSession.accept`, `pause`, `control`, `resume` and
`complete`. Each of them takes the lock, reads, decides, commits, notifies. A
command that is sent again after it was recorded is answered from the log and
changes nothing, so it is not an action - except for a steer, where it does
change something (see Findings).

**The slot.** `StartTask` is `SourceSession.start` with `TaskSlot.start`: the
holder, if its turn is closed, is superseded and moved aside, the residents are
counted against `MaxResident`, the new holder gets the boundary read. `Revoked`
and `Superseded` are `Task.cancel` and `Task.supersede`: the right to commit goes
at once, a coroutine that waits is ended, a running tool is waited for.

**The reply.** `Read`, `Prepare`, `Commit`, `CommitRefused`, `ToolFinish`,
`SettleCall`, `CloseCheck`, `CloseHead`, `CloseCommit`, `Deliver` follow one reply
through `run_reply` and `react`: open calls of earlier turns are settled, the
history is read, the model is asked (its answer is a choice: go on with a tool
call, or finish), the draft is committed if nothing competes with it, the tool
records its result even when the turn was revoked, and a turn out of steps is
abandoned by its own program.

**The drive.** `DriveBegin`, `StartBegin`, the `Start*` outcomes, `DriveDetach`,
`ReportBegin`, `ReportCommit`, `ReportConflict` follow `_drive_source`: the head
is read as `admission_boundary`, a task is started or an existing one is waited
for, it is detached if its turn is closed and a later input waits, and the error
it ended with is recorded. The record of a completion that began on an empty
source has no boundary: `record_failure` refuses it (`session.py:517`), and the
drive ends with that error.

**Disturbances**, each bounded by `Limit`: `program` (the program or its cleanup
raises), `cancel` (the owner's scope closes and revokes the task), `crash` (memory
is lost, the log stays), `gate` (a restart is prepared and given up), `resend` (a
steer is sent again).

## Following the log

`ReplyFollow` is one session whose sources may come and go.

| Variable | Code |
|---|---|
| `log` | the messages of the session; `through` of an answer is the boundary its task was admitted for |
| `registered` | what `Sources` has under a name: a number for each registration, 0 for none |
| `accepting` | `RestartGate.accepting` |
| `task` | the reply in the slot of each source, as far as its end matters |
| `owed` | a commit whose writer has not called `flush_notify` yet |
| `catalog` | `_watch_catalog` inside `MessageCatalog.follow`: its event, where it is, the heads it read and last handed on |
| `changes` | the event of `Sources.changes`, which `_watch_sources` waits for |
| `wake` | `_Follower._wake_event` |
| `dispatch` | `_dispatch_changes`: the snapshots it works on |
| `seen` | `_previous_heads`, `_previous_sources`, `_observed_source_heads` |
| `lane` | `_active`: per source the `_Wake` (its `source`, `changed`, `event`) and the coroutine of `_drive` |
| `spent` | counters that bound the disturbances |

**The way of a message.** `Announce`, `CatalogWake`, `CatalogRead`,
`CatalogYield` are the notification, the cleared event, the reading in a worker
and the comparison of heads; `DispatchBegin`, `DispatchRead`, `DispatchAgain`,
`DispatchApply` are one round of the dispatcher, which looks at the registry once
more after its reading and gives the round up when it has changed. `Scheduled`
creates a lane or tells the one there is to read again; `Told` is the update of a
lane whose source came or went. What a person sees of a registration and what
the follower knows of it are two variables, because every source is identified
by its registration (`dispatch.sources`, `seen.sources`, `lane.source`).

**A lane.** `LaneLoop` to `LaneStart` are one round of `_drive`: look whether the
wake asks for anything, read the boundary, compare the registration again, start.
`LaneNotified`, `TaskEnd` with `Settled`, `LaneRecord` and `LaneRecorded` are the
ways a wait for a task ends; `LaneRevoked` is the monitor of the owner's scope.
`Stopped` is the decision of `_conclude` which looks at the registration and not
at `wake.changed`. `Between` is a lane between two rounds, which forgets what the
round before had read; `Joined` is a lane that had to wait for the task it found and
looks again.

**Replies** are answered (`Answer`), raise (`Fail`, which records the failure if
they still hold the slot, as `SourceSession.start` does), are revoked by the next
input, a stop or their owner, or break: a running tool that a revoked reply waits
for fails, and the cancellation carries that error (`Break`). `Settled` says what
the drive makes of each of these. `Stop` covers the whole head, or, when the holder is
revoked and a newer input is queued behind it, only the turn up to the holder's
`hint` (`StopsTurn`), as in `SourceSession`.

## Becoming known

`LedgerNotify` is the part of `MessageLog` through which a commit reaches those who
wait for it, and the caches they read from.

| Variable | Code |
|---|---|
| `rows`, `revision` | the messages of each session in SQLite; `message_prefix_revision`, which a trigger counts up when a stored message is rewritten |
| `commit` | write transactions: how far each got, whether it wrote, whether its caller was told (`on_commit`) |
| `writing`, `viewing` | who holds `_writer_lock` and `_view_lock` |
| `heads`, `epoch`, `owed` | `_heads`, `_heads_epoch`, `_notify_owed` |
| `follower` | the callers of `follow` and `follow_heads`: the event (`event`), a delivery posted to the loop (`posted`) or between the halves of `_deliver` (`setting`), what was read and what was handed on |
| `view` | `_message_views`: the shared prefix of a session, with the revision it was read at |
| `snapshot` | callers of `committed_snapshot` |

**Writing.** `Begin`, `Start`, `Cancel`, `Write`, `WriteFails` are
`append_async`/`transact_async` through `run_file_io`, or a synchronous write in the
thread of its caller. `MergeHeads`, `MergeView`, `Announce` are what `_write` does
after the COMMIT and before it gives the writer lock back; `FlushNotify` and `Raise`
are `_run_commit` back on the loop. A cancellation that comes after the thread was
given the work waits for it and is raised when the write is over, so that it is
no step of its own: the debt is paid and `on_commit` called either way.

**Following.** `Subscribe` to `PollAgain` are one turn of `follow`: the event is
cleared, the heads are taken from the cache or loaded and adopted if the epoch has
not moved, they are compared with those handed on last. A wake-up is `Notified`
(marked under `_listener_lock`), `DeliverTake` and `DeliverSet`; while a wake-up is under way
another one is merged into it. `LoopStep` are the steps that run on the
follower's loop, which runs nothing else between the halves of `_deliver`.

**Reading.** `SnapLock`, `SnapBegin`, `SnapFill`, `SnapDrop` are
`committed_snapshot`: a transaction fixes what is seen, and the prefix all readers
share is extended or begun anew. `ViewGone` is the weak reference in the table.

## Task groups

| Variable | Code |
|---|---|
| `groups`, `group` | `Tasks._groups` and the `_Group` of each key: `references`, `activity`, `exclusive`, `waiting`; `admission` is the lock with its queue |
| `user` | coroutines: outside, waiting (`woken` once the event they wait for is set), or inside what they asked for |
| `closed`, `drained` | `Tasks._closed`, `_groups_drained` |
| `closer` | the coroutine in `Tasks.close` |

A step is what a coroutine does between two awaits. `changed = group.changed`
before a look and `notify`, which sets that event and replaces it, become `woken`:
it is false while the event a coroutine waits for is not set. An entry that needs
not wait is one step. `Cancel` is a cancellation of whoever waits, also of one that
was woken and has not run yet. The tasks that `close` cancels are represented by
coroutines inside a group, whose leaving is fair.

## Deliveries

`DeliveryPromise` has two variables, the state of the record and how often the
message reached the address, and eight actions. It says that one arming has at most
one effect, that nothing happens after a withdrawal, and that no outcome lies.
`Delivery` has what keeps this promise:

| Variable | Code |
|---|---|
| `record` | the row of a delivery: phase and version (`DeliveryRecords`) |
| `task` | the coroutine of `Deliveries._send`: where it awaits, the record it holds, the outcome it is about to save |
| `lock`, `target` | the admission of the delivery's key; the exclusive section of the target |
| `asks` | callers that prepared the delivery, or found it, and will start it |
| `left` | the caller that was told of a failure or cancellation |
| `retry` | an explicit `retry`, with the task it waits for |
| `call`, `orphans`, `effects` | the sender: the answer waited for, calls nobody waits for any more, what arrived (external) |
| `spent` | counts the disturbances |

`Start` is `_start`, which joins the task of the slot or makes one; `Read`, `Enter`,
`Reread`, `Query`, `Admit`, `Begin`, `Starting`, `Answered`, `Outcome`, `Close` follow
`_send` from await to await, with its three readings of the record.
`CancelBegin`, `CancelCommit`, `CancelTask` are `cancel_prepared`, `Retry*` are `retry`. `Interrupt`
ends a wait with a cancellation, `InterruptLate` a commit that had begun and
is finished first. `Crash` loses all but the records and what is on its way outside.
Of a sender (`Sender` in `api.py`, external) the model assumes: a receipt is true, a
refusal stands, an idempotent sender drops a repeated key, and no receipt says nothing.

The refinement mapping is the phase of the record; `effects` is mapped to itself.
A delivery to a sender that is not idempotent and may have accepted it is never
called again: after a restart `Query` finds a receipt or settles it as failed.

## Scheduler

| Variable | Code |
|---|---|
| `now` | the clock, in abstract instants |
| `file`, `stale` | the schedule file (`JobStore`): jobs, and a fire for each time that came; whether it changed since the follower compared its stamp |
| `follow` | `SchedulerRuntime.follow`: where it awaits, what it read, what it still has to start |
| `attempted`, `active` | fires this runtime started with the status it saw; those whose task it counts as running |
| `task`, `logged` | `_fire` in the slot of each fire; fires whose task ended in a logged exception |
| `log` | the messages of a fire in its session: an input, an output, a failure, closed |
| `cancel`, `sweep` | the cancel tool: `cancel` in the file, then `cancel_fires` over what it read |
| `state`, `effects` | the delivery of a fire's message, of `DeliveryPromise` |

`Boot` is `recover`; `Tick` to `StartDue` are one pass of the follower, which starts
pending and cancelled fires it had not started, tries cancelled ones again whose old
task was still there, and records the fires of due jobs. `Begin` to `TaskEnd` follow
`_fire`: it reads the fire again, writes the text or runs a reply, prepares and sends
the delivery, settles the fire and the job in one commit (`SettleFire`), or cleans up
behind a cancellation. Work that was handed to a thread is finished before a
cancellation is seen (`Then`), one that was not is not done (`Abort`). `Crash`,
`Stop`/`Stopped` (a plugin reload) and `Error` are the disturbances.

`DueIsFired` says what becomes of a time that has come. Only `recover` passes over one that
was not recorded: a recurring job skips the times it missed, a single one is dropped
once `Grace` is over; a time within the grace, or that comes while the follower runs, is
recorded in the end. What was recorded is settled or cancelled, or its exception was
logged in this process, after which the next boot takes it up. The property fails if a boot is
stricter than the grace (`RecoveredEarly`) as well as if a new runtime takes
its predecessor's starts for its own (`ForgetFew`).

## Runs

| Run | Instance | Shows |
|---|---|---|
| `source_session` | 2 inputs, 1 stop, 1 abandon, 2 tasks, 1 program failure, 1 revocation | type invariant and the safety of the slot and the commits; `/stop` and failures leave later input alone |
| `source_session_queue` | 2 inputs, a stop, a retry, a completion, one resident task, failure, crash, a steer re-sent | `SourcePromise` is implemented; the same log read by indexes and by a fold, also when a crash cut it off and a retry reopened it; a completion yields to the person |
| `source_session_live` | 2 inputs, 1 stop, gate closed once | every pending input comes to rest |
| `reply_follow` | 4 messages, at most 3 messages and disturbances before the last end; a failing reply, a broken one, a reload, a crash | type invariant; every reply that may commit is watched; no head is lost before the dispatcher; `SourcePromise` is implemented |
| `reply_follow_live` | the same bounds; a reload, a gate closed and opened | at rest no input waits; every input is settled in the end |
| `ledger_notify` | 2 commits of any type and mode, a follower of one type that polls, a reader, a rewrite by another process | no cached heads, wake-up, receipt or snapshot is wrong; who waits is about to be woken (`NothingMissed`) |
| `task_groups` | 3 coroutines on 2 keys | type invariant, exclusion, counts, no lost wake-up, no overtaking; requests are served, `close` returns and nobody is in the service from then on |
| `delivery` | 2 deliveries at one target, 2 disturbances | type invariant, no conflicting writers, nothing forgotten; `DeliveryPromise` is implemented; deliveries settle |
| `scheduler` | 1 job with 2 instants, 1 disturbance | type invariant; file, fires, counts and deliveries agree; a withdrawn fire is told; a time that has come is fired unless a boot is too late for it |
| `own_abandon`, `follower_ends`, `cancelled_cleanup` | as small as shows it | three sentences of the code's comments that its behaviour contradicts |

`NoInputStranded` and `PendingSettles` of the follower are checked without failing
replies; with one they do not hold (see Findings).

**Bounds.** Two inputs are what the races of a source are about: the one a reply
answers and the one that arrives too early or too late. Two task names allow a
holder and one that was moved aside, and a name is free again after the task left,
so that generations are not bounded. `MaxSteps = 2` gives a reply an output before
its last. One failure and one revocation in the same behaviour produce every order
of "failed, revoked, recorded". Task names are symmetric in the safety runs: only
equality of them is used. The log is bounded by the identities and the steps, so
that all runs explore their whole state space. Where CHECK_DEADLOCK is FALSE the
person's commands are used up and the system rests.

For the follower, one source is enough for what a lane and the dispatcher do to
each other, because lanes share nothing but the dispatcher's heads. Four messages are
two inputs and what settles each of them, or an input, a stop and another turn: the second input may come while the first one's
lane is reading, works, concludes, has ended, or after its answer. `Room` keeps space in the bounded log
for what settles the inputs. What people and disturbances begin is bounded by
`MaxEvents`: the messages written and the disturbances so far are less than 3. An input
and two disturbances fit, or two inputs and one, or an answered input, a
second one and nothing else; what the loop, the replies and the lanes do about them is not bounded. In `ledger_notify` two commits are the one that is
noticed and the one merged into its wake-up; either may be of the type the follower
asked for, of another, a change of the directory or an owner's record, which the commits are
symmetric in. The follower polls, so that it also reads past the cache. Three
coroutines in a group are a holder, one that waits and one that comes between; with
two keys they use two groups at once.

The two deliveries differ in every respect that matters to the code: the first is a
reply (passive) to an idempotent sender, the second an alert (active, guarded) to
one that is not, at the same target. Two disturbances give a crash during a retry,
an error after a cancellation, and so on. The scheduler's job is a recurring one that
runs a reply or a single one that sends a text; two instants are a time and the next
one, one interval apart. `MaxActive` is 1, as is the number of jobs, so that the limit never refuses;
what jobs do to each other is only that limit. `Limit` bounds the disturbances there to one
crash, reload or error, beside any cancellation.

**Fairness** (`FairSpec`). In `SourceSession`, `LaneStep`: worker threads and the loop finish what
they were given. `TaskStep(t)` and the drive's admissions are strongly fair,
because each needs the admission lock, an `asyncio.Lock`, whose waiters are served
first come, first served: a step that is possible again and again is reached.
`DriveBegin` is weakly fair, and this is where the run has a condition: the model
lets the drive begin a round whenever it is idle, whereas in the code a lane runs
only when its wake says so. Without program failures that is justified: each
commit moves the head, the dispatcher compares it with the head last observed,
and a lane in progress looks at `wake.changed` before it ends. After a recorded
failure the lane ends whatever its wake says, so the run allows no program
failures; `ReplyFollow` has that accounting. `GateOpen` is fair because
a prepared restart is committed, which is a new boot, or aborted, within its drain timeout.
No fairness is assumed of the person, of failures or of crashes.

In `ReplyFollow` the steps of the loop, its workers, told tasks, the loading of a
plugin that was unloaded and the opening of the gate are weakly fair as one action
(`OwnStep`): as long as any of them can be taken, one is. Which one is left open, so that the
property does not rest on an order of the loop. In `TaskGroups` whoever is woken runs and
whoever is inside leaves (weakly fair); `TakeTurn` is strongly fair, because one
event puts all its waiters into the loop's ready queue next to each other: the first of
them that may go on takes its turn before any coroutine that comes later can
change the group. Who comes, and who is cancelled, is not fair.

In `Delivery` the work on a delivery is weakly fair together with the answer of the
sender, whose clients all have timeouts; in `Scheduler` the follower and the tasks of
fires, with the deliveries they wait for, are weakly fair as one action. The clock, the user and the disturbances
are not fair there. `LedgerNotify` states no liveness: that nobody sleeps over a
message is the invariant `NothingMissed`. Its run checks deadlock as well, which adds little: a follower
may poll or leave at any time.

## Proofs

`SourceSessionProofs` proves for every set of identities and tasks, every
`MaxResident`, `MaxSteps` and `Limit`:

| Theorem | Statement | Invariant used |
|---|---|---|
| `TypeCorrect` | `Spec => []TypeOK` | `TypeInv` |
| `AnswersReadTheirPrefixAlways` | no input, control or output lies between the prefix an answer's author had read and the answer | itself, with `TypeInv` |
| `OneCommitterAlways` | at most the holder of the slot may commit | `TypeInv /\ SlotInv` |
| `SupersededIsClosedAlways` | a task moved aside had its turn closed in the log | `TypeInv /\ SlotInv` |
| `FailureCoversKnown` | a task's recorded failure covers no input the task did not know, unless a steer was sent again | `TypeInv /\ SlotInv /\ Covered` |

The type invariant alone is not inductive: after a steer's commit the admission
looks up the message it wrote, so `TypeInv` adds that it is there
(`SteerWritten`) and that a completion's admission names one (`CompletionNamed`).
`SlotInv` says why the slot is exclusive: who is active holds the slot, a holder is
a task that exists, a superseded task is past its last commit and its turn is closed by a message that no
later message can reopen (`SupersededEnds`; `BoundaryStays` is the lemma that a
growing log keeps it so), all residuals are superseded, and while `start` is
between its reading and its decision the slot is what it read or somebody's who
is not the reader's to move (`SlotReserved`). Most steps leave tasks as they are
or only take rights away; the lemmas named `Quiet...` treat those at once, so that
the proof spends its steps on starting, ending and superseding.

`LogGrows` says that every step leaves the log or appends one message. With it
`AnswersReadTheirPrefix` needs a look only at the two steps that append an output.

`Covered` follows the knowledge of whoever may record a failure. Whoever may commit knows
all input, except between the write of an input and its announcement
(`HolderKnows`), which either revokes the holder or, for a steer, moves its
boundary to the new message; that the boundary then is the latest input needs that a
steer is new when it is written and the latest until it is announced (`SteerIsLatest`), and
that meanwhile only its own task may commit, and waits (`SteererWaits`). A failing task
carries that knowledge into its admission, where nobody else writes an input
(`FailerKnows`). A step without a new input is treated by one lemma, `CalmCovers`. A
steer that is sent again breaks the argument (see the note on `HintAdvances` under
Findings), so the property speaks of behaviours without one, and its run has none.

`SourceTurnProofs` proves, from the same invariants and assumption, what is about
a fold over the whole log:

| Theorem | Statement | Invariant used |
|---|---|---|
| `ReadersAgreeAlways` | reading a turn by index finds what folding every message finds | `ShapeInv` |
| `AnswersArePendingAlways` | an answer is written only for a turn that is open in the log before it | `ShapeInv /\ TurnInv`, with `SlotInv` |
| `DeliveriesYieldAlways` | a completion delivers only while no input waits | the same |
| `PauseKeepsQueuedAlways` | a stop leaves an input that queued behind its turn pending | the same, with `Covered` |
| `KeepsPromise` | `Spec => ImplementsPromise` | the same as for answers, with `ControlStands` |
| `RefinesPromise` | `Spec => Promise!PromiseSpec` | `KeepsPromise` |

`FoldedState` is a recursive function over the log. `FoldExists` and `FoldUnique`
say that it is the one function that satisfies its equation, `FoldStep` that one
more message is one more `AddMessage`, `FoldStays` that a prefix is folded to the
same state when the log grows. They are inductions over the length of the prefix. The induction
theorems of the library take a predicate as a parameter, which the provers cannot
instantiate; `AllNumbers` of `NumberProofs` has a set of numbers in its place and is proved by a least
counterexample. `FoldShaped` says what a folded state is: its latest input, its
last completion or abandon, and a pause that some control put there. It
needs that controls look back (`LooksBack`): no control covers a message that is not there yet.
`ReadAsFolded` is then the agreement of the two readings.

`ShapeInv` states what the log, admissions and tasks may hold: controls look back, the
client identity of an input belongs to no other message (`InputIds`), an admission and a task have
read a prefix of the log and are where their kind can be (`Admits`, `Placed`), and a
reply in the slot is bound to an input (`SlotBound`). `TurnInv` says why whoever
may commit finds its turn open: as long as nothing has come after its boundary
(`SourceChanged` would hold it back otherwise) the input it is bound to waits, and every
completed turn before it was followed by an input (`Reopened`); a completion's
admission stands on a head without waiting input (`CompletionIdle`), and so does
its task while nothing disturbs it (`TurnOpen`). A step is
first abstracted to what it may do to the log, the lane, the tasks and the slot
(`TurnStep`, which is `KeptLog`, `KeptLane`, `KeptTasks` and `KeptSlot`), with one
lemma per group of actions; the invariants are then carried over the abstraction once.

For the stop, `PauseKnows` says that a stop about to be written finds a turn that knows
all input, or leaves out an input that the turn does not know. Proving the
theorem showed that the property needs two conditions, which it now has: its earlier
form failed for a completion on an empty source (see Findings) and
after a steer that is sent again, both outside the run's bounds.

For the promise, every write is a step of it by what the message is (`PromiseStep`).
`FoldGrows` says what one more message does to the folded state. A stop or a failure
stops the messages up to the last one it covers. That an output finds its turn open is what
`AnswersArePendingAlways` needs, `KeptLog`. A retry and an abandon are
conditional on the head they were decided on, and `ControlStands` carries the
decision to the write: while that head stands, what is retried is stopped
(`ResumableIsStopped`: the control that stopped it is the last one of the log, so it
still holds in the fold).

The only assumption is `SlotAssumption`: the null values are outside their sets,
the bounds are natural numbers, and no control has the client identity of an input -
identities are made per message, and the log would replay the one for the other.
TLC evaluates it in every run.

`ReplyFollowProofs`, for any finite set of sources, any bound on the log and any number of
disturbances of each kind (`FollowAssumption`; the registry is a `dict`):

| Theorem | Statement | Invariant used |
|---|---|---|
| `TypeCorrect` | `Spec => []TypeOK`; there is room in the log for the end of every pending input | `TypeInv /\ WatchInv /\ RunInv /\ RoomInv` |
| `RepliesWatched` | a reply that may commit has a drive that waits for it | `WatchInv` |
| `HeadsArrive` | a message the dispatcher has not compared is on its way to it | `HeadsInv` |
| `NothingStranded` | `Reliable` implies `Spec => []NoInputStranded` | `HeadsInv /\ ReachInv` |
| `KeepsPromise` | `Spec => ImplementsPromise`, for all sources at once | `TypeInv /\ WatchInv /\ RunInv /\ PastInv` |
| `RefinesPromise` | each source: `Spec => Promise(s)!PromiseSpec` | `KeepsPromise` |

The bound on the log is the one place where a bound could hide a behaviour: an
input that has no room for its end would wait for ever in every run. `RoomInv` says
that the messages and the pending inputs together fit; an end settles one
(`PendingWritten`), because a reply that may commit has an input pending (`RunInv`).

The promise needs `RunInv`, so that an answer finds something open, and `PastInv`, so
that no earlier control covers a new message: what a control covers,
a lane has read (`boundary`) or a task was admitted for (`hint`) is a number the log has
given. `NotedFor` says what a write adds for its own source and that the others
see nothing; `WriteKeeps` finds the step of the promise.

`Reliable` says that no program fails and no waited-for tool breaks; with them a
lane may end although its wake asks for more, and an input does wait (see the notes
under Findings). Reloads, closed gates and crashes remain, without a bound.
`NoInputStranded` speaks of the moment when all is quiet; the invariant says what
each hand knows before that. `LengthInv` and `KnownInv`: the watchers and the
dispatcher know the whole log and the registry, or there is a reason to look.
`NumbersInv`: a new registration has a number that nobody holds, so that whoever
compares registrations sees it. `SourceHeads`: of the messages up to the head the
dispatcher has seen, none of a registered source is beyond the head it observed
for that source, although it updates those heads only for sources it schedules.
`LaneInv`: a source that waits for an answer to messages the dispatcher has compared has a
lane that is not done; a drive that stops because its registration is gone either
was told of the next one or will be, since its source differs from what is
registered. At rest the four leave no pending input. The steps of users, tasks and
lanes touch nothing of the dispatcher (`WorkerFrame`), so each invariant needs a
look only at a few actions.

`TaskGroupsProofs` proves all safety properties of `TaskGroups` for every set of
keys and every finite set of coroutines (`GroupAssumption`, also evaluated by TLC):

| Theorem | Statement |
|---|---|
| `TypeCorrect` | `Spec => []TypeOK`; the counts are natural numbers, so nothing is given back twice |
| `ExclusionHolds` | exclusive work, and admissions, exclude each other |
| `GroupsCountUsers` | a group's counts are those of the coroutines that use it |
| `NoWakeupLost` | whoever sleeps could not go on |
| `CloseDrains` | `close` returns when nobody is inside or waits |
| `NobodyOvertakes` | no later request begins before one that activity cannot hold back |

They share one inductive invariant, `Inv`. None of the properties is inductive
alone: exclusion needs that the flag of a group stands while somebody is inside,
so a group must not be dropped while it is used, so its references must be the
coroutines that hold its key; a sleeper is right to sleep only if the requests in
front of it are still queued, so the queue must hold exactly the coroutines that
wait, each once (`Queue`). `KeyInv` states this for one group and the coroutines
of its key. A step changes one coroutine and one group: `KeyFollows` carries
`KeyInv` over such a change from what it does to the counts and the queues,
`JoinTable`, `LeaveTable` and `StayTable` the table of groups, with a dropped
group as good as a new one (`KeyFresh`), and `Moves` the sleepers, who were woken
or see what they saw. Each action then has one lemma. `CountStep` and the `Queue...`
lemmas are the facts about cardinalities and sequences the argument rests on.

`DeliveryProofs` proves for all deliveries and any number of disturbances
(`DeliveryAssumption`: the kinds of deliveries are subsets of them, `Limit` is a number):

| Theorem | Statement |
|---|---|
| `TypeCorrect` | `Spec => []TypeOK` |
| `NoConflict` | withdrawal, retry and sending never conflict in the store |
| `NothingForgotten` | who is not settled has somebody who will look, or a caller that was told |
| `KeepsPromise` | `Spec => ImplementsPromise`: `Delivery` implements `DeliveryPromise` |
| `HonestRecords` | what a record says has happened outside |

The invariant `IInv` speaks of one delivery at a time: `LockInv` ties the
admission lock to the step of the task that holds it, `SeenInv` the record a task
holds to the stored one, `EffectInv` the phase, the call under way and the calls
nobody waits for to the number of effects - an armed delivery is `Untouched` until its
call, and a refusal makes it so again - and `WantInv` is `NothingForgotten` with what
makes it inductive. `SameKeeps` carries it over every step of another delivery;
each action has one lemma, which also says how the step maps to the abstract one
(`Promised`).

`SchedulerProofs`, for any jobs, clock and disturbances (`SchedulerAssumption`):

| Theorem | Statement |
|---|---|
| `TypeCorrect` | `Spec => []TypeOK` |
| `PendingStaysCurrent` | a pending fire is that of the current time of a job still scheduled |
| `FiresStayHonest` | what the file says of a fire is true of its delivery |
| `CountsStayDeliveries` | a job counts each of its delivered fires once |
| `WithdrawnStaysTold` | after the cancel tool returned, nobody goes on with a cancelled fire untold |
| `SettledOnce` | what was settled or cancelled stays so |

`FileInv` (`FireCurrent` and `Counted`) is about the file alone and is inductive by
itself; counting is `Cardinality` of a finite set that one settlement extends by one element.
`WorkInv` ties file, task, messages and delivery of one fire together: what a task
is about to settle fits its delivery (`TaskInv`), a settled fire fits it
(`RecordInv`), and a fire the cancel tool has passed has no task that is not cut
(`Told`). The steps of the delivery are those of `DeliveryPromise`.

`LedgerNotifyProofs`, for any sessions, transactions, followers and readers
(`NotifyAssumption`: the transactions are finite, the null values are outside their
sets):

| Theorem | Statement | Invariant used |
|---|---|---|
| `TypeCorrect` | `Spec => []TypeOK` | `TypeInv` |
| `ReceiptsStayTrue` | a caller was told just when its message is stored; a debt has a payer | `WriteInv` |
| `CacheStaysCommitted` | cached heads are the stored ones, but for the commit on its way there | `HeadsInv` |
| `NothingIsMissed` | who waits has seen what it asked for, or is about to be woken | `FollowInv` |
| `SnapshotsStayTrue` | a snapshot is what its transaction saw | `ViewInv` |

Each layer uses those before it. `WriteInv`: the writer lock is held just in the
stages after a commit (`StageOK`), a message is where its transaction put it
(`RowOK`) and was put there by one (`AuthorOK`), a debt will be paid (`DebtOK`).
`HeadsInv`: cached heads, and heads loaded under the current epoch, differ from
the stored ones at most by the commit that is still to be merged (`Near`, `LoadOK`).
`FollowInv`: whatever a follower has in hand shows all that is not promised to it
by a committer, a debt or a wake-up (`Shows`, `Promised`). `ViewInv`: a shared prefix
of the current revision begins the stored messages (`ViewOK`), and a prefix of the
revision a reader fixed agrees with what that reader sees (`ReadOK`).

Only model-checked: `PendingSettles` (in both modules), `ExclusiveServed`, `CloseReturns`,
`DeliverySettles` and `DueIsFired`, since liveness under fairness needs ENABLED. Every
invariant and every action property that a passing run checks is proved.

## Findings

Three comments promise what the code does not keep; each is shown by a run that
TLC violates.

1. `own_abandon`: `aborted` checks the source and reads the head afterwards. An
   input committed by a worker in between is covered by the abandon of the old run.
2. `follower_ends`: when the failure record loses the race for the source head,
   the drive raises, and its task group ends the follower of every session.
3. `cancelled_cleanup`: the cancel tool cancels whatever holds the slot of a
   cancelled fire. If the old task has just ended, that is the task the follower
   started to clean up behind it; nobody starts another one before a restart, and
   the round stays open.

The modules state more properties, or admit instances of those they state, that do
not hold. They are not among the runs; an instance that shows each is given here.

- `RetryHolds` of `SourceSession` (one input, one retry, `Limit` one program failure):
  `start.failed` records a failure and lets the error pass on; the drive records it
  again (`follow.py:578`). A retry committed between the two restores the input, and
  the second failure covers it once more.
- `HintAdvances` (three inputs, `Limit` one re-sent steer, `MaxSteps` 2): a steer sent
  again is answered with the stored message, and `boundary_hint` is set to *its*
  sequence number, which may be older than the current boundary. The task then
  takes its own later steer for a competing input, and if it fails before it reads
  again, the failure covers a steer beyond its boundary: `FailureCoversKnownInput`
  holds only of behaviours in which no steer is sent again (`spent["resend"] = 0`).
- `CapacityIsNoFailure` (two inputs, `MaxResident` 1, `MaxSteps` 2): with all places
  taken by tasks that are superseded and still drain, `TaskSlot.start` raises
  `TaskCapacity`, which the drive records as a failure of the new input.
- `PauseKeepsQueuedInput` with a completion on a source that was empty when it
  began (two inputs, one stop, one completion): its boundary hint is -1, which
  `session.py:273` takes for "no hint", so that a stop meant for the completion
  covers the input queued behind it.
- `NoInputStranded` of `ReplyFollow` with a broken reply (one source, `MaxMessages` 3,
  `MaxEvents` 4, `Limit <- Breaking`): a new input revokes a reply whose running tool then fails.
  The error reaches `_conclude` as a settlement error, and the lane ends although its wake asks
  for another reading; the input waits for the next message, against
  `follow.py:396`. A failing reply whose lane ends between its record
  and its end strands an input in the same way, with one message more.
- `SnapshotsAreTrue` if `Rewrite` loses its condition `writing = Nobody`
  and a second reader asks for an earlier prefix: a message that another process
  rewrites between its commit and `MergeView` is added, as it was written, to a
  prefix that a reader has meanwhile built at the new revision, and stays there.
  The comment at `log.py:770` expects the revision to be compared when reading. Such
  a rewrite needs another process that writes the same database in that moment.
- Heads handed to a polling follower may go back: a polled reading takes SQLite
  before the cache has heard of a commit, and the next reading takes the older
  cache. Nothing is lost by it (`NothingMissed`), but a follower must not take heads
  for growing.

## What is not modelled

See `components` in `PROJECT.json` for each part. In the parts that are modelled:

- *Source session*: what a program reads besides this source; the content of the
  messages; compaction; scheduling among the tools of one output (one call stands
  for all); errors of the database itself. A completion's own outputs go to a
  source of their own, so only its checks of this source appear.
- *Ledger*: sessions exist from the start, and creating one is a change of the
  directory; the log is not closed; the follower's loop lives and never refuses
  `call_soon_threadsafe`; `snapshot_heads` is one query, without the cache it keeps
  per connection; a database without the revision table; a wake-up between the two
  sections of `flush_notify`, which commutes with them.
- *Task groups*: tasks named by id, and their cancellation by `close`.
- *Delivery*: the cursor of the consumer of records, history, the registry of
  senders; several targets share nothing and one stands for all.
- *Scheduler*: parsing of schedules, a call of the add tool that is repeated,
  a session deleted while it fires, tools of a generation of the plugin that is
  being unloaded; the delivery is the abstract one.

The restart gate has a protocol of its own, of which the modules keep only whether it
accepts. Staged steers and the execution of tools have protocols that
no module covers yet. Front ends, model providers, memory arithmetic, user
interface, migrations and vendored code are I/O, numeric, or have no protocol of
their own.

## Plan

What would come next, in this order.

1. `Steers`: the staged steers of a turn, their settling and cancellation
   (`steer.py:113`, `steer.py:126`), composed with the admission of `SourceSession`.
2. `ToolExecution`: intent, effect, outcome, abandoned calls after a restart, the
   order gate; then the open call of `SourceSession` as its abstraction.
3. `RestartGate`: permits, prepare, commit, abort, and the stop of the host that is
   built on them. Proof: nothing in flight at the commit.
4. The consumer of delivery records and the delivery policy's own following, on
   `LedgerNotify` in place of the log.
5. `Goal`, the claims of wake and event mail, the reload journal, the supervisor's
   loop, managed processes.
6. An abstract specification of a first-come, first-served lock, refined by
   `TaskGroups`; an abstract specification of "known in the end", refined by
   `LedgerNotify`.

Modules with theorems contain no RECURSIVE operator: `SourceSession` folds with a recursive
function.
