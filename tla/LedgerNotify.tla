----------------------------- MODULE LedgerNotify -----------------------------
(***************************************************************************)
(* plugins/ledger/log.py, class MessageLog: how a commit becomes known.    *)
(* Writers commit on worker threads, or where they are called; the commit  *)
(* then enters the cache of heads and the shared prefix of its session,    *)
(* and those who follow the log are woken on the event loop.  Followers    *)
(* and readers take heads and messages from the caches or from SQLite at   *)
(* any moment in between.                                                  *)
(*                                                                         *)
(* A step ends where another thread may look: after a transaction of       *)
(* SQLite, after a section under _listener_lock or _view_lock, and at an   *)
(* await.  Positions count from 1, and 0 is the head of an empty session   *)
(* (the code's -1).  Sessions are there from the start, so that creating   *)
(* one is a change of the directory like renaming or deleting it.          *)
(***************************************************************************)
EXTENDS Naturals, Sequences, FiniteSets

CONSTANTS
  Sessions,
  Commits,      \* write transactions; each happens once
  Kinds,        \* types of messages
  Followers,    \* subscriptions
  Wakes,        \* the types whose commits wake a follower (wake_on)
  Direct,       \* followers that read SQLite at every turn (filtered, or of one session)
  Pollers,      \* followers that look again after a while (poll_interval)
  Readers,      \* callers of committed_snapshot
  MaxRewrites,  \* rewrites of a stored message by another process
  NoHeads, NoView, Nobody

\* The type of a transaction that changes the directory (None in the code), and of
\* one that only touches an owner's records.
Directory == "directory"
Private == "private"

ASSUME NotifyAssumption ==
  /\ IsFiniteSet(Commits)
  /\ Kinds \cap {Directory, Private} = {}
  /\ Wakes \in [Followers -> SUBSET Kinds]
  /\ Direct \subseteq Followers /\ Pollers \subseteq Followers
  /\ MaxRewrites \in Nat
  /\ NoHeads \notin [Sessions -> Nat]
  /\ Nobody \notin Commits \cup Readers

VARIABLES
  rows,      \* the messages of each session in SQLite
  revision,  \* message_prefix_revision: how often a stored message was rewritten
  commit,    \* the transactions: how far each got, and what became of its caller
  writing,   \* who holds _writer_lock
  viewing,   \* who holds _view_lock
  heads,     \* _heads
  epoch,     \* _heads_epoch
  owed,      \* _notify_owed
  follower,  \* the subscriptions: where each is, its event, what it read
  view,      \* _message_views: the shared prefix of each session
  snapshot   \* the readers of a session

vars == <<rows, revision, commit, writing, viewing, heads, epoch, owed, follower, view, snapshot>>

\* A message as stored: who wrote it, and the rewrite its text is from.
Row == [by : Commits, text : Nat]
View == [revision : Nat, rows : Seq(Row)]
Heads == [s \in Sessions |-> Len(rows[s])]

\* Seeded fault: the records of an owner are announced like a message.
ChangedAll(c) == {commit[c].kind}

\* What _changed has collected in the transaction.
Changed(c) == IF commit[c].kind = Private THEN {} ELSE {commit[c].kind}
Wakeful(f, changed) == Directory \in changed \/ changed \cap Wakes[f] # {}

Minor(m, n) == IF m < n THEN m ELSE n
Prefix(seq, n) == SubSeq(seq, 1, Minor(n, Len(seq)))

\* A transaction between its commit and what the committer says of it.
Committed == {"merge", "extend", "announce"}
Stages == {"new", "queued", "started", "done", "ended"} \cup Committed

Transaction ==
  [at : Stages, kind : Kinds \cup {Directory, Private}, session : Sessions, async : BOOLEAN,
   wrote : BOOLEAN, seq : Nat, told : BOOLEAN]

Reading == {"read", "ask", "load", "adopt", "loaded"}
Subscription ==
  [at : {"out", "clear", "yield", "wait"} \cup Reading, event : BOOLEAN, posted : BOOLEAN,
   setting : BOOLEAN, polled : BOOLEAN, epoch : Nat,
   loaded : [Sessions -> Nat] \cup {NoHeads}, previous : [Sessions -> Nat] \cup {NoHeads}]

Out ==
  [at |-> "out", event |-> FALSE, posted |-> FALSE, setting |-> FALSE, polled |-> FALSE,
   epoch |-> 0, loaded |-> NoHeads, previous |-> NoHeads]

Reader ==
  [at : {"idle", "locked", "begun", "holds"}, session : Sessions, revision : Nat,
   rows : Seq(Row), upper : Nat, result : Seq(Row)]

TypeOK ==
  /\ rows \in [Sessions -> Seq(Row)] /\ revision \in Nat /\ epoch \in Nat
  /\ commit \in [Commits -> Transaction]
  /\ writing \in Commits \cup {Nobody} /\ viewing \in Readers \cup {Nobody}
  /\ heads \in [Sessions -> Nat] \cup {NoHeads}
  /\ owed \subseteq Kinds \cup {Directory}
  /\ follower \in [Followers -> Subscription]
  /\ view \in [Sessions -> View \cup {NoView}]
  /\ snapshot \in [Readers -> Reader]

Init ==
  /\ rows = [s \in Sessions |-> <<>>] /\ revision = 0 /\ epoch = 0
  /\ \E s \in Sessions, k \in Kinds :
       commit = [c \in Commits |->
         [at |-> "new", kind |-> k, session |-> s, async |-> TRUE,
          wrote |-> FALSE, seq |-> 0, told |-> FALSE]]
  /\ writing = Nobody /\ viewing = Nobody
  /\ heads = NoHeads /\ owed = {}
  /\ follower = [f \in Followers |-> Out]
  /\ view = [s \in Sessions |-> NoView]
  /\ \E s \in Sessions :
       snapshot = [r \in Readers |->
         [at |-> "idle", session |-> s, revision |-> 0, rows |-> <<>>, upper |-> 0, result |-> <<>>]]

-----------------------------------------------------------------------------
(* Writing.                                                                *)

To(c, stage) == commit' = [commit EXCEPT ![c].at = stage]

\* append_async or transact_async, which wait for one of the file threads, or a
\* synchronous write in the thread of its caller.
Begin(c, k, s, async) ==
  /\ commit[c].at = "new"
  /\ commit' = [commit EXCEPT ![c].at = IF async THEN "queued" ELSE "started",
                              ![c].kind = k, ![c].session = s, ![c].async = async]
  /\ UNCHANGED <<rows, revision, writing, viewing, heads, epoch, owed, follower, view, snapshot>>

\* run_file_io has a thread.
Start(c) ==
  /\ commit[c].at = "queued"
  /\ To(c, "started")
  /\ UNCHANGED <<rows, revision, writing, viewing, heads, epoch, owed, follower, view, snapshot>>

\* The caller is cancelled before that.  Later a cancellation waits for the thread
\* and is raised again after the step that ends the write (FlushNotify, Raise).
Cancel(c) ==
  /\ commit[c].at = "queued"
  /\ To(c, "ended")
  /\ UNCHANGED <<rows, revision, writing, viewing, heads, epoch, owed, follower, view, snapshot>>

Message(c) == commit[c].kind \in Kinds

\* _write up to the COMMIT.
Write(c) ==
  LET s == commit[c].session IN
  /\ commit[c].at = "started" /\ writing = Nobody
  /\ writing' = c
  /\ rows' = IF Message(c) THEN [rows EXCEPT ![s] = Append(@, [by |-> c, text |-> 0])] ELSE rows
  /\ commit' = [commit EXCEPT ![c].at = "merge", ![c].wrote = TRUE,
                              ![c].seq = IF Message(c) THEN Len(rows[s]) + 1 ELSE 0]
  /\ UNCHANGED <<revision, viewing, heads, epoch, owed, follower, view, snapshot>>

\* A conflict, or a check that refuses: the transaction is rolled back.
WriteFails(c) ==
  /\ commit[c].at = "started" /\ writing = Nobody
  /\ To(c, IF commit[c].async THEN "done" ELSE "ended")
  /\ UNCHANGED <<rows, revision, writing, viewing, heads, epoch, owed, follower, view, snapshot>>

\* What a commit makes of cached heads.
Merged(c) ==
  LET s == commit[c].session IN
  IF commit[c].kind = Directory \/ heads = NoHeads THEN NoHeads
  ELSE IF Message(c) /\ commit[c].seq > heads[s] THEN [heads EXCEPT ![s] = commit[c].seq]
  ELSE heads

MergeHeads(c) ==
  /\ commit[c].at = "merge"
  /\ heads' = Merged(c) /\ epoch' = epoch + 1
  /\ To(c, "extend")
  /\ UNCHANGED <<rows, revision, writing, viewing, owed, follower, view, snapshot>>

\* Seeded fault: the message is added wherever the prefix ends.
ExtendedAnyway(c) ==
  LET s == commit[c].session IN
  IF Message(c) /\ view[s] # NoView
    THEN [view EXCEPT ![s].rows = Append(@, [by |-> c, text |-> 0])]
    ELSE view

\* The shared prefix after the message of a commit.
Extended(c) ==
  LET s == commit[c].session IN
  IF Message(c) /\ view[s] # NoView /\ commit[c].seq = Len(view[s].rows) + 1
    THEN [view EXCEPT ![s].rows = Append(@, [by |-> c, text |-> 0])]
    ELSE view

MergeView(c) ==
  /\ commit[c].at = "extend" /\ viewing = Nobody
  /\ view' = Extended(c)
  /\ To(c, "announce")
  /\ UNCHANGED <<rows, revision, writing, viewing, heads, epoch, owed, follower, snapshot>>

\* _notify: who is subscribed, asked for it, and has no wake-up set or under way.
Notified(changed) ==
  [f \in Followers |->
     IF follower[f].at # "out" /\ Wakeful(f, changed) /\ ~follower[f].event /\ ~follower[f].posted
       THEN [follower[f] EXCEPT !.posted = TRUE] ELSE follower[f]]

\* The rest of _write.  An asynchronous committer leaves the wake-ups to its
\* coroutine.
Announce(c) ==
  /\ commit[c].at = "announce"
  /\ writing' = Nobody
  /\ IF commit[c].async
       THEN owed' = owed \cup Changed(c) /\ To(c, "done") /\ UNCHANGED follower
       ELSE follower' = Notified(Changed(c)) /\ To(c, "ended") /\ UNCHANGED owed
  /\ UNCHANGED <<rows, revision, viewing, heads, epoch, view, snapshot>>

\* Seeded fault: the cancellation is raised as it comes.
FlushUnlessCancelled(c) ==
  /\ commit[c].at = "done" /\ commit[c].wrote
  /\ \/ /\ follower' = Notified(owed) /\ owed' = {}
        /\ commit' = [commit EXCEPT ![c].at = "ended", ![c].told = TRUE]
     \/ To(c, "ended") /\ UNCHANGED <<follower, owed>>
  /\ UNCHANGED <<rows, revision, writing, viewing, heads, epoch, view, snapshot>>

\* _run_commit goes on on the loop, with the result or with a cancellation that found
\* the commit made: both pay the debt and call on_commit.  Between the two sections of flush_notify only
\* threads can run, and what they do to the debt and the wake-ups commutes with it.
FlushNotify(c) ==
  /\ commit[c].at = "done" /\ commit[c].wrote
  /\ follower' = Notified(owed)
  /\ owed' = {}
  /\ commit' = [commit EXCEPT ![c].at = "ended", ![c].told = TRUE]
  /\ UNCHANGED <<rows, revision, writing, viewing, heads, epoch, view, snapshot>>

Raise(c) ==
  /\ commit[c].at = "done" /\ ~commit[c].wrote
  /\ To(c, "ended")
  /\ UNCHANGED <<rows, revision, writing, viewing, heads, epoch, owed, follower, view, snapshot>>

-----------------------------------------------------------------------------
(* Following.                                                              *)

OnlyFollower ==
  UNCHANGED <<rows, revision, commit, writing, viewing, heads, epoch, owed, view, snapshot>>

Change(f, next) == follower' = [follower EXCEPT ![f] = next]

\* follow, follow_heads: the event is registered before anything is read.
Subscribe(f) ==
  /\ follower[f].at = "out"
  /\ Change(f, [Out EXCEPT !.at = "clear"])
  /\ OnlyFollower

Clear(f) ==
  /\ follower[f].at = "clear"
  /\ Change(f, [follower[f] EXCEPT
       !.event = FALSE, !.at = IF f \in Direct \/ follower[f].polled THEN "load" ELSE "read"])
  /\ OnlyFollower

\* Seeded fault: the event is cleared once the heads are read.
ComparedCleared(f, new) ==
  [follower[f] EXCEPT !.at = IF new # follower[f].previous THEN "yield" ELSE "wait",
                      !.previous = new, !.loaded = NoHeads, !.epoch = 0, !.polled = FALSE,
                      !.event = FALSE]

\* Heads that are handed on only if they are not those handed on last.
Compared(f, new) ==
  [follower[f] EXCEPT !.at = IF new # follower[f].previous THEN "yield" ELSE "wait",
                      !.previous = new, !.loaded = NoHeads, !.epoch = 0, !.polled = FALSE]

\* committed_heads_async looks at the cache in the loop, and committed_heads again
\* in a thread, before it loads what the cache lacks.
ReadCache(f) ==
  /\ follower[f].at = "read"
  /\ Change(f, IF heads # NoHeads THEN Compared(f, heads)
               ELSE [follower[f] EXCEPT !.at = "ask"])
  /\ OnlyFollower

Ask(f) ==
  /\ follower[f].at = "ask"
  /\ Change(f, IF heads # NoHeads THEN [follower[f] EXCEPT !.at = "loaded", !.loaded = heads]
               ELSE [follower[f] EXCEPT !.at = "load", !.epoch = epoch])
  /\ OnlyFollower

\* snapshot_heads, in one query.
Load(f) ==
  /\ follower[f].at = "load"
  /\ Change(f, [follower[f] EXCEPT
       !.loaded = Heads, !.at = IF f \in Direct \/ follower[f].polled THEN "loaded" ELSE "adopt"])
  /\ OnlyFollower

\* Seeded fault: what was loaded is kept whatever committed since.
AdoptableEver(f) == heads = NoHeads

Adoptable(f) == heads = NoHeads /\ epoch = follower[f].epoch

Adopt(f) ==
  /\ follower[f].at = "adopt"
  /\ heads' = IF Adoptable(f) THEN follower[f].loaded ELSE heads
  /\ Change(f, [follower[f] EXCEPT !.at = "loaded"])
  /\ UNCHANGED <<rows, revision, commit, writing, viewing, epoch, owed, view, snapshot>>

Compare(f) ==
  /\ follower[f].at = "loaded"
  /\ Change(f, Compared(f, follower[f].loaded))
  /\ OnlyFollower

\* The consumer comes back for more.
Consumed(f) ==
  /\ follower[f].at = "yield"
  /\ Change(f, [follower[f] EXCEPT !.at = "wait"])
  /\ OnlyFollower

Wake(f) ==
  /\ follower[f].at = "wait" /\ follower[f].event
  /\ Change(f, [follower[f] EXCEPT !.at = "clear"])
  /\ OnlyFollower

PollAgain(f) ==
  /\ f \in Pollers /\ follower[f].at = "wait" /\ ~follower[f].event
  /\ Change(f, [follower[f] EXCEPT !.at = "clear", !.polled = TRUE])
  /\ OnlyFollower

\* The consumer closes the subscription; a later one has an event of its own.
Leave(f) ==
  /\ follower[f].at \in {"yield", "wait"}
  /\ Change(f, Out)
  /\ OnlyFollower

\* _deliver: the mark goes first, so that a commit after it is posted again.
DeliverTake(f) ==
  /\ follower[f].posted
  /\ Change(f, [follower[f] EXCEPT !.posted = FALSE, !.setting = TRUE])
  /\ OnlyFollower

DeliverSet(f) ==
  /\ follower[f].setting
  /\ Change(f, [follower[f] EXCEPT !.event = TRUE, !.setting = FALSE])
  /\ OnlyFollower

-----------------------------------------------------------------------------
(* Reading a session: committed_snapshot.                                  *)

OnlyReader == UNCHANGED <<rows, revision, commit, writing, heads, epoch, owed, follower>>

SnapLock(r, s) ==
  /\ snapshot[r].at = "idle" /\ viewing = Nobody
  /\ viewing' = r
  /\ snapshot' = [snapshot EXCEPT ![r].at = "locked", ![r].session = s]
  /\ UNCHANGED view /\ OnlyReader

\* The transaction of the reader fixes the rows and the revision it sees.
SnapBegin(r, through) ==
  LET s == snapshot[r].session IN
  /\ snapshot[r].at = "locked"
  /\ snapshot' = [snapshot EXCEPT ![r].at = "begun", ![r].revision = revision,
                                  ![r].rows = rows[s], ![r].upper = Minor(through, Len(rows[s]))]
  /\ UNCHANGED <<viewing, view>> /\ OnlyReader

\* The prefix that is kept for the session, if it is of this revision.
Reusable(r) ==
  LET v == view[snapshot[r].session] IN
  IF v # NoView /\ v.revision = snapshot[r].revision THEN v.rows ELSE <<>>

Filled(r) ==
  LET old == Reusable(r) IN
  old \o SubSeq(snapshot[r].rows, Len(old) + 1, snapshot[r].upper)

SnapFill(r) ==
  LET s == snapshot[r].session IN
  /\ snapshot[r].at = "begun"
  /\ view' = [view EXCEPT ![s] = [revision |-> snapshot[r].revision, rows |-> Filled(r)]]
  /\ snapshot' = [snapshot EXCEPT ![r].at = "holds", ![r].result = Prefix(Filled(r), snapshot[r].upper)]
  /\ viewing' = Nobody
  /\ OnlyReader

SnapDrop(r) ==
  /\ snapshot[r].at = "holds"
  /\ snapshot' = [snapshot EXCEPT ![r].at = "idle", ![r].rows = <<>>, ![r].result = <<>>,
                                  ![r].upper = 0, ![r].revision = 0]
  /\ UNCHANGED <<viewing, view>> /\ OnlyReader

Held(s) ==
  \E r \in Readers : snapshot[r].at = "holds" /\ snapshot[r].session = s
                     /\ snapshot[r].revision = view[s].revision

\* A prefix that nobody holds may go: the table refers to it weakly.
ViewGone(s) ==
  /\ view[s] # NoView /\ viewing = Nobody /\ ~Held(s)
  /\ view' = [view EXCEPT ![s] = NoView]
  /\ UNCHANGED <<viewing, snapshot>> /\ OnlyReader

\* Another process rewrites a stored message, which a trigger counts.  It is not
\* taken to hit a message between its commit and its place in the prefix.
Rewrite(s, i) ==
  /\ revision < MaxRewrites /\ writing = Nobody /\ i \in 1..Len(rows[s])
  /\ revision' = revision + 1
  /\ rows' = [rows EXCEPT ![s] = [@ EXCEPT ![i].text = revision + 1]]
  /\ UNCHANGED <<commit, writing, viewing, heads, epoch, owed, follower, view, snapshot>>

-----------------------------------------------------------------------------
WriterStep(c) ==
  \/ \E k \in Kinds \cup {Directory, Private}, s \in Sessions, async \in BOOLEAN :
       Begin(c, k, s, async)
  \/ Start(c) \/ Cancel(c) \/ Write(c) \/ WriteFails(c) \/ MergeHeads(c) \/ MergeView(c)
  \/ Announce(c) \/ FlushNotify(c) \/ Raise(c)

\* What runs on the follower's loop, and not between the halves of _deliver.
LoopStep(f) ==
  \/ Subscribe(f) \/ Clear(f) \/ ReadCache(f) \/ Compare(f) \/ Consumed(f) \/ Wake(f)
  \/ PollAgain(f) \/ Leave(f) \/ DeliverTake(f)

FollowerStep(f) ==
  \/ ~follower[f].setting /\ LoopStep(f)
  \/ Ask(f) \/ Load(f) \/ Adopt(f) \/ DeliverSet(f)

ReaderStep(r) ==
  \/ \E s \in Sessions : SnapLock(r, s)
  \/ \E n \in 0..Cardinality(Commits) : SnapBegin(r, n)
  \/ SnapFill(r) \/ SnapDrop(r)

Next ==
  \/ \E c \in Commits : WriterStep(c)
  \/ \E f \in Followers : FollowerStep(f)
  \/ \E r \in Readers : ReaderStep(r)
  \/ \E s \in Sessions : ViewGone(s)
  \/ \E s \in Sessions, i \in 1..Cardinality(Commits) : Rewrite(s, i)

Spec == Init /\ [][Next]_vars

-----------------------------------------------------------------------------
(* Properties.                                                             *)

\* The heads in the cache are those in SQLite, except for the commit that is on its
\* way into the cache: a directory that was loaded while somebody committed is not
\* kept (log.py:792, the epoch).
CacheIsCommitted ==
  (heads # NoHeads /\ \A c \in Commits : commit[c].at # "merge") => heads = Heads

\* The last message that follower f asked to hear of.
Due(f, s) == {i \in 1..Len(rows[s]) : commit[rows[s][i].by].kind \in Wakes[f]}
Covers(f, seen) == \A s \in Sessions : \A i \in Due(f, s) : i <= seen[s]

\* Somebody will still wake follower f: a committer that has not announced its
\* commit, or one that has yet to pay what is owed.
Unannounced(f) == \E c \in Commits : commit[c].at \in Committed /\ Wakeful(f, Changed(c))
WillFlush(c) == commit[c].async /\ (commit[c].at \in Committed \/ (commit[c].at = "done" /\ commit[c].wrote))
Owed(f) == Wakeful(f, owed) /\ \E c \in Commits : WillFlush(c)

Woken(f) == follower[f].event \/ follower[f].posted \/ follower[f].setting

\* A follower waits only if it has seen every commit it asked for, or is about to be
\* woken: not by a wake-up that was merged with an older one, not by a debt that was
\* merged with another committer's and not for a cancelled committer is one lost
\* (log.py:818, _notify, and log.py:1828, _run_commit).
NothingMissed ==
  \A f \in Followers :
    (follower[f].at = "wait" /\ ~Woken(f)) =>
      \/ Unannounced(f) \/ Owed(f)
      \/ Covers(f, follower[f].previous)

\* An asynchronous write that ended has told its caller's on_commit just when it is
\* in the log, whether it was cancelled or not, and nobody is owed a wake-up any
\* more when all have ended (log.py:1828).
ReceiptsAreTrue ==
  /\ \A c \in Commits :
       commit[c].async /\ commit[c].at = "ended" =>
         /\ commit[c].told <=> commit[c].wrote
         /\ Message(c) => (commit[c].wrote <=>
              \E i \in 1..Len(rows[commit[c].session]) : rows[commit[c].session][i].by = c)
  /\ owed # {} => \E c \in Commits : WillFlush(c)

\* A snapshot has the messages that were stored when it was taken, also when its
\* prefix was put together by other readers and by writers, and other processes
\* rewrote messages in between (log.py:1249, committed_snapshot).
SnapshotsAreTrue ==
  \A r \in Readers :
    snapshot[r].at = "holds" => snapshot[r].result = Prefix(snapshot[r].rows, snapshot[r].upper)
=============================================================================
