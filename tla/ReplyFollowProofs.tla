--------------------------- MODULE ReplyFollowProofs ---------------------------
(***************************************************************************)
(* Theorems about ReplyFollow, for any sources, any length of the log and  *)
(* any number of disturbances.  First the type invariant; then how far     *)
(* each hand on the way from the log to the dispatcher has got; then who   *)
(* waits for a reply; then, that no input is left behind when everything   *)
(* is quiet, as long as no program fails; then, that every pending input   *)
(* has room in the log for its end; last, that every source keeps the      *)
(* promise of SourcePromise.                                               *)
(***************************************************************************)
EXTENDS ReplyFollow, NumberProofs, SequenceTheorems, FiniteSetTheorems, TLAPS

-----------------------------------------------------------------------------
(* The invariants.                                                         *)

\* The types of the variables.
TypeInv ==
  /\ log \in Seq(Message)
  /\ registered \in Heads
  /\ accepting \in BOOLEAN /\ owed \in BOOLEAN /\ changes \in BOOLEAN /\ wake \in BOOLEAN
  /\ task \in [Sources -> Task]
  /\ catalog \in [event : BOOLEAN, st : {"idle", "reading", "read"}, got : Nat, latest : Nat]
  /\ dispatch \in Dispatch
  /\ seen \in [head : Nat, sources : Heads, heads : Heads]
  /\ lane \in [Sources -> Lane]
  /\ spent \in [Faults -> Nat]

\* Each hand on the way knows the length of the log or has been told to look.
HeadsInv ==
  /\ ~owed /\ ~catalog.event /\ catalog.st = "idle" => catalog.latest = Len(log)
  /\ ~owed /\ ~catalog.event /\ catalog.st = "read" => catalog.got = Len(log)
  /\ ~wake /\ dispatch.st = "wait" => seen.head = catalog.latest
  /\ ~wake /\ dispatch.st # "wait" => dispatch.head = catalog.latest

\* A running reply has a drive that waits for it.
WatchInv ==
  \A s \in Sources : task[s].st = "running" => lane[s].st \in {"watch", "join"}

\* Nobody knows more than the log, and what is known does not shrink.
LengthInv ==
  /\ catalog.latest <= Len(log)
  /\ catalog.st = "read" => catalog.latest <= catalog.got /\ catalog.got <= Len(log)
  /\ dispatch.head <= catalog.latest
  /\ seen.head <= Len(log)

\* The registry is known or there is a reason to look at it.
KnownInv ==
  /\ ~changes /\ ~wake /\ dispatch.st = "wait" => seen.sources = registered
  /\ ~changes /\ ~wake /\ dispatch.st # "wait" => dispatch.sources = registered

\* The numbers of a source's registrations so far; the next one is larger.
Used(s) == IF registered[s] = 0 THEN 0..spent["register"] ELSE 0..1 + spent["register"]

NumbersInv ==
  \A s \in Sources :
    {registered[s], seen.sources[s], dispatch.sources[s], lane[s].by} \subseteq Used(s)

\* The heads the dispatcher holds are messages of the source, and none of those
\* it has read about is missing.
Own(s) == Seqs(s, MessageTypes)

SourceHeads(s) ==
  /\ seen.heads[s] \in Own(s) \cup {0} /\ dispatch.heads[s] \in Own(s) \cup {0}
  /\ seen.heads[s] # 0 =>
       /\ catalog.latest # 0
       /\ dispatch.st # "wait" => dispatch.head # 0
       /\ dispatch.st = "apply" /\ dispatch.sources[s] # 0 => dispatch.heads[s] # 0
  /\ dispatch.heads[s] # 0 => dispatch.head # 0
  /\ registered[s] # 0 /\ seen.sources[s] = registered[s] =>
       \A n \in Own(s) : n <= seen.head => n <= seen.heads[s]
  /\ dispatch.st = "apply" /\ dispatch.sources[s] # 0 =>
       \A n \in Own(s) : n <= dispatch.head => n <= dispatch.heads[s]

\* The dispatcher has seen the registration that the source has.
Bound(s) == registered[s] # 0 /\ seen.sources[s] = registered[s]

Driven == {"head", "enter", "start", "watch", "join", "stop"}

\* A source that waits for an answer to messages the dispatcher has compared has
\* a lane at work, and a lane that ends has nothing to come back to.
LaneInv(s) ==
  /\ task[s].st \notin {"failed", "broken"} /\ lane[s].st \notin {"record", "recorded"}
  /\ ~lane[s].last
  /\ lane[s].st # "none" /\ Bound(s) => lane[s].source = registered[s]
  /\ lane[s].st = "stop" /\ registered[s] # 0 => registered[s] # lane[s].by
  /\ lane[s].st \in Driven /\ lane[s].source # lane[s].by => lane[s].changed
  /\ Bound(s) /\ Pending(s) /\ (\A n \in Own(s) : n <= seen.heads[s]) =>
       lane[s].st # "none" /\ (lane[s].st = "loop" => lane[s].changed)

ReachInv ==
  /\ LengthInv /\ KnownInv /\ NumbersInv
  /\ \A s \in Sources : SourceHeads(s) /\ LaneInv(s)

-----------------------------------------------------------------------------
(* Numbers and records.                                                    *)

\* The latest of some sequence numbers is one of them, and none is later.
LEMMA LatestIsOf ==
  ASSUME NEW k \in Nat, NEW S \in SUBSET (1..k), S # {}
  PROVE  Latest(S) \in S /\ \A m \in S : m <= Latest(S)
  <1>1. S \in SUBSET (0..k)
    OBVIOUS
  <1>2. \E n \in S : \A m \in S : m <= n
    BY <1>1, LastNumber
  <1> QED BY <1>2 DEF Latest

\* The head of a source is the last of its messages, or 0.
LEMMA HeadIsLast ==
  ASSUME TypeInv, NEW s \in Sources
  PROVE  /\ SourceHead(s) \in Nat /\ SourceHead(s) \in Own(s) \cup {0}
         /\ \A n \in Own(s) : n <= SourceHead(s)
         /\ Own(s) \in SUBSET (1..Len(log)) /\ Len(log) \in Nat
         /\ Own(s) # {} => SourceHead(s) # 0
  <1>1. Len(log) \in Nat /\ Own(s) \in SUBSET (1..Len(log))
    BY DEF TypeInv, Own, Seqs
  <1>2. CASE Own(s) = {}
    BY <1>1, <1>2 DEF SourceHead, Latest, Own
  <1>3. CASE Own(s) # {}
    <2>1. Latest(Own(s)) \in Own(s) /\ \A m \in Own(s) : m <= Latest(Own(s))
      BY <1>1, <1>3, LatestIsOf
    <2> QED BY <1>1, <2>1 DEF SourceHead, Own
  <1> QED BY <1>2, <1>3

\* What waits for an answer is a message of the source.
LEMMA PendingIsOwn ==
  ASSUME NEW s \in Sources, Pending(s)
  PROVE  Own(s) # {}
  <1>1. Seqs(s, {"input"}) # {}
    BY DEF Pending, Latest
  <1> QED BY <1>1 DEF Own, Seqs, MessageTypes

LEMMA Written ==
  ASSUME TypeInv, NEW s \in Sources, NEW type \in MessageTypes, NEW through \in Nat,
         Write(s, type, through)
  PROVE  /\ log' \in Seq(Message) /\ Len(log) \in Nat /\ Len(log') = Len(log) + 1
         /\ \A n \in 1..Len(log) : log'[n] = log[n]
         /\ log'[Len(log) + 1] = [source |-> s, type |-> type, through |-> through]
         /\ owed' = TRUE
  <1>1. log \in Seq(Message)
    BY DEF TypeInv
  <1>2. [source |-> s, type |-> type, through |-> through] \in Message
    BY DEF Message
  <1> QED BY <1>1, <1>2, AppendProperties DEF Write

-----------------------------------------------------------------------------
(* The type invariant.                                                     *)

LEMMA NoReplies ==
  NoTasks \in [Sources -> Task] /\ NoLanes \in [Sources -> Lane] /\ NoLane \in Lane
  BY DEF NoTasks, NoLanes, NoLane, NoReply, Task, Lane, LaneStates

LEMMA CancelledTask ==
  ASSUME NEW tk \in Task
  PROVE  /\ Cancelled(tk) \in Task
         /\ Cancelled(tk).st # "running"
         /\ tk.st \notin {"failed", "broken"} => Cancelled(tk).st \notin {"failed", "broken"}
  BY DEF Cancelled, Task

LEMMA LaneOf ==
  ASSUME TypeInv, NEW s \in Sources
  PROVE  /\ lane[s] \in Lane /\ task[s] \in Task
         /\ registered[s] \in Nat /\ lane[s].by \in Nat /\ lane[s].source \in Nat
         /\ lane[s].st \in LaneStates /\ lane[s].boundary \in Nat /\ task[s].hint \in Nat
  BY DEF TypeInv, Lane, Heads, Task

LEMMA LaneChanged ==
  ASSUME NEW l \in Lane, NEW n \in Nat, NEW b \in BOOLEAN, NEW c \in BOOLEAN,
         NEW st \in LaneStates
  PROVE  /\ [l EXCEPT !.st = st] \in Lane
         /\ [l EXCEPT !.source = n, !.changed = b] \in Lane
         /\ [l EXCEPT !.changed = b, !.by = n] \in Lane
         /\ [l EXCEPT !.changed = b, !.event = c] \in Lane
         /\ [l EXCEPT !.source = n, !.changed = b, !.event = c] \in Lane
         /\ [l EXCEPT !.event = b, !.boundary = n, !.last = c] \in Lane
         /\ [l EXCEPT !.changed = b] \in Lane
         /\ [l EXCEPT !.event = b] \in Lane
         /\ [l EXCEPT !.boundary = n] \in Lane
  BY DEF Lane

LEMMA LaneMoved ==
  ASSUME TypeInv, NEW s \in Sources, NEW st \in LaneStates
  PROVE  /\ To(s, st) \in Lane
         /\ To(s, st).st = st /\ To(s, st).source = lane[s].source
         /\ To(s, st).by = lane[s].by /\ To(s, st).changed = lane[s].changed
         /\ To(s, st).last = lane[s].last
  BY LaneOf DEF To, Lane

\* The lane between two drives.
LEMMA BetweenLane ==
  ASSUME TypeInv, NEW s \in Sources, NEW st \in LaneStates
  PROVE  LET b == Between(s, st) IN
         /\ b \in Lane /\ b.st = st /\ b.source = lane[s].source /\ b.by = 0 /\ b.boundary = 0
         /\ b.changed = lane[s].changed /\ b.last = lane[s].last
  <1> DEFINE l == To(s, st)
  <1>1. /\ l \in Lane /\ l.st = st /\ l.source = lane[s].source
        /\ l.changed = lane[s].changed /\ l.last = lane[s].last
    BY LaneMoved
  <1>2. Between(s, st) = [l EXCEPT !.by = 0, !.boundary = 0]
    BY DEF Between
  <1> HIDE DEF l
  <1>3. LET b == [l EXCEPT !.by = 0, !.boundary = 0] IN
          /\ b \in Lane /\ b.st = l.st /\ b.source = l.source /\ b.by = 0 /\ b.boundary = 0
          /\ b.changed = l.changed /\ b.last = l.last
    BY <1>1 DEF Lane
  <1> QED BY <1>1, <1>2, <1>3

\* The lane that works on for another registration.
LEMMA ReboundLane ==
  ASSUME TypeInv, NEW s \in Sources
  PROVE  /\ Rebound(s) \in Lane
         /\ Rebound(s).last => lane[s].last
         /\ Rebound(s).by = 0
         /\ registered[s] = 0 => Rebound(s) = NoLane /\ Rebound(s).st = "none"
         /\ registered[s] # 0 => /\ Rebound(s).st = "loop" /\ Rebound(s).changed
                                 /\ Rebound(s).source = registered[s]
  <1> DEFINE l == Between(s, "loop")
  <1>1. l \in Lane /\ l.st = "loop" /\ l.by = 0 /\ l.last = lane[s].last
    BY BetweenLane DEF LaneStates
  <1>2. registered[s] \in Nat
    BY LaneOf
  <1>3. NoLane \in Lane /\ NoLane.st = "none" /\ NoLane.by = 0 /\ NoLane.last = FALSE
    BY NoReplies DEF NoLane
  <1>4. registered[s] = 0 => Rebound(s) = NoLane
    BY DEF Rebound
  <1>5. registered[s] # 0 => Rebound(s) = [l EXCEPT !.source = registered[s], !.changed = TRUE]
    BY DEF Rebound
  <1> HIDE DEF l
  <1>6. LET r == [l EXCEPT !.source = registered[s], !.changed = TRUE] IN
          /\ r \in Lane /\ r.st = "loop" /\ r.changed /\ r.source = registered[s] /\ r.by = 0
          /\ r.last = lane[s].last
    BY <1>1, <1>2 DEF Lane
  <1> QED BY <1>3, <1>4, <1>5, <1>6

\* The lane whose drive stopped.
LEMMA StoppedLane ==
  ASSUME TypeInv, NEW s \in Sources
  PROVE  /\ Stopped(s) \in Lane
         /\ Stopped(s).by = 0
         /\ \/ Stopped(s) = NoLane /\ Stopped(s).st = "none"
            \/ /\ lane[s].source \notin {0, lane[s].by}
               /\ Stopped(s).st = "loop" /\ Stopped(s).changed = lane[s].changed
               /\ Stopped(s).source = lane[s].source
         /\ Stopped(s).st = "none" => lane[s].last \/ lane[s].source \in {0, lane[s].by}
         /\ Stopped(s).last => lane[s].last
  <1>1. NoLane.st = "none" /\ NoLane.by = 0 /\ NoLane.last = FALSE /\ NoLane \in Lane
    BY NoReplies DEF NoLane
  <1>2. "loop" \in LaneStates
    BY DEF LaneStates
  <1> DEFINE b == Between(s, "loop")
  <1>3. /\ b \in Lane /\ b.st = "loop" /\ b.source = lane[s].source
        /\ b.by = 0 /\ b.changed = lane[s].changed /\ b.last = lane[s].last
    BY <1>2, BetweenLane
  <1> HIDE DEF Lane, NoLane, b
  <1>4. CASE ~lane[s].last /\ lane[s].source \notin {0, lane[s].by}
    <2>1. Stopped(s) = b
      BY <1>4 DEF Stopped, b
    <2> QED BY <2>1, <1>3, <1>4
  <1>5. CASE lane[s].last \/ lane[s].source \in {0, lane[s].by}
    <2>1. Stopped(s) = NoLane
      BY <1>5 DEF Stopped
    <2> QED BY <2>1, <1>1, <1>5
  <1> QED BY <1>4, <1>5

LEMMA RevokedLaneIs ==
  ASSUME TypeInv, NEW s \in Sources
  PROVE  /\ RevokedLane(s) \in Lane
         /\ lane[s].st = "start" => RevokedLane(s) = Stopped(s)
         /\ lane[s].st # "start" =>
              /\ RevokedLane(s).st = "stop" /\ RevokedLane(s).source = lane[s].source
              /\ RevokedLane(s).by = lane[s].by /\ RevokedLane(s).changed = lane[s].changed
              /\ RevokedLane(s).last = lane[s].last
  <1> DEFINE l == To(s, "stop")
  <1>1. /\ l \in Lane /\ l.st = "stop" /\ l.by = lane[s].by
        /\ l.source = lane[s].source /\ l.changed = lane[s].changed /\ l.last = lane[s].last
    BY LaneMoved DEF LaneStates
  <1>2. Stopped(s) \in Lane
    BY StoppedLane
  <1>3. lane[s].st = "start" => RevokedLane(s) = Stopped(s)
    BY DEF RevokedLane
  <1>4. lane[s].st # "start" => RevokedLane(s) = [l EXCEPT !.event = FALSE]
    BY DEF RevokedLane
  <1> HIDE DEF l
  <1>5. LET r == [l EXCEPT !.event = FALSE] IN
          /\ r \in Lane /\ r.st = "stop" /\ r.by = lane[s].by
          /\ r.source = lane[s].source /\ r.changed = lane[s].changed /\ r.last = lane[s].last
    BY <1>1 DEF Lane
  <1> QED BY <1>2, <1>3, <1>4, <1>5

LEMMA JoinedLane ==
  ASSUME TypeInv, NEW s \in Sources
  PROVE  /\ Joined(s) \in Lane /\ Joined(s).st = "loop" /\ Joined(s).changed
         /\ Joined(s).source = lane[s].source /\ Joined(s).by = 0
         /\ Joined(s).last = lane[s].last
  <1> DEFINE l == Between(s, "loop")
  <1>1. /\ l \in Lane /\ l.st = "loop" /\ l.by = 0 /\ l.source = lane[s].source
        /\ l.last = lane[s].last
    BY BetweenLane DEF LaneStates
  <1>2. Joined(s) = [l EXCEPT !.changed = TRUE, !.event = FALSE]
    BY DEF Joined
  <1> HIDE DEF l
  <1> QED BY <1>1, <1>2 DEF Lane

\* What a drive makes of the end of its task, when the task did not fail.
LEMMA SettledLane ==
  ASSUME TypeInv, NEW s \in Sources, NEW end \in {"revoked", "closing", "failed", "broken"}
  PROVE  /\ Settled(s, end) \in Lane
         /\ Settled(s, end).by \in {lane[s].by, 0}
         /\ end \notin {"failed", "broken"} =>
              /\ lane[s].st \in {"watch", "join"} => Settled(s, end) = Joined(s)
              /\ lane[s].st = "stop" => Settled(s, end) = Stopped(s)
              /\ lane[s].st \notin {"watch", "join", "stop"} => Settled(s, end) = lane[s]
  <1> DEFINE l == To(s, "record")
             R == [l EXCEPT !.event = FALSE, !.boundary = task[s].hint,
                            !.last = (lane[s].st = "stop")]
  <1>1. R \in Lane /\ R.by = lane[s].by
    <2>1. l \in Lane /\ l.by = lane[s].by
      BY LaneMoved DEF LaneStates
    <2>2. task[s].hint \in Nat
      BY LaneOf
    <2> HIDE DEF l
    <2> QED BY <2>1, <2>2 DEF Lane
  <1>2. NoLane \in Lane /\ NoLane.by = 0
    BY NoReplies DEF NoLane
  <1>3. Joined(s) \in Lane /\ Joined(s).by = 0
    BY JoinedLane
  <1>4. Stopped(s) \in Lane /\ Stopped(s).by = 0
    BY StoppedLane
  <1>5. lane[s] \in Lane
    BY LaneOf
  <1>6. CASE lane[s].st \in {"watch", "join"} /\ end \in {"revoked", "closing"}
    <2>1. Settled(s, end) = Joined(s)
      BY <1>6 DEF Settled
    <2> QED BY <2>1, <1>3, <1>6
  <1>7. CASE lane[s].st = "stop" /\ end \in {"revoked", "closing"}
    <2>1. Settled(s, end) = Stopped(s)
      BY <1>7 DEF Settled
    <2> QED BY <2>1, <1>4, <1>7
  <1>8. CASE lane[s].st \in {"watch", "join", "stop"} /\ end = "failed"
    <2>1. Settled(s, end) = R
      BY <1>8 DEF Settled
    <2> HIDE DEF R
    <2> QED BY <2>1, <1>1, <1>8
  <1>9. CASE lane[s].st \in {"watch", "join", "stop"} /\ end = "broken"
    <2>1. Settled(s, end) = NoLane
      BY <1>9 DEF Settled
    <2> QED BY <2>1, <1>2, <1>9
  <1>10. CASE lane[s].st \notin {"watch", "join", "stop"}
    <2>1. Settled(s, end) = lane[s]
      BY <1>10 DEF Settled
    <2> QED BY <2>1, <1>5, <1>10
  <1> QED BY <1>6, <1>7, <1>8, <1>9, <1>10

\* The lane the dispatcher creates or tells.
LEMMA ScheduledLane ==
  ASSUME NEW l \in Lane, NEW id \in Nat
  PROVE  /\ Scheduled(l, id) \in Lane
         /\ Scheduled(l, id).source = id /\ Scheduled(l, id).changed
         /\ Scheduled(l, id).st = (IF l.st = "none" THEN "loop" ELSE l.st)
         /\ Scheduled(l, id).by \in {l.by, 0}
         /\ l.st # "none" => Scheduled(l, id).by = l.by
         /\ Scheduled(l, id).last => l.last
  BY DEF Scheduled, NoLane, Lane, LaneStates

LEMMA ToldLane ==
  ASSUME TypeInv, NEW s \in Sources
  PROVE  /\ Told(s) \in Lane /\ Told(s).st = lane[s].st /\ Told(s).by = lane[s].by
         /\ Told(s).last = lane[s].last
         /\ lane[s].st # "none" /\ Identified(s) =>
              Told(s).source = dispatch.sources[s] /\ Told(s).changed
         /\ ~Identified(s) => Told(s) = lane[s]
  <1>1. lane[s] \in Lane
    BY LaneOf
  <1>2. dispatch.sources[s] \in Nat
    BY DEF TypeInv, Dispatch, Heads
  <1> QED BY <1>1, <1>2 DEF Told, Lane

LEMMA TypeInit ==
  ASSUME Init
  PROVE  TypeInv
  <1>1. AllZero \in Heads /\ Waiting \in Dispatch /\ [s \in Sources |-> 1] \in Heads
    BY DEF AllZero, Heads, Waiting, Dispatch
  <1>2. Unread \in [event : BOOLEAN, st : {"idle", "reading", "read"}, got : Nat, latest : Nat]
    BY DEF Unread
  <1>3. Unseen \in [head : Nat, sources : Heads, heads : Heads]
    BY <1>1 DEF Unseen
  <1>4. [f \in Faults |-> 0] \in [Faults -> Nat]
    OBVIOUS
  <1>5. << >> \in Seq(Message)
    OBVIOUS
  <1> QED BY <1>1, <1>2, <1>3, <1>4, <1>5, NoReplies DEF Init, TypeInv

LEMMA SpendTypes ==
  ASSUME TypeInv, NEW f \in Faults, Spend(f)
  PROVE  /\ spent' \in [Faults -> Nat] /\ spent[f] \in Nat /\ spent[f] < Limit[f]
         /\ spent'[f] = spent[f] + 1 /\ \A g \in Faults \ {f} : spent'[g] = spent[g]
  BY FollowAssumption DEF TypeInv, Spend

\* Who writes keeps the types of the log, and of a task it cancels or closes.
LEMMA TypeWrite ==
  ASSUME TypeInv, NEW s \in Sources,
         \/ log' = log /\ owed' = owed
         \/ \E type \in MessageTypes, through \in Nat : Write(s, type, through)
  PROVE  log' \in Seq(Message) /\ owed' \in BOOLEAN
  BY Written DEF TypeInv

LEMMA TypeTask ==
  ASSUME TypeInv, NEW s \in Sources,
         NEW st \in {"none", "running", "revoked", "closing", "failed", "broken"}
  PROVE  /\ [task EXCEPT ![s] = Cancelled(@)] \in [Sources -> Task]
         /\ [task EXCEPT ![s].st = st] \in [Sources -> Task]
         /\ [task EXCEPT ![s] = NoReply] \in [Sources -> Task]
         /\ \A tk \in Task : [task EXCEPT ![s] = tk] \in [Sources -> Task]
  <1>1. task \in [Sources -> Task] /\ task[s] \in Task
    BY DEF TypeInv
  <1>2. Cancelled(task[s]) \in Task
    BY <1>1, CancelledTask
  <1>3. [task[s] EXCEPT !.st = st] \in Task
    BY <1>1 DEF Task
  <1>4. NoReply \in Task
    BY DEF NoReply, Task
  <1> HIDE DEF Task
  <1> QED BY <1>1, <1>2, <1>3, <1>4

LEMMA TypeLane ==
  ASSUME TypeInv, NEW s \in Sources, NEW l \in Lane, SetLane(s, l)
  PROVE  /\ lane' \in [Sources -> Lane] /\ lane'[s] = l
         /\ \A r \in Sources \ {s} : lane'[r] = lane[r]
  BY DEF TypeInv, SetLane

LEMMA TypeUsers ==
  ASSUME TypeInv, NEW s \in Sources, UserStep(s) \/ Answer(s) \/ Fail(s) \/ Break(s)
  PROVE  TypeInv'
  <1>1. SourceHead(s) \in Nat /\ task[s].hint \in Nat
    BY HeadIsLast, LaneOf
  <1>2. 0 \in Nat /\ {"input", "stop", "answer", "failure"} \subseteq MessageTypes
    BY DEF MessageTypes
  <1>3. CASE Accept(s)
    <2>1. log' \in Seq(Message) /\ owed' \in BOOLEAN
      BY <1>2, <1>3, TypeWrite DEF Accept
    <2>2. task' \in [Sources -> Task]
      BY <1>3, TypeTask DEF Accept
    <2> QED BY <1>3, <2>1, <2>2 DEF Accept, TypeInv, memory
  <1>4. CASE Stop(s)
    <2>1. log' \in Seq(Message) /\ owed' \in BOOLEAN
      BY <1>1, <1>2, <1>4, TypeWrite DEF Stop
    <2>2. task' \in [Sources -> Task]
      BY <1>4, TypeTask DEF Stop
    <2> QED BY <1>4, <2>1, <2>2 DEF Stop, TypeInv, memory
  <1>5. CASE Answer(s)
    <2>1. log' \in Seq(Message) /\ owed' \in BOOLEAN
      BY <1>1, <1>2, <1>5, TypeWrite DEF Answer
    <2>2. task' \in [Sources -> Task]
      BY <1>5, TypeTask DEF Answer
    <2> QED BY <1>5, <2>1, <2>2 DEF Answer, TypeInv, memory
  <1>6. CASE Fail(s)
    <2>1. log' \in Seq(Message) /\ owed' \in BOOLEAN
      BY <1>1, <1>2, <1>6, TypeWrite DEF Fail
    <2>2. task' \in [Sources -> Task]
      BY <1>6, TypeTask DEF Fail
    <2>3. spent' \in [Faults -> Nat]
      BY <1>6, SpendTypes DEF Fail, Faults
    <2> QED BY <1>6, <2>1, <2>2, <2>3 DEF Fail, TypeInv, memory
  <1>7. CASE Break(s)
    <2>2. task' \in [Sources -> Task]
      BY <1>7, TypeTask DEF Break
    <2>3. spent' \in [Faults -> Nat]
      BY <1>7, SpendTypes DEF Break, Faults
    <2> QED BY <1>7, <2>2, <2>3 DEF Break, TypeInv, memory
  <1> QED BY <1>3, <1>4, <1>5, <1>6, <1>7 DEF UserStep

LEMMA TypeNotify ==
  ASSUME TypeInv, Notify
  PROVE  TypeInv'
  <1> DEFINE C == [event : BOOLEAN, st : {"idle", "reading", "read"}, got : Nat, latest : Nat]
  <1>1. catalog \in C /\ Len(log) \in Nat
    BY DEF TypeInv
  <1>2. CASE Announce
    <2>1. catalog' \in C
      BY <1>1, <1>2 DEF Announce
    <2> QED BY <1>2, <2>1 DEF Announce, TypeInv
  <1>3. CASE CatalogWake
    <2>1. catalog' \in C
      BY <1>1, <1>3 DEF CatalogWake
    <2> QED BY <1>3, <2>1 DEF CatalogWake, TypeInv
  <1>4. CASE CatalogRead
    <2>1. catalog' \in C
      BY <1>1, <1>4 DEF CatalogRead
    <2> QED BY <1>4, <2>1 DEF CatalogRead, TypeInv
  <1>5. CASE CatalogYield
    <2>1. catalog' \in C
      BY <1>1, <1>5 DEF CatalogYield
    <2>2. wake' \in BOOLEAN
      BY <1>5 DEF CatalogYield, TypeInv
    <2> QED BY <1>5, <2>1, <2>2 DEF CatalogYield, TypeInv
  <1>6. CASE SourcesRead
    BY <1>6 DEF SourcesRead, TypeInv
  <1> QED BY <1>2, <1>3, <1>4, <1>5, <1>6 DEF Notify

LEMMA DispatchOf ==
  ASSUME TypeInv, NEW s \in Sources
  PROVE  /\ dispatch.st \in {"wait", "read", "apply"} /\ dispatch.head \in Nat
         /\ dispatch.sources \in Heads /\ dispatch.heads \in Heads
         /\ dispatch.sources[s] \in Nat /\ dispatch.heads[s] \in Nat
         /\ seen.head \in Nat /\ seen.sources \in Heads /\ seen.heads \in Heads
         /\ seen.sources[s] \in Nat /\ seen.heads[s] \in Nat
         /\ registered[s] \in Nat /\ registered \in Heads
         /\ catalog.latest \in Nat /\ catalog.got \in Nat /\ Len(log) \in Nat
         /\ catalog.st \in {"idle", "reading", "read"}
  BY DEF TypeInv, Dispatch, Heads

\* The lane of a source after the dispatcher has compared its heads.
LEMMA AppliedLane ==
  ASSUME TypeInv, NEW s \in Sources, DispatchApply
  PROVE  /\ lane'[s] \in Lane
         /\ lane'[s] = (IF Moved(s) THEN Scheduled(Told(s), dispatch.sources[s]) ELSE Told(s))
         /\ lane[s].st # "none" => lane'[s].st = lane[s].st /\ lane'[s].by = lane[s].by
         /\ lane'[s].by \in {lane[s].by, 0}
         /\ lane'[s].last => lane[s].last
         /\ seen'.head = dispatch.head /\ seen'.sources = dispatch.sources
         /\ seen'.heads[s] = (IF Moved(s) THEN dispatch.heads[s] ELSE seen.heads[s])
  <1>1. dispatch.sources[s] \in Nat
    BY DispatchOf
  <1>2. /\ Told(s) \in Lane /\ Told(s).st = lane[s].st /\ Told(s).by = lane[s].by
        /\ Told(s).last = lane[s].last
    BY ToldLane
  <1>3. lane'[s] = (IF Moved(s) THEN Scheduled(Told(s), dispatch.sources[s]) ELSE Told(s))
    BY DEF DispatchApply
  <1>4. /\ Scheduled(Told(s), dispatch.sources[s]) \in Lane
        /\ Scheduled(Told(s), dispatch.sources[s]).by \in {lane[s].by, 0}
        /\ Scheduled(Told(s), dispatch.sources[s]).last => lane[s].last
        /\ lane[s].st # "none" =>
             /\ Scheduled(Told(s), dispatch.sources[s]).st = lane[s].st
             /\ Scheduled(Told(s), dispatch.sources[s]).by = lane[s].by
    BY <1>1, <1>2, ScheduledLane
  <1>5. /\ seen'.head = dispatch.head /\ seen'.sources = dispatch.sources
        /\ seen'.heads[s] = (IF Moved(s) THEN dispatch.heads[s] ELSE seen.heads[s])
    BY DEF DispatchApply
  <1> QED BY <1>2, <1>3, <1>4, <1>5

LEMMA TypeDispatch ==
  ASSUME TypeInv, DispatchStep
  PROVE  TypeInv'
  <1>1. \A s \in Sources : SourceHead(s) \in Nat
    BY HeadIsLast
  <1>2. /\ dispatch \in Dispatch /\ registered \in Heads /\ AllZero \in Heads
        /\ catalog.latest \in Nat /\ Waiting \in Dispatch
    BY DEF TypeInv, AllZero, Heads, Waiting, Dispatch
  <1>3. CASE DispatchBegin
    <2>1. dispatch' \in Dispatch
      BY <1>2, <1>3 DEF DispatchBegin, Dispatch
    <2> QED BY <1>3, <2>1 DEF DispatchBegin, TypeInv
  <1>4. CASE DispatchRead
    <2> DEFINE h == [s \in Sources |->
                       IF dispatch.head = 0 \/ dispatch.sources[s] = 0 THEN 0 ELSE SourceHead(s)]
    <2>1. h \in Heads
      BY <1>1 DEF Heads
    <2>2. dispatch' = [dispatch EXCEPT !.st = "apply", !.heads = h]
      BY <1>4 DEF DispatchRead
    <2> HIDE DEF h
    <2>3. dispatch' \in Dispatch
      BY <1>2, <2>1, <2>2 DEF Dispatch
    <2> QED BY <1>4, <2>3 DEF DispatchRead, TypeInv
  <1>5. CASE DispatchAgain
    BY <1>2, <1>5 DEF DispatchAgain, TypeInv
  <1>6. CASE DispatchApply
    <2>1. lane' \in [Sources -> Lane]
      <3>1. \A s \in Sources : lane'[s] \in Lane
        BY <1>6, AppliedLane
      <3>2. lane' = [s \in Sources |-> lane'[s]]
        BY <1>6 DEF DispatchApply
      <3> HIDE DEF Lane
      <3> QED BY <3>1, <3>2
    <2>2. seen' \in [head : Nat, sources : Heads, heads : Heads]
      <3> DEFINE h == [s \in Sources |-> IF Moved(s) THEN dispatch.heads[s] ELSE seen.heads[s]]
      <3>1. h \in Heads
        BY DispatchOf DEF Heads
      <3>2. seen' = [head |-> dispatch.head, sources |-> dispatch.sources, heads |-> h]
        BY <1>6 DEF DispatchApply
      <3> HIDE DEF h
      <3> QED BY <1>2, <3>1, <3>2 DEF Dispatch
    <2> QED BY <1>2, <1>6, <2>1, <2>2 DEF DispatchApply, TypeInv
  <1> QED BY <1>3, <1>4, <1>5, <1>6 DEF DispatchStep

\* What a step of a lane leaves alone.
LEMMA LaneFrame ==
  ASSUME NEW s \in Sources, LaneStep(s)
  PROVE  /\ registered' = registered /\ accepting' = accepting /\ spent' = spent
         /\ catalog' = catalog /\ changes' = changes /\ wake' = wake
         /\ dispatch' = dispatch /\ seen' = seen
         /\ ~LaneRecord(s) => log' = log /\ owed' = owed
  BY DEF LaneStep, LaneLoop, LaneHead, LaneEnter, LaneStart, LaneReopened, LaneNotified,
         LaneRevoked, LaneRecord, LaneRecorded, memory

\* The round a lane begins, and the heads it reads.
LEMMA LaneLooped ==
  ASSUME TypeInv, NEW s \in Sources, LaneLoop(s) \/ LaneHead(s)
  PROVE  \E l \in Lane : SetLane(s, l)
  <1>1. CASE LaneLoop(s)
    <2> DEFINE l == To(s, "head")
    <2>1. l \in Lane /\ lane[s].source \in Nat
      BY LaneMoved, LaneOf DEF LaneStates
    <2> HIDE DEF l
    <2>2. [l EXCEPT !.changed = FALSE, !.by = lane[s].source] \in Lane
      BY <2>1 DEF Lane
    <2> QED BY <1>1, <2>2, ReboundLane, NoReplies DEF LaneLoop, l
  <1>2. CASE LaneHead(s)
    <2> DEFINE l == To(s, "enter")
    <2>1. l \in Lane /\ SourceHead(s) \in Nat
      BY LaneMoved, HeadIsLast DEF LaneStates
    <2> HIDE DEF l
    <2>2. [l EXCEPT !.boundary = SourceHead(s)] \in Lane
      BY <2>1 DEF Lane
    <2> QED BY <1>2, <2>2 DEF LaneHead, l
  <1> QED BY <1>1, <1>2

LEMMA TypeLanes ==
  ASSUME TypeInv, NEW s \in Sources, LaneStep(s)
  PROVE  TypeInv'
  <1>1. SourceHead(s) \in Nat /\ lane[s].boundary \in Nat
    BY HeadIsLast, LaneOf
  <1>2. log' \in Seq(Message) /\ owed' \in BOOLEAN
    <2>1. CASE LaneRecord(s)
      BY <1>1, <2>1, TypeWrite DEF LaneRecord, MessageTypes
    <2>2. CASE ~LaneRecord(s)
      BY <2>2, LaneFrame DEF TypeInv
    <2> QED BY <2>1, <2>2
  <1>3. task' \in [Sources -> Task]
    <2>1. CASE LaneStart(s)
      <3>1. [st |-> "running", hint |-> SourceHead(s)] \in Task
        BY <1>1 DEF Task
      <3> HIDE DEF Task
      <3> QED BY <2>1, <3>1, TypeTask DEF LaneStart, TypeInv
    <2>2. CASE LaneNotified(s)
      <3> DEFINE tk == Cancelled(task[s])
      <3>1. tk \in Task /\ task \in [Sources -> Task]
        BY LaneOf, CancelledTask DEF TypeInv
      <3>2. task' = [task EXCEPT ![s] = tk] \/ task' = task
        BY <2>2 DEF LaneNotified
      <3> HIDE DEF tk, Task
      <3> QED BY <3>1, <3>2, TypeTask
    <2>3. CASE LaneRevoked(s)
      <3> DEFINE tk == IF lane[s].st = "start" THEN task[s] ELSE Cancelled(task[s])
      <3>1. tk \in Task
        BY LaneOf, CancelledTask
      <3>2. task' = [task EXCEPT ![s] = tk]
        BY <2>3 DEF LaneRevoked
      <3> HIDE DEF tk, Task
      <3> QED BY <3>1, <3>2, TypeTask
    <2>4. CASE ~LaneStart(s) /\ ~LaneNotified(s) /\ ~LaneRevoked(s)
      BY <2>4 DEF LaneStep, LaneLoop, LaneHead, LaneEnter, LaneReopened, LaneRecord,
                  LaneRecorded, TypeInv
    <2> QED BY <2>1, <2>2, <2>3, <2>4
  <1>4. lane' \in [Sources -> Lane]
    <2>1. ASSUME NEW l \in Lane, SetLane(s, l)
          PROVE  lane' \in [Sources -> Lane]
      BY <2>1, TypeLane
    <2>2. \A st \in LaneStates : To(s, st) \in Lane /\ Between(s, st) \in Lane
      BY LaneMoved, BetweenLane
    <2>3. \A l \in Lane : /\ [l EXCEPT !.changed = TRUE] \in Lane
                          /\ [l EXCEPT !.changed = TRUE, !.event = FALSE] \in Lane
      BY LaneChanged DEF LaneStates
    <2>4. {"loop", "start", "watch", "join", "gate", "recorded"} \subseteq LaneStates
      BY DEF LaneStates
    <2> HIDE DEF Lane, To, Between, LaneStates
    <2>5. CASE LaneLoop(s) \/ LaneHead(s)
      BY <2>1, <2>5, LaneLooped
    <2>6. CASE LaneEnter(s)
      BY <2>1, <2>2, <2>4, <2>6, ReboundLane DEF LaneEnter
    <2>7. CASE LaneStart(s)
      BY <2>1, <2>2, <2>4, <2>7 DEF LaneStart
    <2>8. CASE LaneReopened(s)
      BY <2>1, <2>2, <2>3, <2>4, <2>8 DEF LaneReopened
    <2>9. CASE LaneNotified(s)
      BY <2>1, <2>2, <2>4, <2>9, JoinedLane DEF LaneNotified
    <2>10. CASE LaneRevoked(s)
      BY <2>1, <2>10, RevokedLaneIs DEF LaneRevoked
    <2>11. CASE LaneRecord(s)
      BY <2>1, <2>2, <2>4, <2>11 DEF LaneRecord
    <2>12. CASE LaneRecorded(s)
      BY <2>1, <2>12, StoppedLane DEF LaneRecorded
    <2> QED BY <2>5, <2>6, <2>7, <2>8, <2>9, <2>10, <2>11, <2>12 DEF LaneStep
  <1> QED BY <1>2, <1>3, <1>4, LaneFrame DEF TypeInv

LEMMA TypeEnd ==
  ASSUME TypeInv, NEW s \in Sources, TaskEnd(s)
  PROVE  TypeInv'
  <1>1. task' \in [Sources -> Task]
    BY TypeTask DEF TaskEnd
  <1>2. Settled(s, task[s].st) \in Lane
    BY SettledLane DEF TaskEnd
  <1>3. lane' \in [Sources -> Lane]
    BY <1>2, TypeLane DEF TaskEnd
  <1> QED BY <1>1, <1>3 DEF TaskEnd, TypeInv, memory

LEMMA TypeDisturb ==
  ASSUME TypeInv,
         \/ GateClose \/ GateOpen \/ Crash
         \/ \E s \in Sources : Register(s) \/ Unregister(s)
  PROVE  TypeInv'
  <1>1. \A f \in {"gate", "register", "crash"} : Spend(f) => spent' \in [Faults -> Nat]
    BY SpendTypes DEF Faults
  <1>2. CASE GateClose \/ GateOpen
    BY <1>1, <1>2 DEF GateClose, GateOpen, TypeInv, memory
  <1>3. CASE Crash
    <2>1. Unseen \in [head : Nat, sources : Heads, heads : Heads] /\ Waiting \in Dispatch
      BY DEF Unseen, Waiting, AllZero, Heads, Dispatch
    <2>2. Unread \in [event : BOOLEAN, st : {"idle", "reading", "read"}, got : Nat, latest : Nat]
      BY DEF Unread
    <2> QED BY <1>1, <1>3, <2>1, <2>2, NoReplies DEF Crash, TypeInv
  <1>4. ASSUME NEW s \in Sources, Register(s) \/ Unregister(s)
        PROVE  TypeInv'
    <2>1. 1 + spent["register"] \in Nat
      BY DEF TypeInv, Faults
    <2>2. registered' \in Heads
      <3>1. registered \in [Sources -> Nat]
        BY DEF TypeInv, Heads
      <3>2. PICK n \in Nat : registered' = [registered EXCEPT ![s] = n]
        BY <1>4, <2>1 DEF Register, Unregister
      <3> QED BY <3>1, <3>2 DEF Heads
    <2>3. spent' \in [Faults -> Nat]
      BY <1>1, <1>4 DEF Register, Unregister, TypeInv
    <2> QED BY <1>4, <2>2, <2>3 DEF Register, Unregister, TypeInv
  <1> QED BY <1>2, <1>3, <1>4

LEMMA TypeStep ==
  ASSUME TypeInv, [Next]_vars
  PROVE  TypeInv'
  <1>1. CASE UNCHANGED vars
    BY <1>1 DEF vars, TypeInv
  <1>2. CASE Next
    <2>1. CASE Notify \/ DispatchStep
      BY <2>1, TypeNotify, TypeDispatch
    <2>2. CASE Disturb \/ GateOpen
      BY <2>2, TypeDisturb, TypeUsers DEF Disturb
    <2>3. ASSUME NEW s \in Sources, UserStep(s) \/ LaneStep(s) \/ TaskStep(s) \/ Register(s)
          PROVE  TypeInv'
      BY <2>3, TypeUsers, TypeLanes, TypeEnd, TypeDisturb DEF TaskStep
    <2> QED BY <1>2, <2>1, <2>2, <2>3 DEF Next
  <1> QED BY <1>1, <1>2

\* The variables of the follower and of its two watchers keep their types:
\* every message a lane or a task writes covers a prefix that is a number,
\* every record of the follower keeps its fields (_Follower).
LEMMA TypesAlways == Spec => []TypeInv
  <1>1. Init => TypeInv
    BY TypeInit
  <1>2. TypeInv /\ [Next]_vars => TypeInv'
    BY TypeStep
  <1> QED BY <1>1, <1>2, PTL DEF Spec

-----------------------------------------------------------------------------
(* Running replies are watched.                                            *)

LEMMA WatchStep ==
  ASSUME TypeInv, WatchInv, [Next]_vars
  PROVE  WatchInv'
  <1> SUFFICES ASSUME NEW r \in Sources, task'[r].st = "running"
               PROVE  lane'[r].st \in {"watch", "join"}
    BY DEF WatchInv
  <1> DEFINE W == task[r].st = "running" => lane[r].st \in {"watch", "join"}
  <1>1. W /\ task[r] \in Task /\ lane[r] \in Lane
    BY LaneOf DEF WatchInv
  <1>2. CASE task' = task /\ lane' = lane
    BY <1>1, <1>2
  <1>3. ASSUME NEW s \in Sources, UserStep(s) \/ Answer(s) \/ Fail(s) \/ Break(s)
        PROVE  lane'[r].st \in {"watch", "join"}
    <2>1. lane' = lane
      BY <1>3 DEF UserStep, Accept, Stop, Answer, Fail, Break
    <2>2. task'[r] = task[r] \/ task'[r].st # "running"
      <3>1. task \in [Sources -> Task] /\ Cancelled(task[s]).st # "running"
        BY LaneOf, CancelledTask DEF TypeInv
      <3>2. \/ task' = [task EXCEPT ![s] = Cancelled(@)]
            \/ task' = [task EXCEPT ![s].st = "closing"]
            \/ task' = [task EXCEPT ![s].st = "failed"]
            \/ task' = [task EXCEPT ![s].st = "broken"]
        BY <1>3 DEF UserStep, Accept, Stop, Answer, Fail, Break
      <3>3. task[s] \in Task
        BY <3>1
      <3>4. CASE s = r
        BY <3>1, <3>2, <3>3, <3>4 DEF Task
      <3>5. CASE s # r
        BY <3>1, <3>2, <3>5
      <3> QED BY <3>4, <3>5
    <2> QED BY <1>1, <2>1, <2>2
  <1>4. CASE DispatchApply
    BY <1>1, <1>4, AppliedLane DEF DispatchApply
  <1>5. ASSUME NEW s \in Sources, LaneStep(s) \/ TaskEnd(s)
        PROVE  lane'[r].st \in {"watch", "join"}
    <2>1. CASE s # r
      <3>1. task'[r] = task[r] /\ lane'[r] = lane[r]
        BY <1>5, <2>1 DEF TypeInv, SetLane, LaneStep, LaneLoop, LaneHead, LaneEnter, LaneStart,
               LaneReopened, LaneNotified, LaneRevoked, LaneRecord, LaneRecorded, TaskEnd
      <3> QED BY <1>1, <3>1
    <2>2. CASE s = r
      <3>1. task \in [Sources -> Task] /\ lane \in [Sources -> Lane]
        BY DEF TypeInv
      <3>2. Cancelled(task[r]).st # "running" /\ NoReply.st # "running"
        BY <1>1, CancelledTask DEF NoReply
      <3>3. /\ To(r, "watch").st = "watch" /\ To(r, "join").st = "join"
        BY LaneMoved DEF LaneStates
      <3> HIDE DEF To
      <3>4. CASE LaneStart(r)
        BY <1>1, <3>1, <3>3, <3>4 DEF LaneStart, SetLane
      <3>5. CASE LaneNotified(r)
        <4> HIDE DEF NoReply
        <4> QED BY <1>1, <3>1, <3>2, <3>3, <3>5 DEF LaneNotified, SetLane
      <3>6. CASE LaneRevoked(r)
        BY <1>1, <3>1, <3>2, <3>6 DEF LaneRevoked
      <3>7. CASE TaskEnd(r)
        BY <3>1, <3>2, <3>7 DEF TaskEnd
      <3>8. CASE \/ LaneLoop(r) \/ LaneHead(r) \/ LaneEnter(r) \/ LaneReopened(r)
                 \/ LaneRecord(r) \/ LaneRecorded(r)
        <4>1. task' = task /\ lane[r].st \notin {"watch", "join"}
          BY <3>8 DEF LaneLoop, LaneHead, LaneEnter, LaneReopened, LaneRecord, LaneRecorded
        <4> QED BY <1>1, <4>1
      <3> QED BY <1>5, <2>2, <3>4, <3>5, <3>6, <3>7, <3>8 DEF LaneStep
    <2> QED BY <2>1, <2>2
  <1>6. CASE Crash
    BY <1>6 DEF Crash, NoTasks, NoReply
  <1>7. \/ task' = task /\ lane' = lane
        \/ \E s \in Sources : \/ UserStep(s) \/ Answer(s) \/ Fail(s) \/ Break(s)
                              \/ LaneStep(s) \/ TaskEnd(s)
        \/ DispatchApply \/ Crash
    BY DEF Next, vars, Notify, Announce, CatalogWake, CatalogRead, CatalogYield, SourcesRead,
           DispatchStep, DispatchBegin, DispatchRead, DispatchAgain, Disturb, GateClose,
           GateOpen, Register, Unregister, TaskStep, memory
  <1> QED BY <1>2, <1>3, <1>4, <1>5, <1>6, <1>7

\* While a reply may commit, a drive waits for its end: neither a dispatch, a
\* reload nor the end of a round leaves it alone (_Iteration, _conclude).
THEOREM RepliesWatched == Spec => []RepliesAreWatched
  <1>1. Init => WatchInv
    BY DEF Init, WatchInv, NoTasks, NoReply
  <1>2. TypeInv /\ WatchInv /\ [Next]_vars => WatchInv'
    BY WatchStep
  <1>3. WatchInv => RepliesAreWatched
    BY DEF WatchInv, RepliesAreWatched
  <1> QED BY <1>1, <1>2, <1>3, TypesAlways, PTL DEF Spec

-----------------------------------------------------------------------------
(* The way from the log to the dispatcher.                                 *)

LEMMA HeadsStep ==
  ASSUME TypeInv, HeadsInv, [Next]_vars
  PROVE  HeadsInv'
  <1>1. /\ catalog \in [event : BOOLEAN, st : {"idle", "reading", "read"}, got : Nat, latest : Nat]
        /\ dispatch \in Dispatch
    BY DEF TypeInv
  <1>2. CASE /\ log' = log /\ owed' = owed
             /\ catalog' = catalog /\ wake' = wake /\ dispatch' = dispatch /\ seen' = seen
    BY <1>2 DEF HeadsInv
  <1>3. CASE /\ owed' = TRUE
             /\ catalog' = catalog /\ wake' = wake /\ dispatch' = dispatch /\ seen' = seen
    BY <1>3 DEF HeadsInv
  <1>4. CASE Announce
    BY <1>1, <1>4 DEF Announce, HeadsInv
  <1>5. CASE CatalogWake
    BY <1>1, <1>5 DEF CatalogWake, HeadsInv
  <1>6. CASE CatalogRead
    BY <1>1, <1>6 DEF CatalogRead, HeadsInv
  <1>7. CASE CatalogYield
    BY <1>1, <1>7 DEF CatalogYield, HeadsInv
  <1>8. CASE SourcesRead
    BY <1>8 DEF SourcesRead, HeadsInv
  <1>9. CASE DispatchBegin
    BY <1>9 DEF DispatchBegin, HeadsInv
  <1>10. CASE DispatchRead
    <2>1. dispatch'.st = "apply" /\ dispatch'.head = dispatch.head
      BY <1>1, <1>10 DEF DispatchRead, Dispatch
    <2> QED BY <1>10, <2>1 DEF DispatchRead, HeadsInv
  <1>11. CASE DispatchAgain
    BY <1>11 DEF DispatchAgain, Waiting, HeadsInv
  <1>12. CASE DispatchApply
    <2>1. dispatch'.st = "wait" /\ seen'.head = dispatch.head
      BY <1>12 DEF DispatchApply, Waiting
    <2>2. /\ log' = log /\ owed' = owed /\ catalog' = catalog /\ wake' = wake
          /\ dispatch.st = "apply"
      BY <1>12 DEF DispatchApply
    <2> QED BY <2>1, <2>2 DEF HeadsInv
  <1>13. CASE Crash
    BY <1>13 DEF Crash, Unread, Unseen, Waiting, HeadsInv
  <1>14. \/ /\ log' = log /\ owed' = owed
            /\ catalog' = catalog /\ wake' = wake /\ dispatch' = dispatch /\ seen' = seen
         \/ /\ owed' = TRUE
            /\ catalog' = catalog /\ wake' = wake /\ dispatch' = dispatch /\ seen' = seen
         \/ Notify \/ DispatchStep \/ Crash
    <2>1. CASE UNCHANGED vars
      BY <2>1 DEF vars
    <2>2. CASE GateClose \/ GateOpen
      BY <2>2 DEF GateClose, GateOpen, memory
    <2>3. ASSUME NEW s \in Sources, UserStep(s) \/ Answer(s) \/ Fail(s) \/ Break(s)
          PROVE  /\ catalog' = catalog /\ wake' = wake /\ dispatch' = dispatch /\ seen' = seen
                 /\ owed' = TRUE \/ (log' = log /\ owed' = owed)
      BY <2>3 DEF UserStep, Accept, Stop, Answer, Fail, Break, Write, memory
    <2>4. ASSUME NEW s \in Sources, LaneStep(s)
          PROVE  /\ catalog' = catalog /\ wake' = wake /\ dispatch' = dispatch /\ seen' = seen
                 /\ owed' = TRUE \/ (log' = log /\ owed' = owed)
      <3>1. LaneRecord(s) => owed' = TRUE \/ (log' = log /\ owed' = owed)
        BY DEF LaneRecord, Write
      <3> QED BY <2>4, <3>1, LaneFrame
    <2>5. ASSUME NEW s \in Sources, TaskEnd(s) \/ Register(s) \/ Unregister(s)
          PROVE  /\ log' = log /\ owed' = owed
                 /\ catalog' = catalog /\ wake' = wake /\ dispatch' = dispatch /\ seen' = seen
      BY <2>5 DEF TaskEnd, Register, Unregister, memory
    <2>6. \/ Notify \/ DispatchStep \/ Crash \/ UNCHANGED vars \/ GateClose \/ GateOpen
          \/ \E s \in Sources :
               \/ UserStep(s) \/ Answer(s) \/ Fail(s) \/ Break(s) \/ LaneStep(s)
               \/ TaskEnd(s) \/ Register(s) \/ Unregister(s)
      BY DEF Next, Disturb, TaskStep
    <2> QED BY <2>1, <2>2, <2>3, <2>4, <2>5, <2>6
  <1> QED BY <1>2, <1>3, <1>4, <1>5, <1>6, <1>7, <1>8, <1>9, <1>10, <1>11, <1>12, <1>13, <1>14
        DEF Notify, DispatchStep

\* A message the dispatcher has not compared is still on its way to it, however
\* the event of the reader, its reading and the wake interleave with further
\* writes (flush_notify, MessageCatalog.follow, _dispatch_changes).
THEOREM HeadsArrive == Spec => []HeadsReachDispatch
  <1>1. Init => HeadsInv
    BY DEF Init, HeadsInv, Unread, Unseen, Waiting
  <1>2. TypeInv /\ HeadsInv /\ [Next]_vars => HeadsInv'
    BY HeadsStep
  <1>3. TypeInv /\ HeadsInv => HeadsReachDispatch
    <2>1. TypeInv => Len(log) \in Nat
      BY DEF TypeInv
    <2> QED BY <2>1 DEF HeadsInv, HeadsReachDispatch
  <1> QED BY <1>1, <1>2, <1>3, TypesAlways, PTL DEF Spec

-----------------------------------------------------------------------------
(* What the steps leave alone.                                             *)

\* A user, a task or a lane: none of them touches the registry or what the
\* dispatcher and its watchers hold.
Worker(s) == UserStep(s) \/ Answer(s) \/ Fail(s) \/ Break(s) \/ LaneStep(s) \/ TaskEnd(s)

LEMMA ActionKinds ==
  ASSUME [Next]_vars
  PROVE  \/ \E s \in Sources : Worker(s) \/ Register(s) \/ Unregister(s)
         \/ Notify \/ DispatchStep \/ GateClose \/ GateOpen \/ Crash \/ UNCHANGED vars
  BY DEF Next, Worker, Disturb, TaskStep

LEMMA WorkerFrame ==
  ASSUME TypeInv, NEW s \in Sources, Worker(s)
  PROVE  /\ registered' = registered /\ catalog' = catalog /\ changes' = changes
         /\ wake' = wake /\ dispatch' = dispatch /\ seen' = seen
         /\ spent'["register"] = spent["register"]
         /\ \/ log' = log
            \/ \E type \in MessageTypes, through \in Nat : Write(s, type, through)
  <1>1. SourceHead(s) \in Nat /\ task[s].hint \in Nat /\ lane[s].boundary \in Nat
    BY HeadIsLast, LaneOf
  <1>2. 0 \in Nat /\ {"input", "stop", "answer", "failure"} \subseteq MessageTypes
    BY DEF MessageTypes
  <1>3. \A f \in {"fail", "break"} : Spend(f) => spent'["register"] = spent["register"]
    BY SpendTypes DEF Faults
  <1>4. CASE UserStep(s) \/ Answer(s)
    BY <1>1, <1>2, <1>4 DEF UserStep, Accept, Stop, Answer, memory
  <1>5. CASE Fail(s)
    BY <1>1, <1>2, <1>3, <1>5 DEF Fail, memory
  <1>6. CASE Break(s)
    BY <1>3, <1>6 DEF Break, memory
  <1>7. CASE LaneStep(s)
    <2>1. LaneRecord(s) => \/ log' = log
                           \/ \E type \in MessageTypes, through \in Nat : Write(s, type, through)
      BY <1>1, <1>2 DEF LaneRecord
    <2> QED BY <1>7, <2>1, LaneFrame
  <1>8. CASE TaskEnd(s)
    BY <1>8 DEF TaskEnd, memory
  <1> QED BY <1>4, <1>5, <1>6, <1>7, <1>8 DEF Worker

\* What a source has written, after somebody wrote.
LEMMA OwnGrows ==
  ASSUME TypeInv, NEW s \in Sources, NEW r \in Sources,
         NEW type \in MessageTypes, NEW through \in Nat, Write(s, type, through)
  PROVE  /\ Own(r) \subseteq Own(r)'
         /\ \A n \in Own(r)' : n \in Own(r) \/ n = Len(log) + 1
         /\ r = s => Len(log) + 1 \in Own(r)'
         /\ r # s => Own(r)' = Own(r) /\ Pending(r)' = Pending(r)
  <1> DEFINE k == Len(log)
             m == [source |-> s, type |-> type, through |-> through]
  <1>1. /\ k \in Nat /\ Len(log') = k + 1 /\ log'[k + 1] = m
        /\ \A n \in 1..k : log'[n] = log[n]
    BY Written
  <1>2. m.source = s /\ m.type = type
    OBVIOUS
  <1> HIDE DEF k, m
  <1>3. ASSUME NEW types
        PROVE  LET S == Seqs(r, types)
                   T == {n \in 1..Len(log') : log'[n].source = r /\ log'[n].type \in types}
               IN  /\ S \subseteq T /\ \A n \in T : n \in S \/ n = k + 1
                   /\ r # s => S = T
                   /\ r = s /\ type \in types => k + 1 \in T
    <2> DEFINE S == Seqs(r, types)
               D == 1..Len(log')
               T == {n \in D : log'[n].source = r /\ log'[n].type \in types}
               old == 1..k
    <2>1. D = old \cup {k + 1} /\ k + 1 \notin old
      BY <1>1 DEF k
    <2>2. \A n \in old : log'[n] = log[n]
      BY <1>1
    <2>3. S = {n \in old : log[n].source = r /\ log[n].type \in types}
      BY DEF Seqs, k
    <2>4. log'[k + 1].source = s /\ log'[k + 1].type = type
      BY <1>1, <1>2
    <2> HIDE DEF S, D, old
    <2>5. \A n \in old : n \in T <=> n \in S
      BY <2>1, <2>2, <2>3
    <2>6. \A n \in T : n \in old \/ n = k + 1
      BY <2>1
    <2>7. S \subseteq T /\ \A n \in T : n \in S \/ n = k + 1
      BY <2>3, <2>5, <2>6
    <2>8. k + 1 \in T <=> s = r /\ type \in types
      BY <2>1, <2>4
    <2> HIDE DEF T
    <2>9. r # s => S = T
      BY <2>7, <2>8
    <2> QED BY <2>7, <2>8, <2>9 DEF S, T, D
  <1>4. /\ Own(r) \subseteq Own(r)' /\ \A n \in Own(r)' : n \in Own(r) \/ n = k + 1
        /\ r = s => k + 1 \in Own(r)'
        /\ r # s => Own(r)' = Own(r)
    BY <1>3 DEF Own, Seqs
  <1>5. ASSUME r # s
        PROVE  Pending(r)' = Pending(r)
    <2>1. \A types : Seqs(r, types) =
            {n \in 1..Len(log') : log'[n].source = r /\ log'[n].type \in types}
      BY <1>3, <1>5
    <2>2. \A types : \A n \in Seqs(r, types) : log'[n] = log[n]
      BY <1>1 DEF Seqs, k
    <2> DEFINE I == Seqs(r, {"input"})
               C == Seqs(r, {"answer", "stop", "failure"})
    <2>3. I' = I /\ C' = C
      BY <2>1 DEF Seqs
    <2>4. Pending(r) <=>
            Latest(I) > 0 /\ \A n \in C : log[n].through < Latest(I)
      BY DEF Pending
    <2>5. Pending(r)' <=>
            Latest(I') > 0 /\ \A n \in C' : log'[n].through < Latest(I')
      BY DEF Pending, Latest
    <2>6. \A n \in C : log'[n] = log[n]
      BY <2>2
    <2> HIDE DEF I, C
    <2>7. Pending(r)' <=> Pending(r)
      BY <2>3, <2>4, <2>5, <2>6
    <2> QED BY <2>7 DEF Pending
  <1>6. k = Len(log)
    BY DEF k
  <1>7. /\ Own(r) \subseteq Own(r)' /\ \A n \in Own(r)' : n \in Own(r) \/ n = Len(log) + 1
        /\ r = s => Len(log) + 1 \in Own(r)'
        /\ r # s => Own(r)' = Own(r)
    BY <1>4, <1>6
  <1>8. r # s => Pending(r)' = Pending(r)
    BY <1>5, Zenon
  <1> QED BY <1>7, <1>8, Zenon

LEMMA OwnKept ==
  ASSUME NEW r \in Sources, log' = log
  PROVE  Own(r)' = Own(r) /\ Pending(r)' = Pending(r)
  BY DEF Own, Seqs, Pending, Latest

-----------------------------------------------------------------------------
(* Nothing that is known is ahead of the log or lost.                      *)

LEMMA LengthStep ==
  ASSUME TypeInv, LengthInv, [Next]_vars
  PROVE  LengthInv'
  <1>1. /\ catalog \in [event : BOOLEAN, st : {"idle", "reading", "read"}, got : Nat, latest : Nat]
        /\ dispatch \in Dispatch /\ dispatch.head \in Nat
        /\ seen.head \in Nat /\ Len(log) \in Nat
    BY DEF TypeInv, Dispatch
  <1>2. ASSUME NEW s \in Sources, Worker(s)
        PROVE  LengthInv'
    <2>1. Len(log) <= Len(log') /\ Len(log') \in Nat
      <3>1. CASE log' = log
        BY <1>1, <3>1
      <3>2. CASE \E type \in MessageTypes, through \in Nat : Write(s, type, through)
        <4>1. PICK type \in MessageTypes, through \in Nat : Write(s, type, through)
          BY <3>2
        <4>2. Len(log') = Len(log) + 1
          BY <4>1, Written
        <4> QED BY <1>1, <4>2
      <3> QED BY <1>2, <3>1, <3>2, WorkerFrame
    <2>2. catalog' = catalog /\ dispatch' = dispatch /\ seen' = seen
      BY <1>2, WorkerFrame
    <2> QED BY <1>1, <2>1, <2>2 DEF LengthInv
  <1>3. CASE Notify
    <2>1. CASE Announce \/ CatalogWake
      BY <1>1, <2>1 DEF Announce, CatalogWake, LengthInv
    <2>2. CASE CatalogRead
      BY <1>1, <2>2 DEF CatalogRead, LengthInv
    <2>3. CASE CatalogYield
      BY <1>1, <2>3 DEF CatalogYield, LengthInv
    <2>4. CASE SourcesRead
      BY <2>4 DEF SourcesRead, LengthInv
    <2> QED BY <1>3, <2>1, <2>2, <2>3, <2>4 DEF Notify
  <1>4. CASE DispatchStep
    <2>1. CASE DispatchBegin
      BY <1>1, <2>1 DEF DispatchBegin, LengthInv
    <2>2. CASE DispatchRead
      <3>1. dispatch'.head = dispatch.head
        BY <1>1, <2>2 DEF DispatchRead, Dispatch
      <3> QED BY <1>1, <2>2, <3>1 DEF DispatchRead, LengthInv
    <2>3. CASE DispatchAgain
      BY <1>1, <2>3 DEF DispatchAgain, Waiting, LengthInv
    <2>4. CASE DispatchApply
      <3>1. seen'.head = dispatch.head /\ dispatch'.head = 0 /\ catalog' = catalog /\ log' = log
        BY <2>4 DEF DispatchApply, Waiting
      <3> QED BY <1>1, <3>1 DEF LengthInv
    <2> QED BY <1>4, <2>1, <2>2, <2>3, <2>4 DEF DispatchStep
  <1>5. CASE Crash
    BY <1>1, <1>5 DEF Crash, Unread, Unseen, Waiting, LengthInv
  <1>6. CASE \/ GateClose \/ GateOpen \/ UNCHANGED vars
             \/ \E s \in Sources : Register(s) \/ Unregister(s)
    BY <1>6 DEF GateClose, GateOpen, Register, Unregister, vars, memory, LengthInv
  <1> QED BY <1>2, <1>3, <1>4, <1>5, <1>6, ActionKinds

LEMMA KnownStep ==
  ASSUME TypeInv, KnownInv, [Next]_vars
  PROVE  KnownInv'
  <1>1. dispatch \in Dispatch
    BY DEF TypeInv
  <1>2. ASSUME NEW s \in Sources, Worker(s)
        PROVE  KnownInv'
    BY <1>2, WorkerFrame DEF KnownInv
  <1>3. CASE Notify
    BY <1>3 DEF Notify, Announce, CatalogWake, CatalogRead, CatalogYield, SourcesRead, KnownInv
  <1>4. CASE DispatchStep
    <2>1. CASE DispatchBegin
      BY <2>1 DEF DispatchBegin, KnownInv
    <2>2. CASE DispatchRead
      <3>1. dispatch'.sources = dispatch.sources /\ dispatch.st # "wait" /\ dispatch'.st # "wait"
        BY <1>1, <2>2 DEF DispatchRead, Dispatch
      <3> QED BY <2>2, <3>1 DEF DispatchRead, KnownInv
    <2>3. CASE DispatchAgain
      BY <2>3 DEF DispatchAgain, KnownInv
    <2>4. CASE DispatchApply
      <3>1. seen'.sources = dispatch.sources /\ dispatch'.st = "wait" /\ registered' = registered
        BY <2>4 DEF DispatchApply, Waiting
      <3> QED BY <2>4, <3>1 DEF DispatchApply, KnownInv
    <2> QED BY <1>4, <2>1, <2>2, <2>3, <2>4 DEF DispatchStep
  <1>5. CASE Crash
    BY <1>5 DEF Crash, KnownInv
  <1>6. CASE \/ GateClose \/ GateOpen \/ UNCHANGED vars
             \/ \E s \in Sources : Register(s) \/ Unregister(s)
    BY <1>6 DEF GateClose, GateOpen, Register, Unregister, vars, memory, KnownInv
  <1> QED BY <1>2, <1>3, <1>4, <1>5, <1>6, ActionKinds

\* A drive works for the registration it has compared with, or for none.
LEMMA DrivenBy ==
  ASSUME TypeInv, NEW s \in Sources, Worker(s), NEW r \in Sources
  PROVE  lane'[r].by \in {lane[r].by, 0, registered[r]}
  <1>1. CASE lane' = lane
    BY <1>1
  <1>2. CASE LaneStep(s) \/ TaskEnd(s)
    <2>1. PICK l \in Lane : SetLane(s, l) /\ l.by \in {lane[s].by, 0, registered[s]}
      <3>1. \A st \in LaneStates :
              /\ To(s, st) \in Lane /\ To(s, st).by = lane[s].by
              /\ Between(s, st) \in Lane /\ Between(s, st).by = 0
        BY LaneMoved, BetweenLane
      <3>2. {"loop", "head", "enter", "start", "watch", "join", "gate", "recorded"} \subseteq LaneStates
        BY DEF LaneStates
      <3>3. \A l \in Lane :
              /\ [l EXCEPT !.changed = TRUE] \in Lane /\ [l EXCEPT !.changed = TRUE].by = l.by
              /\ [l EXCEPT !.changed = TRUE, !.event = FALSE] \in Lane
              /\ [l EXCEPT !.changed = TRUE, !.event = FALSE].by = l.by
        BY DEF Lane
      <3>4. /\ Rebound(s) \in Lane /\ Rebound(s).by \in {lane[s].by, 0}
            /\ Stopped(s) \in Lane /\ Stopped(s).by \in {lane[s].by, 0}
            /\ RevokedLane(s) \in Lane /\ RevokedLane(s).by \in {lane[s].by, 0}
            /\ Joined(s) \in Lane /\ Joined(s).by = 0
            /\ NoLane \in Lane /\ NoLane.by = 0
        <4>1. registered[s] \in Nat
          BY LaneOf
        <4>2. NoLane.by = 0
          BY DEF NoLane
        <4> QED BY <4>1, <4>2, ReboundLane, StoppedLane, RevokedLaneIs, JoinedLane, NoReplies
      <3> HIDE DEF Lane, To, Between, LaneStates, NoLane
      <3>5. CASE LaneLoop(s)
        <4> DEFINE l == To(s, "head")
        <4>1. l \in Lane /\ lane[s].source \in Nat
          BY <3>1, <3>2, LaneOf
        <4>2. CASE lane'[s] = NoLane /\ SetLane(s, NoLane)
          BY <3>4, <4>2
        <4>3. CASE SetLane(s, Rebound(s))
          BY <3>4, <4>3
        <4>4. CASE /\ registered[s] = lane[s].source
                   /\ SetLane(s, [l EXCEPT !.changed = FALSE, !.by = lane[s].source])
          <5> HIDE DEF l
          <5>1. /\ [l EXCEPT !.changed = FALSE, !.by = lane[s].source] \in Lane
                /\ [l EXCEPT !.changed = FALSE, !.by = lane[s].source].by = lane[s].source
            BY <4>1 DEF Lane
          <5> QED BY <4>4, <5>1
        <4> QED BY <3>5, <4>2, <4>3, <4>4, TypeLane, NoReplies DEF LaneLoop
      <3>6. CASE LaneHead(s)
        <4> DEFINE l == To(s, "enter")
        <4>1. l \in Lane /\ l.by = lane[s].by /\ SourceHead(s) \in Nat
          BY <3>1, <3>2, HeadIsLast
        <4>2. SetLane(s, [l EXCEPT !.boundary = SourceHead(s)])
          BY <3>6 DEF LaneHead
        <4> HIDE DEF l
        <4>3. /\ [l EXCEPT !.boundary = SourceHead(s)] \in Lane
              /\ [l EXCEPT !.boundary = SourceHead(s)].by = l.by
          BY <4>1 DEF Lane
        <4> QED BY <4>1, <4>2, <4>3
      <3>7. CASE LaneEnter(s)
        BY <3>1, <3>2, <3>4, <3>7 DEF LaneEnter
      <3>8. CASE LaneStart(s)
        BY <3>1, <3>2, <3>8 DEF LaneStart
      <3>9. CASE LaneReopened(s)
        <4> DEFINE l == To(s, "loop")
        <4>1. l \in Lane /\ l.by = lane[s].by
          BY <3>1, <3>2
        <4>2. SetLane(s, [l EXCEPT !.changed = TRUE])
          BY <3>9 DEF LaneReopened
        <4> HIDE DEF l
        <4>3. /\ [l EXCEPT !.changed = TRUE] \in Lane
              /\ [l EXCEPT !.changed = TRUE].by = l.by
          BY <3>3, <4>1
        <4> QED BY <4>1, <4>2, <4>3
      <3>12. CASE LaneNotified(s)
        BY <3>1, <3>2, <3>4, <3>12 DEF LaneNotified
      <3>10. CASE LaneRevoked(s) \/ LaneRecord(s) \/ LaneRecorded(s)
        BY <3>1, <3>2, <3>4, <3>10 DEF LaneRevoked, LaneRecord, LaneRecorded
      <3>11. CASE TaskEnd(s)
        <4>1. /\ task[s].st \in {"revoked", "closing", "failed", "broken"}
              /\ SetLane(s, Settled(s, task[s].st))
          BY <3>11 DEF TaskEnd
        <4>2. /\ Settled(s, task[s].st) \in Lane
              /\ Settled(s, task[s].st).by \in {lane[s].by, 0}
          BY <4>1, SettledLane
        <4> QED BY <4>1, <4>2
      <3> QED BY <1>2, <3>5, <3>6, <3>7, <3>8, <3>9, <3>10, <3>11, <3>12 DEF LaneStep
    <2> QED BY <2>1, TypeLane
  <1> QED BY <1>1, <1>2 DEF Worker, UserStep, Accept, Stop, Answer, Fail, Break

LEMMA NumbersStep ==
  ASSUME TypeInv, NumbersInv, [Next]_vars
  PROVE  NumbersInv'
  <1> SUFFICES ASSUME NEW r \in Sources
               PROVE  ({registered[r], seen.sources[r], dispatch.sources[r], lane[r].by}
                         \subseteq Used(r))'
    BY DEF NumbersInv
  <1>1. /\ registered[r] \in Used(r) /\ seen.sources[r] \in Used(r)
        /\ dispatch.sources[r] \in Used(r) /\ lane[r].by \in Used(r)
    BY DEF NumbersInv
  <1>2. spent["register"] \in Nat /\ registered \in [Sources -> Nat] /\ registered[r] \in Nat
    BY LaneOf DEF TypeInv, Faults, Heads
  <1>3. 0 \in Used(r)
    BY <1>2 DEF Used
  <1>4. AllZero[r] = 0
    BY DEF AllZero
  <1>5. ASSUME NEW s \in Sources, Worker(s)
        PROVE  /\ registered'[r] = registered[r] /\ seen'.sources[r] = seen.sources[r]
               /\ dispatch'.sources[r] = dispatch.sources[r]
               /\ lane'[r].by \in Used(r) /\ Used(r)' = Used(r)
    <2>1. lane'[r].by \in Used(r)
      BY <1>1, <1>3, <1>5, DrivenBy
    <2>2. Used(r)' = Used(r)
      BY <1>5, WorkerFrame DEF Used
    <2> QED BY <1>5, <2>1, <2>2, WorkerFrame
  <1>6. CASE Notify
    BY <1>1, <1>6 DEF Notify, Announce, CatalogWake, CatalogRead, CatalogYield, SourcesRead, Used
  <1>7. CASE DispatchStep
    <2>1. Used(r)' = Used(r) /\ registered' = registered
      BY <1>7 DEF DispatchStep, DispatchBegin, DispatchRead, DispatchAgain, DispatchApply, Used
    <2>2. dispatch'.sources[r] \in {dispatch.sources[r], registered[r], 0}
      <3>1. dispatch \in Dispatch
        BY DEF TypeInv
      <3>2. CASE DispatchBegin
        BY <3>2 DEF DispatchBegin
      <3>3. CASE DispatchRead
        BY <3>1, <3>3 DEF DispatchRead, Dispatch
      <3>4. CASE DispatchAgain \/ DispatchApply
        <4>1. dispatch'.sources = AllZero
          BY <3>4 DEF DispatchAgain, DispatchApply, Waiting
        <4> QED BY <1>4, <4>1
      <3> QED BY <1>7, <3>2, <3>3, <3>4 DEF DispatchStep
    <2>3. seen'.sources[r] \in {seen.sources[r], dispatch.sources[r]}
          /\ lane'[r].by \in {lane[r].by, 0}
      <3>1. CASE DispatchApply
        BY <3>1, AppliedLane
      <3>2. CASE ~DispatchApply
        BY <1>7, <3>2 DEF DispatchStep, DispatchBegin, DispatchRead, DispatchAgain
      <3> QED BY <3>1, <3>2
    <2> QED BY <1>1, <1>3, <2>1, <2>2, <2>3
  <1>8. CASE Crash
    <2>1. /\ registered' = registered /\ lane'[r].by = 0
          /\ seen'.sources[r] = 0 /\ dispatch'.sources[r] = 0
      BY <1>4, <1>8 DEF Crash, NoLanes, NoLane, Unseen, Waiting
    <2>2. spent'["register"] = spent["register"]
      BY <1>8, SpendTypes DEF Crash, Faults
    <2>3. Used(r)' = Used(r)
      BY <2>1, <2>2 DEF Used
    <2> QED BY <1>1, <1>3, <2>1, <2>3
  <1>9. CASE GateClose \/ GateOpen \/ UNCHANGED vars
    <2>1. /\ registered' = registered /\ lane' = lane /\ seen' = seen /\ dispatch' = dispatch
          /\ spent'["register"] = spent["register"]
      <3>1. Spend("gate") => spent'["register"] = spent["register"]
        BY SpendTypes DEF Faults
      <3> QED BY <1>9, <3>1 DEF GateClose, GateOpen, vars, memory
    <2>2. Used(r)' = Used(r)
      BY <2>1 DEF Used
    <2> QED BY <1>1, <2>1, <2>2
  <1>10. ASSUME NEW s \in Sources, Register(s) \/ Unregister(s)
         PROVE  /\ Used(r) \subseteq Used(r)' /\ registered'[r] \in Used(r)'
                /\ lane' = lane /\ seen' = seen /\ dispatch' = dispatch
    <2>1. lane' = lane /\ seen' = seen /\ dispatch' = dispatch
      BY <1>10 DEF Register, Unregister
    <2>2. CASE Register(s)
      BY <1>1, <1>2, <2>2 DEF Register, Used
    <2>3. CASE Unregister(s)
      <3>1. spent'["register"] = spent["register"] + 1
        BY <2>3, SpendTypes DEF Unregister, Faults
      <3> QED BY <1>1, <1>2, <2>1, <2>3, <3>1 DEF Unregister, Used
    <2> QED BY <1>10, <2>1, <2>2, <2>3
  <1> QED BY <1>1, <1>5, <1>6, <1>7, <1>8, <1>9, <1>10, ActionKinds

\* A registration that is made has a number nobody knows.
LEMMA NumberIsNew ==
  ASSUME TypeInv, NumbersInv, NEW s \in Sources, Register(s)
  PROVE  /\ seen.sources[s] # registered'[s] /\ lane[s].by # registered'[s]
         /\ \A r \in Sources \ {s} : registered'[r] = registered[r]
  <1>1. spent["register"] \in Nat /\ registered \in [Sources -> Nat]
    BY DEF TypeInv, Faults, Heads
  <1>2. seen.sources[s] \in 0..spent["register"] /\ lane[s].by \in 0..spent["register"]
    BY DEF NumbersInv, Used, Register
  <1> QED BY <1>1, <1>2 DEF Register

-----------------------------------------------------------------------------
(* The heads of a source.                                                  *)

LEMMA SourceHeadsStep ==
  ASSUME TypeInv, LengthInv, NumbersInv, NEW r \in Sources, SourceHeads(r), [Next]_vars
  PROVE  SourceHeads(r)'
  <1>1. /\ dispatch.head \in Nat /\ dispatch.sources[r] \in Nat /\ dispatch.heads[r] \in Nat
        /\ seen.head \in Nat /\ seen.sources[r] \in Nat /\ seen.heads[r] \in Nat
        /\ catalog.latest \in Nat /\ catalog.got \in Nat /\ Len(log) \in Nat
        /\ dispatch.st \in {"wait", "read", "apply"} /\ dispatch \in Dispatch
        /\ catalog \in [event : BOOLEAN, st : {"idle", "reading", "read"}, got : Nat, latest : Nat]
        /\ registered \in [Sources -> Nat]
    BY DispatchOf DEF TypeInv, Heads
  <1>2. Own(r) \in SUBSET (1..Len(log))
    BY HeadIsLast
  <1>3. AllZero[r] = 0
    BY DEF AllZero
  <1>4. ASSUME NEW s \in Sources, Worker(s)
        PROVE  SourceHeads(r)'
    <2>1. /\ registered' = registered /\ catalog' = catalog
          /\ dispatch' = dispatch /\ seen' = seen
      BY <1>4, WorkerFrame
    <2>2. CASE log' = log
      BY <2>1, <2>2, OwnKept DEF SourceHeads
    <2>3. CASE \E type \in MessageTypes, through \in Nat : Write(s, type, through)
      <3>1. PICK type \in MessageTypes, through \in Nat : Write(s, type, through)
        BY <2>3
      <3>2. Own(r) \subseteq Own(r)' /\ \A n \in Own(r)' : n \in Own(r) \/ n = Len(log) + 1
        BY <3>1, OwnGrows
      <3>3. seen.head < Len(log) + 1 /\ dispatch.head < Len(log) + 1
        BY <1>1 DEF LengthInv
      <3>4. \A n \in Own(r)' : n <= seen.head \/ n <= dispatch.head => n \in Own(r)
        BY <1>1, <3>2, <3>3
      <3> QED BY <2>1, <3>2, <3>4 DEF SourceHeads
    <2> QED BY <1>4, <2>2, <2>3, WorkerFrame
  <1>5. CASE Notify
    <2>1. /\ dispatch' = dispatch /\ seen' = seen /\ registered' = registered /\ log' = log
      BY <1>5 DEF Notify, Announce, CatalogWake, CatalogRead, CatalogYield, SourcesRead
    <2>2. catalog.latest # 0 => catalog'.latest # 0
      <3>1. CASE CatalogYield
        BY <1>1, <3>1 DEF CatalogYield, LengthInv
      <3>2. CASE Announce \/ CatalogWake \/ CatalogRead \/ SourcesRead
        BY <1>1, <3>2 DEF Announce, CatalogWake, CatalogRead, SourcesRead
      <3> QED BY <1>5, <3>1, <3>2 DEF Notify
    <2> QED BY <2>1, <2>2, OwnKept DEF SourceHeads
  <1>6. CASE DispatchBegin
    <2>1. /\ dispatch'.st = "read" /\ dispatch'.head = catalog.latest /\ dispatch'.heads[r] = 0
          /\ seen' = seen /\ registered' = registered /\ log' = log /\ catalog' = catalog
      BY <1>3, <1>6 DEF DispatchBegin
    <2> QED BY <2>1, OwnKept DEF SourceHeads
  <1>7. CASE DispatchRead
    <2>1. /\ dispatch'.st = "apply" /\ dispatch'.head = dispatch.head /\ dispatch.st = "read"
          /\ dispatch'.sources = dispatch.sources
          /\ dispatch'.heads[r] =
               IF dispatch.head = 0 \/ dispatch.sources[r] = 0 THEN 0 ELSE SourceHead(r)
          /\ seen' = seen /\ registered' = registered /\ log' = log /\ catalog' = catalog
      BY <1>1, <1>7 DEF DispatchRead, Dispatch
    <2>2. /\ SourceHead(r) \in Own(r) \cup {0} /\ \A n \in Own(r) : n <= SourceHead(r)
          /\ Own(r) # {} => SourceHead(r) # 0
      BY HeadIsLast
    <2>3. \A n \in Own(r) : ~(n <= 0)
      BY <1>2
    <2>4. seen.heads[r] # 0 => SourceHead(r) # 0
      BY <2>2 DEF SourceHeads
    <2> QED BY <2>1, <2>2, <2>3, <2>4, OwnKept DEF SourceHeads
  <1>8. CASE DispatchAgain
    <2>1. /\ dispatch'.st = "wait" /\ dispatch'.heads[r] = 0
          /\ seen' = seen /\ registered' = registered /\ log' = log /\ catalog' = catalog
      BY <1>3, <1>8 DEF DispatchAgain, Waiting
    <2> QED BY <2>1, OwnKept DEF SourceHeads
  <1>9. CASE DispatchApply
    <2>1. /\ dispatch'.st = "wait" /\ dispatch'.heads[r] = 0
          /\ registered' = registered /\ log' = log /\ catalog' = catalog
          /\ dispatch.st = "apply" /\ registered = dispatch.sources
      BY <1>3, <1>9 DEF DispatchApply, Waiting
    <2>2. /\ seen'.head = dispatch.head /\ seen'.sources = dispatch.sources
          /\ seen'.heads[r] = (IF Moved(r) THEN dispatch.heads[r] ELSE seen.heads[r])
      BY <1>9, AppliedLane
    <2>3. seen'.heads[r] \in Own(r) \cup {0}
      BY <2>2 DEF SourceHeads
    <2>4. seen'.heads[r] # 0 => catalog.latest # 0
      <3>1. dispatch.heads[r] # 0 => catalog.latest # 0
        BY <1>1 DEF SourceHeads, LengthInv
      <3> QED BY <2>2, <3>1 DEF SourceHeads
    <2>5. ASSUME registered[r] # 0, NEW n \in Own(r), n <= dispatch.head
          PROVE  n <= seen'.heads[r]
      <3>1. n <= dispatch.heads[r] /\ dispatch.heads[r] # 0
        BY <1>1, <1>2, <2>1, <2>5 DEF SourceHeads
      <3>2. CASE Moved(r)
        BY <2>2, <3>1, <3>2
      <3>3. CASE ~Moved(r)
        <4>1. seen.sources[r] = registered[r]
          BY <2>1, <3>1, <3>3 DEF Moved, Identified
        <4>2. dispatch.head = seen.head \/ seen.heads[r] = dispatch.heads[r]
          BY <3>1, <3>3 DEF Moved
        <4>3. CASE dispatch.head = seen.head
          BY <2>2, <2>5, <3>3, <4>1, <4>3 DEF SourceHeads
        <4>4. CASE seen.heads[r] = dispatch.heads[r]
          BY <2>2, <3>1, <3>3, <4>4
        <4> QED BY <4>2, <4>3, <4>4
      <3> QED BY <3>2, <3>3
    <2> QED BY <2>1, <2>2, <2>3, <2>4, <2>5, OwnKept DEF SourceHeads
  <1>10. CASE Crash
    <2>1. /\ dispatch'.st = "wait" /\ dispatch'.heads[r] = 0 /\ seen'.heads[r] = 0
          /\ seen'.sources[r] = 0 /\ registered' = registered /\ log' = log
      BY <1>3, <1>10 DEF Crash, Waiting, Unseen
    <2> QED BY <2>1, OwnKept DEF SourceHeads
  <1>11. CASE GateClose \/ GateOpen \/ UNCHANGED vars
    <2>1. /\ dispatch' = dispatch /\ seen' = seen /\ registered' = registered /\ log' = log
          /\ catalog' = catalog
      BY <1>11 DEF GateClose, GateOpen, vars, memory
    <2> QED BY <2>1, OwnKept DEF SourceHeads
  <1>12. ASSUME NEW s \in Sources, Register(s) \/ Unregister(s)
         PROVE  SourceHeads(r)'
    <2>1. dispatch' = dispatch /\ seen' = seen /\ log' = log /\ catalog' = catalog
      BY <1>12 DEF Register, Unregister
    <2>2. \/ registered'[r] = registered[r] \/ registered'[r] = 0
          \/ seen.sources[r] # registered'[r]
      BY <1>1, <1>12, NumberIsNew DEF Unregister
    <2> QED BY <2>1, <2>2, OwnKept DEF SourceHeads
  <1> QED BY <1>4, <1>5, <1>6, <1>7, <1>8, <1>9, <1>10, <1>11, <1>12, ActionKinds DEF DispatchStep

-----------------------------------------------------------------------------
(* The lane of a source that waits for an answer is at work.               *)

Reliable == Limit["fail"] = 0 /\ Limit["break"] = 0

\* What a step must show of a lane it changes, when it leaves the log, the
\* registry and the dispatcher alone.
AtWork(s, l) ==
  /\ l.st \notin {"record", "recorded"} /\ ~l.last
  /\ l.st # "none" /\ Bound(s) => l.source = registered[s]
  /\ l.st = "stop" /\ registered[s] # 0 => registered[s] # l.by
  /\ l.st \in Driven /\ l.source # l.by => l.changed
  /\ Bound(s) /\ Pending(s) /\ (\A n \in Own(s) : n <= seen.heads[s]) =>
       l.st # "none" /\ (l.st = "loop" => l.changed)

LEMMA LaneChanges ==
  ASSUME NEW s \in Sources, AtWork(s, lane'[s]), task'[s].st \notin {"failed", "broken"},
         registered' = registered, seen' = seen, log' = log
  PROVE  LaneInv(s)'
  <1>1. Bound(s)' = Bound(s)
    BY DEF Bound
  <1>2. Own(s)' = Own(s) /\ Pending(s)' = Pending(s)
    BY OwnKept
  <1> QED BY <1>1, <1>2 DEF LaneInv, AtWork

\* A lane that the step does not touch, while somebody writes.
LEMMA LaneStays ==
  ASSUME TypeInv, NEW s \in Sources, SourceHeads(s), LaneInv(s),
         lane'[s] = lane[s], task'[s].st \notin {"failed", "broken"},
         registered' = registered, seen' = seen,
         \/ log' = log
         \/ \E r \in Sources, type \in MessageTypes, through \in Nat : Write(r, type, through)
  PROVE  LaneInv(s)'
  <1>1. Bound(s)' = Bound(s)
    BY DEF Bound
  <1>2. CASE Own(s)' = Own(s) /\ Pending(s)' = Pending(s)
    BY <1>1, <1>2 DEF LaneInv
  <1>3. CASE Len(log) + 1 \in Own(s)'
    <2>1. seen.heads[s] < Len(log) + 1 /\ Len(log) \in Nat
      BY HeadIsLast DEF SourceHeads
    <2>2. ~(Len(log) + 1 <= seen.heads[s])
      BY <2>1, DispatchOf
    <2> QED BY <1>1, <1>3, <2>2 DEF LaneInv
  <1> QED BY <1>2, <1>3, OwnKept, OwnGrows

LEMMA NobodyFails ==
  ASSUME TypeInv, Reliable, NEW s \in Sources
  PROVE  ~Fail(s) /\ ~Break(s)
  BY SpendTypes DEF Reliable, Fail, Break, Faults

\* A round begins, or the lane is done.
LEMMA LoopWorks ==
  ASSUME TypeInv, NEW s \in Sources, LaneInv(s), LaneLoop(s)
  PROVE  AtWork(s, lane'[s])
  <1>1. lane[s].st = "loop" /\ registered[s] \in Nat
    BY LaneOf DEF LaneLoop
  <1>2. CASE ~lane[s].changed \/ lane[s].source = 0
    <2>1. lane'[s].st = "none" /\ lane'[s].last = FALSE
      BY <1>2, TypeLane, NoReplies DEF LaneLoop, NoLane
    <2>2. Bound(s) => registered[s] # 0
      BY DEF Bound
    <2> QED BY <1>1, <1>2, <2>1, <2>2 DEF LaneInv, AtWork, Driven
  <1>3. CASE lane[s].changed /\ lane[s].source # 0 /\ registered[s] # lane[s].source
    <2>1. lane'[s] = Rebound(s)
      BY <1>3, TypeLane, ReboundLane DEF LaneLoop
    <2>2. Bound(s) => registered[s] # 0
      BY DEF Bound
    <2> QED BY <1>1, <2>1, <2>2, ReboundLane DEF LaneInv, AtWork, Driven
  <1>4. CASE lane[s].changed /\ lane[s].source # 0 /\ registered[s] = lane[s].source
    <2> DEFINE l == To(s, "head")
    <2>1. /\ l \in Lane /\ l.st = "head" /\ l.source = lane[s].source /\ l.last = lane[s].last
          /\ lane[s].source \in Nat
      BY LaneMoved, LaneOf DEF LaneStates
    <2>2. SetLane(s, [l EXCEPT !.changed = FALSE, !.by = lane[s].source])
      BY <1>4 DEF LaneLoop
    <2> HIDE DEF l
    <2>3. LET h == [l EXCEPT !.changed = FALSE, !.by = lane[s].source] IN
            /\ h \in Lane /\ h.st = "head" /\ h.source = lane[s].source
            /\ h.by = lane[s].source /\ h.last = lane[s].last
      BY <2>1 DEF Lane
    <2>4. /\ lane'[s].st = "head" /\ lane'[s].source = lane[s].source
          /\ lane'[s].by = lane[s].source /\ lane'[s].last = lane[s].last
      BY <2>2, <2>3, TypeLane
    <2> QED BY <1>1, <2>4 DEF LaneInv, AtWork
  <1> QED BY <1>2, <1>3, <1>4

\* A lane that goes on in another state with what it knows.
LEMMA GoesOn ==
  ASSUME TypeInv, NEW s \in Sources, LaneInv(s), NEW l \in Lane,
         l.source = lane[s].source, l.last = lane[s].last,
         l.by = lane[s].by \/ l.st \in {"loop", "gate"},
         l.changed \/ (l.changed = lane[s].changed /\ lane[s].st \in Driven),
         lane[s].st # "none", l.st \in Driven \cup {"loop", "gate"},
         l.st = "stop" => registered[s] # lane[s].by,
         l.st = "loop" => l.changed \/ ~Pending(s)
  PROVE  AtWork(s, l)
  BY DEF LaneInv, AtWork, Driven

\* A drive that stops: its registration is gone.
LEMMA StopWorks ==
  ASSUME TypeInv, NEW s \in Sources, LaneInv(s), lane[s].st \in Driven,
         registered[s] # 0 => registered[s] # lane[s].by
  PROVE  AtWork(s, Stopped(s))
  <1>1. registered[s] \in Nat /\ lane[s].source \in Nat
    BY LaneOf
  <1>2. Bound(s) => registered[s] # 0
    BY DEF Bound
  <1>3. lane[s].st # "none" /\ ~lane[s].last
    BY DEF LaneInv, Driven
  <1>4. CASE Stopped(s).st = "none"
    <2>1. lane[s].source \in {0, lane[s].by}
      BY <1>3, <1>4, StoppedLane
    <2>2. ~Bound(s)
      BY <1>2, <1>3, <2>1 DEF LaneInv
    <2> QED BY <1>3, <1>4, <2>2, StoppedLane DEF AtWork, Driven
  <1>5. CASE Stopped(s).st # "none"
    <2>1. /\ Stopped(s).st = "loop" /\ Stopped(s).source = lane[s].source
          /\ Stopped(s).changed /\ ~Stopped(s).last
      BY <1>3, <1>5, StoppedLane DEF LaneInv
    <2> QED BY <1>3, <2>1 DEF LaneInv, AtWork, Driven
  <1> QED BY <1>4, <1>5

\* Each step of a drive leaves the lane at work.
LEMMA DriveWorks ==
  ASSUME TypeInv, NEW s \in Sources, LaneInv(s), LaneStep(s)
  PROVE  AtWork(s, lane'[s]) /\ log' = log
  <1>1. ~LaneRecord(s) /\ ~LaneRecorded(s)
    BY DEF LaneInv, LaneRecord, LaneRecorded
  <1>2. log' = log
    BY <1>1, LaneFrame
  <1>3. \A st \in LaneStates :
          /\ To(s, st) \in Lane /\ To(s, st).st = st /\ To(s, st).source = lane[s].source
          /\ To(s, st).by = lane[s].by /\ To(s, st).changed = lane[s].changed
          /\ To(s, st).last = lane[s].last
    BY LaneMoved
  <1>11. \A st \in LaneStates :
          /\ Between(s, st) \in Lane /\ Between(s, st).st = st
          /\ Between(s, st).source = lane[s].source
          /\ Between(s, st).changed = lane[s].changed /\ Between(s, st).last = lane[s].last
    BY BetweenLane
  <1>4. {"loop", "enter", "start", "watch", "join", "gate"} \subseteq LaneStates
    BY DEF LaneStates
  <1> HIDE DEF To, Between, Lane, LaneStates
  <1>5. CASE LaneLoop(s)
    BY <1>2, <1>5, LoopWorks
  <1>6. CASE LaneHead(s)
    <2> DEFINE l == To(s, "enter")
    <2>1. /\ l \in Lane /\ l.st = "enter" /\ l.source = lane[s].source /\ l.last = lane[s].last
          /\ l.by = lane[s].by /\ l.changed = lane[s].changed /\ SourceHead(s) \in Nat
      BY <1>3, <1>4, HeadIsLast
    <2>2. SetLane(s, [l EXCEPT !.boundary = SourceHead(s)]) /\ lane[s].st = "head"
      BY <1>6 DEF LaneHead
    <2> HIDE DEF l
    <2>3. LET h == [l EXCEPT !.boundary = SourceHead(s)] IN
            /\ h \in Lane /\ h.st = "enter" /\ h.source = l.source /\ h.last = l.last
            /\ h.by = l.by /\ h.changed = l.changed
      BY <2>1 DEF Lane
    <2>4. /\ lane'[s] \in Lane /\ lane'[s].st = "enter" /\ lane'[s].source = lane[s].source
          /\ lane'[s].last = lane[s].last
          /\ lane'[s].by = lane[s].by /\ lane'[s].changed = lane[s].changed
      BY <2>1, <2>2, <2>3, TypeLane
    <2> QED BY <1>2, <2>2, <2>4, GoesOn DEF Driven
  <1>7. CASE LaneEnter(s)
    <2>1. lane[s].st = "enter"
      BY <1>7 DEF LaneEnter
    <2>2. CASE SetLane(s, To(s, "start"))
      <3>1. lane'[s] = To(s, "start")
        BY <1>3, <1>4, <2>2, TypeLane
      <3> QED BY <1>2, <1>3, <1>4, <2>1, <3>1, GoesOn DEF Driven
    <2>3. CASE SetLane(s, Rebound(s))
      <3>1. lane'[s] = Rebound(s)
        BY <2>3, TypeLane, ReboundLane
      <3>2. Bound(s) => registered[s] # 0
        BY DEF Bound
      <3> QED BY <1>2, <2>1, <3>1, <3>2, ReboundLane DEF LaneInv, AtWork, Driven
    <2> QED BY <1>7, <2>2, <2>3 DEF LaneEnter
  <1>8. CASE LaneStart(s)
    <2>1. /\ lane[s].st = "start"
          /\ \/ SetLane(s, To(s, "watch"))
             \/ SetLane(s, Between(s, "gate"))
             \/ SetLane(s, Between(s, "loop")) /\ ~Pending(s)
      BY <1>8 DEF LaneStart
    <2>2. CASE SetLane(s, To(s, "watch"))
      <3>1. lane'[s] = To(s, "watch")
        BY <1>3, <1>4, <2>2, TypeLane
      <3> QED BY <1>2, <1>3, <1>4, <2>1, <3>1, GoesOn DEF Driven
    <2>3. CASE SetLane(s, Between(s, "gate"))
      <3>1. lane'[s] = Between(s, "gate")
        BY <1>11, <1>4, <2>3, TypeLane
      <3> QED BY <1>2, <1>11, <1>4, <2>1, <3>1, GoesOn DEF Driven
    <2>4. CASE SetLane(s, Between(s, "loop")) /\ ~Pending(s)
      <3>1. lane'[s] = Between(s, "loop")
        BY <1>11, <1>4, <2>4, TypeLane
      <3> QED BY <1>2, <1>11, <1>4, <2>1, <2>4, <3>1, GoesOn DEF Driven
    <2> QED BY <2>1, <2>2, <2>3, <2>4
  <1>9. CASE LaneReopened(s)
    <2> DEFINE l == To(s, "loop")
    <2>1. /\ l \in Lane /\ l.st = "loop" /\ l.source = lane[s].source /\ l.last = lane[s].last
      BY <1>3, <1>4
    <2>2. lane[s].st = "gate" /\ SetLane(s, [l EXCEPT !.changed = TRUE])
      BY <1>9 DEF LaneReopened
    <2> HIDE DEF l
    <2>3. LET h == [l EXCEPT !.changed = TRUE] IN
            /\ h \in Lane /\ h.st = "loop" /\ h.source = l.source /\ h.last = l.last
            /\ h.changed
      BY <2>1 DEF Lane
    <2>4. /\ lane'[s] \in Lane /\ lane'[s].st = "loop" /\ lane'[s].source = lane[s].source
          /\ lane'[s].last = lane[s].last /\ lane'[s].changed
      BY <2>1, <2>2, <2>3, TypeLane
    <2> QED BY <1>2, <2>2, <2>4, GoesOn DEF Driven
  <1>12. CASE LaneNotified(s)
    <2>1. lane[s].st = "watch" /\ (SetLane(s, Joined(s)) \/ SetLane(s, To(s, "join")))
      BY <1>12 DEF LaneNotified
    <2>2. CASE SetLane(s, To(s, "join"))
      <3>1. lane'[s] = To(s, "join")
        BY <1>3, <1>4, <2>2, TypeLane
      <3> QED BY <1>2, <1>3, <1>4, <2>1, <3>1, GoesOn DEF Driven
    <2>3. CASE SetLane(s, Joined(s))
      <3>1. /\ lane'[s] \in Lane /\ lane'[s].st = "loop" /\ lane'[s].source = lane[s].source
            /\ lane'[s].last = lane[s].last /\ lane'[s].changed
        BY <2>3, TypeLane, JoinedLane
      <3> QED BY <1>2, <2>1, <3>1, GoesOn DEF Driven
    <2> QED BY <2>1, <2>2, <2>3
  <1>10. CASE LaneRevoked(s)
    <2>1. /\ lane[s].st \in {"start", "watch", "join"} /\ registered[s] # lane[s].by
          /\ SetLane(s, RevokedLane(s))
      BY <1>10 DEF LaneRevoked
    <2>2. lane'[s] = RevokedLane(s) /\ RevokedLane(s) \in Lane
      BY <2>1, TypeLane, RevokedLaneIs
    <2>3. lane[s].st \in Driven
      BY <2>1 DEF Driven
    <2>4. CASE lane[s].st = "start"
      BY <1>2, <2>1, <2>2, <2>3, <2>4, StopWorks, RevokedLaneIs
    <2>5. CASE lane[s].st # "start"
      BY <1>2, <2>1, <2>2, <2>3, <2>5, GoesOn, RevokedLaneIs DEF Driven
    <2> QED BY <2>4, <2>5
  <1> QED BY <1>1, <1>5, <1>6, <1>7, <1>8, <1>9, <1>10, <1>12 DEF LaneStep

\* What a drive makes of the end of its task leaves the lane at work.
LEMMA EndWorks ==
  ASSUME TypeInv, NEW s \in Sources, LaneInv(s), TaskEnd(s)
  PROVE  AtWork(s, lane'[s])
  <1>1. task[s].st \in {"revoked", "closing"}
    BY DEF LaneInv, TaskEnd
  <1>2. lane'[s] = Settled(s, task[s].st)
    BY <1>1, TypeLane, SettledLane DEF TaskEnd
  <1>3. CASE lane[s].st \in {"watch", "join"}
    BY <1>1, <1>2, <1>3, SettledLane, JoinedLane, GoesOn DEF Driven
  <1>4. CASE lane[s].st = "stop"
    <2>1. lane'[s] = Stopped(s)
      BY <1>1, <1>2, <1>4, SettledLane
    <2> QED BY <1>4, <2>1, StopWorks DEF LaneInv, Driven
  <1>5. CASE lane[s].st \notin {"watch", "join", "stop"}
    <2>1. lane'[s] = lane[s]
      BY <1>1, <1>2, <1>5, SettledLane
    <2> QED BY <2>1 DEF LaneInv, AtWork
  <1> QED BY <1>3, <1>4, <1>5

\* What a round of the dispatcher makes of a lane: who moved is scheduled, and
\* who waits has moved before.
LEMMA ApplyWorks ==
  ASSUME TypeInv, NEW s \in Sources, SourceHeads(s), LaneInv(s), DispatchApply
  PROVE  LaneInv(s)'
  <1>1. /\ task' = task /\ log' = log /\ registered' = registered
        /\ dispatch.st = "apply" /\ dispatch.sources = registered
    BY DEF DispatchApply
  <1>2. /\ lane'[s] = (IF Moved(s) THEN Scheduled(Told(s), dispatch.sources[s]) ELSE Told(s))
        /\ lane[s].st # "none" => lane'[s].st = lane[s].st /\ lane'[s].by = lane[s].by
        /\ lane'[s].last => lane[s].last
        /\ seen'.sources = registered
        /\ seen'.heads[s] = (IF Moved(s) THEN dispatch.heads[s] ELSE seen.heads[s])
    BY <1>1, AppliedLane
  <1>3. Own(s)' = Own(s) /\ Pending(s)' = Pending(s)
    BY <1>1, OwnKept
  <1>4. Bound(s)' <=> registered[s] # 0
    BY <1>1, <1>2 DEF Bound
  <1>5. dispatch.sources[s] = registered[s] /\ registered[s] \in Nat
    BY <1>1, LaneOf
  <1>6. Told(s) \in Lane /\ Told(s).st = lane[s].st /\ Told(s).by = lane[s].by
    BY ToldLane
  <1>7. CASE Moved(s)
    <2>1. /\ lane'[s].source = registered[s] /\ lane'[s].changed
          /\ lane'[s].st = (IF lane[s].st = "none" THEN "loop" ELSE lane[s].st)
      BY <1>2, <1>5, <1>6, <1>7, ScheduledLane
    <2> QED BY <1>1, <1>2, <2>1 DEF LaneInv
  <1>8. CASE ~Moved(s)
    <2>1. lane'[s] = Told(s) /\ seen'.heads[s] = seen.heads[s]
      BY <1>2, <1>8
    <2>2. CASE ~Identified(s)
      <3>1. lane'[s] = lane[s] /\ seen'.sources[s] = seen.sources[s]
        BY <1>1, <1>2, <2>1, <2>2, ToldLane DEF Identified
      <3>2. Bound(s)' = Bound(s)
        BY <1>1, <3>1 DEF Bound
      <3> QED BY <1>1, <1>3, <2>1, <3>1, <3>2 DEF LaneInv
    <2>3. CASE Identified(s)
      <3>1. lane[s].st # "none" => lane'[s].source = registered[s] /\ lane'[s].changed
        BY <1>5, <2>1, <2>3, ToldLane
      <3>2. ASSUME registered[s] # 0, Pending(s)
            PROVE  ~(\A n \in Own(s) : n <= seen.heads[s])
        <4>1. Own(s) # {} /\ Own(s) \in SUBSET (1..Len(log)) /\ Len(log) \in Nat
          BY <3>2, PendingIsOwn, HeadIsLast
        <4>2. dispatch.heads[s] = 0
          BY <1>8, <2>3 DEF Moved
        <4>3. seen.heads[s] = 0
          BY <1>1, <1>5, <3>2, <4>2 DEF SourceHeads
        <4> QED BY <4>1, <4>3
      <3> QED BY <1>1, <1>2, <1>3, <1>4, <1>6, <2>1, <3>1, <3>2 DEF LaneInv, Driven
    <2> QED BY <2>2, <2>3
  <1> QED BY <1>7, <1>8

\* No task fails or breaks by itself when none is allowed to.
LEMMA TasksEndWell ==
  ASSUME TypeInv, Reliable, NEW r \in Sources, LaneInv(r), NEW s \in Sources, Worker(s)
  PROVE  task'[r].st \notin {"failed", "broken"}
  <1>1. ~Fail(s) /\ ~Break(s)
    BY NobodyFails
  <1>2. /\ task \in [Sources -> Task] /\ task[r] \in Task /\ task[s] \in Task
        /\ task[r].st \notin {"failed", "broken"}
    BY LaneOf DEF LaneInv, TypeInv
  <1>3. /\ Cancelled(task[r]).st \notin {"failed", "broken"} /\ NoReply.st = "none"
        /\ [task[r] EXCEPT !.st = "closing"].st = "closing"
    BY <1>2, CancelledTask DEF NoReply, Task
  <1>4. /\ task' \in [Sources -> Task]
        /\ s # r => task'[r] = task[r]
        /\ \/ task'[s] \in {task[s], Cancelled(task[s]), NoReply,
                            [task[s] EXCEPT !.st = "closing"]}
           \/ task'[s].st = "running"
    <2> HIDE DEF Task, NoReply
    <2>1. CASE UserStep(s) \/ Answer(s)
      <3> DEFINE closed == [task[s] EXCEPT !.st = "closing"]
      <3>1. Cancelled(task[s]) \in Task /\ closed \in Task
        BY <1>2, CancelledTask DEF Task
      <3>2. task' = [task EXCEPT ![s] = Cancelled(task[s])] \/ task' = [task EXCEPT ![s] = closed]
        BY <2>1 DEF UserStep, Accept, Stop, Answer
      <3>3. task' \in [Sources -> Task] /\ (s # r => task'[r] = task[r])
            /\ task'[s] \in {Cancelled(task[s]), closed}
        <4> HIDE DEF closed
        <4> QED BY <1>2, <3>1, <3>2
      <3> QED BY <3>3
    <2>2. CASE LaneStart(s)
      <3>1. [st |-> "running", hint |-> SourceHead(s)] \in Task
        BY HeadIsLast DEF Task
      <3>2. [st |-> "running", hint |-> SourceHead(s)].st = "running"
        OBVIOUS
      <3> QED BY <1>2, <2>2, <3>1, <3>2 DEF LaneStart
    <2>3. CASE LaneStep(s) /\ ~LaneStart(s)
      <3>1. NoReply \in Task /\ Cancelled(task[s]) \in Task
        BY <1>2, CancelledTask DEF NoReply, Task
      <3>2. \/ task' = task
            \/ \E tk \in {task[s], Cancelled(task[s]), NoReply} : task' = [task EXCEPT ![s] = tk]
        BY <2>3 DEF LaneStep, LaneLoop, LaneHead, LaneEnter, LaneReopened, LaneNotified,
                    LaneRevoked, LaneRecord, LaneRecorded
      <3> QED BY <1>2, <3>1, <3>2
    <2>4. CASE TaskEnd(s)
      BY <1>2, <2>4, TypeTask DEF TaskEnd
    <2> QED BY <1>1, <2>1, <2>2, <2>3, <2>4 DEF Worker
  <1>5. CASE s = r
    BY <1>2, <1>3, <1>4, <1>5
  <1>6. CASE s # r
    BY <1>2, <1>4, <1>6
  <1> QED BY <1>5, <1>6

LEMMA LaneInvStep ==
  ASSUME TypeInv, Reliable, NumbersInv, \A s \in Sources : SourceHeads(s) /\ LaneInv(s),
         NEW r \in Sources, [Next]_vars
  PROVE  LaneInv(r)'
  <1>1. LaneInv(r) /\ SourceHeads(r) /\ task[r].st \notin {"failed", "broken"}
    BY DEF LaneInv
  <1>2. ASSUME NEW s \in Sources, Worker(s)
        PROVE  LaneInv(r)'
    <2>1. task'[r].st \notin {"failed", "broken"}
      BY <1>1, <1>2, TasksEndWell
    <2>2. /\ registered' = registered /\ seen' = seen
          /\ \/ log' = log
             \/ \E type \in MessageTypes, through \in Nat : Write(s, type, through)
      BY <1>2, WorkerFrame
    <2>3. CASE lane'[r] = lane[r]
      BY <1>1, <2>1, <2>2, <2>3, LaneStays
    <2>4. CASE s = r /\ (LaneStep(s) \/ TaskEnd(s))
      <3>1. AtWork(r, lane'[r]) /\ log' = log
        BY <1>1, <2>4, DriveWorks, EndWorks DEF TaskEnd
      <3> QED BY <2>1, <2>2, <3>1, LaneChanges
    <2>5. lane'[r] = lane[r] \/ (s = r /\ (LaneStep(s) \/ TaskEnd(s)))
      <3>1. CASE UserStep(s) \/ Answer(s) \/ Fail(s) \/ Break(s)
        BY <3>1 DEF UserStep, Accept, Stop, Answer, Fail, Break
      <3>2. CASE s # r /\ (LaneStep(s) \/ TaskEnd(s))
        <4>1. \E l : SetLane(s, l)
          BY <3>2 DEF LaneStep, LaneLoop, LaneHead, LaneEnter, LaneStart, LaneReopened,
                      LaneNotified, LaneRevoked, LaneRecord, LaneRecorded, TaskEnd
        <4> QED BY <3>2, <4>1 DEF SetLane, TypeInv
      <3> QED BY <1>2, <3>1, <3>2 DEF Worker
    <2> QED BY <2>3, <2>4, <2>5
  <1>3. CASE DispatchApply
    BY <1>1, <1>3, ApplyWorks
  <1>4. CASE \/ Notify \/ DispatchBegin \/ DispatchRead \/ DispatchAgain
             \/ GateClose \/ GateOpen \/ UNCHANGED vars
    <2>1. /\ registered' = registered /\ seen' = seen /\ log' = log
          /\ lane' = lane /\ task' = task
      BY <1>4 DEF Notify, Announce, CatalogWake, CatalogRead, CatalogYield, SourcesRead,
                  DispatchBegin, DispatchRead, DispatchAgain, GateClose, GateOpen, vars, memory
    <2> QED BY <1>1, <2>1, LaneStays
  <1>5. CASE Crash
    <2>1. /\ task'[r].st = "none" /\ lane'[r].st = "none" /\ ~lane'[r].last
          /\ seen'.sources[r] = 0
      BY <1>5 DEF Crash, NoTasks, NoReply, NoLanes, NoLane, Unseen, AllZero
    <2>2. ~(Bound(r)')
      BY <2>1 DEF Bound
    <2> QED BY <2>1, <2>2 DEF LaneInv, Driven
  <1>6. ASSUME NEW s \in Sources, Register(s) \/ Unregister(s)
        PROVE  LaneInv(r)'
    <2>1. seen' = seen /\ log' = log /\ lane' = lane /\ task' = task
      BY <1>6 DEF Register, Unregister
    <2>2. CASE registered'[r] = registered[r]
      <3>1. Bound(r)' = Bound(r)
        BY <2>1, <2>2 DEF Bound
      <3> QED BY <1>1, <2>1, <2>2, <3>1, OwnKept DEF LaneInv
    <2>3. CASE registered'[r] = 0 \/ (seen.sources[r] # registered'[r] /\ lane[r].by # registered'[r])
      <3>1. ~(Bound(r)')
        BY <2>1, <2>3 DEF Bound
      <3> QED BY <1>1, <2>1, <2>3, <3>1 DEF LaneInv
    <2>4. registered \in [Sources -> Nat]
      BY DEF TypeInv, Heads
    <2> QED BY <1>6, <2>2, <2>3, <2>4, NumberIsNew DEF Unregister
  <1> QED BY <1>2, <1>3, <1>4, <1>5, <1>6, ActionKinds DEF DispatchStep

LEMMA ReachInit ==
  ASSUME Init
  PROVE  HeadsInv /\ ReachInv
  <1>1. HeadsInv /\ LengthInv /\ KnownInv
    BY DEF Init, HeadsInv, LengthInv, KnownInv, Unread, Unseen, Waiting
  <1>2. NumbersInv
    BY DEF Init, NumbersInv, Used, Faults, Unseen, Waiting, AllZero, NoLanes, NoLane
  <1>3. ASSUME NEW s \in Sources
        PROVE  SourceHeads(s) /\ LaneInv(s)
    <2>1. /\ registered[s] = 1 /\ seen.sources[s] = 0 /\ seen.heads[s] = 0
          /\ dispatch.heads[s] = 0 /\ dispatch.st = "wait"
          /\ task[s].st = "none" /\ lane[s].st = "none" /\ ~lane[s].last
      BY DEF Init, Unseen, Waiting, AllZero, NoTasks, NoReply, NoLanes, NoLane
    <2>2. ~Bound(s)
      BY <2>1 DEF Bound
    <2> QED BY <2>1, <2>2 DEF SourceHeads, LaneInv, Driven
  <1> QED BY <1>1, <1>2, <1>3 DEF ReachInv

LEMMA ReachStep ==
  ASSUME TypeInv, ReachInv, Reliable, [Next]_vars
  PROVE  ReachInv'
  <1>1. LengthInv' /\ KnownInv' /\ NumbersInv'
    BY LengthStep, KnownStep, NumbersStep DEF ReachInv
  <1>2. ASSUME NEW s \in Sources
        PROVE  SourceHeads(s)' /\ LaneInv(s)'
    BY SourceHeadsStep, LaneInvStep DEF ReachInv
  <1> QED BY <1>1, <1>2 DEF ReachInv

\* At rest the dispatcher has seen the whole log and the registry, and no lane
\* is at work: nobody waits.
LEMMA RestIsDone ==
  ASSUME TypeInv, HeadsInv, ReachInv, AtRest, NEW s \in Sources, registered[s] # 0
  PROVE  ~Pending(s)
  <1>1. seen.head = Len(log) /\ seen.sources = registered /\ lane[s].st = "none"
    BY DEF AtRest, HeadsInv, ReachInv, KnownInv
  <1>2. Bound(s)
    BY <1>1 DEF Bound
  <1>3. \A n \in Own(s) : n <= seen.heads[s]
    <2>1. \A n \in Own(s) : n <= seen.head
      BY <1>1, HeadIsLast
    <2> QED BY <1>1, <2>1 DEF ReachInv, SourceHeads
  <1> QED BY <1>1, <1>2, <1>3 DEF ReachInv, LaneInv

\* As long as no program fails and every tool that was waited for can be
\* settled, a quiet follower leaves no input unanswered, whatever is written,
\* reloaded, closed, opened or restarted in between (_dispatch_changes,
\* _conclude, watch_admission).
THEOREM NothingStranded ==
  ASSUME Reliable
  PROVE  Spec => []NoInputStranded
  <1>1. Init => HeadsInv /\ ReachInv
    BY ReachInit
  <1>2. TypeInv /\ HeadsInv /\ ReachInv /\ [Next]_vars => HeadsInv' /\ ReachInv'
    BY HeadsStep, ReachStep
  <1>3. TypeInv /\ HeadsInv /\ ReachInv => NoInputStranded
    BY RestIsDone DEF NoInputStranded
  <1> QED BY <1>1, <1>2, <1>3, TypesAlways, PTL DEF Spec

-----------------------------------------------------------------------------
(* The bound on the log.                                                   *)

Closing == {"answer", "stop", "failure"}

\* Whom a message concerns: its own source, and a control that covers the head
\* closes what was pending there.
LEMMA PendingWritten ==
  ASSUME TypeInv, NEW s \in Sources, NEW type \in MessageTypes, NEW through \in Nat,
         Write(s, type, through)
  PROVE  /\ \A o \in Sources \ {s} : Pending(o)' <=> Pending(o)
         /\ type # "input" /\ Pending(s)' => Pending(s)
         /\ type # "input" /\ through >= SourceHead(s) => ~Pending(s)'
  <1>1. /\ Len(log) \in Nat /\ Len(log') = Len(log) + 1
        /\ \A n \in 1..Len(log) : log'[n] = log[n]
        /\ log'[Len(log) + 1].source = s /\ log'[Len(log) + 1].type = type
        /\ log'[Len(log) + 1].through = through
    <2>1. log' = Append(log, [source |-> s, type |-> type, through |-> through]) /\ log \in Seq(Message)
      BY DEF TypeInv, Write
    <2>2. Len(log) \in Nat /\ Len(log') = Len(log) + 1 /\ \A n \in 1..Len(log) : log'[n] = log[n]
      BY <2>1
    <2>3. log'[Len(log) + 1] = [source |-> s, type |-> type, through |-> through]
      BY <2>1
    <2> QED BY <2>2, <2>3
  <1>2. \A n : n \in 1..Len(log') <=> n \in 1..Len(log) \/ n = Len(log) + 1
    BY <1>1
  <1>3. Len(log) + 1 \notin 1..Len(log)
    BY <1>1
  <1>4. ASSUME NEW o \in Sources, NEW T, o # s \/ type \notin T
        PROVE  Seqs(o, T)' = Seqs(o, T)
    BY <1>1, <1>2, <1>3, <1>4 DEF Seqs
  <1>5. ASSUME NEW o \in Sources \ {s}
        PROVE  Pending(o)' <=> Pending(o)
    <2>1. Seqs(o, {"input"})' = Seqs(o, {"input"}) /\ Seqs(o, Closing)' = Seqs(o, Closing)
      BY <1>4
    <2>2. \A n \in Seqs(o, Closing) : log'[n] = log[n]
      BY <1>1 DEF Seqs
    <2> QED BY <2>1, <2>2 DEF Pending, Latest, Closing
  <1>6. ASSUME type # "input"
        PROVE  /\ Pending(s)' => Pending(s)
               /\ through >= SourceHead(s) => ~Pending(s)'
    <2>1. Seqs(s, {"input"})' = Seqs(s, {"input"})
      BY <1>4, <1>6
    <2>2. \A n \in Seqs(s, Closing) : n \in Seqs(s, Closing)' /\ log'[n] = log[n]
      BY <1>1, <1>2 DEF Seqs
    <2>3. Pending(s)' => Pending(s)
      BY <2>1, <2>2 DEF Pending, Latest, Closing
    <2>4. ASSUME through >= SourceHead(s), Pending(s)'
          PROVE  FALSE
      <3>1. Pending(s)
        BY <2>3, <2>4
      <3>2. Seqs(s, {"input"}) # {}
        BY <3>1 DEF Pending, Latest
      <3>3. Seqs(s, {"input"}) \in SUBSET (1..Len(log))
        BY DEF Seqs
      <3>4. PICK i \in Seqs(s, {"input"}) : i = Latest(Seqs(s, {"input"}))
        BY <1>1, <3>2, <3>3, LatestIsOf
      <3>5. i \in Own(s) /\ i \in Nat
        BY <3>4 DEF Own, Seqs, MessageTypes
      <3>6. SourceHead(s) \in Nat /\ i <= SourceHead(s)
        BY <3>5, HeadIsLast
      <3>7. Len(log) + 1 \in Seqs(s, Closing)'
        BY <1>1, <1>2, <1>6 DEF Seqs, MessageTypes, Closing
      <3>8. \A n \in Seqs(s, Closing)' : log'[n].through < Latest(Seqs(s, {"input"})')
        BY <2>4 DEF Pending, Latest, Closing
      <3>9. log'[Len(log) + 1].through < i
        BY <2>1, <3>4, <3>7, <3>8
      <3> QED BY <1>1, <2>4, <3>5, <3>6, <3>9
    <2> QED BY <2>3, <2>4
  <1> QED BY <1>5, <1>6

\* While the log stays, so does what is pending in it.
LEMMA PendingStays == ASSUME log' = log, NEW s \in Sources PROVE Pending(s)' <=> Pending(s)
  BY DEF Pending, Latest, Seqs

\* A reply that may commit has an input to answer.
RunInv == \A s \in Sources : task[s].st = "running" => Pending(s)

\* Who writes, and what.
Writes(s) ==
  \/ Accept(s) \/ Stop(s) \/ Answer(s)
  \/ Fail(s) /\ task[s].st = "running"
  \/ LaneRecord(s) /\ Pending(s)

LEMMA WhoWrites ==
  ASSUME [Next]_vars
  PROVE  log' = log \/ \E s \in Sources : Writes(s)
  BY DEF Next, vars, memory, Writes, UserStep, Fail, Break, LaneStep, LaneLoop, LaneHead,
         LaneEnter, LaneStart, LaneReopened, LaneNotified, LaneRevoked, LaneRecord,
         LaneRecorded, TaskStep, TaskEnd, Register, Unregister, Notify, Announce, CatalogWake,
         CatalogRead, CatalogYield, SourcesRead, DispatchStep, DispatchBegin, DispatchRead,
         DispatchAgain, DispatchApply, Disturb, GateClose, GateOpen, Crash

\* Whoever writes is no running reply afterwards.
LEMMA WriterStops ==
  ASSUME TypeInv, WatchInv, NEW s \in Sources, Writes(s)
  PROVE  /\ task'[s].st # "running"
         /\ \A r \in Sources \ {s} : task'[r] = task[r]
  <1>1. task \in [Sources -> Task] /\ task[s] \in Task
    BY LaneOf DEF TypeInv
  <1>2. Cancelled(task[s]).st # "running"
    BY <1>1, CancelledTask
  <1>3. CASE LaneRecord(s)
    BY <1>3 DEF LaneRecord, WatchInv
  <1>4. CASE ~LaneRecord(s)
    <2>1. \/ task' = [task EXCEPT ![s] = Cancelled(@)]
          \/ task' = [task EXCEPT ![s].st = "closing"]
          \/ task' = [task EXCEPT ![s].st = "failed"]
      BY <1>4 DEF Writes, Accept, Stop, Answer, Fail
    <2> QED BY <1>1, <1>2, <2>1 DEF Task
  <1> QED BY <1>3, <1>4

\* Every message is typed.
LEMMA WritesTyped ==
  ASSUME TypeInv, NEW s \in Sources, Writes(s)
  PROVE  \E type \in MessageTypes, through \in Nat : Write(s, type, through)
  <1>1. SourceHead(s) \in Nat /\ task[s].hint \in Nat /\ lane[s].boundary \in Nat
    BY HeadIsLast, LaneOf DEF Task, Lane
  <1> QED BY <1>1 DEF Writes, Accept, Stop, Answer, Fail, LaneRecord, MessageTypes

LEMMA RunStep ==
  ASSUME TypeInv, WatchInv, RunInv, [Next]_vars
  PROVE  RunInv'
  <1> SUFFICES ASSUME NEW r \in Sources, task'[r].st = "running"
               PROVE  Pending(r)'
    BY DEF RunInv
  <1>1. CASE log' = log
    <2>1. CASE task[r].st = "running"
      BY <1>1, <2>1, PendingStays DEF RunInv
    <2>2. CASE task[r].st # "running"
      <3>1. task \in [Sources -> Task] /\ \A s \in Sources : Cancelled(task[s]).st # "running"
        BY CancelledTask DEF TypeInv
      <3>2. LaneStart(r)
        <4>1. ASSUME NEW s \in Sources, NEW tk, task' = [task EXCEPT ![s] = tk],
                     tk.st # "running"
              PROVE  FALSE
          BY <2>2, <3>1, <4>1
        <4>2. ASSUME NEW s \in Sources, UserStep(s) \/ Answer(s) \/ Fail(s) \/ Break(s)
              PROVE  FALSE
          <5>1. \/ task' = [task EXCEPT ![s] = Cancelled(task[s])]
                \/ task' = [task EXCEPT ![s].st = "closing"]
                \/ task' = [task EXCEPT ![s].st = "failed"]
                \/ task' = [task EXCEPT ![s].st = "broken"]
            BY <4>2 DEF UserStep, Accept, Stop, Answer, Fail, Break
          <5>2. task[s] \in Task
            BY <3>1
          <5> QED BY <2>2, <3>1, <5>1, <5>2 DEF Task
        <4>3. ASSUME NEW s \in Sources, TaskEnd(s) \/ LaneNotified(s) \/ LaneRevoked(s)
              PROVE  FALSE
          <5>1. NoReply.st # "running"
            BY DEF NoReply
          <5>2. \/ task' = task
                \/ task' = [task EXCEPT ![s] = Cancelled(task[s])]
                \/ task' = [task EXCEPT ![s] = NoReply]
            BY <3>1, <4>3 DEF TaskEnd, LaneNotified, LaneRevoked
          <5> QED BY <2>2, <3>1, <4>1, <5>1, <5>2
        <4>4. ASSUME Crash
              PROVE  FALSE
          BY <4>4 DEF Crash, NoTasks, NoReply
        <4>5. task' # task
          BY <2>2
        <4>6. PICK s \in Sources : LaneStart(s)
          BY <4>2, <4>3, <4>4, <4>5
             DEF Next, vars, memory, LaneStep, LaneLoop, LaneHead, LaneEnter, LaneReopened,
                 LaneRecord, LaneRecorded, TaskStep, Register, Unregister, Notify, Announce,
                 CatalogWake, CatalogRead, CatalogYield, SourcesRead, DispatchStep,
                 DispatchBegin, DispatchRead, DispatchAgain, DispatchApply, Disturb, GateClose,
                 GateOpen
        <4>7. s = r
          BY <2>2, <3>1, <4>6 DEF LaneStart
        <4> QED BY <4>6, <4>7
      <3>3. Pending(r)
        BY <2>2, <3>2 DEF LaneStart
      <3> QED BY <1>1, <3>3, PendingStays
    <2> QED BY <2>1, <2>2
  <1>2. ASSUME NEW s \in Sources, Writes(s)
        PROVE  Pending(r)'
    <2>1. r # s /\ task'[r] = task[r]
      BY <1>2, WriterStops
    <2>2. Pending(r)
      BY <2>1 DEF RunInv
    <2>3. PICK type \in MessageTypes, through \in Nat : Write(s, type, through)
      BY <1>2, WritesTyped
    <2> QED BY <2>1, <2>2, <2>3, PendingWritten
  <1> QED BY <1>1, <1>2, WhoWrites

\* The log has room for an end of every pending input.
RoomInv == Len(log) + Cardinality({s \in Sources : Pending(s)}) <= MaxMessages

LEMMA RoomStep ==
  ASSUME TypeInv, RunInv, RoomInv, [Next]_vars
  PROVE  RoomInv'
  <1> DEFINE P == {s \in Sources : Pending(s)}
             Q == {s \in Sources : Pending(s)'}
  <1>1. /\ P \in SUBSET Sources /\ Q \in SUBSET Sources /\ IsFiniteSet(Sources)
        /\ MaxMessages \in Nat /\ Len(log) \in Nat
    BY FollowAssumption DEF TypeInv
  <1>2. Len(log) + Cardinality(P) <= MaxMessages
    BY DEF RoomInv
  <1>3. RoomInv' <=> Len(log') + Cardinality(Q) <= MaxMessages
    BY DEF RoomInv
  <1>4. CASE log' = log
    <2>1. Q = P
      BY <1>4, PendingStays
    <2> QED BY <1>2, <1>3, <1>4, <2>1
  <1>5. ASSUME NEW s \in Sources, Writes(s)
        PROVE  RoomInv'
    <2>1. PICK type \in MessageTypes, through \in Nat : Write(s, type, through)
      BY <1>5, WritesTyped
    <2>2. Len(log') = Len(log) + 1
      BY <2>1, Written
    <2>3. \A o \in Sources \ {s} : Pending(o)' <=> Pending(o)
      BY <2>1, PendingWritten
    <2>4. CASE Room(s)
      <3>1. Len(log) + Cardinality({o \in Sources : Pending(o) \/ o = s}) < MaxMessages
        BY <2>4 DEF Room
      <3> DEFINE R == {o \in Sources : Pending(o) \/ o = s}
      <3>2. IsFiniteSet(R) /\ Cardinality(R) \in Nat
        BY <1>1, FS_Subset, FS_CardinalityType
      <3>3. Q \in SUBSET R
        BY <2>3
      <3> HIDE DEF Q, R
      <3>4. Cardinality(Q) <= Cardinality(R) /\ IsFiniteSet(Q)
        BY <3>2, <3>3, FS_Subset
      <3>5. Cardinality(Q) \in Nat
        BY <3>4, FS_CardinalityType
      <3>6. Len(log) + Cardinality(R) < MaxMessages
        BY <3>1 DEF R
      <3> QED BY <1>1, <1>3, <2>2, <3>2, <3>4, <3>5, <3>6
    <2>5. CASE Pending(s) /\ ~Pending(s)'
      <3>1. s \in P /\ Q = P \ {s}
        BY <2>3, <2>5
      <3> HIDE DEF P, Q
      <3>2. IsFiniteSet(P) /\ Cardinality(P) \in Nat
        BY <1>1, FS_Subset, FS_CardinalityType
      <3>3. Cardinality(P \ {s}) = Cardinality(P) - 1
        BY <3>1, <3>2, FS_RemoveElement
      <3> QED BY <1>1, <1>2, <1>3, <2>2, <3>1, <3>2, <3>3
    <2>6. Room(s) \/ (Pending(s) /\ ~Pending(s)')
      <3>1. SourceHead(s) \in Nat
        BY HeadIsLast
      <3>2. CASE Accept(s) \/ (LaneRecord(s) /\ Pending(s))
        BY <3>2 DEF Accept, LaneRecord
      <3>3. CASE Stop(s)
        <4>1. Room(s) \/ (Write(s, "stop", SourceHead(s)) /\ Pending(s))
          BY <3>3 DEF Stop
        <4> QED BY <3>1, <4>1, PendingWritten DEF MessageTypes
      <3>4. CASE Answer(s)
        <4>1. Write(s, "answer", SourceHead(s)) /\ Pending(s)
          BY <3>4 DEF Answer, RunInv
        <4> QED BY <3>1, <4>1, PendingWritten DEF MessageTypes
      <3>5. CASE Fail(s) /\ task[s].st = "running"
        <4>1. Write(s, "failure", SourceHead(s)) /\ Pending(s)
          BY <3>5 DEF Fail, RunInv
        <4> QED BY <3>1, <4>1, PendingWritten DEF MessageTypes
      <3> QED BY <1>5, <3>2, <3>3, <3>4, <3>5 DEF Writes
    <2> QED BY <2>4, <2>5, <2>6
  <1> QED BY <1>4, <1>5, WhoWrites

\* The types of the follower's state, and the bound of the log: whatever is
\* accepted, stopped, answered or fails, there is room for its end, so that the
\* bound keeps no accepted input from being settled (Room).
THEOREM TypeCorrect == Spec => []TypeOK
  <1>1. Init => WatchInv /\ RunInv
    BY DEF Init, WatchInv, RunInv, NoTasks, NoReply
  <1>2. Init => RoomInv
    <2> SUFFICES ASSUME Init
                 PROVE  RoomInv
      OBVIOUS
    <2>1. \A s \in Sources : ~Pending(s)
      BY DEF Init, Pending, Latest, Seqs
    <2>2. {s \in Sources : Pending(s)} = {}
      BY <2>1
    <2>3. Len(log) = 0
      BY DEF Init
    <2>4. Len(log) + Cardinality({}) <= MaxMessages
      BY <2>3, FS_EmptySet, FollowAssumption
    <2> QED BY <2>2, <2>4 DEF RoomInv
  <1>3. TypeInv /\ WatchInv /\ RunInv /\ RoomInv /\ [Next]_vars => WatchInv' /\ RunInv' /\ RoomInv'
    BY WatchStep, RunStep, RoomStep
  <1>4. TypeInv /\ RoomInv => TypeOK
    <2> SUFFICES ASSUME TypeInv, RoomInv
                 PROVE  TypeOK
      OBVIOUS
    <2>1. Len(log) \in Nat
      BY DEF TypeInv
    <2> DEFINE P == {s \in Sources : Pending(s)}
    <2>2. IsFiniteSet(P)
      BY FollowAssumption, FS_Subset
    <2> HIDE DEF P
    <2>3. Cardinality(P) \in Nat
      BY <2>2, FS_CardinalityType
    <2>4. Len(log) + Cardinality(P) <= MaxMessages
      BY DEF RoomInv, P
    <2>5. Len(log) <= MaxMessages
      BY <2>1, <2>3, <2>4, FollowAssumption
    <2>6. {accepting, owed, changes, wake} \subseteq BOOLEAN
      BY DEF TypeInv
    <2> QED BY <2>5, <2>6 DEF TypeInv, TypeOK
  <1> QED BY <1>1, <1>2, <1>3, <1>4, TypesAlways, PTL DEF Spec

-----------------------------------------------------------------------------
(* What a control covers.                                                  *)

\* Nobody knows of a number that the log has not given yet, so that no message
\* covers what comes after it.
PastInv ==
  /\ \A s \in Sources : lane[s].boundary <= Len(log) /\ task[s].hint <= Len(log)
  /\ \A n \in 1..Len(log) : log[n].through < n

\* The boundaries of the lanes that the steps of s make.
LEMMA LaneBoundaries ==
  ASSUME TypeInv, NEW s \in Sources
  PROVE  LET b == lane[s].boundary IN
         /\ \A st : To(s, st).boundary = b /\ Between(s, st).boundary = 0
         /\ NoLane.boundary = 0
         /\ Rebound(s).boundary \in {b, 0} /\ Stopped(s).boundary \in {b, 0}
         /\ RevokedLane(s).boundary \in {b, 0} /\ Joined(s).boundary = 0
         /\ \A end : Settled(s, end).boundary \in {b, 0, task[s].hint}
         /\ Told(s).boundary = b
         /\ \A id : Scheduled(Told(s), id).boundary \in {b, 0}
  <1> DEFINE b == lane[s].boundary
  <1>1. PICK l \in Lane : l = lane[s]
    BY LaneOf
  <1>2. \A st : To(s, st) = [l EXCEPT !.st = st]
    BY <1>1 DEF To
  <1>3. \A st : To(s, st).boundary = b
    BY <1>1, <1>2 DEF Lane
  <1>12. \A st : Between(s, st) = [l EXCEPT !.st = st, !.by = 0, !.boundary = 0]
    BY <1>1, <1>2 DEF Between, Lane
  <1>13. \A st : Between(s, st).boundary = 0
    BY <1>1, <1>12 DEF Lane
  <1>4. NoLane.boundary = 0
    BY DEF NoLane
  <1>5. Rebound(s).boundary \in {b, 0}
    <2>1. Rebound(s) = NoLane
            \/ Rebound(s) = [l EXCEPT !.st = "loop", !.by = 0, !.boundary = 0,
                                      !.source = registered[s], !.changed = TRUE]
      BY <1>1, <1>12 DEF Rebound, Lane
    <2> QED BY <1>1, <1>4, <2>1 DEF Lane
  <1>6. Stopped(s).boundary \in {b, 0}
    BY <1>13, <1>4 DEF Stopped
  <1>7. RevokedLane(s).boundary \in {b, 0}
    <2>1. RevokedLane(s) = Stopped(s)
            \/ RevokedLane(s) = [l EXCEPT !.st = "stop", !.event = FALSE]
      BY <1>1, <1>2 DEF RevokedLane, Lane
    <2> QED BY <1>1, <1>6, <2>1 DEF Lane
  <1>8. Joined(s).boundary = 0
    <2>1. Joined(s) = [l EXCEPT !.st = "loop", !.by = 0, !.boundary = 0,
                                !.changed = TRUE, !.event = FALSE]
      BY <1>1, <1>12 DEF Joined, Lane
    <2> QED BY <1>1, <2>1 DEF Lane
  <1>9. ASSUME NEW end
        PROVE  Settled(s, end).boundary \in {b, 0, task[s].hint}
    <2> DEFINE R == [To(s, "record") EXCEPT !.event = FALSE, !.boundary = task[s].hint,
                                            !.last = (lane[s].st = "stop")]
    <2>1. R = [l EXCEPT !.st = "record", !.event = FALSE, !.boundary = task[s].hint,
                        !.last = (lane[s].st = "stop")]
      BY <1>1, <1>2 DEF Lane
    <2>2. R.boundary = task[s].hint
      BY <1>1, <2>1 DEF Lane
    <2>3. Settled(s, end) \in {Joined(s), Stopped(s), R, NoLane, lane[s]}
      BY DEF Settled
    <2> HIDE DEF R
    <2> QED BY <1>4, <1>6, <1>8, <2>2, <2>3
  <1>10. Told(s).boundary = b
    <2>1. \/ Told(s) = [l EXCEPT !.source = dispatch.sources[s], !.changed = TRUE]
          \/ Told(s) = l
      BY <1>1 DEF Told
    <2> QED BY <1>1, <2>1 DEF Lane
  <1>11. ASSUME NEW id
         PROVE  Scheduled(Told(s), id).boundary \in {b, 0}
    <2>1. PICK t \in Lane : t = Told(s)
      BY ToldLane
    <2>2. \/ Scheduled(t, id) = [NoLane EXCEPT !.st = "loop", !.source = id, !.changed = TRUE]
          \/ Scheduled(t, id) = [t EXCEPT !.source = id, !.changed = TRUE, !.event = TRUE]
      BY DEF Scheduled
    <2>3. [NoLane EXCEPT !.st = "loop", !.source = id, !.changed = TRUE].boundary = 0
      BY DEF NoLane
    <2>4. [t EXCEPT !.source = id, !.changed = TRUE, !.event = TRUE].boundary = t.boundary
      BY DEF Lane
    <2> QED BY <1>10, <2>1, <2>2, <2>3, <2>4
  <1> QED BY <1>3, <1>4, <1>5, <1>6, <1>7, <1>8, <1>9, <1>10, <1>11, <1>13

\* What a lane and a reply know of the log is what they knew, what the other
\* knew, or what is read there now.
LEMMA KnownNumbers ==
  ASSUME TypeInv, [Next]_vars, NEW r \in Sources
  PROVE  /\ lane'[r].boundary \in {lane[r].boundary, 0, SourceHead(r), task[r].hint}
         /\ task'[r].hint \in {task[r].hint, 0, SourceHead(r)}
  <1>1. \A s \in Sources : Cancelled(task[s]).hint = task[s].hint
    BY LaneOf DEF Cancelled, Task
  <1>2. task \in [Sources -> Task] /\ lane \in [Sources -> Lane] /\ task[r] \in Task
    BY LaneOf DEF TypeInv
  <1>3. ASSUME NEW l, NEW s \in Sources, SetLane(s, l),
               l.boundary \in {lane[s].boundary, 0, SourceHead(s), task[s].hint}
        PROVE  lane'[r].boundary \in {lane[r].boundary, 0, SourceHead(r), task[r].hint}
    BY <1>2, <1>3 DEF SetLane
  <1>4. ASSUME NEW s \in Sources, Worker(s)
        PROVE  lane'[r].boundary \in {lane[r].boundary, 0, SourceHead(r), task[r].hint}
    <2>1. CASE lane' = lane
      BY <2>1
    <2>2. CASE LaneLoop(s) \/ LaneReopened(s) \/ LaneHead(s) \/ LaneNotified(s)
      <3>1. PICK l \in Lane : l = lane[s]
        BY LaneOf
      <3>2. \/ SetLane(s, NoLane) \/ SetLane(s, Rebound(s)) \/ SetLane(s, To(s, "join"))
            \/ SetLane(s, [l EXCEPT !.st = "head", !.changed = FALSE, !.by = lane[s].source])
            \/ SetLane(s, [l EXCEPT !.st = "enter", !.boundary = SourceHead(s)])
            \/ SetLane(s, [l EXCEPT !.st = "loop", !.changed = TRUE])
            \/ SetLane(s, Joined(s))
        BY <2>2, <3>1 DEF LaneLoop, LaneReopened, LaneHead, LaneNotified, To, Lane
      <3>3. /\ [l EXCEPT !.st = "head", !.changed = FALSE, !.by = lane[s].source].boundary
                 = lane[s].boundary
            /\ [l EXCEPT !.st = "enter", !.boundary = SourceHead(s)].boundary = SourceHead(s)
            /\ [l EXCEPT !.st = "loop", !.changed = TRUE].boundary = lane[s].boundary
        BY <3>1 DEF Lane
      <3> QED BY <1>3, <3>2, <3>3, LaneBoundaries
    <2>3. CASE \/ LaneEnter(s) \/ LaneStart(s) \/ LaneRevoked(s) \/ LaneRecord(s)
               \/ LaneRecorded(s) \/ TaskEnd(s)
      BY <1>3, <2>3, LaneBoundaries
         DEF LaneEnter, LaneStart, LaneRevoked, LaneRecord, LaneRecorded, TaskEnd
    <2> QED BY <1>4, <2>1, <2>2, <2>3
            DEF Worker, UserStep, Accept, Stop, Answer, Fail, Break, LaneStep
  <1>5. ASSUME NEW s \in Sources, Worker(s)
        PROVE  task'[r].hint \in {task[r].hint, 0, SourceHead(r)}
    <2>1. \/ task' = task
          \/ \E tk : /\ task' = [task EXCEPT ![s] = tk]
                     /\ tk.hint \in {task[s].hint, 0, SourceHead(s)}
      <3>1. PICK tk \in Task : tk = task[s]
        BY LaneOf
      <3>2. \A st : [tk EXCEPT !.st = st].hint = task[s].hint
        BY <3>1 DEF Task
      <3>3. NoReply.hint = 0
        BY DEF NoReply
      <3>4. [st |-> "running", hint |-> SourceHead(s)].hint = SourceHead(s)
        OBVIOUS
      <3>5. CASE LaneStart(s)
        BY <3>4, <3>5 DEF LaneStart
      <3>6. CASE LaneNotified(s)
        <4>1. task' = task \/ task' = [task EXCEPT ![s] = Cancelled(task[s])]
          BY <3>6 DEF LaneNotified
        <4> QED BY <1>1, <4>1
      <3>7. CASE Answer(s) \/ Fail(s) \/ Break(s)
        <4>1. \E st : task' = [task EXCEPT ![s] = [tk EXCEPT !.st = st]]
          BY <3>1, <3>7 DEF Answer, Fail, Break
        <4> QED BY <3>2, <4>1
      <3>8. CASE Accept(s) \/ Stop(s) \/ LaneRevoked(s) \/ TaskEnd(s)
        <4>1. task' = [task EXCEPT ![s] = NoReply] \/ task' = [task EXCEPT ![s] = task[s]]
                \/ task' = [task EXCEPT ![s] = Cancelled(task[s])]
          BY <3>8 DEF Accept, Stop, LaneRevoked, TaskEnd
        <4> QED BY <1>1, <3>3, <4>1
      <3> QED BY <1>5, <3>5, <3>6, <3>7, <3>8
              DEF Worker, UserStep, LaneStep, LaneLoop, LaneHead, LaneEnter, LaneReopened,
                  LaneRecord, LaneRecorded
    <2> QED BY <1>2, <2>1
  <1>6. CASE DispatchApply
    <2>1. lane'[r] = Scheduled(Told(r), dispatch.sources[r]) \/ lane'[r] = Told(r)
      BY <1>6 DEF DispatchApply
    <2> QED BY <1>6, <2>1, LaneBoundaries DEF DispatchApply
  <1>7. CASE Crash
    BY <1>7 DEF Crash, NoTasks, NoLanes, NoLane, NoReply
  <1>8. CASE lane' = lane /\ task' = task
    BY <1>8
  <1> QED BY <1>4, <1>5, <1>6, <1>7, <1>8, ActionKinds
          DEF Register, Unregister, Notify, DispatchStep, GateClose, GateOpen, vars, Announce,
              CatalogWake, CatalogRead, CatalogYield, SourcesRead, DispatchBegin, DispatchRead,
              DispatchAgain

LEMMA PastStep ==
  ASSUME TypeInv, PastInv, [Next]_vars
  PROVE  PastInv'
  <1>1. \A s \in Sources : SourceHead(s) \in Nat /\ SourceHead(s) <= Len(log)
    <2> SUFFICES ASSUME NEW s \in Sources
                 PROVE  SourceHead(s) \in Nat /\ SourceHead(s) <= Len(log)
      OBVIOUS
    <2> QED BY HeadIsLast
  <1>2. /\ Len(log) \in Nat
        /\ \A s \in Sources : lane[s].boundary \in Nat /\ task[s].hint \in Nat
    BY LaneOf DEF TypeInv
  <1>3. /\ Len(log') \in Nat /\ Len(log') >= Len(log)
        /\ \A n \in 1..Len(log') : log'[n].through < n
    <2>1. CASE log' = log
      BY <1>2, <2>1 DEF PastInv
    <2>2. ASSUME NEW s \in Sources, Writes(s)
          PROVE  /\ Len(log') \in Nat /\ Len(log') >= Len(log)
                 /\ \A n \in 1..Len(log') : log'[n].through < n
      <3>1. PICK type \in MessageTypes, through \in Nat :
                   Write(s, type, through) /\ through <= Len(log)
        <4>1. 0 \in Nat /\ {"input", "stop", "answer", "failure"} \subseteq MessageTypes
          BY DEF MessageTypes
        <4> QED BY <1>1, <1>2, <2>2, <4>1
                DEF Writes, Accept, Stop, Answer, Fail, LaneRecord, PastInv
      <3>2. /\ Len(log') = Len(log) + 1 /\ \A n \in 1..Len(log) : log'[n] = log[n]
            /\ log'[Len(log) + 1] = [source |-> s, type |-> type, through |-> through]
        BY <3>1, Written
      <3>3. \A n : n \in 1..Len(log') <=> n \in 1..Len(log) \/ n = Len(log) + 1
        BY <1>2, <3>2
      <3>4. log'[Len(log) + 1].through = through
        BY <3>2
      <3> QED BY <1>2, <3>1, <3>2, <3>3, <3>4 DEF PastInv
    <2> QED BY <2>1, <2>2, WhoWrites
  <1>4. ASSUME NEW s \in Sources
        PROVE  lane'[s].boundary <= Len(log') /\ task'[s].hint <= Len(log')
    <2>1. /\ lane'[s].boundary \in {lane[s].boundary, 0, SourceHead(s), task[s].hint}
          /\ task'[s].hint \in {task[s].hint, 0, SourceHead(s)}
      BY KnownNumbers
    <2>2. lane[s].boundary <= Len(log) /\ task[s].hint <= Len(log)
      BY DEF PastInv
    <2> QED BY <1>1, <1>2, <1>3, <2>1, <2>2
  <1> QED BY <1>3, <1>4 DEF PastInv

-----------------------------------------------------------------------------
(* The promise.                                                            *)

\* What a message adds to what the log says of a source.
LEMMA NotedFor ==
  ASSUME TypeInv, NEW s \in Sources, NEW type \in MessageTypes, NEW through \in Nat,
         Write(s, type, through), NEW o \in Sources, NEW T
  PROVE  /\ Seqs(o, T)' =
              Seqs(o, T) \cup (IF o = s /\ type \in T THEN {Len(log) + 1} ELSE {})
         /\ \A n : Covered(o, n, T)' <=>
              Covered(o, n, T) \/ (o = s /\ type \in T /\ n <= through)
  <1>1. /\ Len(log) \in Nat /\ Len(log') = Len(log) + 1
        /\ \A n \in 1..Len(log) : log'[n] = log[n]
        /\ log'[Len(log) + 1] = [source |-> s, type |-> type, through |-> through]
    BY Written
  <1>2. \A n : n \in 1..Len(log') <=> n \in 1..Len(log) \/ n = Len(log) + 1
    BY <1>1
  <1>3. Seqs(o, T)' = Seqs(o, T) \cup (IF o = s /\ type \in T THEN {Len(log) + 1} ELSE {})
    BY <1>1, <1>2 DEF Seqs
  <1>4. \A c \in Seqs(o, T) : log'[c] = log[c]
    BY <1>1 DEF Seqs
  <1>5. log'[Len(log) + 1].through = through
    BY <1>1
  <1> QED BY <1>3, <1>4, <1>5 DEF Covered

\* The input that waits is open.
LEMMA PendingIsOpen ==
  ASSUME TypeInv, NEW s \in Sources, Pending(s)
  PROVE  Promise(s)!Some("open")
  <1>1. PICK I : I = Seqs(s, {"input"})
    OBVIOUS
  <1>2. I \in SUBSET (1..Len(log)) /\ Len(log) \in Nat
    BY <1>1 DEF TypeInv, Seqs
  <1>3. PICK i : i = Latest(I)
    OBVIOUS
  <1>4. /\ i > 0
        /\ \A n \in Seqs(s, {"answer", "stop", "failure"}) : log[n].through < i
    BY <1>1, <1>3 DEF Pending
  <1>5. I # {}
    BY <1>3, <1>4 DEF Latest
  <1>6. i \in I
    BY <1>2, <1>3, <1>5, LatestIsOf
  <1>7. ASSUME NEW T, T \subseteq {"answer", "stop", "failure"}
        PROVE  ~Covered(s, i, T)
    <2>1. \A c \in Seqs(s, T) : log[c].through \in Nat /\ log[c].through < i
      <3> SUFFICES ASSUME NEW c \in Seqs(s, T)
                   PROVE  log[c].through \in Nat /\ log[c].through < i
        OBVIOUS
      <3>1. c \in 1..Len(log) /\ c \in Seqs(s, {"answer", "stop", "failure"})
        BY <1>7 DEF Seqs
      <3>2. log[c] \in Message
        BY <3>1 DEF TypeInv
      <3> QED BY <1>4, <3>1, <3>2 DEF Message
    <2> QED BY <1>2, <1>6, <2>1 DEF Covered
  <1>8. Fate(s)[i] = "open" /\ i \in DOMAIN Fate(s)
    BY <1>1, <1>6, <1>7 DEF Fate
  <1> QED BY <1>8 DEF Promise!Some, Promise!Asked

\* Every write is a step of the promise of its source, and no other source
\* notices.
LEMMA WriteKeeps ==
  ASSUME TypeInv, RunInv, PastInv, NEW s \in Sources, Writes(s), NEW o \in Sources
  PROVE  Promise(o)!PromiseNext \/ UNCHANGED Promise(o)!pvars
  <1>1. PICK type \in MessageTypes, through \in Nat :
               /\ Write(s, type, through)
               /\ type = "answer" => Pending(s) /\ through = SourceHead(s)
    <2>1. SourceHead(s) \in Nat /\ lane[s].boundary \in Nat /\ task[s].hint \in Nat
      BY HeadIsLast, LaneOf
    <2>2. Answer(s) => Write(s, "answer", SourceHead(s)) /\ Pending(s)
      BY DEF Answer, RunInv
    <2>3. \/ Write(s, "input", 0)
          \/ Write(s, "stop", SourceHead(s)) \/ Write(s, "stop", task[s].hint)
          \/ Write(s, "answer", SourceHead(s)) /\ Pending(s)
          \/ Write(s, "failure", SourceHead(s)) \/ Write(s, "failure", lane[s].boundary)
      BY <2>2 DEF Writes, Accept, Stop, Fail, LaneRecord
    <2>4. {"input", "answer", "stop", "failure"} = MessageTypes /\ 0 \in Nat
      BY DEF MessageTypes
    <2> HIDE DEF MessageTypes
    <2> QED BY <2>1, <2>3, <2>4
  <1>2. PICK I : I = Seqs(o, {"input"})
    OBVIOUS
  <1>3. PICK O : O = Seqs(o, {"answer"})
    OBVIOUS
  <1>4. PICK k \in Nat : k = Len(log)
    BY DEF TypeInv
  <1>5. I \in SUBSET (1..k) /\ O \in SUBSET (1..k)
    BY <1>2, <1>3, <1>4 DEF Seqs
  <1>6. PICK I1 : I1 = Seqs(o, {"input"})'
    OBVIOUS
  <1>7. /\ I1 = I \cup (IF o = s /\ type = "input" THEN {k + 1} ELSE {})
        /\ Seqs(o, {"answer"})' = O \cup (IF o = s /\ type = "answer" THEN {k + 1} ELSE {})
    BY <1>1, <1>2, <1>3, <1>4, <1>6, NotedFor
  <1>8. /\ \A n : Covered(o, n, {"answer"})' <=>
             Covered(o, n, {"answer"}) \/ (o = s /\ type = "answer" /\ n <= through)
        /\ \A n : Covered(o, n, {"stop", "failure"})' <=>
             Covered(o, n, {"stop", "failure"})
               \/ (o = s /\ type \in {"stop", "failure"} /\ n <= through)
    <2>1. ASSUME NEW T
          PROVE  \A n : Covered(o, n, T)' <=>
                          Covered(o, n, T) \/ (o = s /\ type \in T /\ n <= through)
      BY <1>1, NotedFor
    <2>2. \A n : Covered(o, n, {"answer"})' <=>
                    Covered(o, n, {"answer"}) \/ (o = s /\ type \in {"answer"} /\ n <= through)
      BY <2>1
    <2>3. \A n : Covered(o, n, {"stop", "failure"})' <=>
                    Covered(o, n, {"stop", "failure"})
                      \/ (o = s /\ type \in {"stop", "failure"} /\ n <= through)
      BY <2>1
    <2> QED BY <2>2, <2>3
  <1>9. PICK f : f = Fate(o)
    OBVIOUS
  <1>10. PICK g : g = Fate(o)'
    OBVIOUS
  <1>11. f = [n \in I |-> IF Covered(o, n, {"answer"}) THEN "closed"
                          ELSE IF Covered(o, n, {"stop", "failure"}) THEN "stopped" ELSE "open"]
    BY <1>2, <1>9 DEF Fate
  <1>12. g = [n \in I1 |-> IF Covered(o, n, {"answer"})' THEN "closed"
                           ELSE IF Covered(o, n, {"stop", "failure"})' THEN "stopped" ELSE "open"]
    BY <1>6, <1>10 DEF Fate
  <1>13. /\ Promise(o)!Asked = I
         /\ \A n : Promise(o)!Last(n) <=> n \in Nat /\ \A m \in I \cup O : m < n
    BY <1>3, <1>9, <1>11 DEF Promise!Asked, Promise!Last
  <1>14. Promise(o)!Last(k + 1) /\ k + 1 \notin I /\ k + 1 \notin O
    BY <1>5, <1>13
  <1>15. CASE o # s
    <2>1. I1 = I /\ Seqs(o, {"answer"})' = O
      BY <1>7, <1>15
    <2>2. g = f
      BY <1>8, <1>11, <1>12, <1>15, <2>1
    <2> QED BY <1>3, <1>9, <1>10, <2>1, <2>2 DEF Promise!pvars
  <1>16. CASE o = s /\ type = "input"
    <2>1. I1 = I \cup {k + 1} /\ Seqs(o, {"answer"})' = O
      BY <1>7, <1>16
    <2>2. \A n \in I : g[n] = f[n]
      BY <1>8, <1>11, <1>12, <1>16, <2>1
    <2>3. ASSUME NEW T
          PROVE  ~Covered(o, k + 1, T)
      <3>1. \A c \in Seqs(o, T) : c \in 1..k /\ log[c] \in Message /\ log[c].through < c
        BY <1>4 DEF Seqs, TypeInv, PastInv
      <3>2. \A c \in Seqs(o, T) : log[c].through \in Nat
        BY <3>1 DEF Message
      <3> QED BY <3>1, <3>2 DEF Covered
    <2>4. g[k + 1] = "open"
      BY <1>8, <1>12, <1>16, <2>1, <2>3
    <2>5. g = [m \in I \cup {k + 1} |-> IF m = k + 1 THEN "open" ELSE f[m]]
      BY <1>12, <1>14, <2>1, <2>2, <2>4
    <2>6. Promise(o)!PAsk(k + 1)
      BY <1>3, <1>9, <1>10, <1>13, <1>14, <2>1, <2>5 DEF Promise!PAsk
    <2>7. k + 1 \in DOMAIN g \ I
      BY <1>12, <1>14, <2>1
    <2> QED BY <1>10, <1>13, <2>6, <2>7 DEF Promise!PromiseNext
  <1>17. CASE o = s /\ type = "answer"
    <2>1. I1 = I /\ Seqs(o, {"answer"})' = O \cup {k + 1}
      BY <1>7, <1>17
    <2>2. Promise(o)!Some("open")
      BY <1>1, <1>17, PendingIsOpen
    <2>3. \A n \in I : n <= through
      <3>1. I \subseteq Own(s)
        BY <1>2, <1>17 DEF Own, Seqs, MessageTypes
      <3> QED BY <1>1, <1>17, <3>1, HeadIsLast
    <2>4. g = [m \in I |-> "closed"]
      BY <1>8, <1>12, <1>17, <2>1, <2>3
    <2>5. Promise(o)!PSay(k + 1)
      BY <1>3, <1>10, <1>13, <1>14, <2>1, <2>2, <2>4 DEF Promise!PSay, Promise!AllClosed
    <2>6. k + 1 \in Seqs(o, {"answer"})' \ O
      BY <1>14, <2>1
    <2> QED BY <1>3, <2>5, <2>6 DEF Promise!PromiseNext
  <1>18. CASE o = s /\ type \in {"stop", "failure"}
    <2>1. I1 = I /\ Seqs(o, {"answer"})' = O
      BY <1>7, <1>18
    <2> DEFINE S == {n \in I : n <= through}
    <2>2. PICK l : l = Latest(S)
      OBVIOUS
    <2>3. S \in SUBSET (1..k)
      BY <1>5
    <2>4. \A n \in I : n <= through <=> n <= l /\ l # 0
      <3>1. S # {} => l \in S /\ \A n \in S : n <= l
        BY <2>2, <2>3, LatestIsOf
      <3>2. S = {} => l = 0
        BY <2>2 DEF Latest
      <3>3. \A n \in I : n \in Nat /\ n # 0
        BY <1>5
      <3> QED BY <3>1, <3>2, <3>3
    <2>5. \A n \in I : g[n] = IF n <= l /\ l # 0 /\ f[n] = "open" THEN "stopped" ELSE f[n]
      <3> SUFFICES ASSUME NEW n \in I
                   PROVE  g[n] = IF n <= l /\ l # 0 /\ f[n] = "open" THEN "stopped" ELSE f[n]
        OBVIOUS
      <3>1. g[n] = IF Covered(o, n, {"answer"}) THEN "closed"
                   ELSE IF Covered(o, n, {"stop", "failure"}) \/ n <= through
                   THEN "stopped" ELSE "open"
        BY <1>8, <1>12, <1>18, <2>1
      <3>2. f[n] = IF Covered(o, n, {"answer"}) THEN "closed"
                   ELSE IF Covered(o, n, {"stop", "failure"}) THEN "stopped" ELSE "open"
        BY <1>11
      <3> QED BY <2>4, <3>1, <3>2
    <2>6. CASE l = 0
      <3>1. g = f
        BY <1>11, <1>12, <2>1, <2>5, <2>6
      <3> QED BY <1>3, <1>9, <1>10, <2>1, <3>1 DEF Promise!pvars
    <2>7. CASE l # 0
      <3>1. l \in I
        BY <2>2, <2>3, <2>7, LatestIsOf DEF Latest
      <3>2. Promise(o)!PStop(l)
        BY <1>3, <1>9, <1>10, <1>12, <1>13, <2>1, <2>5, <2>7 DEF Promise!PStop
      <3> QED BY <1>13, <3>1, <3>2 DEF Promise!PromiseNext
    <2> QED BY <2>6, <2>7
  <1> QED BY <1>15, <1>16, <1>17, <1>18 DEF MessageTypes

\* Every source keeps the promise of SourcePromise, whoever writes for it, its
\* users, its reply or its lane, and whatever the others do meanwhile
\* (accept, pause, react's commit, _record_failure).
THEOREM KeepsPromise == Spec => ImplementsPromise
  <1>1. Init => WatchInv /\ RunInv /\ PastInv
    BY DEF Init, WatchInv, RunInv, PastInv, NoTasks, NoReply, NoLanes, NoLane
  <1>2. TypeInv /\ WatchInv /\ RunInv /\ PastInv /\ [Next]_vars
          => WatchInv' /\ RunInv' /\ PastInv'
    BY WatchStep, RunStep, PastStep
  <1>3. Init => \A s \in Sources : Promise(s)!PromiseInit
    BY DEF Init, Promise!PromiseInit, Promise!Asked, Fate, Seqs
  <1>4. TypeInv /\ RunInv /\ PastInv /\ [Next]_vars
          => [\/ UNCHANGED log
              \/ \A s \in Sources : Promise(s)!PromiseNext \/ UNCHANGED Promise(s)!pvars]_vars
    BY WhoWrites, WriteKeeps
  <1> QED BY <1>1, <1>2, <1>3, <1>4, TypesAlways, PTL DEF Spec, ImplementsPromise

\* So each of them implements SourcePromise, step for step.
THEOREM RefinesPromise == \A o \in Sources : Spec => Promise(o)!PromiseSpec
  <1> SUFFICES ASSUME NEW o \in Sources
               PROVE  Spec => Promise(o)!PromiseSpec
    OBVIOUS
  <1>1. (\A s \in Sources : Promise(s)!PromiseInit) => Promise(o)!PromiseInit
    OBVIOUS
  <1>2. UNCHANGED log => UNCHANGED Promise(o)!pvars
    BY DEF Promise!pvars, Fate, Covered, Seqs
  <1>3. [\/ UNCHANGED log
         \/ \A s \in Sources : Promise(s)!PromiseNext \/ UNCHANGED Promise(s)!pvars]_vars
          => [Promise(o)!PromiseNext]_(Promise(o)!pvars)
    BY <1>2 DEF vars
  <1>4. Spec => Promise(o)!PromiseInit /\ [][Promise(o)!PromiseNext]_(Promise(o)!pvars)
    BY <1>1, <1>3, KeepsPromise, PTL DEF ImplementsPromise
  <1> QED BY <1>4 DEF Promise!PromiseSpec

=============================================================================
