------------------------------ MODULE TaskGroups ------------------------------
(***************************************************************************)
(* The groups of a plugin's task service: coroutines share a group by key  *)
(* for serial admissions, for marked activity, for waiting until there is  *)
(* none and for exclusive work; closing the service refuses the waiting    *)
(* and waits until every group is gone.                                    *)
(*                                                                         *)
(* Code: class Tasks and _Group of agent/plugin_composition/tasks.py.  The *)
(* event loop runs a coroutine from one await to the next, so a step is    *)
(* what a coroutine does between two of them.                              *)
(***************************************************************************)
EXTENDS Integers, Sequences, FiniteSets

CONSTANTS
  Keys,   \* the keys of groups
  Users,  \* coroutines that use the service
  NoKey   \* the key of a coroutine that uses no group

ASSUME GroupAssumption == IsFiniteSet(Users) /\ NoKey \notin Keys

VARIABLES
  groups,   \* _groups: the keys that have a group
  group,    \* the group of each key; Fresh where there is none
  user,     \* what each coroutine does
  closed,   \* _closed
  drained,  \* _groups_drained
  closer    \* Tasks.close: not begun, waiting for the groups, over

vars == <<groups, group, user, closed, drained, closer>>

-----------------------------------------------------------------------------
\* "idle" is wait_idle, "exclusive" and "polite" are exclusive() without and
\* with idle=True.
Ops == {"activity", "idle", "admit", "exclusive", "polite"}

\* A coroutine waits for a change of its group (`woken` when its event is set)
\* or for the admission lock, or it is inside.
User == [st : {"out", "waiting", "inside"}, op : Ops, key : Keys \union {NoKey}, woken : BOOLEAN]
Out == [st |-> "out", op |-> "activity", key |-> NoKey, woken |-> FALSE]

Group == [references : Nat, activity : Nat, exclusive : BOOLEAN,
          waiting : Seq(Users), admission : Seq(Users)]
Fresh == [references |-> 0, activity |-> 0, exclusive |-> FALSE,
          waiting |-> <<>>, admission |-> <<>>]

TypeOK ==
  /\ groups \subseteq Keys
  /\ group \in [Keys -> Group]
  /\ user \in [Users -> User]
  /\ closed \in BOOLEAN /\ drained \in BOOLEAN
  /\ closer \in {"none", "draining", "over"}

Init ==
  /\ groups = {}
  /\ group = [k \in Keys |-> Fresh]
  /\ user = [u \in Users |-> Out]
  /\ closed = FALSE /\ drained = TRUE
  /\ closer = "none"

-----------------------------------------------------------------------------
(* Helpers.                                                                *)

Polite(u) == user[u].op = "polite"

\* Seeded fault: a request only looks whether activity holds itself back.
EligibleAlone(g, u) == Polite(u) => g.activity = 0

\* The first request that activity does not hold back may have its turn.
Eligible(g, u) ==
  \E i \in DOMAIN g.waiting :
    /\ g.waiting[i] = u
    /\ Polite(u) => g.activity = 0
    /\ \A j \in 1..(i - 1) : Polite(g.waiting[j]) /\ g.activity # 0

\* list.remove: the first u goes, what follows it moves up.
Without(s, u) ==
  LET n == CHOOSE i \in DOMAIN s : s[i] = u /\ \A j \in 1..(i - 1) : s[j] # u
  IN [i \in 1..(Len(s) - 1) |-> IF i < n THEN s[i] ELSE s[i + 1]]

\* _Group.notify: the event everybody waits for is set and replaced.  `me` is
\* what becomes of the coroutine whose step this is.
Notified(k, u, me) ==
  [v \in Users |->
    IF v = u THEN me
    ELSE IF user[v].st = "waiting" /\ user[v].key = k /\ user[v].op # "admit"
         THEN [user[v] EXCEPT !.woken = TRUE]
         ELSE user[v]]

\* Seeded fault: whether a group is left is asked before this one is removed.
SetGroupSwapped(k, g) ==
  /\ group' = [group EXCEPT ![k] = IF g.references = 0 THEN Fresh ELSE g]
  /\ groups' = IF g.references = 0 THEN groups \ {k} ELSE groups
  /\ drained' = (drained \/ (g.references = 0 /\ groups = {}))

\* _release_group: the last reference removes the group, the last group tells
\* who closes the service.
SetGroup(k, g) ==
  /\ group' = [group EXCEPT ![k] = IF g.references = 0 THEN Fresh ELSE g]
  /\ groups' = IF g.references = 0 THEN groups \ {k} ELSE groups
  /\ drained' = (drained \/ (g.references = 0 /\ groups \subseteq {k}))

\* Seeded fault: only who creates a group is counted.
JoinedOnce(k) == [group[k] EXCEPT !.references = 1]

\* _group: nobody comes to a closed service.
Joined(k) == [group[k] EXCEPT !.references = @ + 1]
Join(k, g) ==
  /\ ~closed
  /\ group' = [group EXCEPT ![k] = g]
  /\ groups' = groups \union {k}
  /\ drained' = FALSE
  /\ UNCHANGED <<closed, closer>>

Doing(st, op, k) == [st |-> st, op |-> op, key |-> k, woken |-> FALSE]

\* Seeded fault: a reference is given back twice.
LeftTwice(g) == [g EXCEPT !.references = @ - 2]

Left(g) == [g EXCEPT !.references = @ - 1]

-----------------------------------------------------------------------------
(* activity.                                                               *)

ActivityEnter(u, k) ==
  /\ user[u].st = "out"
  /\ Join(k, [Joined(k) EXCEPT !.activity = @ + 1])
  /\ user' = Notified(k, u, Doing("inside", "activity", k))

\* Seeded fault: the end of an activity is not announced.
ActivityLeaveQuietly(u) ==
  /\ user[u].st = "inside" /\ user[u].op = "activity"
  /\ SetGroup(user[u].key, Left([group[user[u].key] EXCEPT !.activity = @ - 1]))
  /\ user' = [user EXCEPT ![u] = Out]
  /\ UNCHANGED <<closed, closer>>

ActivityLeave(u) ==
  /\ user[u].st = "inside" /\ user[u].op = "activity"
  /\ SetGroup(user[u].key, Left([group[user[u].key] EXCEPT !.activity = @ - 1]))
  /\ user' = Notified(user[u].key, u, Out)
  /\ UNCHANGED <<closed, closer>>

-----------------------------------------------------------------------------
(* wait_idle: it returns at once, without a trace, when there is no activity. *)

IdleEnter(u, k) ==
  /\ user[u].st = "out" /\ group[k].activity # 0
  /\ Join(k, Joined(k))
  /\ user' = [user EXCEPT ![u] = Doing("waiting", "idle", k)]

\* It is over, refused by a closed service, or waits for the next change.
IdleResume(u) ==
  LET k == user[u].key IN
    /\ user[u].st = "waiting" /\ user[u].op = "idle" /\ user[u].woken
    /\ IF closed \/ group[k].activity = 0
       THEN SetGroup(k, Left(group[k])) /\ user' = [user EXCEPT ![u] = Out]
       ELSE user' = [user EXCEPT ![u].woken = FALSE] /\ UNCHANGED <<groups, group, drained>>
    /\ UNCHANGED <<closed, closer>>

-----------------------------------------------------------------------------
(* exclusive.                                                              *)

\* The request is queued and looks at once whether it is its turn.
ExclusiveEnter(u, k, op) ==
  LET g == [Joined(k) EXCEPT !.waiting = Append(@, u)]
      turn == /\ ~group[k].exclusive
              /\ op = "polite" => g.activity = 0
              /\ \A j \in DOMAIN group[k].waiting :
                   Polite(group[k].waiting[j]) /\ g.activity # 0
  IN
    /\ user[u].st = "out" /\ op \in {"exclusive", "polite"}
    /\ Join(k, IF turn THEN [g EXCEPT !.exclusive = TRUE, !.waiting = Without(@, u)] ELSE g)
    /\ user' = [user EXCEPT ![u] = Doing(IF turn THEN "inside" ELSE "waiting", op, k)]

\* Seeded fault: a cancelled request is taken back and nobody is told.
WithdrawQuietly(u) ==
  LET k == user[u].key IN
    /\ SetGroup(k, Left([group[k] EXCEPT !.waiting = Without(@, u)]))
    /\ user' = [user EXCEPT ![u] = Out]

\* A request that does not get its turn is taken back and all look again.
Withdraw(u) ==
  LET k == user[u].key IN
    /\ SetGroup(k, Left([group[k] EXCEPT !.waiting = Without(@, u)]))
    /\ user' = Notified(k, u, Out)

Requesting(u) ==
  user[u].st = "waiting" /\ user[u].op \in {"exclusive", "polite"} /\ user[u].woken

\* Seeded fault: the turn is taken without asking whether the work is free.
TakeTurnAnyway(u) ==
  LET k == user[u].key IN
    /\ Requesting(u) /\ ~closed /\ Eligible(group[k], u)
    /\ group' = [group EXCEPT ![k].exclusive = TRUE, ![k].waiting = Without(@, u)]
    /\ user' = [user EXCEPT ![u].st = "inside", ![u].woken = FALSE]
    /\ UNCHANGED <<groups, drained, closed, closer>>

TakeTurn(u) ==
  LET k == user[u].key IN
    /\ Requesting(u) /\ ~closed
    /\ ~group[k].exclusive /\ Eligible(group[k], u)
    /\ group' = [group EXCEPT ![k].exclusive = TRUE, ![k].waiting = Without(@, u)]
    /\ user' = [user EXCEPT ![u].st = "inside", ![u].woken = FALSE]
    /\ UNCHANGED <<groups, drained, closed, closer>>

\* Not its turn: it waits for the next change, or is refused.
LookAgain(u) ==
  LET k == user[u].key IN
    /\ Requesting(u)
    /\ \/ closed /\ Withdraw(u)
       \/ /\ ~closed /\ (group[k].exclusive \/ ~Eligible(group[k], u))
          /\ user' = [user EXCEPT ![u].woken = FALSE]
          /\ UNCHANGED <<groups, group, drained>>
    /\ UNCHANGED <<closed, closer>>

ExclusiveLeave(u) ==
  LET k == user[u].key IN
    /\ user[u].st = "inside" /\ user[u].op \in {"exclusive", "polite"}
    /\ SetGroup(k, Left([group[k] EXCEPT !.exclusive = FALSE]))
    /\ user' = Notified(k, u, Out)
    /\ UNCHANGED <<closed, closer>>

-----------------------------------------------------------------------------
(* admit: the admission lock serves its waiters in order.                   *)

AdmitEnter(u, k) ==
  /\ user[u].st = "out"
  /\ Join(k, [Joined(k) EXCEPT !.admission = Append(@, u)])
  /\ user' = [user EXCEPT ![u] = Doing("waiting", "admit", k)]

LeaveAdmission(u) ==
  LET k == user[u].key IN
    /\ SetGroup(k, Left([group[k] EXCEPT !.admission = Without(@, u)]))
    /\ user' = [user EXCEPT ![u] = Out]

\* The callback runs, unless the service was closed meanwhile.
AdmitBegin(u) ==
  /\ user[u].st = "waiting" /\ user[u].op = "admit"
  /\ Head(group[user[u].key].admission) = u
  /\ IF closed THEN LeaveAdmission(u)
     ELSE user' = [user EXCEPT ![u].st = "inside"] /\ UNCHANGED <<groups, group, drained>>
  /\ UNCHANGED <<closed, closer>>

AdmitLeave(u) ==
  /\ user[u].st = "inside" /\ user[u].op = "admit"
  /\ LeaveAdmission(u)
  /\ UNCHANGED <<closed, closer>>

-----------------------------------------------------------------------------
\* Whoever waits may be cancelled, before or after it was woken.
Cancel(u) ==
  /\ user[u].st = "waiting"
  /\ \/ user[u].op \in {"exclusive", "polite"} /\ Withdraw(u)
     \/ user[u].op = "admit" /\ LeaveAdmission(u)
     \/ /\ user[u].op = "idle"
        /\ SetGroup(user[u].key, Left(group[user[u].key]))
        /\ user' = [user EXCEPT ![u] = Out]
  /\ UNCHANGED <<closed, closer>>

\* close: everybody who waits for a change is woken to be refused.
CloseBegin ==
  /\ ~closed
  /\ closed' = TRUE /\ closer' = "draining"
  /\ user' = [v \in Users |-> IF user[v].st = "waiting" /\ user[v].op # "admit"
                              THEN [user[v] EXCEPT !.woken = TRUE] ELSE user[v]]
  /\ UNCHANGED <<groups, group, drained>>

CloseEnd ==
  /\ closer = "draining" /\ drained
  /\ closer' = "over"
  /\ UNCHANGED <<groups, group, user, closed, drained>>

-----------------------------------------------------------------------------
Enter(u) ==
  \E k \in Keys :
    \/ ActivityEnter(u, k) \/ IdleEnter(u, k) \/ AdmitEnter(u, k)
    \/ \E op \in {"exclusive", "polite"} : ExclusiveEnter(u, k, op)
Resume(u) == IdleResume(u) \/ TakeTurn(u) \/ LookAgain(u) \/ AdmitBegin(u)
Leave(u) == ActivityLeave(u) \/ ExclusiveLeave(u) \/ AdmitLeave(u)
UserStep(u) == Enter(u) \/ Resume(u) \/ Leave(u) \/ Cancel(u)
Close == CloseBegin \/ CloseEnd

Next == (\E u \in Users : UserStep(u)) \/ Close

Spec == Init /\ [][Next]_vars

-----------------------------------------------------------------------------
(* Safety.                                                                 *)

In(u, k, ops) == user[u].st = "inside" /\ user[u].key = k /\ user[u].op \in ops

\* Exclusive work of a key is done by one coroutine at a time, and so are its
\* admissions (Tasks.exclusive, Tasks._admit).
Exclusion ==
  \A k \in Keys, u, v \in Users : u # v =>
    /\ ~(In(u, k, {"exclusive", "polite"}) /\ In(v, k, {"exclusive", "polite"}))
    /\ ~(In(u, k, {"admit"}) /\ In(v, k, {"admit"}))

\* The counts of a group are those of the coroutines that use it, so that a
\* group is never replaced under somebody (_group, _release_group).
GroupIsItsUsers ==
  \A k \in Keys :
    /\ group[k].references = Cardinality({u \in Users : user[u].key = k})
    /\ group[k].activity = Cardinality({u \in Users : In(u, k, {"activity"})})
    /\ group[k].exclusive <=> \E u \in Users : In(u, k, {"exclusive", "polite"})

\* Nobody sleeps over its turn: whoever could go on has been woken, so that a
\* change between a look and the wait is never lost (notify).
NobodySleepsOverTurn ==
  \A u \in Users :
    (user[u].st = "waiting" /\ ~user[u].woken) =>
      LET g == group[user[u].key] IN
        /\ user[u].op = "idle" => ~closed /\ g.activity # 0
        /\ user[u].op \in {"exclusive", "polite"} =>
             ~closed /\ (g.exclusive \/ ~Eligible(g, u))

\* When close returns nobody uses the service any more (Tasks.close).
AllOut == \A u \in Users : user[u].st = "out"
ClosedIsEmpty == closer = "over" => AllOut

\* A request that activity cannot hold back is not overtaken by a later one
\* ("FIFO", Tasks.exclusive).
NotOvertaken ==
  [][\A u, v \in Users :
       (/\ user[u].st = "waiting" /\ user[u].op = "exclusive"
        /\ user'[v].st = "inside" /\ user[v].st # "inside"
        /\ user'[v].op \in {"exclusive", "polite"} /\ user'[v].key = user[u].key)
       => \E i, j \in DOMAIN group[user[u].key].waiting :
            i <= j /\ group[user[u].key].waiting[i] = v /\ group[user[u].key].waiting[j] = u
    ]_vars

-----------------------------------------------------------------------------
(* Liveness: the loop runs who is ready, and work ends.  Whom one event      *)
(* wakes the loop runs one after the other with nobody in between, so a turn *)
(* that is offered again and again is taken.                                 *)

Fairness ==
  /\ \A u \in Users : WF_vars(Resume(u)) /\ WF_vars(Leave(u)) /\ SF_vars(TakeTurn(u))
  /\ WF_vars(CloseEnd)

FairSpec == Spec /\ Fairness

\* An exclusive request that does not wait for idleness gets its turn, unless it
\* is cancelled or refused.
ExclusiveServed ==
  \A u \in Users :
    (user[u].st = "waiting" /\ user[u].op = "exclusive") ~> user[u].st # "waiting"

\* close returns, and from then on nobody uses the service (Tasks.close).
CloseReturns == closer = "draining" ~> [](closer = "over" /\ AllOut)

=============================================================================
