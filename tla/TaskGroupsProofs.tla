--------------------------- MODULE TaskGroupsProofs ---------------------------
(***************************************************************************)
(* Theorems about TaskGroups, for any number of keys and coroutines.       *)
(*                                                                         *)
(* The counts of a group decide when it is dropped and made anew, so that  *)
(* exclusion rests on the counts, the counts on who may join and leave,    *)
(* and the queues on who is queued: one inductive invariant, stated for    *)
(* one key at a time, because a step changes one group.                    *)
(***************************************************************************)
EXTENDS TaskGroups, FiniteSetTheorems, TLAPS

-----------------------------------------------------------------------------
(* The inductive invariant.                                                *)

\* The coroutines of `us` that use key k, and those inside with one of `ops`.
Members(us, k) == {u \in Users : us[u].key = k}
Inside(us, k, ops) == {u \in Users : us[u].st = "inside" /\ us[u].key = k /\ us[u].op \in ops}

Exclusively == {"exclusive", "polite"}

\* A queue has each of its members once.
Queue(q, members) ==
  /\ q \in Seq(Users)
  /\ \A i, j \in DOMAIN q : q[i] = q[j] => i = j
  /\ \A u \in Users : u \in members <=> \E i \in DOMAIN q : q[i] = u

\* Who waits for exclusive work of key k, and who waits for or holds its
\* admission lock.
Requesters(us, k) ==
  {u \in Users : us[u].st = "waiting" /\ us[u].key = k /\ us[u].op \in Exclusively}
Admitters(us, k) == {u \in Users : us[u].st # "out" /\ us[u].key = k /\ us[u].op = "admit"}

\* What a group says of the coroutines that use it.
CountInv(g, us, k) ==
  /\ g.references = Cardinality(Members(us, k))
  /\ g.activity = Cardinality(Inside(us, k, {"activity"}))

ExclusiveInv(g, us, k) ==
  /\ g.exclusive <=> Inside(us, k, Exclusively) # {}
  /\ \A u, v \in Inside(us, k, Exclusively) : u = v

WaitingInv(g, us, k) == Queue(g.waiting, Requesters(us, k))

AdmissionInv(g, us, k) ==
  /\ Queue(g.admission, Admitters(us, k))
  /\ \A u \in Inside(us, k, {"admit"}) : g.admission[1] = u

KeyInv(g, us, k) ==
  /\ g \in Group
  /\ CountInv(g, us, k)
  /\ ExclusiveInv(g, us, k)
  /\ WaitingInv(g, us, k)
  /\ AdmissionInv(g, us, k)

\* A coroutine uses a key exactly while it is not outside.
UserInv ==
  /\ user \in [Users -> User]
  /\ \A u \in Users : user[u].st = "out" <=> user[u].key = NoKey
  /\ \A u \in Users : user[u].st = "waiting" => user[u].op # "activity"
  /\ \A u \in Users : user[u].st = "inside" => user[u].op # "idle"

\* The groups that exist are those somebody uses.
TableInv ==
  /\ group \in [Keys -> Group]
  /\ groups \subseteq Keys
  /\ closed \in BOOLEAN /\ drained \in BOOLEAN
  /\ closer \in {"none", "draining", "over"}
  /\ \A k \in Keys : k \in groups <=> group[k].references # 0
  /\ drained <=> groups = {}
  /\ closer # "none" => closed
  /\ closer = "over" => groups = {}

\* What NobodySleepsOverTurn says of one coroutine.
Sleeps(us, v) == us[v].st = "waiting" /\ ~us[v].woken

SleepsRightly(v) ==
  Sleeps(user, v) =>
    LET g == group[user[v].key] IN
      /\ user[v].op = "idle" => ~closed /\ g.activity # 0
      /\ user[v].op \in {"exclusive", "polite"} =>
           ~closed /\ (g.exclusive \/ ~Eligible(g, v))

Inv ==
  /\ UserInv
  /\ TableInv
  /\ \A k \in Keys : KeyInv(group[k], user, k)
  /\ \A v \in Users : SleepsRightly(v)

-----------------------------------------------------------------------------
(* Counting.                                                               *)

One(u, S) == IF u \in S THEN 1 ELSE 0

LEMMA SubsetCount == ASSUME NEW S \in SUBSET Users PROVE IsFiniteSet(S) /\ Cardinality(S) \in Nat
BY GroupAssumption, FS_Subset, FS_CardinalityType

\* A set that changes at most at u counts one more or one less.
LEMMA CountStep ==
  ASSUME NEW S \in SUBSET Users, NEW T \in SUBSET Users, NEW u,
         \A v : v # u => (v \in S <=> v \in T)
  PROVE  /\ Cardinality(S) \in Nat /\ Cardinality(T) \in Nat
         /\ Cardinality(T) = Cardinality(S) + One(u, T) - One(u, S)
<1>1. IsFiniteSet(S) /\ Cardinality(S) \in Nat /\ Cardinality(T) \in Nat BY SubsetCount
<1>2. CASE u \in T /\ u \notin S
  <2>1. T = S \cup {u} BY <1>2
  <2>2. Cardinality(T) = Cardinality(S) + 1 BY <1>1, <1>2, <2>1, FS_AddElement
  <2> QED BY <1>1, <1>2, <2>2 DEF One
<1>3. CASE u \notin T /\ u \in S
  <2>1. T = S \ {u} BY <1>3
  <2>2. Cardinality(T) = Cardinality(S) - 1 BY <1>1, <1>3, <2>1, FS_RemoveElement
  <2> QED BY <1>1, <1>3, <2>2 DEF One
<1>4. CASE u \in T <=> u \in S
  <2>1. T = S BY <1>4
  <2> QED BY <1>1, <2>1 DEF One
<1> QED BY <1>2, <1>3, <1>4

-----------------------------------------------------------------------------
(* Queues.                                                                 *)

LEMMA QueueAppend ==
  ASSUME NEW q, NEW M, NEW u \in Users, Queue(q, M), u \notin M
  PROVE  Queue(Append(q, u), M \cup {u})
<1>1. q \in Seq(Users) /\ Append(q, u) \in Seq(Users) /\ Len(Append(q, u)) = Len(q) + 1
  BY DEF Queue
<1>2. DOMAIN Append(q, u) = 1..(Len(q) + 1) /\ DOMAIN q = 1..Len(q) /\ Len(q) \in Nat BY <1>1
<1>3. \A i \in 1..Len(q) : Append(q, u)[i] = q[i] BY <1>1
<1>4. Append(q, u)[Len(q) + 1] = u BY <1>1
<1>5. \A i \in DOMAIN q : q[i] # u BY DEF Queue
<1>6. \A i, j \in DOMAIN Append(q, u) : Append(q, u)[i] = Append(q, u)[j] => i = j
  BY <1>2, <1>3, <1>4, <1>5 DEF Queue
<1>7. ASSUME NEW v \in Users
      PROVE  v \in M \cup {u} <=> \E i \in DOMAIN Append(q, u) : Append(q, u)[i] = v
  BY <1>2, <1>3, <1>4 DEF Queue
<1> QED BY <1>1, <1>6, <1>7 DEF Queue

\* What remains when a member is taken out of a queue.
LEMMA QueueWithout ==
  ASSUME NEW q, NEW M, NEW u \in M, M \subseteq Users, Queue(q, M)
  PROVE  /\ Queue(Without(q, u), M \ {u})
         /\ q[1] # u => Without(q, u)[1] = q[1]
<1> DEFINE n == CHOOSE i \in DOMAIN q : q[i] = u /\ \A j \in 1..(i - 1) : q[j] # u
           w == [i \in 1..(Len(q) - 1) |-> IF i < n THEN q[i] ELSE q[i + 1]]
<1>1. q \in Seq(Users) /\ Len(q) \in Nat /\ DOMAIN q = 1..Len(q) BY DEF Queue
<1>2. PICK p \in 1..Len(q) : q[p] = u BY <1>1 DEF Queue
<1>3. \A j \in 1..(p - 1) : q[j] # u BY <1>1, <1>2 DEF Queue
<1>4. n \in 1..Len(q) /\ q[n] = u BY <1>1, <1>2, <1>3
<1>5. Without(q, u) = w BY DEF Without
<1> HIDE DEF n
<1>6. w \in Seq(Users) /\ Len(w) = Len(q) - 1 /\ DOMAIN w = 1..(Len(q) - 1)
  <2>1. Len(q) - 1 \in Nat BY <1>1, <1>4
  <2>2. \A i \in 1..(Len(q) - 1) : q[i] \in Users /\ q[i + 1] \in Users BY <1>1
  <2> QED BY <1>4, <2>1, <2>2
<1>7. \A i, j \in DOMAIN w : w[i] = w[j] => i = j
  <2>1. \A i, j \in 1..Len(q) : q[i] = q[j] => i = j BY <1>1 DEF Queue
  <2> QED BY <1>1, <1>4, <1>6, <2>1
<1>8. ASSUME NEW v \in Users PROVE v \in M \ {u} <=> \E i \in DOMAIN w : w[i] = v
  <2>1. ASSUME v \in M, v # u PROVE \E i \in DOMAIN w : w[i] = v
    <3>1. PICK i \in 1..Len(q) : q[i] = v BY <1>1, <2>1 DEF Queue
    <3>2. i # n BY <1>4, <2>1, <3>1
    <3>3. CASE i < n
      <4>1. i \in DOMAIN w /\ w[i] = v BY <1>1, <1>4, <1>6, <3>1, <3>3
      <4> QED BY <4>1
    <3>4. CASE i > n
      <4>1. i - 1 \in DOMAIN w /\ w[i - 1] = v BY <1>1, <1>4, <1>6, <3>1, <3>4
      <4> QED BY <4>1
    <3> QED BY <1>4, <3>2, <3>3, <3>4
  <2>2. ASSUME NEW i \in DOMAIN w, w[i] = v PROVE v \in M /\ v # u
    <3>1. PICK j \in 1..Len(q) : j # n /\ q[j] = v BY <1>1, <1>4, <1>6, <2>2
    <3> QED BY <1>1, <1>4, <3>1 DEF Queue
  <2> QED BY <2>1, <2>2
<1>9. Queue(w, M \ {u}) BY <1>6, <1>7, <1>8 DEF Queue
<1>10. ASSUME q[1] # u PROVE w[1] = q[1]
  <2>1. n # 1 /\ 1 \in 1..(Len(q) - 1) BY <1>1, <1>4, <1>10
  <2> QED BY <1>4, <2>1
<1> QED BY <1>5, <1>9, <1>10

LEMMA QueueLess ==
  ASSUME NEW q, NEW u, NEW M, M \subseteq Users, u \in M, Queue(q, M)
  PROVE  Without(q, u) \in Seq(Users)
BY QueueWithout DEF Queue

\* A request that is served at once leaves the queue as it was.
LEMMA AppendWithout ==
  ASSUME NEW q, NEW M, NEW u \in Users, Queue(q, M), u \notin M
  PROVE  Without(Append(q, u), u) = q
<1> DEFINE a == Append(q, u)
           n == CHOOSE i \in DOMAIN a : a[i] = u /\ \A j \in 1..(i - 1) : a[j] # u
<1>1. q \in Seq(Users) /\ Len(q) \in Nat /\ DOMAIN q = 1..Len(q) BY DEF Queue
<1>2. Len(a) = Len(q) + 1 /\ DOMAIN a = 1..(Len(q) + 1) /\ a[Len(q) + 1] = u
      /\ \A i \in 1..Len(q) : a[i] = q[i]
  BY <1>1
<1>3. \A i \in 1..Len(q) : a[i] # u BY <1>1, <1>2 DEF Queue
<1>4. Len(q) + 1 \in DOMAIN a /\ \A j \in 1..(Len(q) + 1 - 1) : a[j] # u BY <1>1, <1>2, <1>3
<1>5. n \in DOMAIN a /\ a[n] = u BY <1>2, <1>4
<1>6. n = Len(q) + 1 BY <1>1, <1>2, <1>3, <1>5
<1>7. Without(a, u) = [i \in 1..(Len(a) - 1) |-> IF i < n THEN a[i] ELSE a[i + 1]]
  BY DEF Without
<1>8. Without(a, u) = [i \in 1..Len(q) |-> q[i]]
  <2>1. \A i \in 1..Len(q) : (IF i < n THEN a[i] ELSE a[i + 1]) = q[i]
    <3> HIDE DEF a, n
    <3> QED BY <1>1, <1>2, <1>6
  <2>2. Len(a) - 1 = Len(q) BY <1>1, <1>2
  <2> HIDE DEF a, n
  <2> QED BY <1>7, <2>1, <2>2
<1> QED BY <1>1, <1>8

-----------------------------------------------------------------------------
(* One key, when one coroutine changes what it does.                       *)

\* Nobody but u does anything else than before; it may have been woken.
Others(us, us2, u) ==
  \A v \in Users : v # u => /\ us2[v].st = us[v].st
                            /\ us2[v].op = us[v].op
                            /\ us2[v].key = us[v].key

LEMMA OthersStay ==
  ASSUME NEW us, NEW us2, NEW u, Others(us, us2, u), NEW k, NEW v, v # u
  PROVE  /\ v \in Members(us2, k) <=> v \in Members(us, k)
         /\ v \in Inside(us2, k, {"activity"}) <=> v \in Inside(us, k, {"activity"})
         /\ v \in Inside(us2, k, Exclusively) <=> v \in Inside(us, k, Exclusively)
         /\ v \in Inside(us2, k, {"admit"}) <=> v \in Inside(us, k, {"admit"})
         /\ v \in Requesters(us2, k) <=> v \in Requesters(us, k)
         /\ v \in Admitters(us2, k) <=> v \in Admitters(us, k)
<1>1. v \in Users => us2[v].st = us[v].st /\ us2[v].op = us[v].op /\ us2[v].key = us[v].key
  BY DEF Others
<1> QED BY <1>1 DEF Members, Inside, Requesters, Admitters

\* A key is not concerned by coroutines that do not use it.
LEMMA KeyFrame ==
  ASSUME NEW g, NEW us, NEW us2, NEW k, KeyInv(g, us, k),
         \A v \in Users : us[v].key = k \/ us2[v].key = k =>
           us2[v].st = us[v].st /\ us2[v].op = us[v].op /\ us2[v].key = us[v].key
  PROVE  KeyInv(g, us2, k)
<1>1. Members(us2, k) = Members(us, k) BY DEF Members
<1>2. \A ops : Inside(us2, k, ops) = Inside(us, k, ops) BY DEF Inside
<1>3. Requesters(us2, k) = Requesters(us, k) BY DEF Requesters
<1>4. Admitters(us2, k) = Admitters(us, k) BY DEF Admitters
<1> QED
  BY <1>1, <1>2, <1>3, <1>4 DEF KeyInv, CountInv, ExclusiveInv, WaitingInv, AdmissionInv

\* A group without references is as good as a new one.
LEMMA KeyFresh ==
  ASSUME NEW g, NEW us, NEW k, KeyInv(g, us, k), g.references = 0
  PROVE  KeyInv(Fresh, us, k)
<1>1. Members(us, k) \in SUBSET Users BY DEF Members
<1>2. Members(us, k) = {}
  BY <1>1, SubsetCount, FS_EmptySet DEF KeyInv, CountInv
<1>3. \A ops : Inside(us, k, ops) = {} BY <1>2 DEF Members, Inside
<1>4. Requesters(us, k) = {} /\ Admitters(us, k) = {}
  BY <1>2 DEF Members, Requesters, Admitters
<1>5. Queue(<<>>, {}) BY DEF Queue
<1>6. Fresh \in Group BY DEF Fresh, Group
<1>7. Cardinality({}) = 0 BY FS_EmptySet
<1> QED
  BY <1>2, <1>3, <1>4, <1>5, <1>6, <1>7
  DEF KeyInv, CountInv, ExclusiveInv, WaitingInv, AdmissionInv, Fresh

\* The counts follow who comes and who goes.
LEMMA CountsFollow ==
  ASSUME NEW g, NEW g2, NEW us, NEW us2, NEW u, NEW k, CountInv(g, us, k), Others(us, us2, u),
         g2.references = g.references + One(u, Members(us2, k)) - One(u, Members(us, k)),
         g2.activity = g.activity + One(u, Inside(us2, k, {"activity"}))
                                  - One(u, Inside(us, k, {"activity"}))
  PROVE  CountInv(g2, us2, k) /\ g2.references \in Nat /\ g2.activity \in Nat
<1>1. \A v : v # u => (v \in Members(us, k) <=> v \in Members(us2, k)) BY OthersStay
<1>2. \A v : v # u => (v \in Inside(us, k, {"activity"}) <=> v \in Inside(us2, k, {"activity"}))
  BY OthersStay
<1>3. /\ Members(us, k) \in SUBSET Users /\ Members(us2, k) \in SUBSET Users
      /\ Inside(us, k, {"activity"}) \in SUBSET Users
      /\ Inside(us2, k, {"activity"}) \in SUBSET Users
  BY DEF Members, Inside
<1>4. /\ Cardinality(Members(us2, k)) \in Nat
      /\ Cardinality(Members(us2, k)) =
           g.references + One(u, Members(us2, k)) - One(u, Members(us, k))
  BY <1>1, <1>3, CountStep DEF CountInv
<1>5. /\ Cardinality(Inside(us2, k, {"activity"})) \in Nat
      /\ Cardinality(Inside(us2, k, {"activity"})) =
           g.activity + One(u, Inside(us2, k, {"activity"})) - One(u, Inside(us, k, {"activity"}))
  BY <1>2, <1>3, CountStep DEF CountInv
<1> QED BY <1>4, <1>5 DEF CountInv

\* Exclusive work is not touched, begins, ends.
LEMMA ExclusiveFollows ==
  ASSUME NEW g, NEW g2, NEW us, NEW us2, NEW u, NEW k, ExclusiveInv(g, us, k), Others(us, us2, u),
         g.exclusive \in BOOLEAN,
         \/ /\ u \notin Inside(us, k, Exclusively) /\ u \notin Inside(us2, k, Exclusively)
            /\ g2.exclusive = g.exclusive
         \/ ~g.exclusive /\ u \in Inside(us2, k, Exclusively) /\ g2.exclusive = TRUE
         \/ /\ u \in Inside(us, k, Exclusively) /\ u \notin Inside(us2, k, Exclusively)
            /\ g2.exclusive = FALSE
  PROVE  ExclusiveInv(g2, us2, k) /\ g2.exclusive \in BOOLEAN
<1>1. \A v : v # u => (v \in Inside(us2, k, Exclusively) <=> v \in Inside(us, k, Exclusively))
  BY OthersStay
<1> QED BY <1>1 DEF ExclusiveInv

\* The queue of requests is not touched, gets a member, loses one.
LEMMA WaitingFollows ==
  ASSUME NEW g, NEW g2, NEW us, NEW us2, NEW u \in Users, NEW k, WaitingInv(g, us, k),
         Others(us, us2, u),
         \/ /\ u \notin Requesters(us, k) /\ u \notin Requesters(us2, k)
            /\ g2.waiting = g.waiting
         \/ /\ u \notin Requesters(us, k) /\ u \in Requesters(us2, k)
            /\ g2.waiting = Append(g.waiting, u)
         \/ /\ u \in Requesters(us, k) /\ u \notin Requesters(us2, k)
            /\ g2.waiting = Without(g.waiting, u)
  PROVE  WaitingInv(g2, us2, k) /\ g2.waiting \in Seq(Users)
<1>1. \A v : v # u => (v \in Requesters(us2, k) <=> v \in Requesters(us, k)) BY OthersStay
<1>2. Requesters(us, k) \subseteq Users BY DEF Requesters
<1>3. CASE u \notin Requesters(us, k) /\ u \notin Requesters(us2, k) /\ g2.waiting = g.waiting
  <2>1. Requesters(us2, k) = Requesters(us, k)
    <3>1. \A v : v \in Requesters(us2, k) <=> v \in Requesters(us, k) BY <1>1, <1>3
    <3> QED BY <3>1
  <2> QED BY <1>3, <2>1 DEF WaitingInv, Queue
<1>4. CASE /\ u \notin Requesters(us, k) /\ u \in Requesters(us2, k)
           /\ g2.waiting = Append(g.waiting, u)
  <2>1. Requesters(us2, k) = Requesters(us, k) \cup {u} BY <1>1, <1>4
  <2>2. Queue(g2.waiting, Requesters(us2, k)) BY <1>4, <2>1, QueueAppend DEF WaitingInv
  <2> QED BY <2>2 DEF WaitingInv, Queue
<1>5. CASE /\ u \in Requesters(us, k) /\ u \notin Requesters(us2, k)
           /\ g2.waiting = Without(g.waiting, u)
  <2>1. Requesters(us2, k) = Requesters(us, k) \ {u} BY <1>1, <1>5
  <2>2. Queue(g2.waiting, Requesters(us2, k))
    BY <1>2, <1>5, <2>1, QueueWithout DEF WaitingInv
  <2> QED BY <2>2 DEF WaitingInv, Queue
<1> QED BY <1>3, <1>4, <1>5

\* So is the queue of the admission lock, whose first may be inside.
LEMMA AdmissionFollows ==
  ASSUME NEW g, NEW g2, NEW us, NEW us2, NEW u \in Users, NEW k, AdmissionInv(g, us, k),
         Others(us, us2, u),
         \/ /\ u \notin Admitters(us, k) /\ u \notin Admitters(us2, k)
            /\ g2.admission = g.admission
         \/ /\ u \in Admitters(us, k) /\ u \in Admitters(us2, k)
            /\ g2.admission = g.admission /\ g.admission[1] = u
         \/ /\ u \notin Admitters(us, k) /\ u \in Admitters(us2, k)
            /\ u \notin Inside(us2, k, {"admit"})
            /\ g2.admission = Append(g.admission, u)
         \/ /\ u \in Admitters(us, k) /\ u \notin Admitters(us2, k)
            /\ g2.admission = Without(g.admission, u)
  PROVE  AdmissionInv(g2, us2, k) /\ g2.admission \in Seq(Users)
<1>1. \A v : v # u => (v \in Admitters(us2, k) <=> v \in Admitters(us, k)) BY OthersStay
<1>2. \A v : v # u => (v \in Inside(us2, k, {"admit"}) <=> v \in Inside(us, k, {"admit"}))
  BY OthersStay
<1>3. /\ Admitters(us, k) \subseteq Users
      /\ Inside(us, k, {"admit"}) \subseteq Admitters(us, k)
      /\ Inside(us2, k, {"admit"}) \subseteq Admitters(us2, k)
  BY DEF Admitters, Inside
<1>4. CASE /\ u \notin Admitters(us, k) /\ u \notin Admitters(us2, k)
           /\ g2.admission = g.admission
  <2>1. Admitters(us2, k) = Admitters(us, k) BY <1>1, <1>4
  <2> QED BY <1>2, <1>3, <1>4, <2>1 DEF AdmissionInv, Queue
<1>5. CASE /\ u \in Admitters(us, k) /\ u \in Admitters(us2, k)
           /\ g2.admission = g.admission /\ g.admission[1] = u
  <2>1. Admitters(us2, k) = Admitters(us, k) BY <1>1, <1>5
  <2> QED BY <1>2, <1>5, <2>1 DEF AdmissionInv, Queue
<1>6. CASE /\ u \notin Admitters(us, k) /\ u \in Admitters(us2, k)
           /\ u \notin Inside(us2, k, {"admit"}) /\ g2.admission = Append(g.admission, u)
  <2>1. Admitters(us2, k) = Admitters(us, k) \cup {u} BY <1>1, <1>6
  <2>2. Queue(g2.admission, Admitters(us2, k)) BY <1>6, <2>1, QueueAppend DEF AdmissionInv
  <2>3. ASSUME NEW v \in Inside(us2, k, {"admit"}) PROVE g2.admission[1] = v
    <3>1. v \in Inside(us, k, {"admit"}) /\ v \in Admitters(us, k) /\ v \in Users
      BY <1>2, <1>3, <1>6, <2>3
    <3>2. g.admission[1] = v /\ \E i \in DOMAIN g.admission : g.admission[i] = v
      BY <3>1 DEF AdmissionInv, Queue
    <3>3. g.admission \in Seq(Users) BY DEF AdmissionInv, Queue
    <3> QED BY <1>6, <3>2, <3>3
  <2> QED BY <2>2, <2>3 DEF AdmissionInv, Queue
<1>7. CASE /\ u \in Admitters(us, k) /\ u \notin Admitters(us2, k)
           /\ g2.admission = Without(g.admission, u)
  <2>1. Admitters(us2, k) = Admitters(us, k) \ {u} BY <1>1, <1>7
  <2>2. /\ Queue(g2.admission, Admitters(us2, k))
        /\ g.admission[1] # u => g2.admission[1] = g.admission[1]
    BY <1>3, <1>7, <2>1, QueueWithout DEF AdmissionInv
  <2>3. ASSUME NEW v \in Inside(us2, k, {"admit"}) PROVE v # u /\ g.admission[1] = v
    BY <1>2, <1>3, <1>7, <2>3 DEF AdmissionInv
  <2> QED BY <2>2, <2>3 DEF AdmissionInv, Queue
<1> QED BY <1>4, <1>5, <1>6, <1>7

-----------------------------------------------------------------------------
(* The rest of the invariant, when one coroutine joins, leaves or stays.   *)

\* Who sleeps and is not concerned by a step sleeps rightly after it.
Undisturbed(v) ==
  /\ user'[v] = user[v] /\ closed' = closed
  /\ group'[user[v].key].activity = group[user[v].key].activity
  /\ group'[user[v].key].exclusive = group[user[v].key].exclusive
  /\ group'[user[v].key].waiting = group[user[v].key].waiting

\* The conjunct of Inv is the property.
LEMMA SleepersAreAll == NobodySleepsOverTurn <=> \A v \in Users : SleepsRightly(v)
BY DEF NobodySleepsOverTurn, SleepsRightly, Sleeps

\* The operation of whoever is queued stays what it was.
LEMMA UndisturbedSleeps ==
  ASSUME UserInv, \A k \in Keys : KeyInv(group[k], user, k), NEW u \in Users, NEW v \in Users,
         Others(user, user', u), Undisturbed(v), SleepsRightly(v),
         user[v].op \in Exclusively => u \notin Requesters(user, user[v].key)
  PROVE  SleepsRightly(v)'
<1> SUFFICES ASSUME Sleeps(user, v) PROVE SleepsRightly(v)'
  BY DEF SleepsRightly, Sleeps, Undisturbed
<1>1. CASE user[v].op \notin Exclusively
  BY <1>1 DEF SleepsRightly, Sleeps, Undisturbed, Exclusively
<1>2. CASE user[v].op \in Exclusively
  <2> DEFINE k == user[v].key
             q == group[k].waiting
  <2>1. k \in Keys BY DEF UserInv, User, Sleeps
  <2>2. q \in Seq(Users) /\ v \in Requesters(user, k)
        /\ \A i \in DOMAIN q : q[i] \in Requesters(user, k)
    BY <1>2, <2>1 DEF KeyInv, WaitingInv, Queue, Requesters, Sleeps
  <2>3. \A i \in DOMAIN q : user'[q[i]].op = user[q[i]].op
    <3>1. \A i \in DOMAIN q : q[i] # u /\ q[i] \in Users BY <1>2, <2>2 DEF Requesters
    <3> QED BY <3>1 DEF Others
  <2>4. Eligible(group[k], v)' <=> Eligible(group[k], v)
    <3>1. \A i \in DOMAIN q : \A j \in 1..(i - 1) : j \in DOMAIN q BY <2>2
    <3>2. user'[v].op = user[v].op BY DEF Undisturbed
    <3>3. k' = k /\ (group[k].waiting)' = q /\ (group[k].activity)' = group[k].activity
      BY DEF Undisturbed
    <3> DEFINE a == group[k].activity
               Turn(us) == \E i \in DOMAIN q :
                             /\ q[i] = v
                             /\ us[v].op = "polite" => a = 0
                             /\ \A j \in 1..(i - 1) : us[q[j]].op = "polite" /\ a # 0
    <3>4. Eligible(group[k], v) <=> Turn(user) BY DEF Eligible, Polite
    <3>5. Eligible(group[k], v)' <=> Turn(user') BY <3>3 DEF Eligible, Polite
    <3>6. ASSUME NEW i \in DOMAIN q
          PROVE  (\A j \in 1..(i - 1) : user'[q[j]].op = "polite" /\ a # 0)
                   <=> (\A j \in 1..(i - 1) : user[q[j]].op = "polite" /\ a # 0)
      BY <2>3, <3>1, <3>6
    <3> HIDE DEF a, q, k
    <3>7. Turn(user') <=> Turn(user) BY <3>2, <3>6
    <3> QED BY <3>4, <3>5, <3>7
  <2>5. user'[v].key = k /\ group'[k].exclusive = group[k].exclusive BY DEF Undisturbed
  <2> QED BY <1>2, <2>4, <2>5 DEF SleepsRightly, Sleeps, Undisturbed, Exclusively
<1> QED BY <1>1, <1>2

\* What a coroutine may do.
Proper(me) ==
  /\ me \in User
  /\ me.st = "out" <=> me.key = NoKey
  /\ me.st = "waiting" => me.op # "activity"
  /\ me.st = "inside" => me.op # "idle"

LEMMA ChangedUsers ==
  ASSUME UserInv, NEW u \in Users, NEW me, Proper(me), user' = [user EXCEPT ![u] = me]
  PROVE  /\ UserInv' /\ Others(user, user', u) /\ user'[u] = me
         /\ \A v \in Users : v # u => user'[v] = user[v]
BY DEF UserInv, Proper, Others

\* After an announcement nobody sleeps at its key.
LEMMA NotifiedUsers ==
  ASSUME UserInv, NEW u \in Users, NEW k, NEW me, Proper(me), user' = Notified(k, u, me)
  PROVE  /\ UserInv' /\ Others(user, user', u) /\ user'[u] = me
         /\ \A v \in Users : v # u /\ user[v].key # k => user'[v] = user[v]
         /\ \A v \in Users : v # u /\ user[v].key = k => SleepsRightly(v)'
<1>1. \A v \in Users : v # u =>
        user'[v] = IF user[v].st = "waiting" /\ user[v].key = k /\ user[v].op # "admit"
                   THEN [user[v] EXCEPT !.woken = TRUE] ELSE user[v]
  BY DEF Notified
<1>2. user'[u] = me BY DEF Notified
<1>3. \A v \in Users : v # u =>
        /\ user'[v] \in User /\ user'[v].st = user[v].st
        /\ user'[v].op = user[v].op /\ user'[v].key = user[v].key
        /\ user[v].st = "waiting" /\ user[v].key = k /\ user[v].op # "admit" => user'[v].woken
  <2> SUFFICES ASSUME NEW v \in Users, v # u
               PROVE  /\ user'[v] \in User /\ user'[v].st = user[v].st
                      /\ user'[v].op = user[v].op /\ user'[v].key = user[v].key
                      /\ user[v].st = "waiting" /\ user[v].key = k /\ user[v].op # "admit"
                           => user'[v].woken
    OBVIOUS
  <2>1. user[v] \in User BY DEF UserInv
  <2>2. CASE user[v].st = "waiting" /\ user[v].key = k /\ user[v].op # "admit"
    <3>1. user'[v] = [user[v] EXCEPT !.woken = TRUE] BY <1>1, <2>2
    <3> QED BY <2>1, <3>1 DEF User
  <2>3. CASE ~(user[v].st = "waiting" /\ user[v].key = k /\ user[v].op # "admit")
    BY <1>1, <2>1, <2>3
  <2> QED BY <2>2, <2>3
<1>4. user' = [v \in Users |-> user'[v]] BY DEF Notified
<1>5. user' \in [Users -> User] BY <1>2, <1>3, <1>4 DEF Proper
<1>6. UserInv' BY <1>2, <1>3, <1>5 DEF UserInv, Proper
<1>7. Others(user, user', u) BY <1>3 DEF Others
<1>8. ASSUME NEW v \in Users, v # u, user[v].key = k PROVE SleepsRightly(v)'
  BY <1>3, <1>8 DEF SleepsRightly, Sleeps
<1> QED BY <1>1, <1>2, <1>6, <1>7, <1>8

\* The table after a coroutine joined a group.
LEMMA JoinTable ==
  ASSUME UserInv, TableInv, \A k \in Keys : KeyInv(group[k], user, k),
         NEW u \in Users, NEW k \in Keys, NEW g, Join(k, g), KeyInv(g, user', k),
         Others(user, user', u), user[u].key = NoKey, user'[u].key = k
  PROVE  /\ TableInv' /\ \A m \in Keys : KeyInv(group[m], user, m)'
         /\ group'[k] = g /\ \A m \in Keys : m # k => group'[m] = group[m]
<1>1. g \in Group /\ g.references # 0
  <2>1. u \in Members(user', k) /\ Members(user', k) \in SUBSET Users BY DEF Members
  <2>2. Cardinality(Members(user', k)) # 0 BY <2>1, SubsetCount, FS_EmptySet
  <2> QED BY <2>2 DEF KeyInv, CountInv
<1>2. group'[k] = g /\ \A m \in Keys : m # k => group'[m] = group[m] BY DEF Join, TableInv
<1>3. TableInv' BY <1>1, <1>2 DEF TableInv, Join
<1>4. ASSUME NEW m \in Keys, m # k PROVE KeyInv(group[m], user', m)
  <2>1. KeyInv(group[m], user, m) OBVIOUS
  <2>2. NoKey # m BY GroupAssumption
  <2>3. \A v \in Users : user[v].key = m \/ user'[v].key = m =>
          user'[v].st = user[v].st /\ user'[v].op = user[v].op /\ user'[v].key = user[v].key
    BY <1>4, <2>2 DEF Others
  <2> QED BY <2>1, <2>3, KeyFrame
<1> QED BY <1>2, <1>3, <1>4

\* The table after a coroutine left a group.
LEMMA LeaveTable ==
  ASSUME UserInv, TableInv, \A k \in Keys : KeyInv(group[k], user, k),
         NEW u \in Users, NEW k \in Keys, NEW g, SetGroup(k, g), KeyInv(g, user', k),
         Others(user, user', u), user[u].key = k, user'[u].key = NoKey,
         UNCHANGED <<closed, closer>>
  PROVE  /\ TableInv' /\ \A m \in Keys : KeyInv(group[m], user, m)'
         /\ \A m \in Keys : m # k => group'[m] = group[m]
         /\ group'[k] = g \/ \A v \in Users : user'[v].key # k
<1>1. k \in groups
  <2>1. u \in Members(user, k) /\ Members(user, k) \in SUBSET Users BY DEF Members
  <2>2. Cardinality(Members(user, k)) # 0 BY <2>1, SubsetCount, FS_EmptySet
  <2> QED BY <2>2 DEF KeyInv, CountInv, TableInv
<1>2. /\ group'[k] = (IF g.references = 0 THEN Fresh ELSE g)
      /\ \A m \in Keys : m # k => group'[m] = group[m]
  BY DEF SetGroup, TableInv
<1>3. KeyInv(group'[k], user', k) BY <1>2, KeyFresh
<1>4. group' \in [Keys -> Group]
  <2>1. group'[k] \in Group BY <1>3 DEF KeyInv
  <2> QED BY <2>1 DEF SetGroup, TableInv
<1>5. Fresh.references = 0 BY DEF Fresh
<1>6. \A m \in Keys : m \in groups' <=> group'[m].references # 0
  BY <1>1, <1>2, <1>5 DEF SetGroup, TableInv
<1>7. ~drained /\ (drained' <=> groups' = {}) /\ drained' \in BOOLEAN
  BY <1>1 DEF SetGroup, TableInv
<1>8. TableInv' BY <1>1, <1>4, <1>6, <1>7 DEF SetGroup, TableInv
<1>9. ASSUME NEW m \in Keys, m # k PROVE KeyInv(group[m], user', m)
  <2>1. KeyInv(group[m], user, m) OBVIOUS
  <2>2. NoKey # m BY GroupAssumption
  <2>3. \A v \in Users : user[v].key = m \/ user'[v].key = m =>
          user'[v].st = user[v].st /\ user'[v].op = user[v].op /\ user'[v].key = user[v].key
    BY <1>9, <2>2 DEF Others
  <2> QED BY <2>1, <2>3, KeyFrame
<1>10. ASSUME g.references = 0 PROVE \A v \in Users : user'[v].key # k
  <2>1. Members(user', k) \in SUBSET Users BY DEF Members
  <2>2. Members(user', k) = {} BY <1>10, <2>1, SubsetCount, FS_EmptySet DEF KeyInv, CountInv
  <2> QED BY <2>2 DEF Members
<1> QED BY <1>2, <1>3, <1>8, <1>9, <1>10

\* The table after a coroutine that uses a group went on in it.
LEMMA StayTable ==
  ASSUME UserInv, TableInv, \A k \in Keys : KeyInv(group[k], user, k),
         NEW u \in Users, NEW k \in Keys, NEW g, group' = [group EXCEPT ![k] = g],
         KeyInv(g, user', k), g.references = group[k].references,
         Others(user, user', u), user[u].key = k, user'[u].key = k,
         UNCHANGED <<groups, drained, closed, closer>>
  PROVE  /\ TableInv' /\ \A m \in Keys : KeyInv(group[m], user, m)'
         /\ group'[k] = g /\ \A m \in Keys : m # k => group'[m] = group[m]
<1>1. group'[k] = g /\ \A m \in Keys : m # k => group'[m] = group[m] BY DEF TableInv
<1>2. TableInv' BY <1>1 DEF TableInv, KeyInv
<1>3. ASSUME NEW m \in Keys, m # k PROVE KeyInv(group[m], user', m)
  <2>1. KeyInv(group[m], user, m) OBVIOUS
  <2>2. \A v \in Users : user[v].key = m \/ user'[v].key = m =>
          user'[v].st = user[v].st /\ user'[v].op = user[v].op /\ user'[v].key = user[v].key
    BY <1>3 DEF Others
  <2> QED BY <2>1, <2>2, KeyFrame
<1> QED BY <1>1, <1>2, <1>3

\* Who uses another key than the one a step is about sleeps as before.
LEMMA ElsewhereSleeps ==
  ASSUME Inv, NEW u \in Users, NEW v \in Users, v # u, user'[v] = user[v], closed' = closed,
         user[v].key \in Keys => group'[user[v].key] = group[user[v].key],
         Others(user, user', u), user[v].key \in Keys => user[u].key # user[v].key
  PROVE  SleepsRightly(v)'
<1>1. CASE Sleeps(user, v)
  <2>1. user[v].key \in Keys BY <1>1 DEF Inv, UserInv, User, Sleeps
  <2>2. Undisturbed(v) BY <2>1 DEF Undisturbed
  <2>3. u \notin Requesters(user, user[v].key) BY <2>1 DEF Requesters
  <2> QED BY <2>2, <2>3, UndisturbedSleeps DEF Inv
<1>2. CASE ~Sleeps(user, v) BY <1>2 DEF SleepsRightly, Sleeps
<1> QED BY <1>1, <1>2

\* A coroutine u changes what it does at key k, and the invariant of the keys is
\* known to hold: those who sleep at k have been woken, or see what they saw.
LEMMA Moves ==
  ASSUME Inv, NEW u \in Users, NEW k \in Keys, NEW g,
         UserInv', TableInv', \A m \in Keys : KeyInv(group[m], user, m)',
         Others(user, user', u), closed' = closed,
         user[u].key = k \/ user[u].key = NoKey,
         group'[k] = g \/ \A v \in Users : user'[v].key # k,
         \A m \in Keys : m # k => group'[m] = group[m],
         \A v \in Users : v # u /\ user[v].key # k => user'[v] = user[v],
         SleepsRightly(u)',
         \/ \A v \in Users : v # u /\ user[v].key = k => SleepsRightly(v)'
         \/ /\ g.activity = group[k].activity /\ g.exclusive = group[k].exclusive
            /\ g.waiting = group[k].waiting
            /\ u \notin Requesters(user, k)
            /\ \A v \in Users : v # u => user'[v] = user[v]
  PROVE  Inv'
<1>1. ASSUME NEW v \in Users, v # u, user[v].key # k PROVE SleepsRightly(v)'
  <2>1. user'[v] = user[v] /\ (user[v].key \in Keys => group'[user[v].key] = group[user[v].key])
    BY <1>1
  <2>2. user[v].key \in Keys => user[u].key # user[v].key BY <1>1, GroupAssumption
  <2> QED BY <1>1, <2>1, <2>2, ElsewhereSleeps
<1>2. ASSUME NEW v \in Users, v # u, user[v].key = k PROVE SleepsRightly(v)'
  <2>1. CASE SleepsRightly(v)' BY <2>1
  <2>2. CASE ~SleepsRightly(v)'
    <3>1. /\ g.activity = group[k].activity /\ g.exclusive = group[k].exclusive
          /\ g.waiting = group[k].waiting /\ u \notin Requesters(user, k)
          /\ user'[v] = user[v]
      BY <1>2, <2>2
    <3>2. Undisturbed(v) BY <1>2, <3>1 DEF Undisturbed
    <3> QED BY <1>2, <3>1, <3>2, UndisturbedSleeps DEF Inv
  <2> QED BY <2>1, <2>2
<1> QED BY <1>1, <1>2 DEF Inv

\* The fields of a group whose counts may have gone wrong.
Fields == [references : Int, activity : Int, exclusive : BOOLEAN,
           waiting : Seq(Users), admission : Seq(Users)]

LEMMA LeftFields == ASSUME NEW g \in Fields PROVE Left(g) \in Fields
BY DEF Left, Fields

LEMMA ChangedFields ==
  ASSUME NEW g \in Fields, NEW q \in Seq(Users)
  PROVE  /\ [g EXCEPT !.exclusive = FALSE] \in Fields
         /\ [g EXCEPT !.waiting = q] \in Fields
         /\ [g EXCEPT !.admission = q] \in Fields
         /\ [g EXCEPT !.exclusive = TRUE, !.waiting = q] \in Fields
<1>1. [g EXCEPT !.exclusive = FALSE] \in Fields BY DEF Fields
<1>2. [g EXCEPT !.waiting = q] \in Fields BY DEF Fields
<1>3. [g EXCEPT !.admission = q] \in Fields BY DEF Fields
<1>4. [g EXCEPT !.exclusive = TRUE, !.waiting = q] \in Fields BY DEF Fields
<1> QED BY <1>1, <1>2, <1>3, <1>4

LEMMA JoinedFields == ASSUME NEW k, group[k] \in Group PROVE Joined(k) \in Fields
BY DEF Joined, Fields, Group

\* The four parts of a key's invariant together.
LEMMA KeyFollows ==
  ASSUME NEW g, NEW g2, NEW us, NEW us2, NEW u \in Users, NEW k,
         KeyInv(g, us, k), Others(us, us2, u),
         g2 \in Fields,
         g2.references = g.references + One(u, Members(us2, k)) - One(u, Members(us, k)),
         g2.activity = g.activity + One(u, Inside(us2, k, {"activity"}))
                                  - One(u, Inside(us, k, {"activity"})),
         \/ /\ u \notin Inside(us, k, Exclusively) /\ u \notin Inside(us2, k, Exclusively)
            /\ g2.exclusive = g.exclusive
         \/ ~g.exclusive /\ u \in Inside(us2, k, Exclusively) /\ g2.exclusive = TRUE
         \/ /\ u \in Inside(us, k, Exclusively) /\ u \notin Inside(us2, k, Exclusively)
            /\ g2.exclusive = FALSE,
         \/ /\ u \notin Requesters(us, k) /\ u \notin Requesters(us2, k)
            /\ g2.waiting = g.waiting
         \/ /\ u \notin Requesters(us, k) /\ u \in Requesters(us2, k)
            /\ g2.waiting = Append(g.waiting, u)
         \/ /\ u \in Requesters(us, k) /\ u \notin Requesters(us2, k)
            /\ g2.waiting = Without(g.waiting, u),
         \/ /\ u \notin Admitters(us, k) /\ u \notin Admitters(us2, k)
            /\ g2.admission = g.admission
         \/ /\ u \in Admitters(us, k) /\ u \in Admitters(us2, k)
            /\ g2.admission = g.admission /\ g.admission[1] = u
         \/ /\ u \notin Admitters(us, k) /\ u \in Admitters(us2, k)
            /\ u \notin Inside(us2, k, {"admit"})
            /\ g2.admission = Append(g.admission, u)
         \/ /\ u \in Admitters(us, k) /\ u \notin Admitters(us2, k)
            /\ g2.admission = Without(g.admission, u)
  PROVE  KeyInv(g2, us2, k)
<1>1. CountInv(g2, us2, k) /\ g2.references \in Nat /\ g2.activity \in Nat
  BY CountsFollow DEF KeyInv
<1>2. g.exclusive \in BOOLEAN BY DEF KeyInv, Group
<1>3. ExclusiveInv(g2, us2, k)
  BY <1>2, ExclusiveFollows DEF KeyInv
<1>4. WaitingInv(g2, us2, k) BY WaitingFollows DEF KeyInv
<1>5. AdmissionInv(g2, us2, k) BY AdmissionFollows DEF KeyInv
<1>6. g2 \in Group BY <1>1 DEF Group, Fields
<1> QED BY <1>1, <1>3, <1>4, <1>5, <1>6 DEF KeyInv

-----------------------------------------------------------------------------
(* The steps.                                                              *)

\* Activity begins.
LEMMA ActivityEnters ==
  ASSUME Inv, NEW u \in Users, NEW k \in Keys, ActivityEnter(u, k)
  PROVE  Inv'
<1> DEFINE me == Doing("inside", "activity", k)
           g == [Joined(k) EXCEPT !.activity = @ + 1]
<1>1. user[u].st = "out" /\ user[u].key = NoKey
      /\ k \in Keys /\ NoKey # k /\ Proper(me)
  BY GroupAssumption DEF ActivityEnter, Inv, UserInv, Proper, Doing, Out, User, Ops, Exclusively
<1>2. /\ UserInv' /\ Others(user, user', u) /\ user'[u] = me
      /\ \A v \in Users : v # u /\ user[v].key # k => user'[v] = user[v]
      /\ \A v \in Users : v # u /\ user[v].key = k => SleepsRightly(v)'
  BY <1>1, NotifiedUsers DEF ActivityEnter, Inv
<1>3. KeyInv(group[k], user, k) /\ group[k] \in Group BY <1>1 DEF Inv, KeyInv
<1>4. /\ g.references = group[k].references + 1 /\ g.activity = group[k].activity + 1
      /\ g.exclusive = group[k].exclusive /\ g.waiting = group[k].waiting
      /\ g.admission = group[k].admission
  BY <1>3 DEF Joined, Left, Group
<1>5. KeyInv(g, user', k)
  <2>1. /\ One(u, Members(user, k)) = 0 /\ One(u, Members(user', k)) = 1
        /\ One(u, Inside(user, k, {"activity"})) = 0 /\ One(u, Inside(user', k, {"activity"})) = 1
        /\ u \notin Inside(user, k, Exclusively) /\ u \notin Inside(user', k, Exclusively)
        /\ u \notin Requesters(user, k) /\ u \notin Requesters(user', k)
        /\ u \notin Admitters(user, k) /\ u \notin Admitters(user', k)
    BY <1>1, <1>2 DEF One, Members, Inside, Requesters, Admitters, Exclusively, Doing, Out
  <2>2. g \in Fields
    BY <1>3, JoinedFields DEF Fields
  <2>3. group[k].references \in Nat /\ group[k].activity \in Nat BY <1>3 DEF Group
  <2> HIDE DEF g, me
  <2>4. /\ g.references = group[k].references + One(u, Members(user', k)) - One(u, Members(user, k))
        /\ g.activity = group[k].activity + One(u, Inside(user', k, {"activity"}))
                                         - One(u, Inside(user, k, {"activity"}))
    BY <1>4, <2>1, <2>3
  <2> QED BY <1>2, <1>3, <1>4, <2>1, <2>2, <2>4, KeyFollows
<1>6. Join(k, g) /\ me.key = k /\ closed' = closed BY <1>1 DEF ActivityEnter, Join, Doing
<1>7. /\ TableInv' /\ \A m \in Keys : KeyInv(group[m], user, m)'
      /\ group'[k] = g
      /\ \A m \in Keys : m # k => group'[m] = group[m]
  <2> HIDE DEF g, me
  <2> QED BY <1>1, <1>2, <1>5, <1>6, JoinTable DEF Inv
<1>8. SleepsRightly(u)' BY <1>2 DEF SleepsRightly, Sleeps, Doing, Out
<1> HIDE DEF g, me
<1> QED BY <1>1, <1>2, <1>4, <1>6, <1>7, <1>8, Moves

\* Somebody begins to wait for idleness.
LEMMA IdleEnters ==
  ASSUME Inv, NEW u \in Users, NEW k \in Keys, IdleEnter(u, k)
  PROVE  Inv'
<1> DEFINE me == Doing("waiting", "idle", k)
           g == Joined(k)
<1>1. user[u].st = "out" /\ user[u].key = NoKey
      /\ k \in Keys /\ NoKey # k /\ Proper(me)
  BY GroupAssumption DEF IdleEnter, Inv, UserInv, Proper, Doing, Out, User, Ops, Exclusively
<1>2. /\ UserInv' /\ Others(user, user', u) /\ user'[u] = me
      /\ \A v \in Users : v # u => user'[v] = user[v]
  BY <1>1, ChangedUsers DEF IdleEnter, Inv
<1>3. KeyInv(group[k], user, k) /\ group[k] \in Group BY <1>1 DEF Inv, KeyInv
<1>4. /\ g.references = group[k].references + 1 /\ g.activity = group[k].activity
      /\ g.exclusive = group[k].exclusive /\ g.waiting = group[k].waiting
      /\ g.admission = group[k].admission
  BY <1>3 DEF Joined, Left, Group
<1>5. KeyInv(g, user', k)
  <2>1. /\ One(u, Members(user, k)) = 0 /\ One(u, Members(user', k)) = 1
        /\ One(u, Inside(user, k, {"activity"})) = 0 /\ One(u, Inside(user', k, {"activity"})) = 0
        /\ u \notin Inside(user, k, Exclusively) /\ u \notin Inside(user', k, Exclusively)
        /\ u \notin Requesters(user, k) /\ u \notin Requesters(user', k)
        /\ u \notin Admitters(user, k) /\ u \notin Admitters(user', k)
    BY <1>1, <1>2 DEF One, Members, Inside, Requesters, Admitters, Exclusively, Doing, Out
  <2>2. g \in Fields
    BY <1>3, JoinedFields DEF Fields
  <2>3. group[k].references \in Nat /\ group[k].activity \in Nat BY <1>3 DEF Group
  <2> HIDE DEF g, me
  <2>4. /\ g.references = group[k].references + One(u, Members(user', k)) - One(u, Members(user, k))
        /\ g.activity = group[k].activity + One(u, Inside(user', k, {"activity"}))
                                         - One(u, Inside(user, k, {"activity"}))
    BY <1>4, <2>1, <2>3
  <2> QED BY <1>2, <1>3, <1>4, <2>1, <2>2, <2>4, KeyFollows
<1>6. Join(k, g) /\ me.key = k /\ closed' = closed BY <1>1 DEF IdleEnter, Join, Doing
<1>7. /\ TableInv' /\ \A m \in Keys : KeyInv(group[m], user, m)'
      /\ group'[k] = g
      /\ \A m \in Keys : m # k => group'[m] = group[m]
  <2> HIDE DEF g, me
  <2> QED BY <1>1, <1>2, <1>5, <1>6, JoinTable DEF Inv
<1>8. SleepsRightly(u)' BY <1>2, <1>4, <1>6, <1>7 DEF IdleEnter, Join, SleepsRightly, Sleeps, Doing
<1>9. u \notin Requesters(user, k) BY <1>1 DEF Requesters, Exclusively
<1> HIDE DEF g, me
<1> QED BY <1>1, <1>2, <1>4, <1>6, <1>7, <1>8, <1>9, Moves

\* Somebody queues for the admission lock.
LEMMA AdmitEnters ==
  ASSUME Inv, NEW u \in Users, NEW k \in Keys, AdmitEnter(u, k)
  PROVE  Inv'
<1> DEFINE me == Doing("waiting", "admit", k)
           g == [Joined(k) EXCEPT !.admission = Append(@, u)]
<1>1. user[u].st = "out" /\ user[u].key = NoKey
      /\ k \in Keys /\ NoKey # k /\ Proper(me)
  BY GroupAssumption DEF AdmitEnter, Inv, UserInv, Proper, Doing, Out, User, Ops, Exclusively
<1>2. /\ UserInv' /\ Others(user, user', u) /\ user'[u] = me
      /\ \A v \in Users : v # u => user'[v] = user[v]
  BY <1>1, ChangedUsers DEF AdmitEnter, Inv
<1>3. KeyInv(group[k], user, k) /\ group[k] \in Group BY <1>1 DEF Inv, KeyInv
<1>4. /\ g.references = group[k].references + 1 /\ g.activity = group[k].activity
      /\ g.exclusive = group[k].exclusive /\ g.waiting = group[k].waiting
      /\ g.admission = Append(group[k].admission, u)
  BY <1>3 DEF Joined, Left, Group
<1>5. KeyInv(g, user', k)
  <2>1. /\ One(u, Members(user, k)) = 0 /\ One(u, Members(user', k)) = 1
        /\ One(u, Inside(user, k, {"activity"})) = 0 /\ One(u, Inside(user', k, {"activity"})) = 0
        /\ u \notin Inside(user, k, Exclusively) /\ u \notin Inside(user', k, Exclusively)
        /\ u \notin Requesters(user, k) /\ u \notin Requesters(user', k)
        /\ u \notin Admitters(user, k) /\ u \in Admitters(user', k)
        /\ u \notin Inside(user', k, {"admit"})
    BY <1>1, <1>2 DEF One, Members, Inside, Requesters, Admitters, Exclusively, Doing, Out
  <2>2. g \in Fields
    <3>1. Joined(k) \in Fields BY <1>3, JoinedFields
    <3>2. Append(group[k].admission, u) \in Seq(Users) BY <1>3 DEF Group
    <3>3. Joined(k).admission = group[k].admission BY <1>3 DEF Joined, Group
    <3>4. [Joined(k) EXCEPT !.admission = Append(group[k].admission, u)] \in Fields
      BY <3>1, <3>2, ChangedFields
    <3> QED BY <3>3, <3>4
  <2>3. group[k].references \in Nat /\ group[k].activity \in Nat BY <1>3 DEF Group
  <2> HIDE DEF g, me
  <2>4. /\ g.references = group[k].references + One(u, Members(user', k)) - One(u, Members(user, k))
        /\ g.activity = group[k].activity + One(u, Inside(user', k, {"activity"}))
                                         - One(u, Inside(user, k, {"activity"}))
    BY <1>4, <2>1, <2>3
  <2> QED BY <1>2, <1>3, <1>4, <2>1, <2>2, <2>4, KeyFollows
<1>6. Join(k, g) /\ me.key = k /\ closed' = closed BY <1>1 DEF AdmitEnter, Join, Doing
<1>7. /\ TableInv' /\ \A m \in Keys : KeyInv(group[m], user, m)'
      /\ group'[k] = g
      /\ \A m \in Keys : m # k => group'[m] = group[m]
  <2> HIDE DEF g, me
  <2> QED BY <1>1, <1>2, <1>5, <1>6, JoinTable DEF Inv
<1>8. SleepsRightly(u)' BY <1>2 DEF SleepsRightly, Sleeps, Doing, Out
<1>9. u \notin Requesters(user, k) BY <1>1 DEF Requesters, Exclusively
<1> HIDE DEF g, me
<1> QED BY <1>1, <1>2, <1>4, <1>6, <1>7, <1>8, <1>9, Moves

\* Activity ends.
LEMMA ActivityLeaves ==
  ASSUME Inv, NEW u \in Users, ActivityLeave(u)
  PROVE  Inv'
<1> DEFINE k == user[u].key
           me == Out
           g == Left([group[k] EXCEPT !.activity = @ - 1])
<1>1. user[u].st = "inside" /\ user[u].op = "activity"
      /\ k \in Keys /\ NoKey # k /\ Proper(me)
  BY GroupAssumption DEF ActivityLeave, Inv, UserInv, Proper, Doing, Out, User, Ops, Exclusively
<1>2. /\ UserInv' /\ Others(user, user', u) /\ user'[u] = me
      /\ \A v \in Users : v # u /\ user[v].key # k => user'[v] = user[v]
      /\ \A v \in Users : v # u /\ user[v].key = k => SleepsRightly(v)'
  BY <1>1, NotifiedUsers DEF ActivityLeave, Inv
<1>3. KeyInv(group[k], user, k) /\ group[k] \in Group BY <1>1 DEF Inv, KeyInv
<1>4. /\ g.references = group[k].references - 1 /\ g.activity = group[k].activity - 1
      /\ g.exclusive = group[k].exclusive /\ g.waiting = group[k].waiting
      /\ g.admission = group[k].admission
  BY <1>3 DEF Joined, Left, Group
<1>5. KeyInv(g, user', k)
  <2>1. /\ One(u, Members(user, k)) = 1 /\ One(u, Members(user', k)) = 0
        /\ One(u, Inside(user, k, {"activity"})) = 1 /\ One(u, Inside(user', k, {"activity"})) = 0
        /\ u \notin Inside(user, k, Exclusively) /\ u \notin Inside(user', k, Exclusively)
        /\ u \notin Requesters(user, k) /\ u \notin Requesters(user', k)
        /\ u \notin Admitters(user, k) /\ u \notin Admitters(user', k)
    BY <1>1, <1>2 DEF One, Members, Inside, Requesters, Admitters, Exclusively, Doing, Out
  <2>2. g \in Fields
    <3>1. [group[k] EXCEPT !.activity = @ - 1] \in Fields BY <1>3 DEF Group, Fields
    <3> QED BY <3>1, LeftFields
  <2>3. group[k].references \in Nat /\ group[k].activity \in Nat BY <1>3 DEF Group
  <2> HIDE DEF k, g, me
  <2>4. /\ g.references = group[k].references + One(u, Members(user', k)) - One(u, Members(user, k))
        /\ g.activity = group[k].activity + One(u, Inside(user', k, {"activity"}))
                                         - One(u, Inside(user, k, {"activity"}))
    BY <1>4, <2>1, <2>3
  <2> QED BY <1>2, <1>3, <1>4, <2>1, <2>2, <2>4, KeyFollows
<1>6. SetGroup(k, g) /\ me.key = NoKey /\ user[u].key = k /\ UNCHANGED <<closed, closer>>
  BY <1>1 DEF ActivityLeave, Out
<1>7. /\ TableInv' /\ \A m \in Keys : KeyInv(group[m], user, m)'
      /\ (group'[k] = g \/ \A v \in Users : user'[v].key # k)
      /\ \A m \in Keys : m # k => group'[m] = group[m]
  <2> HIDE DEF k, g, me
  <2> QED BY <1>1, <1>2, <1>5, <1>6, LeaveTable DEF Inv
<1>8. SleepsRightly(u)' BY <1>2 DEF SleepsRightly, Sleeps, Doing, Out
<1> HIDE DEF k, g, me
<1> QED BY <1>1, <1>2, <1>4, <1>6, <1>7, <1>8, Moves

\* Exclusive work ends.
LEMMA ExclusiveLeaves ==
  ASSUME Inv, NEW u \in Users, ExclusiveLeave(u)
  PROVE  Inv'
<1> DEFINE k == user[u].key
           me == Out
           g == Left([group[k] EXCEPT !.exclusive = FALSE])
<1>1. user[u].st = "inside" /\ user[u].op \in Exclusively
      /\ k \in Keys /\ NoKey # k /\ Proper(me)
  BY GroupAssumption DEF ExclusiveLeave, Inv, UserInv, Proper, Doing, Out, User, Ops, Exclusively
<1>2. /\ UserInv' /\ Others(user, user', u) /\ user'[u] = me
      /\ \A v \in Users : v # u /\ user[v].key # k => user'[v] = user[v]
      /\ \A v \in Users : v # u /\ user[v].key = k => SleepsRightly(v)'
  BY <1>1, NotifiedUsers DEF ExclusiveLeave, Inv
<1>3. KeyInv(group[k], user, k) /\ group[k] \in Group BY <1>1 DEF Inv, KeyInv
<1>4. /\ g.references = group[k].references - 1 /\ g.activity = group[k].activity
      /\ g.exclusive = FALSE /\ g.waiting = group[k].waiting
      /\ g.admission = group[k].admission
  BY <1>3 DEF Joined, Left, Group
<1>5. KeyInv(g, user', k)
  <2>1. /\ One(u, Members(user, k)) = 1 /\ One(u, Members(user', k)) = 0
        /\ One(u, Inside(user, k, {"activity"})) = 0 /\ One(u, Inside(user', k, {"activity"})) = 0
        /\ u \in Inside(user, k, Exclusively) /\ u \notin Inside(user', k, Exclusively)
        /\ u \notin Requesters(user, k) /\ u \notin Requesters(user', k)
        /\ u \notin Admitters(user, k) /\ u \notin Admitters(user', k)
    BY <1>1, <1>2 DEF One, Members, Inside, Requesters, Admitters, Exclusively, Doing, Out
  <2>2. g \in Fields
    <3>1. group[k] \in Fields BY <1>3 DEF Group, Fields
    <3>2. <<>> \in Seq(Users) OBVIOUS
    <3>3. [group[k] EXCEPT !.exclusive = FALSE] \in Fields BY <3>1, <3>2, ChangedFields
    <3> QED BY <3>3, LeftFields
  <2>3. group[k].references \in Nat /\ group[k].activity \in Nat BY <1>3 DEF Group
  <2> HIDE DEF k, g, me
  <2>4. /\ g.references = group[k].references + One(u, Members(user', k)) - One(u, Members(user, k))
        /\ g.activity = group[k].activity + One(u, Inside(user', k, {"activity"}))
                                         - One(u, Inside(user, k, {"activity"}))
    BY <1>4, <2>1, <2>3
  <2> QED BY <1>2, <1>3, <1>4, <2>1, <2>2, <2>4, KeyFollows
<1>6. SetGroup(k, g) /\ me.key = NoKey /\ user[u].key = k /\ UNCHANGED <<closed, closer>>
  BY <1>1 DEF ExclusiveLeave, Out
<1>7. /\ TableInv' /\ \A m \in Keys : KeyInv(group[m], user, m)'
      /\ (group'[k] = g \/ \A v \in Users : user'[v].key # k)
      /\ \A m \in Keys : m # k => group'[m] = group[m]
  <2> HIDE DEF k, g, me
  <2> QED BY <1>1, <1>2, <1>5, <1>6, LeaveTable DEF Inv
<1>8. SleepsRightly(u)' BY <1>2 DEF SleepsRightly, Sleeps, Doing, Out
<1> HIDE DEF k, g, me
<1> QED BY <1>1, <1>2, <1>4, <1>6, <1>7, <1>8, Moves

\* A request is taken back.
LEMMA RequestLeaves ==
  ASSUME Inv, NEW u \in Users, user[u].st = "waiting", user[u].op \in Exclusively, Withdraw(u),
         UNCHANGED <<closed, closer>>
  PROVE  Inv'
<1> DEFINE k == user[u].key
           me == Out
           g == Left([group[k] EXCEPT !.waiting = Without(@, u)])
<1>1. user[u].st = "waiting" /\ user[u].op \in Exclusively
      /\ k \in Keys /\ NoKey # k /\ Proper(me)
  BY GroupAssumption DEF Withdraw, Inv, UserInv, Proper, Doing, Out, User, Ops, Exclusively
<1>2. /\ UserInv' /\ Others(user, user', u) /\ user'[u] = me
      /\ \A v \in Users : v # u /\ user[v].key # k => user'[v] = user[v]
      /\ \A v \in Users : v # u /\ user[v].key = k => SleepsRightly(v)'
  BY <1>1, NotifiedUsers DEF Withdraw, Inv
<1>3. KeyInv(group[k], user, k) /\ group[k] \in Group BY <1>1 DEF Inv, KeyInv
<1>4. /\ g.references = group[k].references - 1 /\ g.activity = group[k].activity
      /\ g.exclusive = group[k].exclusive /\ g.waiting = Without(group[k].waiting, u)
      /\ g.admission = group[k].admission
  BY <1>3 DEF Joined, Left, Group
<1>5. KeyInv(g, user', k)
  <2>1. /\ One(u, Members(user, k)) = 1 /\ One(u, Members(user', k)) = 0
        /\ One(u, Inside(user, k, {"activity"})) = 0 /\ One(u, Inside(user', k, {"activity"})) = 0
        /\ u \notin Inside(user, k, Exclusively) /\ u \notin Inside(user', k, Exclusively)
        /\ u \in Requesters(user, k) /\ u \notin Requesters(user', k)
        /\ u \notin Admitters(user, k) /\ u \notin Admitters(user', k)
    BY <1>1, <1>2 DEF One, Members, Inside, Requesters, Admitters, Exclusively, Doing, Out
  <2>2. g \in Fields
    <3>1. Requesters(user, k) \subseteq Users BY DEF Requesters
    <3>2. Without(group[k].waiting, u) \in Seq(Users)
      BY <1>3, <2>1, <3>1, QueueLess DEF KeyInv, WaitingInv
    <3>3. group[k] \in Fields BY <1>3 DEF Group, Fields
    <3>4. [group[k] EXCEPT !.waiting = Without(group[k].waiting, u)] \in Fields
      BY <3>2, <3>3, ChangedFields
    <3> QED BY <3>4, LeftFields
  <2>3. group[k].references \in Nat /\ group[k].activity \in Nat BY <1>3 DEF Group
  <2> HIDE DEF k, g, me
  <2>4. /\ g.references = group[k].references + One(u, Members(user', k)) - One(u, Members(user, k))
        /\ g.activity = group[k].activity + One(u, Inside(user', k, {"activity"}))
                                         - One(u, Inside(user, k, {"activity"}))
    BY <1>4, <2>1, <2>3
  <2> QED BY <1>2, <1>3, <1>4, <2>1, <2>2, <2>4, KeyFollows
<1>6. SetGroup(k, g) /\ me.key = NoKey /\ user[u].key = k /\ UNCHANGED <<closed, closer>>
  BY <1>1 DEF Withdraw, Out
<1>7. /\ TableInv' /\ \A m \in Keys : KeyInv(group[m], user, m)'
      /\ (group'[k] = g \/ \A v \in Users : user'[v].key # k)
      /\ \A m \in Keys : m # k => group'[m] = group[m]
  <2> HIDE DEF k, g, me
  <2> QED BY <1>1, <1>2, <1>5, <1>6, LeaveTable DEF Inv
<1>8. SleepsRightly(u)' BY <1>2 DEF SleepsRightly, Sleeps, Doing, Out
<1> HIDE DEF k, g, me
<1> QED BY <1>1, <1>2, <1>4, <1>6, <1>7, <1>8, Moves

\* The admission lock, or the place in its queue, is given back.
LEMMA AdmissionLeaves ==
  ASSUME Inv, NEW u \in Users, user[u].st # "out", user[u].op = "admit", LeaveAdmission(u),
         UNCHANGED <<closed, closer>>
  PROVE  Inv'
<1> DEFINE k == user[u].key
           me == Out
           g == Left([group[k] EXCEPT !.admission = Without(@, u)])
<1>1. user[u].st # "out" /\ user[u].op = "admit"
      /\ k \in Keys /\ NoKey # k /\ Proper(me)
  BY GroupAssumption DEF LeaveAdmission, Inv, UserInv, Proper, Doing, Out, User, Ops, Exclusively
<1>2. /\ UserInv' /\ Others(user, user', u) /\ user'[u] = me
      /\ \A v \in Users : v # u => user'[v] = user[v]
  BY <1>1, ChangedUsers DEF LeaveAdmission, Inv
<1>3. KeyInv(group[k], user, k) /\ group[k] \in Group BY <1>1 DEF Inv, KeyInv
<1>4. /\ g.references = group[k].references - 1 /\ g.activity = group[k].activity
      /\ g.exclusive = group[k].exclusive /\ g.waiting = group[k].waiting
      /\ g.admission = Without(group[k].admission, u)
  BY <1>3 DEF Joined, Left, Group
<1>5. KeyInv(g, user', k)
  <2>1. /\ One(u, Members(user, k)) = 1 /\ One(u, Members(user', k)) = 0
        /\ One(u, Inside(user, k, {"activity"})) = 0 /\ One(u, Inside(user', k, {"activity"})) = 0
        /\ u \notin Inside(user, k, Exclusively) /\ u \notin Inside(user', k, Exclusively)
        /\ u \notin Requesters(user, k) /\ u \notin Requesters(user', k)
        /\ u \in Admitters(user, k) /\ u \notin Admitters(user', k)
    BY <1>1, <1>2 DEF One, Members, Inside, Requesters, Admitters, Exclusively, Doing, Out
  <2>2. g \in Fields
    <3>1. Admitters(user, k) \subseteq Users BY DEF Admitters
    <3>2. Without(group[k].admission, u) \in Seq(Users)
      BY <1>3, <2>1, <3>1, QueueLess DEF KeyInv, AdmissionInv
    <3>3. group[k] \in Fields BY <1>3 DEF Group, Fields
    <3>4. [group[k] EXCEPT !.admission = Without(group[k].admission, u)] \in Fields
      BY <3>2, <3>3, ChangedFields
    <3> QED BY <3>4, LeftFields
  <2>3. group[k].references \in Nat /\ group[k].activity \in Nat BY <1>3 DEF Group
  <2> HIDE DEF k, g, me
  <2>4. /\ g.references = group[k].references + One(u, Members(user', k)) - One(u, Members(user, k))
        /\ g.activity = group[k].activity + One(u, Inside(user', k, {"activity"}))
                                         - One(u, Inside(user, k, {"activity"}))
    BY <1>4, <2>1, <2>3
  <2> QED BY <1>2, <1>3, <1>4, <2>1, <2>2, <2>4, KeyFollows
<1>6. SetGroup(k, g) /\ me.key = NoKey /\ user[u].key = k /\ UNCHANGED <<closed, closer>>
  BY <1>1 DEF LeaveAdmission, Out
<1>7. /\ TableInv' /\ \A m \in Keys : KeyInv(group[m], user, m)'
      /\ (group'[k] = g \/ \A v \in Users : user'[v].key # k)
      /\ \A m \in Keys : m # k => group'[m] = group[m]
  <2> HIDE DEF k, g, me
  <2> QED BY <1>1, <1>2, <1>5, <1>6, LeaveTable DEF Inv
<1>8. SleepsRightly(u)' BY <1>2 DEF SleepsRightly, Sleeps, Doing, Out
<1>9. u \notin Requesters(user, k) BY <1>1 DEF Requesters, Exclusively
<1> HIDE DEF k, g, me
<1> QED BY <1>1, <1>2, <1>4, <1>6, <1>7, <1>8, <1>9, Moves

\* Somebody leaves who waited for idleness.
IdleLeave(u) ==
  /\ SetGroup(user[u].key, Left(group[user[u].key]))
  /\ user' = [user EXCEPT ![u] = Out]

\* That keeps the invariant.
LEMMA IdleLeaves ==
  ASSUME Inv, NEW u \in Users, user[u].st = "waiting", user[u].op = "idle", IdleLeave(u),
         UNCHANGED <<closed, closer>>
  PROVE  Inv'
<1> DEFINE k == user[u].key
           me == Out
           g == Left(group[k])
<1>1. user[u].st = "waiting" /\ user[u].op = "idle"
      /\ k \in Keys /\ NoKey # k /\ Proper(me)
  BY GroupAssumption DEF IdleLeave, Inv, UserInv, Proper, Doing, Out, User, Ops, Exclusively
<1>2. /\ UserInv' /\ Others(user, user', u) /\ user'[u] = me
      /\ \A v \in Users : v # u => user'[v] = user[v]
  BY <1>1, ChangedUsers DEF IdleLeave, Inv
<1>3. KeyInv(group[k], user, k) /\ group[k] \in Group BY <1>1 DEF Inv, KeyInv
<1>4. /\ g.references = group[k].references - 1 /\ g.activity = group[k].activity
      /\ g.exclusive = group[k].exclusive /\ g.waiting = group[k].waiting
      /\ g.admission = group[k].admission
  BY <1>3 DEF Joined, Left, Group
<1>5. KeyInv(g, user', k)
  <2>1. /\ One(u, Members(user, k)) = 1 /\ One(u, Members(user', k)) = 0
        /\ One(u, Inside(user, k, {"activity"})) = 0 /\ One(u, Inside(user', k, {"activity"})) = 0
        /\ u \notin Inside(user, k, Exclusively) /\ u \notin Inside(user', k, Exclusively)
        /\ u \notin Requesters(user, k) /\ u \notin Requesters(user', k)
        /\ u \notin Admitters(user, k) /\ u \notin Admitters(user', k)
    BY <1>1, <1>2 DEF One, Members, Inside, Requesters, Admitters, Exclusively, Doing, Out
  <2>2. g \in Fields
    <3>1. group[k] \in Fields BY <1>3 DEF Group, Fields
    <3> QED BY <3>1, LeftFields
  <2>3. group[k].references \in Nat /\ group[k].activity \in Nat BY <1>3 DEF Group
  <2> HIDE DEF k, g, me
  <2>4. /\ g.references = group[k].references + One(u, Members(user', k)) - One(u, Members(user, k))
        /\ g.activity = group[k].activity + One(u, Inside(user', k, {"activity"}))
                                         - One(u, Inside(user, k, {"activity"}))
    BY <1>4, <2>1, <2>3
  <2> QED BY <1>2, <1>3, <1>4, <2>1, <2>2, <2>4, KeyFollows
<1>6. SetGroup(k, g) /\ me.key = NoKey /\ user[u].key = k /\ UNCHANGED <<closed, closer>>
  BY <1>1 DEF IdleLeave, Out
<1>7. /\ TableInv' /\ \A m \in Keys : KeyInv(group[m], user, m)'
      /\ (group'[k] = g \/ \A v \in Users : user'[v].key # k)
      /\ \A m \in Keys : m # k => group'[m] = group[m]
  <2> HIDE DEF k, g, me
  <2> QED BY <1>1, <1>2, <1>5, <1>6, LeaveTable DEF Inv
<1>8. SleepsRightly(u)' BY <1>2 DEF SleepsRightly, Sleeps, Doing, Out
<1>9. u \notin Requesters(user, k) BY <1>1 DEF Requesters, Exclusively
<1> HIDE DEF k, g, me
<1> QED BY <1>1, <1>2, <1>4, <1>6, <1>7, <1>8, <1>9, Moves

\* A request has its turn at once, or is queued.
TurnAtOnce(u, k, op) ==
  /\ user[u].st = "out" /\ op \in {"exclusive", "polite"}
  /\ Join(k, [[Joined(k) EXCEPT !.waiting = Append(@, u)]
                EXCEPT !.exclusive = TRUE, !.waiting = Without(@, u)])
  /\ ~group[k].exclusive
  /\ \A j \in DOMAIN group[k].waiting : Polite(group[k].waiting[j])
  /\ user' = [user EXCEPT ![u] = Doing("inside", op, k)]

Queued(u, k, op) ==
  /\ user[u].st = "out" /\ op \in {"exclusive", "polite"}
  /\ Join(k, [Joined(k) EXCEPT !.waiting = Append(@, u)])
  /\ \/ group[k].exclusive
     \/ op = "polite" /\ group[k].activity # 0
     \/ \E j \in DOMAIN group[k].waiting :
          ~Polite(group[k].waiting[j]) \/ group[k].activity = 0
  /\ user' = [user EXCEPT ![u] = Doing("waiting", op, k)]

LEMMA ExclusiveEnters ==
  ASSUME NEW u, NEW k, NEW op, group[k] \in Group, ExclusiveEnter(u, k, op)
  PROVE  TurnAtOnce(u, k, op) \/ Queued(u, k, op)
<1> DEFINE g == [Joined(k) EXCEPT !.waiting = Append(@, u)]
<1>1. g.activity = group[k].activity BY DEF Joined, Group
<1> HIDE DEF g
<1>2. CASE /\ ~group[k].exclusive
           /\ op = "polite" => g.activity = 0
           /\ \A j \in DOMAIN group[k].waiting :
                Polite(group[k].waiting[j]) /\ g.activity # 0
  BY <1>2 DEF ExclusiveEnter, TurnAtOnce, g
<1>3. CASE ~(/\ ~group[k].exclusive
             /\ op = "polite" => g.activity = 0
             /\ \A j \in DOMAIN group[k].waiting :
                  Polite(group[k].waiting[j]) /\ g.activity # 0)
  <2>1. Join(k, g) /\ user' = [user EXCEPT ![u] = Doing("waiting", op, k)]
    BY <1>3 DEF ExclusiveEnter, g
  <2> QED BY <1>1, <1>3, <2>1 DEF ExclusiveEnter, Queued, g
<1> QED BY <1>2, <1>3

\* Exclusive work begins at once.
LEMMA TurnsAtOnce ==
  ASSUME Inv, NEW u \in Users, NEW k \in Keys, NEW op, TurnAtOnce(u, k, op)
  PROVE  Inv'
<1> DEFINE me == Doing("inside", op, k)
           a == [Joined(k) EXCEPT !.waiting = Append(@, u)]
           g == [a EXCEPT !.exclusive = TRUE, !.waiting = Without(@, u)]
<1>1. user[u].st = "out" /\ user[u].key = NoKey /\ op \in Exclusively /\ ~group[k].exclusive
      /\ k \in Keys /\ NoKey # k /\ Proper(me)
  BY GroupAssumption DEF TurnAtOnce,  Inv, UserInv, Proper, Doing, Out, User, Ops, Exclusively
<1>2. /\ UserInv' /\ Others(user, user', u) /\ user'[u] = me
      /\ \A v \in Users : v # u => user'[v] = user[v]
  BY <1>1, ChangedUsers DEF TurnAtOnce, Inv
<1>3. KeyInv(group[k], user, k) /\ group[k] \in Group BY <1>1 DEF Inv, KeyInv
<1>4. /\ Without(a.waiting, u) = group[k].waiting
      /\ a \in Fields /\ group[k].waiting \in Seq(Users)
  <2>1. u \notin Requesters(user, k) BY <1>1 DEF Requesters
  <2>2. Without(Append(group[k].waiting, u), u) = group[k].waiting
    BY <1>3, <2>1, AppendWithout DEF KeyInv, WaitingInv
  <2>3. Joined(k) \in Fields BY <1>3, JoinedFields
  <2>4. Append(group[k].waiting, u) \in Seq(Users) BY <1>3 DEF Group
  <2>5. Joined(k).waiting = group[k].waiting BY <1>3 DEF Joined, Group
  <2>6. a \in Fields BY <2>3, <2>4, <2>5, ChangedFields
  <2>7. a.waiting = Append(group[k].waiting, u) BY <1>3 DEF Joined, Group
  <2> HIDE DEF a
  <2> QED BY <1>3, <2>2, <2>6, <2>7 DEF Group
<1>5. /\ g.references = group[k].references + 1 /\ g.activity = group[k].activity
      /\ g.exclusive = TRUE /\ g.waiting = group[k].waiting
      /\ g.admission = group[k].admission
  <2>1. /\ a.references = group[k].references + 1 /\ a.activity = group[k].activity
        /\ a.admission = group[k].admission
    BY <1>3 DEF Joined, Group
  <2> HIDE DEF a
  <2> QED BY <1>4, <2>1 DEF Fields
<1>6. KeyInv(g, user', k)
  <2>1. /\ One(u, Members(user, k)) = 0 /\ One(u, Members(user', k)) = 1
        /\ One(u, Inside(user, k, {"activity"})) = 0 /\ One(u, Inside(user', k, {"activity"})) = 0
        /\ u \notin Inside(user, k, Exclusively) /\ u \in Inside(user', k, Exclusively)
        /\ u \notin Requesters(user, k) /\ u \notin Requesters(user', k)
        /\ u \notin Admitters(user, k) /\ u \notin Admitters(user', k)
    BY <1>1, <1>2 DEF One, Members, Inside, Requesters, Admitters, Exclusively, Doing, Out
  <2>2. g \in Fields
    <3> HIDE DEF a
    <3>1. [a EXCEPT !.exclusive = TRUE, !.waiting = group[k].waiting] \in Fields
      BY <1>4, ChangedFields
    <3> QED BY <1>4, <3>1
  <2>3. group[k].references \in Nat /\ group[k].activity \in Nat BY <1>3 DEF Group
  <2> HIDE DEF g, me
  <2>4. /\ g.references = group[k].references + One(u, Members(user', k)) - One(u, Members(user, k))
        /\ g.activity = group[k].activity + One(u, Inside(user', k, {"activity"}))
                                         - One(u, Inside(user, k, {"activity"}))
    BY <1>5, <2>1, <2>3
  <2> QED BY <1>1, <1>2, <1>3, <1>5, <2>1, <2>2, <2>4, KeyFollows
<1>7. Join(k, g) /\ me.key = k /\ closed' = closed BY <1>1 DEF TurnAtOnce, Join, Doing
<1>8. /\ TableInv' /\ \A m \in Keys : KeyInv(group[m], user, m)'
      /\ group'[k] = g
      /\ \A m \in Keys : m # k => group'[m] = group[m]
  <2> HIDE DEF g, me
  <2> QED BY <1>1, <1>2, <1>6, <1>7, JoinTable DEF Inv
<1>9. SleepsRightly(u)' BY <1>2 DEF SleepsRightly, Sleeps, Doing, Out
<1>10. ASSUME NEW v \in Users, v # u, user[v].key = k PROVE SleepsRightly(v)'
  <2> HIDE DEF g, me
  <2>1. user'[v] = user[v] /\ SleepsRightly(v) BY <1>2, <1>10 DEF Inv
  <2> QED BY <1>5, <1>7, <1>8, <1>10, <2>1 DEF SleepsRightly, Sleeps
<1> HIDE DEF g, me
<1> QED BY <1>1, <1>2, <1>5, <1>7, <1>8, <1>9, <1>10, Moves

\* A request is queued.
LEMMA RequestsQueue ==
  ASSUME Inv, NEW u \in Users, NEW k \in Keys, NEW op, Queued(u, k, op)
  PROVE  Inv'
<1> DEFINE me == Doing("waiting", op, k)
           g == [Joined(k) EXCEPT !.waiting = Append(@, u)]
<1>1. user[u].st = "out" /\ user[u].key = NoKey /\ op \in Exclusively
      /\ k \in Keys /\ NoKey # k /\ Proper(me)
  BY GroupAssumption DEF Queued, Inv, UserInv, Proper, Doing, Out, User, Ops, Exclusively
<1>2. /\ UserInv' /\ Others(user, user', u) /\ user'[u] = me
      /\ \A v \in Users : v # u => user'[v] = user[v]
  BY <1>1, ChangedUsers DEF Queued, Inv
<1>3. KeyInv(group[k], user, k) /\ group[k] \in Group BY <1>1 DEF Inv, KeyInv
<1>4. /\ g.references = group[k].references + 1 /\ g.activity = group[k].activity
      /\ g.exclusive = group[k].exclusive /\ g.waiting = Append(group[k].waiting, u)
      /\ g.admission = group[k].admission
  BY <1>3 DEF Joined, Left, Group
<1>5. KeyInv(g, user', k)
  <2>1. /\ One(u, Members(user, k)) = 0 /\ One(u, Members(user', k)) = 1
        /\ One(u, Inside(user, k, {"activity"})) = 0 /\ One(u, Inside(user', k, {"activity"})) = 0
        /\ u \notin Inside(user, k, Exclusively) /\ u \notin Inside(user', k, Exclusively)
        /\ u \notin Requesters(user, k) /\ u \in Requesters(user', k)
        /\ u \notin Admitters(user, k) /\ u \notin Admitters(user', k)
    BY <1>1, <1>2 DEF One, Members, Inside, Requesters, Admitters, Exclusively, Doing, Out
  <2>2. g \in Fields
    <3>1. Joined(k) \in Fields BY <1>3, JoinedFields
    <3>2. Append(group[k].waiting, u) \in Seq(Users) BY <1>3 DEF Group
    <3>3. Joined(k).waiting = group[k].waiting BY <1>3 DEF Joined, Group
    <3>4. [Joined(k) EXCEPT !.waiting = Append(group[k].waiting, u)] \in Fields
      BY <3>1, <3>2, ChangedFields
    <3> QED BY <3>3, <3>4
  <2>3. group[k].references \in Nat /\ group[k].activity \in Nat BY <1>3 DEF Group
  <2> HIDE DEF g, me
  <2>4. /\ g.references = group[k].references + One(u, Members(user', k)) - One(u, Members(user, k))
        /\ g.activity = group[k].activity + One(u, Inside(user', k, {"activity"}))
                                         - One(u, Inside(user, k, {"activity"}))
    BY <1>4, <2>1, <2>3
  <2> QED BY <1>2, <1>3, <1>4, <2>1, <2>2, <2>4, KeyFollows
<1>6. Join(k, g) /\ me.key = k /\ closed' = closed BY <1>1 DEF Queued, Join, Doing
<1>7. /\ TableInv' /\ \A m \in Keys : KeyInv(group[m], user, m)'
      /\ group'[k] = g
      /\ \A m \in Keys : m # k => group'[m] = group[m]
  <2> HIDE DEF g, me
  <2> QED BY <1>1, <1>2, <1>5, <1>6, JoinTable DEF Inv
<1>8. \A i \in DOMAIN group[k].waiting :
        /\ group[k].waiting[i] \in Users /\ group[k].waiting[i] # u
        /\ user'[group[k].waiting[i]] = user[group[k].waiting[i]]
  <2>1. u \notin Requesters(user, k) /\ Requesters(user, k) \subseteq Users
    BY <1>1 DEF Requesters
  <2>2. \A i \in DOMAIN group[k].waiting : group[k].waiting[i] \in Requesters(user, k)
    BY <1>3 DEF KeyInv, WaitingInv, Queue
  <2> QED BY <1>2, <2>1, <2>2
<1>9. /\ group[k].waiting \in Seq(Users) /\ Len(group[k].waiting) \in Nat
      /\ DOMAIN group[k].waiting = 1..Len(group[k].waiting)
      /\ DOMAIN g.waiting = 1..(Len(group[k].waiting) + 1)
      /\ g.waiting[Len(group[k].waiting) + 1] = u
      /\ \A i \in 1..Len(group[k].waiting) : g.waiting[i] = group[k].waiting[i]
  <2>1. group[k].waiting \in Seq(Users) BY <1>3 DEF Group
  <2> HIDE DEF g
  <2> QED BY <1>4, <2>1
<1>10. SleepsRightly(u)'
  <2> HIDE DEF g
  <2>1. /\ ~closed' /\ group'[k] = g /\ user'[u].key = k /\ user'[u].op = op
        /\ user'[u].st = "waiting"
    BY <1>1, <1>2, <1>6, <1>7 DEF Join, Doing
  <2> HIDE DEF me
  <2>2. ASSUME ~g.exclusive, NEW i \in DOMAIN g.waiting, g.waiting[i] = u,
               op = "polite" => g.activity = 0,
               \A j \in 1..(i - 1) : user'[g.waiting[j]].op = "polite" /\ g.activity # 0
        PROVE  FALSE
    <3>1. i = Len(group[k].waiting) + 1 BY <1>8, <1>9, <2>2
    <3>2. \A j \in DOMAIN group[k].waiting :
            Polite(group[k].waiting[j]) /\ group[k].activity # 0
      BY <1>4, <1>8, <1>9, <2>2, <3>1 DEF Polite
    <3>3. ~group[k].exclusive /\ (op = "polite" => group[k].activity = 0) BY <1>4, <2>2
    <3> QED BY <3>2, <3>3 DEF Queued
  <2>3. g.exclusive \/ ~Eligible(group[k], u)' BY <1>7, <2>1, <2>2 DEF Eligible, Polite
  <2> QED BY <1>1, <2>1, <2>3 DEF SleepsRightly, Sleeps, Exclusively
<1>11. ASSUME NEW v \in Users, v # u, user[v].key = k PROVE SleepsRightly(v)'
  <2> HIDE DEF g, me
  <2>1. user'[v] = user[v] /\ SleepsRightly(v) BY <1>2, <1>11 DEF Inv
  <2>2. Eligible(group[k], v)' => Eligible(group[k], v)
    <3>1. SUFFICES ASSUME NEW i \in DOMAIN g.waiting, g.waiting[i] = v,
                          user[v].op = "polite" => g.activity = 0,
                          \A j \in 1..(i - 1) : user'[g.waiting[j]].op = "polite" /\ g.activity # 0
                   PROVE  Eligible(group[k], v)
      BY <1>7, <2>1 DEF Eligible, Polite
    <3>2. i \in 1..Len(group[k].waiting) BY <1>9, <1>11, <3>1
    <3> DEFINE q == group[k].waiting
    <3>3. i \in DOMAIN q /\ q[i] = v /\ \A j \in 1..(i - 1) : j \in 1..Len(q) /\ g.waiting[j] = q[j]
      BY <1>8, <1>9, <3>1, <3>2
    <3>4. \A j \in 1..(i - 1) : user'[q[j]].op = user[q[j]].op BY <1>8, <3>3
    <3>5. \A j \in 1..(i - 1) : user[q[j]].op = "polite" /\ group[k].activity # 0
      <4> TAKE j \in 1..(i - 1)
      <4>1. user'[g.waiting[j]].op = "polite" /\ g.activity # 0 BY <3>1
      <4> QED BY <1>4, <3>3, <3>4, <4>1
    <3>6. user[v].op = "polite" => group[k].activity = 0 BY <1>4, <3>1
    <3> DEFINE Turn == \E h \in DOMAIN q :
                         /\ q[h] = v
                         /\ user[v].op = "polite" => group[k].activity = 0
                         /\ \A j \in 1..(h - 1) : user[q[j]].op = "polite" /\ group[k].activity # 0
    <3>7. Turn BY <3>3, <3>5, <3>6
    <3>8. Eligible(group[k], v) <=> Turn BY DEF Eligible, Polite
    <3> HIDE DEF Turn
    <3> QED BY <3>7, <3>8
  <2> QED BY <1>4, <1>6, <1>7, <1>11, <2>1, <2>2 DEF SleepsRightly, Sleeps
<1> HIDE DEF g, me
<1> QED BY <1>1, <1>2, <1>6, <1>7, <1>10, <1>11, Moves

\* A request that was queued has its turn.
LEMMA TurnsTaken ==
  ASSUME Inv, NEW u \in Users, TakeTurn(u)
  PROVE  Inv'
<1> DEFINE k == user[u].key
           me == [user[u] EXCEPT !.st = "inside", !.woken = FALSE]
           g == [group[k] EXCEPT !.exclusive = TRUE, !.waiting = Without(@, u)]
<1>1. /\ user[u].st = "waiting" /\ user[u].op \in Exclusively /\ ~group[k].exclusive
      /\ k \in Keys /\ NoKey # k
  BY GroupAssumption DEF TakeTurn, Requesting, Inv, UserInv, User, Exclusively
<1>2. /\ me.st = "inside" /\ me.op = user[u].op /\ me.key = k /\ Proper(me)
  BY <1>1 DEF Inv, UserInv, User, Proper, Exclusively
<1>3. user' = [user EXCEPT ![u] = me] BY DEF TakeTurn, Inv, UserInv, User
<1>4. /\ UserInv' /\ Others(user, user', u) /\ user'[u] = me
      /\ \A v \in Users : v # u => user'[v] = user[v]
  <2> HIDE DEF me
  <2> QED BY <1>2, <1>3, ChangedUsers DEF Inv
<1>5. KeyInv(group[k], user, k) /\ group[k] \in Group BY <1>1 DEF Inv, KeyInv
<1>6. /\ g.references = group[k].references /\ g.activity = group[k].activity
      /\ g.exclusive = TRUE /\ g.waiting = Without(group[k].waiting, u)
      /\ g.admission = group[k].admission
  BY <1>5 DEF Group
<1>7. KeyInv(g, user', k)
  <2>1. /\ One(u, Members(user, k)) = 1 /\ One(u, Members(user', k)) = 1
        /\ One(u, Inside(user, k, {"activity"})) = 0 /\ One(u, Inside(user', k, {"activity"})) = 0
        /\ u \notin Inside(user, k, Exclusively) /\ u \in Inside(user', k, Exclusively)
        /\ u \in Requesters(user, k) /\ u \notin Requesters(user', k)
        /\ u \notin Admitters(user, k) /\ u \notin Admitters(user', k)
    <3> HIDE DEF me
    <3> QED BY <1>1, <1>2, <1>4 DEF One, Members, Inside, Requesters, Admitters, Exclusively
  <2>2. g \in Fields
    <3>1. Requesters(user, k) \subseteq Users BY DEF Requesters
    <3>2. Without(group[k].waiting, u) \in Seq(Users)
      BY <1>5, <2>1, <3>1, QueueLess DEF KeyInv, WaitingInv
    <3>3. group[k] \in Fields BY <1>5 DEF Group, Fields
    <3> QED BY <3>2, <3>3, ChangedFields
  <2>3. group[k].references \in Nat /\ group[k].activity \in Nat BY <1>5 DEF Group
  <2> HIDE DEF k, g, me
  <2>4. /\ g.references = group[k].references + One(u, Members(user', k)) - One(u, Members(user, k))
        /\ g.activity = group[k].activity + One(u, Inside(user', k, {"activity"}))
                                         - One(u, Inside(user, k, {"activity"}))
    BY <1>6, <2>1, <2>3
  <2> QED BY <1>1, <1>4, <1>5, <1>6, <2>1, <2>2, <2>4, KeyFollows
<1>8. /\ group' = [group EXCEPT ![k] = g] /\ user[u].key = k
      /\ UNCHANGED <<groups, drained, closed, closer>>
  BY <1>1, <1>5 DEF TakeTurn, Inv, TableInv, Group
<1>9. /\ TableInv' /\ \A m \in Keys : KeyInv(group[m], user, m)'
      /\ group'[k] = g
      /\ \A m \in Keys : m # k => group'[m] = group[m]
  <2> HIDE DEF k, g, me
  <2> QED BY <1>1, <1>2, <1>4, <1>6, <1>7, <1>8, StayTable DEF Inv
<1>10. SleepsRightly(u)'
  <2> HIDE DEF me
  <2> QED BY <1>2, <1>4 DEF SleepsRightly, Sleeps
<1>11. ASSUME NEW v \in Users, v # u, user[v].key = k PROVE SleepsRightly(v)'
  <2>1. user'[v] = user[v] /\ SleepsRightly(v) BY <1>4, <1>11 DEF Inv
  <2>2. user'[v].key = k BY <1>11, <2>1
  <2> HIDE DEF k, g, me
  <2> QED BY <1>6, <1>8, <1>9, <1>11, <2>1, <2>2 DEF SleepsRightly, Sleeps
<1>12. \A v \in Users : v # u /\ user[v].key # k => user'[v] = user[v] BY <1>4
<1> HIDE DEF k, g, me
<1> QED BY <1>1, <1>4, <1>8, <1>9, <1>10, <1>11, <1>12, Moves

\* The first of the admission lock goes inside.
LEMMA AdmissionBegins ==
  ASSUME Inv, NEW u \in Users, user[u].st = "waiting", user[u].op = "admit",
         Head(group[user[u].key].admission) = u,
         user' = [user EXCEPT ![u].st = "inside"],
         UNCHANGED <<groups, group, drained, closed, closer>>
  PROVE  Inv'
<1> DEFINE k == user[u].key
           g == group[k]
           me == [user[u] EXCEPT !.st = "inside"]
<1>1. k \in Keys /\ NoKey # k BY GroupAssumption DEF Inv, UserInv, User
<1>2. me.st = "inside" /\ me.op = "admit" /\ me.key = k /\ Proper(me)
  BY <1>1 DEF Inv, UserInv, User, Proper
<1>3. user' = [user EXCEPT ![u] = me] BY DEF Inv, UserInv, User
<1>4. /\ UserInv' /\ Others(user, user', u) /\ user'[u] = me
      /\ \A v \in Users : v # u => user'[v] = user[v]
  <2> HIDE DEF me
  <2> QED BY <1>2, <1>3, ChangedUsers DEF Inv
<1>5. KeyInv(g, user, k) /\ g \in Group BY <1>1 DEF Inv, KeyInv
<1>6. KeyInv(g, user', k)
  <2>1. /\ One(u, Members(user, k)) = 1 /\ One(u, Members(user', k)) = 1
        /\ One(u, Inside(user, k, {"activity"})) = 0 /\ One(u, Inside(user', k, {"activity"})) = 0
        /\ u \notin Inside(user, k, Exclusively) /\ u \notin Inside(user', k, Exclusively)
        /\ u \notin Requesters(user, k) /\ u \notin Requesters(user', k)
        /\ u \in Admitters(user, k) /\ u \in Admitters(user', k)
    <3> HIDE DEF me
    <3> QED BY <1>1, <1>2, <1>4 DEF One, Members, Inside, Requesters, Admitters, Exclusively
  <2>2. g.admission[1] = u
    <3>1. g.admission \in Seq(Users) BY <1>5 DEF Group
    <3>2. Queue(g.admission, Admitters(user, k)) BY <1>5 DEF KeyInv, AdmissionInv
    <3> DEFINE q == g.admission
    <3>0. Head(q) = u OBVIOUS
    <3> HIDE DEF k, q, me
    <3>3. \E i \in DOMAIN q : q[i] = u BY <2>1, <3>2 DEF Queue, q
    <3>4. q \in Seq(Users) BY <3>1 DEF q
    <3>5. q # <<>> BY <3>3, <3>4
    <3>6. q[1] = u BY <3>0, <3>4, <3>5
    <3> QED BY <3>6 DEF q
  <2>3. g \in Fields /\ g.references \in Nat /\ g.activity \in Nat BY <1>5 DEF Group, Fields
  <2> HIDE DEF k, g, me
  <2>4. /\ g.references = g.references + One(u, Members(user', k)) - One(u, Members(user, k))
        /\ g.activity = g.activity + One(u, Inside(user', k, {"activity"}))
                                   - One(u, Inside(user, k, {"activity"}))
    BY <2>1, <2>3
  <2>5. CountInv(g, user', k) BY <1>4, <1>5, <2>4, CountsFollow DEF KeyInv
  <2>6. /\ Inside(user', k, Exclusively) = Inside(user, k, Exclusively)
        /\ Requesters(user', k) = Requesters(user, k)
        /\ Admitters(user', k) = Admitters(user, k)
    <3>1. \A v : /\ v \in Inside(user', k, Exclusively) <=> v \in Inside(user, k, Exclusively)
                 /\ v \in Requesters(user', k) <=> v \in Requesters(user, k)
                 /\ v \in Admitters(user', k) <=> v \in Admitters(user, k)
      BY <1>4, <2>1, OthersStay
    <3> QED BY <3>1
  <2>7. ExclusiveInv(g, user', k) /\ WaitingInv(g, user', k)
    BY <1>5, <2>6 DEF KeyInv, ExclusiveInv, WaitingInv
  <2>8. AdmissionInv(g, user', k)
    <3>1. ASSUME NEW v \in Inside(user', k, {"admit"}), v # u PROVE g.admission[1] = v
      BY <1>4, <1>5, <3>1, OthersStay DEF KeyInv, AdmissionInv
    <3> QED BY <1>5, <2>2, <2>6, <3>1 DEF KeyInv, AdmissionInv
  <2> QED BY <1>5, <2>5, <2>7, <2>8 DEF KeyInv
<1>7. group' = [group EXCEPT ![k] = g] /\ user[u].key = k BY DEF Inv, TableInv
<1>8. /\ TableInv' /\ \A m \in Keys : KeyInv(group[m], user, m)'
      /\ group'[k] = g
      /\ \A m \in Keys : m # k => group'[m] = group[m]
  <2>1. g.references = group[k].references OBVIOUS
  <2> HIDE DEF k, g, me
  <2> QED BY <1>1, <1>2, <1>4, <1>6, <1>7, <2>1, StayTable DEF Inv
<1>9. SleepsRightly(u)'
  <2> HIDE DEF me
  <2> QED BY <1>2, <1>4 DEF SleepsRightly, Sleeps
<1>10. u \notin Requesters(user, k) BY DEF Requesters, Exclusively
<1>11. /\ \A v \in Users : v # u /\ user[v].key # k => user'[v] = user[v]
       /\ g.activity = group[k].activity /\ g.exclusive = group[k].exclusive
       /\ g.waiting = group[k].waiting
  BY <1>4
<1> HIDE DEF k, g, me
<1> QED BY <1>1, <1>4, <1>7, <1>8, <1>9, <1>10, <1>11, Moves

\* A step that only wakes, or sends to sleep, changes nothing but who sleeps.
LEMMA OnlyWoken ==
  ASSUME Inv, group' = group, user' \in [Users -> User],
         \A v \in Users : /\ user'[v].st = user[v].st
                          /\ user'[v].op = user[v].op
                          /\ user'[v].key = user[v].key
  PROVE  /\ UserInv' /\ \A k \in Keys : KeyInv(group[k], user, k)'
         /\ \A k \in Keys, v \in Users : Eligible(group[k], v)' <=> Eligible(group[k], v)
<1>1. UserInv' BY DEF Inv, UserInv
<1>2. \A k \in Keys : KeyInv(group[k], user, k)' BY KeyFrame DEF Inv
<1>3. ASSUME NEW k \in Keys, NEW v \in Users
      PROVE  Eligible(group[k], v)' <=> Eligible(group[k], v)
  <2> DEFINE q == group[k].waiting
  <2>1. q \in Seq(Users) BY <1>3 DEF Inv, KeyInv, Group
  <2>2. \A i \in DOMAIN q : q[i] \in Users /\ \A j \in 1..(i - 1) : j \in DOMAIN q BY <2>1
  <2> QED BY <2>2 DEF Eligible, Polite
<1> QED BY <1>1, <1>2, <1>3

\* Whoever looks and cannot go on waits for the next change.
LEMMA SleepsAgain ==
  ASSUME Inv, NEW u \in Users, user[u].st = "waiting", user' = [user EXCEPT ![u].woken = FALSE],
         user[u].op = "idle" => ~closed /\ group[user[u].key].activity # 0,
         user[u].op \in Exclusively =>
           ~closed /\ (group[user[u].key].exclusive \/ ~Eligible(group[user[u].key], u)),
         UNCHANGED <<groups, group, drained, closed, closer>>
  PROVE  Inv'
<1>1. /\ user' \in [Users -> User]
      /\ \A v \in Users : /\ user'[v].st = user[v].st /\ user'[v].op = user[v].op
                          /\ user'[v].key = user[v].key
                          /\ v # u => user'[v] = user[v]
  BY DEF Inv, UserInv, User
<1>2. /\ UserInv' /\ \A k \in Keys : KeyInv(group[k], user, k)'
      /\ \A k \in Keys, v \in Users : Eligible(group[k], v)' <=> Eligible(group[k], v)
  BY <1>1, OnlyWoken
<1>3. TableInv' BY DEF Inv, TableInv
<1>4. ASSUME NEW v \in Users, Sleeps(user', v) PROVE SleepsRightly(v)'
  <2>1. user[v].key \in Keys BY <1>1, <1>4 DEF Sleeps, Inv, UserInv, User
  <2>2. Eligible(group[user[v].key], v)' <=> Eligible(group[user[v].key], v)
    BY <1>1, <1>2, <2>1
  <2>3. \/ v = u
        \/ v # u /\ Sleeps(user, v) /\ SleepsRightly(v)
    BY <1>1, <1>4 DEF Sleeps, Inv
  <2> QED BY <1>1, <2>2, <2>3 DEF SleepsRightly, Exclusively
<1>5. \A v \in Users : SleepsRightly(v)' BY <1>4 DEF SleepsRightly, Sleeps
<1> QED BY <1>2, <1>3, <1>5 DEF Inv

LEMMA Closes ==
  ASSUME Inv, CloseBegin
  PROVE  Inv'
<1>1. \A v \in Users : user'[v] = IF user[v].st = "waiting" /\ user[v].op # "admit"
                                  THEN [user[v] EXCEPT !.woken = TRUE] ELSE user[v]
  BY DEF CloseBegin
<1>2. /\ user' \in [Users -> User]
      /\ \A v \in Users : /\ user'[v].st = user[v].st /\ user'[v].op = user[v].op
                          /\ user'[v].key = user[v].key
                          /\ user[v].st = "waiting" /\ user[v].op # "admit" => user'[v].woken
  <2>1. user' = [v \in Users |-> user'[v]] BY DEF CloseBegin
  <2>2. ASSUME NEW v \in Users
        PROVE  /\ user'[v] \in User
               /\ user'[v].st = user[v].st /\ user'[v].op = user[v].op
               /\ user'[v].key = user[v].key
               /\ user[v].st = "waiting" /\ user[v].op # "admit" => user'[v].woken
    BY <1>1 DEF Inv, UserInv, User
  <2> QED BY <2>1, <2>2
<1>3. UserInv' /\ \A k \in Keys : KeyInv(group[k], user, k)'
  BY <1>2, OnlyWoken DEF CloseBegin
<1>4. TableInv' BY DEF CloseBegin, Inv, TableInv
<1>5. \A v \in Users : SleepsRightly(v)' BY <1>2 DEF SleepsRightly, Sleeps, Exclusively
<1> QED BY <1>3, <1>4, <1>5 DEF Inv

\* A step that leaves groups and coroutines alone.
LEMMA Untouched ==
  ASSUME Inv, UNCHANGED <<groups, group, user, closed, drained>>, TableInv'
  PROVE  Inv'
<1>1. UserInv' BY DEF Inv, UserInv
<1>2. \A k \in Keys : KeyInv(group[k], user, k)' BY DEF Inv
<1>3. \A v \in Users : SleepsRightly(v)'
  BY DEF Inv, SleepsRightly, Sleeps, Eligible, Polite
<1> QED BY <1>1, <1>2, <1>3 DEF Inv

-----------------------------------------------------------------------------
(* The theorems.                                                           *)

LEMMA InitInv == Init => Inv
<1> SUFFICES ASSUME Init PROVE Inv OBVIOUS
<1>1. UserInv BY GroupAssumption DEF Init, UserInv, Out, User, Ops
<1>2. Fresh \in Group /\ Fresh.references = 0 BY DEF Fresh, Group
<1>3. TableInv BY <1>2 DEF Init, TableInv
<1>4. ASSUME NEW k \in Keys PROVE KeyInv(group[k], user, k)
  <2>1. \A u \in Users : user[u].st = "out" /\ user[u].key = NoKey BY DEF Init, Out
  <2>2. NoKey # k BY GroupAssumption
  <2>3. Members(user, k) = {} BY <2>1, <2>2 DEF Members
  <2>4. \A ops : Inside(user, k, ops) = {} BY <2>1 DEF Inside
  <2>5. Requesters(user, k) = {} /\ Admitters(user, k) = {} BY <2>1 DEF Requesters, Admitters
  <2>6. Queue(<<>>, {}) BY DEF Queue
  <2>7. Cardinality({}) = 0 BY FS_EmptySet
  <2>8. group[k] = Fresh BY DEF Init
  <2>9. CountInv(Fresh, user, k) BY <2>3, <2>4, <2>7 DEF CountInv, Fresh
  <2>10. ExclusiveInv(Fresh, user, k) BY <2>4 DEF ExclusiveInv, Fresh
  <2>11. WaitingInv(Fresh, user, k) BY <2>5, <2>6 DEF WaitingInv, Fresh
  <2>12. AdmissionInv(Fresh, user, k) BY <2>4, <2>5, <2>6 DEF AdmissionInv, Fresh
  <2> QED BY <1>2, <2>8, <2>9, <2>10, <2>11, <2>12 DEF KeyInv
<1>5. \A v \in Users : SleepsRightly(v) BY DEF Init, Out, SleepsRightly, Sleeps
<1> QED BY <1>1, <1>3, <1>4, <1>5 DEF Inv

LEMMA NextInv == Inv /\ [Next]_vars => Inv'
<1> SUFFICES ASSUME Inv, [Next]_vars PROVE Inv' OBVIOUS
<1>1. ASSUME NEW u \in Users, Enter(u) PROVE Inv'
  <2>1. PICK k \in Keys : \/ ActivityEnter(u, k) \/ IdleEnter(u, k) \/ AdmitEnter(u, k)
                          \/ \E op \in {"exclusive", "polite"} : ExclusiveEnter(u, k, op)
    BY <1>1 DEF Enter
  <2>2. CASE ActivityEnter(u, k) BY <2>2, ActivityEnters
  <2>3. CASE IdleEnter(u, k) BY <2>3, IdleEnters
  <2>4. CASE AdmitEnter(u, k) BY <2>4, AdmitEnters
  <2>5. ASSUME NEW op, ExclusiveEnter(u, k, op) PROVE Inv'
    <3>1. group[k] \in Group BY DEF Inv, KeyInv
    <3>2. TurnAtOnce(u, k, op) \/ Queued(u, k, op) BY <2>5, <3>1, ExclusiveEnters
    <3> QED BY <3>2, TurnsAtOnce, RequestsQueue
  <2> QED BY <2>1, <2>2, <2>3, <2>4, <2>5
<1>2. ASSUME NEW u \in Users, Resume(u) PROVE Inv'
  <2>1. CASE IdleResume(u)
    <3>1. user[u].st = "waiting" /\ user[u].op = "idle" /\ UNCHANGED <<closed, closer>>
      BY <2>1 DEF IdleResume
    <3>2. CASE closed \/ group[user[u].key].activity = 0
      <4>1. IdleLeave(u) BY <2>1, <3>2 DEF IdleResume, IdleLeave
      <4> QED BY <3>1, <4>1, IdleLeaves
    <3>3. CASE ~closed /\ group[user[u].key].activity # 0
      <4>1. user' = [user EXCEPT ![u].woken = FALSE] /\ UNCHANGED <<groups, group, drained>>
        BY <2>1, <3>3 DEF IdleResume
      <4>2. user[u].op \notin Exclusively BY <3>1 DEF Exclusively
      <4> QED BY <3>1, <3>3, <4>1, <4>2, SleepsAgain
    <3> QED BY <3>2, <3>3
  <2>2. CASE TakeTurn(u) BY <2>2, TurnsTaken
  <2>3. CASE LookAgain(u)
    <3>1. /\ user[u].st = "waiting" /\ user[u].op \in Exclusively /\ user[u].op # "idle"
          /\ UNCHANGED <<closed, closer>>
      BY <2>3 DEF LookAgain, Requesting, Exclusively
    <3>2. CASE Withdraw(u) BY <3>1, <3>2, RequestLeaves
    <3>3. CASE ~Withdraw(u)
      <4>1. /\ ~closed
            /\ group[user[u].key].exclusive \/ ~Eligible(group[user[u].key], u)
            /\ user' = [user EXCEPT ![u].woken = FALSE]
            /\ UNCHANGED <<groups, group, drained>>
        BY <2>3, <3>3 DEF LookAgain
      <4> QED BY <3>1, <4>1, SleepsAgain
    <3> QED BY <3>2, <3>3
  <2>4. CASE AdmitBegin(u)
    <3>1. /\ user[u].st = "waiting" /\ user[u].op = "admit"
          /\ Head(group[user[u].key].admission) = u /\ UNCHANGED <<closed, closer>>
      BY <2>4 DEF AdmitBegin
    <3>2. CASE closed
      <4>1. LeaveAdmission(u) BY <2>4, <3>2 DEF AdmitBegin
      <4> QED BY <3>1, <4>1, AdmissionLeaves
    <3>3. CASE ~closed
      <4>1. user' = [user EXCEPT ![u].st = "inside"] /\ UNCHANGED <<groups, group, drained>>
        BY <2>4, <3>3 DEF AdmitBegin
      <4> QED BY <3>1, <4>1, AdmissionBegins
    <3> QED BY <3>2, <3>3
  <2> QED BY <1>2, <2>1, <2>2, <2>3, <2>4 DEF Resume
<1>3. ASSUME NEW u \in Users, Leave(u) PROVE Inv'
  <2>1. CASE ActivityLeave(u) BY <2>1, ActivityLeaves
  <2>2. CASE ExclusiveLeave(u) BY <2>2, ExclusiveLeaves
  <2>3. CASE AdmitLeave(u) BY <2>3, AdmissionLeaves DEF AdmitLeave
  <2> QED BY <1>3, <2>1, <2>2, <2>3 DEF Leave
<1>4. ASSUME NEW u \in Users, Cancel(u) PROVE Inv'
  <2>1. user[u].st = "waiting" /\ UNCHANGED <<closed, closer>> BY <1>4 DEF Cancel
  <2>2. CASE user[u].op \in {"exclusive", "polite"} /\ Withdraw(u)
    BY <2>1, <2>2, RequestLeaves DEF Exclusively
  <2>3. CASE user[u].op = "admit" /\ LeaveAdmission(u) BY <2>1, <2>3, AdmissionLeaves
  <2>4. CASE user[u].op = "idle" /\ IdleLeave(u) BY <2>1, <2>4, IdleLeaves
  <2> QED BY <1>4, <2>2, <2>3, <2>4 DEF Cancel, IdleLeave
<1>5. CASE CloseBegin BY <1>5, Closes
<1>6. CASE CloseEnd
  <2>1. TableInv' BY <1>6 DEF CloseEnd, Inv, TableInv
  <2> QED BY <1>6, <2>1, Untouched DEF CloseEnd
<1>7. CASE UNCHANGED vars
  <2>1. TableInv' BY <1>7 DEF vars, Inv, TableInv
  <2> QED BY <1>7, <2>1, Untouched DEF vars
<1> QED BY <1>1, <1>2, <1>3, <1>4, <1>5, <1>6, <1>7 DEF Next, UserStep, Close

\* The invariant holds of every reachable state.
THEOREM Invariance == Spec => []Inv
BY InitInv, NextInv, PTL DEF Spec

\* Every variable keeps its type: the counts of a group never go below zero.
THEOREM TypeCorrect == Spec => []TypeOK
<1>1. Inv => TypeOK BY DEF Inv, UserInv, TableInv, TypeOK
<1> QED BY <1>1, Invariance, PTL

\* Two coroutines are never inside exclusive work, or inside an admission, of
\* one key (Tasks.exclusive, Tasks._admit).
THEOREM ExclusionHolds == Spec => []Exclusion
<1>1. Inv => Exclusion
  <2> SUFFICES ASSUME Inv, NEW k \in Keys, NEW u \in Users, NEW v \in Users, u # v
               PROVE  /\ ~(In(u, k, {"exclusive", "polite"}) /\ In(v, k, {"exclusive", "polite"}))
                      /\ ~(In(u, k, {"admit"}) /\ In(v, k, {"admit"}))
    BY DEF Exclusion
  <2>1. \A w \in Users : In(w, k, {"exclusive", "polite"}) => w \in Inside(user, k, Exclusively)
    BY DEF In, Inside, Exclusively
  <2>2. \A w \in Users : In(w, k, {"admit"}) => w \in Inside(user, k, {"admit"})
    BY DEF In, Inside
  <2> QED BY <2>1, <2>2 DEF Inv, KeyInv, ExclusiveInv, AdmissionInv
<1> QED BY <1>1, Invariance, PTL

\* The counts of a group are those of the coroutines that use it (_group,
\* _release_group), however often groups are dropped and made anew.
THEOREM GroupsCountUsers == Spec => []GroupIsItsUsers
<1>1. Inv => GroupIsItsUsers
  <2> SUFFICES ASSUME Inv, NEW k \in Keys
               PROVE  /\ group[k].references = Cardinality({u \in Users : user[u].key = k})
                      /\ group[k].activity = Cardinality({u \in Users : In(u, k, {"activity"})})
                      /\ group[k].exclusive <=> \E u \in Users : In(u, k, {"exclusive", "polite"})
    BY DEF GroupIsItsUsers
  <2>1. Members(user, k) = {u \in Users : user[u].key = k} BY DEF Members
  <2>2. Inside(user, k, {"activity"}) = {u \in Users : In(u, k, {"activity"})} BY DEF Inside, In
  <2>3. Inside(user, k, Exclusively) # {} <=> \E u \in Users : In(u, k, {"exclusive", "polite"})
    BY DEF Inside, In, Exclusively
  <2> QED BY <2>1, <2>2, <2>3 DEF Inv, KeyInv, CountInv, ExclusiveInv
<1> QED BY <1>1, Invariance, PTL

\* No wakeup is lost between a coroutine's look and its wait (_Group.notify).
THEOREM NoWakeupLost == Spec => []NobodySleepsOverTurn
<1>1. Inv => NobodySleepsOverTurn BY SleepersAreAll DEF Inv
<1> QED BY <1>1, Invariance, PTL

\* When close returns nobody uses the service (Tasks.close).
THEOREM CloseDrains == Spec => []ClosedIsEmpty
<1>1. Inv => ClosedIsEmpty
  <2> SUFFICES ASSUME Inv, closer = "over", NEW u \in Users, user[u].st # "out" PROVE FALSE
    BY DEF ClosedIsEmpty, AllOut
  <2>1. PICK k \in Keys : user[u].key = k BY DEF Inv, UserInv, User
  <2>2. Members(user, k) # {} /\ Members(user, k) \in SUBSET Users BY <2>1 DEF Members
  <2>3. group[k].references # 0
    BY <2>2, SubsetCount, FS_EmptySet DEF Inv, KeyInv, CountInv
  <2> QED BY <2>3 DEF Inv, TableInv
<1> QED BY <1>1, Invariance, PTL

\* Who begins exclusive work took its turn, at once or out of the queue.
LEMMA WhoBegins ==
  ASSUME Inv, Next, NEW v \in Users, user[v].st # "inside", user'[v].st = "inside",
         user'[v].op \in Exclusively
  PROVE  TakeTurn(v) \/ \E k \in Keys : \E op : TurnAtOnce(v, k, op)
<1> DEFINE Still == \A w \in Users : user'[w].st = "inside" => user[w].st = "inside"
           Only(u) == \A w \in Users : w # u /\ user'[w].st = "inside" => user[w].st = "inside"
<1>1. \A u \in Users : \A k, me :
        user' = Notified(k, u, me) => user'[u] = me /\ Only(u)
  <2> SUFFICES ASSUME NEW u \in Users, NEW k, NEW me, user' = Notified(k, u, me)
               PROVE  user'[u] = me /\ Only(u)
    OBVIOUS
  <2>1. user'[u] = me BY DEF Notified
  <2>2. ASSUME NEW w \in Users, w # u PROVE user'[w].st = user[w].st
    BY <2>2 DEF Notified, Inv, UserInv, User
  <2> QED BY <2>1, <2>2
<1>2. \A u \in Users : \A me : user' = [user EXCEPT ![u] = me] => user'[u] = me /\ Only(u)
  BY DEF Inv, UserInv
<1>3. Out.st # "inside" BY DEF Out
<1>4. ASSUME NEW u \in Users, Enter(u) PROVE \E k \in Keys : \E op : TurnAtOnce(v, k, op)
  <2>1. PICK k \in Keys : \/ ActivityEnter(u, k) \/ IdleEnter(u, k) \/ AdmitEnter(u, k)
                          \/ \E op \in {"exclusive", "polite"} : ExclusiveEnter(u, k, op)
    BY <1>4 DEF Enter
  <2>2. CASE ActivityEnter(u, k)
    <3>1. user'[u] = Doing("inside", "activity", k) /\ Only(u) BY <1>1, <2>2 DEF ActivityEnter
    <3>2. v = u BY <3>1
    <3> QED BY <3>1, <3>2 DEF Doing, Exclusively
  <2>3. CASE IdleEnter(u, k) BY <1>2, <2>3 DEF IdleEnter, Doing
  <2>4. CASE AdmitEnter(u, k) BY <1>2, <2>4 DEF AdmitEnter, Doing
  <2>5. ASSUME NEW op, ExclusiveEnter(u, k, op) PROVE TurnAtOnce(v, k, op)
    <3>1. group[k] \in Group BY DEF Inv, KeyInv
    <3>2. TurnAtOnce(u, k, op) \/ Queued(u, k, op) BY <2>5, <3>1, ExclusiveEnters
    <3>3. ASSUME Queued(u, k, op) PROVE FALSE
      <4>1. user'[u] = Doing("waiting", op, k) /\ Only(u) BY <1>2, <3>3 DEF Queued
      <4>2. user'[u].st = "waiting" BY <4>1 DEF Doing
      <4> QED BY <4>1, <4>2
    <3>4. TurnAtOnce(u, k, op) => u = v BY <1>2 DEF TurnAtOnce
    <3> QED BY <3>2, <3>3, <3>4
  <2> QED BY <2>1, <2>2, <2>3, <2>4, <2>5
<1>5. ASSUME NEW u \in Users, Resume(u) PROVE TakeTurn(v)
  <2>1. ~IdleResume(u) BY <1>2, <1>3 DEF IdleResume, Inv, UserInv, User
  <2>2. ~LookAgain(u) BY <1>1, <1>2, <1>3 DEF LookAgain, Withdraw, Inv, UserInv, User
  <2>3. ~AdmitBegin(u)
    BY <1>2, <1>3 DEF AdmitBegin, LeaveAdmission, Exclusively, Inv, UserInv, User
  <2>4. TakeTurn(u) => u = v BY DEF TakeTurn, Inv, UserInv, User
  <2> QED BY <1>5, <2>1, <2>2, <2>3, <2>4 DEF Resume
<1>6. ASSUME NEW u \in Users, Leave(u) PROVE FALSE
  BY <1>1, <1>2, <1>3, <1>6
  DEF Leave, ActivityLeave, ExclusiveLeave, AdmitLeave, LeaveAdmission
<1>7. ASSUME NEW u \in Users, Cancel(u) PROVE FALSE
  BY <1>1, <1>2, <1>3, <1>7 DEF Cancel, Withdraw, LeaveAdmission
<1>8. ~CloseBegin BY DEF CloseBegin, Inv, UserInv, User
<1>9. ~CloseEnd BY DEF CloseEnd
<1> QED BY <1>4, <1>5, <1>6, <1>7, <1>8, <1>9 DEF Next, UserStep, Close

\* A request that activity cannot hold back is never overtaken by a later one
\* (Tasks.exclusive): whoever begins was queued in front of it.
THEOREM NobodyOvertakes == Spec => NotOvertaken
<1> DEFINE Overtakes(u, v) ==
             /\ user[u].st = "waiting" /\ user[u].op = "exclusive"
             /\ user'[v].st = "inside" /\ user[v].st # "inside"
             /\ user'[v].op \in {"exclusive", "polite"} /\ user'[v].key = user[u].key
           InFront(u, v) ==
             \E i, j \in DOMAIN group[user[u].key].waiting :
               /\ i <= j
               /\ group[user[u].key].waiting[i] = v
               /\ group[user[u].key].waiting[j] = u
<1>1. ASSUME Inv, [Next]_vars, NEW u \in Users, NEW v \in Users, Overtakes(u, v)
      PROVE  InFront(u, v)
  <2> DEFINE k == user[u].key
             q == group[k].waiting
  <2>1. Next BY <1>1 DEF vars
  <2>2. k \in Keys /\ u \in Requesters(user, k) /\ ~Polite(u)
    BY <1>1 DEF Inv, UserInv, User, Requesters, Exclusively, Polite
  <2>3. PICK j \in DOMAIN q : q[j] = u
    BY <1>1, <2>2 DEF Inv, KeyInv, WaitingInv, Queue
  <2>4. q \in Seq(Users) /\ DOMAIN q = 1..Len(q) BY <1>1, <2>2 DEF Inv, KeyInv, Group
  <2>5. CASE TakeTurn(v)
    <3>1. user[v].key = k BY <1>1, <2>5 DEF TakeTurn, Inv, UserInv, User
    <3>2. PICK i \in DOMAIN q : q[i] = v /\ \A h \in 1..(i - 1) : Polite(q[h])
      BY <2>5, <3>1 DEF TakeTurn, Eligible
    <3>3. i <= j BY <2>2, <2>3, <2>4, <3>2
    <3> QED BY <2>3, <3>2, <3>3
  <2>6. ASSUME NEW m \in Keys, NEW op, TurnAtOnce(v, m, op) PROVE FALSE
    <3>1. user'[v].key = m BY <1>1, <2>6 DEF TurnAtOnce, Doing, Inv, UserInv
    <3>2. m = k BY <1>1, <3>1
    <3> QED BY <2>2, <2>3, <2>6, <3>2 DEF TurnAtOnce
  <2> QED BY <1>1, <2>1, <2>5, <2>6, WhoBegins DEF Exclusively
<1>2. Inv /\ [Next]_vars =>
        [\A u, v \in Users :
           (/\ user[u].st = "waiting" /\ user[u].op = "exclusive"
            /\ user'[v].st = "inside" /\ user[v].st # "inside"
            /\ user'[v].op \in {"exclusive", "polite"} /\ user'[v].key = user[u].key)
           => \E i, j \in DOMAIN group[user[u].key].waiting :
                i <= j /\ group[user[u].key].waiting[i] = v /\ group[user[u].key].waiting[j] = u
        ]_vars
  BY <1>1
<1> QED BY <1>2, Invariance, PTL DEF Spec, NotOvertaken

=============================================================================
