---------------------------- MODULE DeliveryProofs ----------------------------
(***************************************************************************)
(* Theorems about Delivery, for any deliveries, senders and disturbances.  *)
(*                                                                         *)
(* Every step but a crash is about one delivery, so the inductive          *)
(* invariant is stated for one delivery at a time: who holds the admission *)
(* of its key, how what its task has seen relates to the record, what the  *)
(* task knows of the call relates to the effect, and who will look again.  *)
(***************************************************************************)
EXTENDS Delivery, TLAPS

-----------------------------------------------------------------------------
(* The inductive invariant.                                                *)

Unsettled(d) == record[d].phase \in {"prepared", "started"}

\* The admission of the key: the task's begin, a withdrawal or a retry.
LockInv(d) ==
  /\ lock[d] = "task" <=> task[d].st \in InLock
  /\ lock[d] = "retry" <=> retry[d] \in {"read", "rearm"}
  /\ lock[d] = "withdrawn" => record[d].phase = "rejected"
  /\ retry[d] = "rearm" => record[d].phase = "rejected" /\ task[d].st = "free"

\* A record that was seen started changes only through the task that saw it; one
\* that was seen prepared may have been withdrawn, unless the admission is held.
SeenInv(d) ==
  /\ task[d].seen.phase = "started" => task[d].seen = record[d]
  /\ task[d].seen.phase = "prepared" => record[d].phase \in {"prepared", "rejected"}
  /\ task[d].st \in {"query", "calling", "save", "failing"} => task[d].seen.phase = "started"
  /\ task[d].st \in {"admit", "begin", "starting"} =>
       task[d].seen.phase = "prepared" \/ (task[d].seen.phase = "started" /\ d \in Idempotent)
  /\ task[d].st = "starting" => task[d].seen = record[d]
  /\ task[d].st = "free" => task[d] = Free

\* Nothing has happened outside, and nothing will of itself.
Untouched(d) == effects[d] = 0 /\ ~orphans[d]

\* An answer that says what happened outside is true, and stays true.
Holds(d, answer) ==
  /\ answer = "delivered" => effects[d] = 1
  /\ answer = "rejected" => Untouched(d)

EffectInv(d) ==
  /\ effects[d] \in 0..1
  /\ call[d] # "none" <=> task[d].st = "calling"
  /\ call[d] = "done" => effects[d] = 1
  /\ Holds(d, call[d])
  /\ task[d].st = "save" => Holds(d, task[d].receipt)
  /\ task[d].st = "save" => task[d].receipt \in Terminal
  /\ task[d].st = "failing" => task[d].receipt = "failed"
  /\ Holds(d, record[d].phase)
  /\ record[d].phase \in {"none", "prepared"} => Untouched(d)
  /\ d \notin Idempotent /\ call[d] = "out" => Untouched(d)
  /\ d \notin Idempotent /\ orphans[d] => effects[d] = 0

\* Nobody works on what was not prepared; what is left unsettled was told of.
WantInv(d) ==
  /\ record[d].phase = "none" =>
       asks[d] = 0 /\ task[d].st = "free" /\ retry[d] = "none" /\ lock[d] = "none"
  /\ Unsettled(d) /\ task[d].st = "closing" => left[d]
  /\ Unsettled(d) /\ task[d].st = "free" => asks[d] # 0 \/ left[d]

DInv(d) == LockInv(d) /\ SeenInv(d) /\ EffectInv(d) /\ WantInv(d)

IInv == TypeOK /\ \A d \in Deliveries : DInv(d)

-----------------------------------------------------------------------------
(* Steps that are about one delivery.                                      *)

\* Nothing the invariant says of e has changed.
Same(e) ==
  /\ record'[e] = record[e] /\ task'[e] = task[e] /\ lock'[e] = lock[e]
  /\ asks'[e] = asks[e] /\ left'[e] = left[e] /\ retry'[e] = retry[e]
  /\ call'[e] = call[e] /\ orphans'[e] = orphans[e] /\ effects'[e] = effects[e]

LEMMA SameKeeps ==
  ASSUME NEW e \in Deliveries, DInv(e), Same(e)
  PROVE  DInv(e)'
<1>1. LockInv(e)' BY DEF DInv, LockInv, Same
<1>2. SeenInv(e)' BY DEF DInv, SeenInv, Same
<1>3. EffectInv(e)' BY DEF DInv, EffectInv, Holds, Untouched, Same
<1>4. WantInv(e)' BY DEF DInv, WantInv, Unsettled, Same
<1> QED BY <1>1, <1>2, <1>3, <1>4 DEF DInv

\* It is enough to look at the delivery a step is about.
LEMMA OneByOne ==
  ASSUME IInv, TypeOK', NEW d \in Deliveries, DInv(d)',
         \A e \in Deliveries : e # d => Same(e)
  PROVE  IInv'
<1>1. ASSUME NEW e \in Deliveries, e # d PROVE DInv(e)'
  BY <1>1, SameKeeps DEF IInv
<1> QED BY <1>1 DEF IInv

-----------------------------------------------------------------------------
(* Types of what a step writes.                                            *)

LEMMA RowTyped ==
  ASSUME TypeOK, NEW d \in Deliveries, NEW phase \in Phases
  PROVE  /\ Saved(d, phase) \in Row
         /\ Save(d, phase) => record' \in [Deliveries -> Row]
BY DEF TypeOK, Row, Saved, Save

LEMMA PutTyped ==
  ASSUME TypeOK, NEW d \in Deliveries, NEW job \in Job, task' = [task EXCEPT ![d] = job]
  PROVE  task' \in [Deliveries -> Job]
BY DEF TypeOK

LEMMA JobTyped ==
  ASSUME NEW f \in [Deliveries -> Job], NEW d \in Deliveries,
         NEW st \in Stages, NEW seen \in Row, NEW receipt \in {"none"} \cup Terminal
  PROVE  /\ [f EXCEPT ![d].st = st] \in [Deliveries -> Job]
         /\ [f EXCEPT ![d].st = st, ![d].seen = seen] \in [Deliveries -> Job]
         /\ [f EXCEPT ![d].st = st, ![d].receipt = receipt] \in [Deliveries -> Job]
BY DEF Job

LEMMA StartedTyped ==
  ASSUME NEW job \in Job, NEW seen \in Row
  PROVE  [job EXCEPT !.st = "calling", !.seen = seen] \in Job
BY DEF Job, Stages, Inside, InTry

LEMMA JudgeTyped ==
  ASSUME TypeOK, NEW d \in Deliveries, NEW st \in Stages, NEW receipt \in {"none"} \cup Terminal,
         task' = [task EXCEPT ![d].st = st, ![d].receipt = receipt]
  PROVE  task' \in [Deliveries -> Job]
<1>1. NoRecord \in Row BY DEF NoRecord, Row, Phases
<1>2. [task EXCEPT ![d].st = st, ![d].receipt = receipt] \in [Deliveries -> Job]
  BY <1>1, JobTyped DEF TypeOK
<1> QED BY <1>2

LEMMA GotoTyped ==
  ASSUME TypeOK, NEW d \in Deliveries, NEW st \in Stages,
         Goto(d, st) \/ See(d, st) \/ Leave(d)
  PROVE  task' \in [Deliveries -> Job]
<1>1. CASE Goto(d, st)
  <2>1. task[d].receipt \in {"none"} \cup Terminal /\ task[d].seen \in Row
    BY DEF TypeOK, Job
  <2>2. [task EXCEPT ![d].st = st] \in [Deliveries -> Job] BY <2>1, JobTyped DEF TypeOK
  <2> QED BY <1>1, <2>2 DEF Goto
<1>2. CASE See(d, st)
  <2>1. record[d] \in Row BY DEF TypeOK
  <2>2. [task EXCEPT ![d].st = st, ![d].seen = record[d]] \in [Deliveries -> Job]
    BY <2>1, JobTyped DEF TypeOK
  <2> QED BY <1>2, <2>2 DEF See
<1>3. CASE Leave(d)
  <2>1. Closing \in Job
    BY DEF Job, Row, Closing, Free, NoRecord, Stages, Phases
  <2> QED BY <1>3, <2>1 DEF TypeOK, Leave
<1> QED BY <1>1, <1>2, <1>3

LEMMA EmptyJobs == Free \in Job /\ Closing \in Job /\ [Free EXCEPT !.st = "read"] \in Job
BY DEF Job, Free, Closing, NoRecord, Row, Stages, Phases

LEMMA ClosingIs == Closing.st = "closing" /\ Closing.seen.phase = "none"
BY DEF Closing, Free, NoRecord

LEMMA StagesAre == {"free", "read", "wait", "closing", "inside", "query", "save", "failing",
                    "admit", "begin", "starting", "calling"} = Stages
BY DEF Stages, Inside, InTry

LEMMA PhasesAre == {"none", "prepared", "started", "delivered", "rejected", "failed"} = Phases
BY DEF Phases, Terminal

-----------------------------------------------------------------------------
(* What each step does, to the invariant and to the promise.               *)

\* What a step makes of the record and the effect of a delivery, as the promise
\* sees it: nothing, or one of its steps.
Kept(d) == record'[d].phase = record[d].phase /\ effects'[d] = effects[d]

Turned(d, from, to) ==
  record[d].phase = from /\ record'[d].phase = to /\ effects'[d] = effects[d]

Promised(d) ==
  \/ Kept(d)
  \/ Turned(d, "none", "prepared")
  \/ Turned(d, "prepared", "rejected")
  \/ Turned(d, "prepared", "started")
  \/ Turned(d, "rejected", "prepared")
  \/ \E outcome \in {"delivered", "rejected", "failed"} :
       Turned(d, "started", outcome) /\ Holds(d, outcome)
  \/ /\ record[d].phase \in {"started", "failed"} /\ record'[d].phase = record[d].phase
     /\ effects[d] = 0 /\ effects'[d] = 1

\* A step that is about d.
Step(d) == IInv' /\ Promised(d) /\ \A e \in Deliveries : e # d => Same(e)

LEMMA PrepareStep ==
  ASSUME IInv, NEW d \in Deliveries, Prepare(d)
  PROVE  Step(d)
<1> USE DEF Prepare, Save, Saved, MaxAsks
<1>1. TypeOK'
  <2>0. TypeOK BY DEF IInv
  <2>1. record' \in [Deliveries -> Row] BY <2>0, PhasesAre, RowTyped DEF TypeOK
  <2>2. task' \in [Deliveries -> Job]
    BY <2>0 DEF TypeOK
  <2>3. QED BY <2>0, <2>1, <2>2, DeliveryAssumption DEF TypeOK, Calls, Terminal, Under
<1>2. \A e \in Deliveries : e # d => Same(e) BY DEF IInv, TypeOK, Same
<1>3. DInv(d) /\ TypeOK BY DEF IInv
<1>4. LockInv(d)' BY <1>3 DEF DInv, LockInv, InLock, SeenInv, TypeOK, Job, Row
<1>5. SeenInv(d)' BY <1>3 DEF DInv, SeenInv, LockInv, InLock, Free, NoRecord, TypeOK, Job, Row
<1>6. EffectInv(d)' BY <1>3 DEF DInv, EffectInv, SeenInv, LockInv, InLock, Holds, Untouched, TypeOK, Job, Row
<1>7. WantInv(d)' BY <1>3 DEF DInv, WantInv, SeenInv, LockInv, InLock, Unsettled, EffectInv, Terminal, TypeOK, Job, Row
<1>8. Promised(d) BY <1>3 DEF Promised, Turned, TypeOK
<1> QED BY <1>1, <1>2, <1>4, <1>5, <1>6, <1>7, <1>8, OneByOne DEF DInv, Step

LEMMA StartStep ==
  ASSUME IInv, NEW d \in Deliveries, Start(d)
  PROVE  Step(d)
<1> USE DEF Start
<1>1. TypeOK'
  <2>0. TypeOK BY DEF IInv
  <2>1. record' \in [Deliveries -> Row] BY <2>0, PhasesAre, RowTyped DEF TypeOK
  <2>2. task' \in [Deliveries -> Job]
    BY <2>0, PutTyped, EmptyJobs DEF TypeOK
  <2>3. asks' \in [Deliveries -> Nat] BY <2>0 DEF TypeOK
  <2>4. left' \in [Deliveries -> BOOLEAN] BY <2>0 DEF TypeOK
  <2> QED BY <2>0, <2>1, <2>2, <2>3, <2>4 DEF TypeOK
<1>2. \A e \in Deliveries : e # d => Same(e) BY DEF IInv, TypeOK, Same
<1>3. DInv(d) /\ TypeOK BY DEF IInv
<1>4. LockInv(d)' BY <1>3 DEF DInv, LockInv, InLock, SeenInv, TypeOK, Job, Row
<1>5. SeenInv(d)'
  <2>1. CASE task[d].st = "free"
    <3>1. task'[d] = [Free EXCEPT !.st = "read"] BY <1>3, <2>1 DEF TypeOK
    <3>2. task'[d].seen.phase = "none" /\ task'[d].st = "read" BY <3>1 DEF Free, NoRecord
    <3> QED BY <3>2 DEF SeenInv
  <2>2. CASE task[d].st # "free" BY <1>3, <2>2 DEF DInv, SeenInv
  <2> QED BY <2>1, <2>2
<1>6. EffectInv(d)' BY <1>3 DEF DInv, EffectInv, SeenInv, LockInv, InLock, Holds, Untouched, TypeOK, Job, Row
<1>7. WantInv(d)' BY <1>3 DEF DInv, WantInv, SeenInv, LockInv, InLock, Unsettled, EffectInv, Terminal, TypeOK, Job, Row
<1>8. Promised(d) BY <1>3 DEF Promised, Kept, TypeOK
<1> QED BY <1>1, <1>2, <1>4, <1>5, <1>6, <1>7, <1>8, OneByOne DEF DInv, Step

LEMMA ReadStep ==
  ASSUME IInv, NEW d \in Deliveries, Read(d)
  PROVE  Step(d)
<1> USE DEF Read, See, Leave, Settled, Terminal, Closing, Free
<1>1. TypeOK'
  <2>0. TypeOK BY DEF IInv
  <2>1. record' \in [Deliveries -> Row] BY <2>0, PhasesAre, RowTyped DEF TypeOK
  <2>2. task' \in [Deliveries -> Job]
    <3> HIDE DEF See, Leave, Closing
    <3>1. Leave(d) \/ See(d, "wait") OBVIOUS
    <3> QED BY <2>0, <3>1, GotoTyped, StagesAre
  <2>3. QED BY <2>0, <2>1, <2>2, DeliveryAssumption DEF TypeOK, Calls, Terminal, Under
<1>2. \A e \in Deliveries : e # d => Same(e) BY DEF IInv, TypeOK, Same
<1>3. DInv(d) /\ TypeOK BY DEF IInv
<1>4. LockInv(d)' BY <1>3 DEF DInv, LockInv, InLock, SeenInv, TypeOK, Job, Row
<1>5. SeenInv(d)'
  <2>1. CASE Settled(d)
    <3>1. task'[d] = Closing BY <1>3, <2>1 DEF TypeOK
    <3> HIDE DEF Read, Settled, See, Leave, Free, Closing
    <3> QED BY <3>1, ClosingIs DEF SeenInv
  <2>2. CASE ~Settled(d)
    <3>1. record[d].phase # "rejected" BY <2>2
    <3>2. task'[d].seen = record'[d] /\ record'[d] = record[d] /\ task'[d].st = "wait"
      BY <1>3, <2>2 DEF TypeOK, Job
    <3> HIDE DEF Read, Settled, See, Leave, Free, Closing
    <3> QED BY <3>1, <3>2 DEF SeenInv
  <2> QED BY <2>1, <2>2
<1>6. EffectInv(d)' BY <1>3 DEF DInv, EffectInv, SeenInv, LockInv, InLock, Holds, Untouched, TypeOK, Job, Row
<1>7. WantInv(d)' BY <1>3 DEF DInv, WantInv, SeenInv, LockInv, InLock, Unsettled, EffectInv, Terminal, TypeOK, Job, Row
<1>8. Promised(d) BY <1>3 DEF Promised, Kept, TypeOK
<1> QED BY <1>1, <1>2, <1>4, <1>5, <1>6, <1>7, <1>8, OneByOne DEF DInv, Step

LEMMA EnterStep ==
  ASSUME IInv, NEW d \in Deliveries, Enter(d)
  PROVE  Step(d)
<1> USE DEF Enter, Goto
<1>1. TypeOK'
  <2>0. TypeOK BY DEF IInv
  <2>1. record' \in [Deliveries -> Row] BY <2>0, PhasesAre, RowTyped DEF TypeOK
  <2>2. task' \in [Deliveries -> Job]
    <3> HIDE DEF Goto
    <3>1. Goto(d, "inside") OBVIOUS
    <3> QED BY <2>0, <3>1, GotoTyped, StagesAre
  <2>3. QED BY <2>0, <2>1, <2>2, DeliveryAssumption DEF TypeOK, Calls, Terminal, Under
<1>2. \A e \in Deliveries : e # d => Same(e) BY DEF IInv, TypeOK, Same
<1>3. DInv(d) /\ TypeOK BY DEF IInv
<1>4. LockInv(d)' BY <1>3 DEF DInv, LockInv, InLock, SeenInv, TypeOK, Job, Row
<1>5. SeenInv(d)' BY <1>3 DEF DInv, SeenInv, LockInv, InLock, Free, NoRecord, TypeOK, Job, Row
<1>6. EffectInv(d)' BY <1>3 DEF DInv, EffectInv, SeenInv, LockInv, InLock, Holds, Untouched, TypeOK, Job, Row
<1>7. WantInv(d)' BY <1>3 DEF DInv, WantInv, SeenInv, LockInv, InLock, Unsettled, EffectInv, Terminal, TypeOK, Job, Row
<1>8. Promised(d) BY <1>3 DEF Promised, Kept, TypeOK
<1> QED BY <1>1, <1>2, <1>4, <1>5, <1>6, <1>7, <1>8, OneByOne DEF DInv, Step

LEMMA RereadStep ==
  ASSUME IInv, NEW d \in Deliveries, Reread(d)
  PROVE  Step(d)
<1> USE DEF Reread, See, Leave, Settled, Terminal, Closing, Free
<1>1. TypeOK'
  <2>0. TypeOK BY DEF IInv
  <2>1. record' \in [Deliveries -> Row] BY <2>0, PhasesAre, RowTyped DEF TypeOK
  <2>2. task' \in [Deliveries -> Job]
    <3> HIDE DEF See, Leave, Closing
    <3>1. Leave(d) \/ See(d, "query") \/ See(d, "admit") OBVIOUS
    <3> QED BY <2>0, <3>1, GotoTyped, StagesAre
  <2>3. QED BY <2>0, <2>1, <2>2, DeliveryAssumption DEF TypeOK, Calls, Terminal, Under
<1>2. \A e \in Deliveries : e # d => Same(e) BY DEF IInv, TypeOK, Same
<1>3. DInv(d) /\ TypeOK BY DEF IInv
<1>4. LockInv(d)' BY <1>3 DEF DInv, LockInv, InLock, SeenInv, TypeOK, Job, Row
<1>5. SeenInv(d)'
  <2>1. CASE Settled(d)
    <3>1. task'[d] = Closing BY <1>3, <2>1 DEF TypeOK
    <3> QED BY <3>1 DEF SeenInv, NoRecord
  <2>2. CASE ~Settled(d)
    <3>1. record[d].phase \in {"prepared", "started"}
      BY <1>3, <2>2 DEF DInv, WantInv, TypeOK, Row, Phases
    <3>2. /\ task'[d].seen = record[d] /\ record'[d] = record[d]
          /\ task'[d].st = IF record[d].phase = "started" THEN "query" ELSE "admit"
      BY <1>3, <2>2 DEF TypeOK, Job
    <3> HIDE DEF Reread, Settled, See, Leave
    <3>3. CASE record[d].phase = "started" BY <3>2, <3>3 DEF SeenInv
    <3>4. CASE record[d].phase = "prepared" BY <3>2, <3>4 DEF SeenInv
    <3> QED BY <3>1, <3>3, <3>4
  <2> QED BY <2>1, <2>2
<1>6. EffectInv(d)' BY <1>3 DEF DInv, EffectInv, SeenInv, LockInv, InLock, Holds, Untouched, TypeOK, Job, Row
<1>7. WantInv(d)' BY <1>3 DEF DInv, WantInv, SeenInv, LockInv, InLock, Unsettled, EffectInv, Terminal, TypeOK, Job, Row
<1>8. Promised(d) BY <1>3 DEF Promised, Kept, TypeOK
<1> QED BY <1>1, <1>2, <1>4, <1>5, <1>6, <1>7, <1>8, OneByOne DEF DInv, Step

LEMMA QueryStep ==
  ASSUME IInv, NEW d \in Deliveries, Query(d)
  PROVE  Step(d)
<1> USE DEF Query, True, Refuse, Terminal
<1>1. TypeOK'
  <2>0. TypeOK BY DEF IInv
  <2>1. record' \in [Deliveries -> Row] BY <2>0, PhasesAre, RowTyped DEF TypeOK
  <2>2. task' \in [Deliveries -> Job]
    <3>1. PICK found \in {"none"} \cup Terminal :
            task' = [task EXCEPT
              ![d].st = IF found = "none" /\ d \in Idempotent THEN "admit" ELSE "save",
              ![d].receipt = IF found = "none" /\ d \notin Idempotent THEN "failed" ELSE found]
      OBVIOUS
    <3> QED BY <2>0, <3>1, JudgeTyped, StagesAre
  <2>3. QED BY <2>0, <2>1, <2>2, DeliveryAssumption DEF TypeOK, Calls, Terminal, Under
<1>2. \A e \in Deliveries : e # d => Same(e) BY DEF IInv, TypeOK, Same
<1>3. DInv(d) /\ TypeOK BY DEF IInv
<1>4. LockInv(d)' BY <1>3 DEF DInv, LockInv, InLock, SeenInv, TypeOK, Job, Row
<1>5. SeenInv(d)' BY <1>3 DEF DInv, SeenInv, LockInv, InLock, Free, NoRecord, TypeOK, Job, Row
<1>6. EffectInv(d)'
  <2>1. PICK found \in {"none"} \cup Terminal :
          /\ True(d, found) /\ Refuse(d, found)
          /\ task' = [task EXCEPT
               ![d].st = IF found = "none" /\ d \in Idempotent THEN "admit" ELSE "save",
               ![d].receipt = IF found = "none" /\ d \notin Idempotent THEN "failed" ELSE found]
    OBVIOUS
  <2>2. record[d].phase = "started" BY <1>3 DEF DInv, SeenInv
  <2>3. orphans'[d] = (orphans[d] /\ found # "rejected") BY <1>3, <2>1 DEF TypeOK
  <2>4. CASE found = "none"
    <3>1. /\ task'[d].st \in {"admit", "save"} /\ UNCHANGED <<record, call, effects>>
          /\ task'[d].st = "save" => task'[d].receipt = "failed"
      BY <1>3, <2>1, <2>4 DEF TypeOK, Job
    <3> QED BY <1>3, <2>2, <2>3, <2>4, <3>1 DEF DInv, EffectInv, Holds, Untouched
  <2>5. CASE found # "none"
    <3>1. /\ task'[d].st = "save" /\ task'[d].receipt = found
          /\ UNCHANGED <<record, call, effects>>
      BY <1>3, <2>1, <2>5 DEF TypeOK, Job
    <3>2. Holds(d, found)'
      <4> HIDE DEF Query
      <4>1. found = "delivered" => effects'[d] = 1
        BY <1>3, <2>1, <3>1 DEF DInv, EffectInv
      <4>2. found = "rejected" => effects'[d] = 0 /\ ~orphans'[d]
        BY <2>1, <2>3, <3>1
      <4> QED BY <4>1, <4>2 DEF Holds, Untouched
    <3>3. found \in Terminal BY <2>1, <2>5
    <3>4. call[d] = "none" BY <1>3 DEF DInv, EffectInv
    <3> QED BY <1>3, <2>2, <2>3, <3>1, <3>2, <3>3, <3>4 DEF DInv, EffectInv, Holds, Untouched
  <2> QED BY <2>4, <2>5
<1>7. WantInv(d)' BY <1>3 DEF DInv, WantInv, SeenInv, LockInv, InLock, Unsettled, EffectInv, Terminal, TypeOK, Job, Row
<1>8. Promised(d) BY <1>3 DEF Promised, Kept, TypeOK
<1> QED BY <1>1, <1>2, <1>4, <1>5, <1>6, <1>7, <1>8, OneByOne DEF DInv, Step

LEMMA AdmitStep ==
  ASSUME IInv, NEW d \in Deliveries, Admit(d)
  PROVE  Step(d)
<1> USE DEF Admit, Goto
<1>1. TypeOK'
  <2>0. TypeOK BY DEF IInv
  <2>1. record' \in [Deliveries -> Row] BY <2>0, PhasesAre, RowTyped DEF TypeOK
  <2>2. task' \in [Deliveries -> Job]
    <3> HIDE DEF Goto
    <3>1. Goto(d, "begin") OBVIOUS
    <3> QED BY <2>0, <3>1, GotoTyped, StagesAre
  <2>3. QED BY <2>0, <2>1, <2>2, DeliveryAssumption DEF TypeOK, Calls, Terminal, Under
<1>2. \A e \in Deliveries : e # d => Same(e) BY DEF IInv, TypeOK, Same
<1>3. DInv(d) /\ TypeOK BY DEF IInv
<1>4. LockInv(d)' BY <1>3 DEF DInv, LockInv, InLock, SeenInv, TypeOK, Job, Row
<1>5. SeenInv(d)' BY <1>3 DEF DInv, SeenInv, LockInv, InLock, Free, NoRecord, TypeOK, Job, Row
<1>6. EffectInv(d)' BY <1>3 DEF DInv, EffectInv, SeenInv, LockInv, InLock, Holds, Untouched, TypeOK, Job, Row
<1>7. WantInv(d)' BY <1>3 DEF DInv, WantInv, SeenInv, LockInv, InLock, Unsettled, EffectInv, Terminal, TypeOK, Job, Row
<1>8. Promised(d) BY <1>3 DEF Promised, Kept, TypeOK
<1> QED BY <1>1, <1>2, <1>4, <1>5, <1>6, <1>7, <1>8, OneByOne DEF DInv, Step

LEMMA BeginStep ==
  ASSUME IInv, NEW d \in Deliveries, Begin(d)
  PROVE  Step(d)
<1> USE DEF Begin, See, Leave, Settled, Terminal, Closing, Free
<1>1. TypeOK'
  <2>0. TypeOK BY DEF IInv
  <2>1. record' \in [Deliveries -> Row] BY <2>0, PhasesAre, RowTyped DEF TypeOK
  <2>2. task' \in [Deliveries -> Job]
    <3> HIDE DEF See, Leave, Closing
    <3>1. Leave(d) \/ See(d, "starting") OBVIOUS
    <3> QED BY <2>0, <3>1, GotoTyped, StagesAre
  <2>3. QED BY <2>0, <2>1, <2>2, DeliveryAssumption DEF TypeOK, Calls, Terminal, Under
<1>2. \A e \in Deliveries : e # d => Same(e) BY DEF IInv, TypeOK, Same
<1>3. DInv(d) /\ TypeOK BY DEF IInv
<1>4. LockInv(d)' BY <1>3 DEF DInv, LockInv, InLock, SeenInv, TypeOK, Job, Row
<1>5. SeenInv(d)'
  <2>1. CASE Settled(d)
    <3>1. task'[d] = Closing BY <1>3, <2>1 DEF TypeOK
    <3> QED BY <3>1 DEF SeenInv, NoRecord
  <2>2. CASE ~Settled(d)
    <3>1. \/ record[d].phase = "prepared"
          \/ record[d].phase = "started" /\ d \in Idempotent
      BY <1>3, <2>2 DEF DInv, SeenInv
    <3>2. task'[d].seen = record'[d] /\ record'[d] = record[d] /\ task'[d].st = "starting"
      BY <1>3, <2>2 DEF TypeOK, Job
    <3> HIDE DEF Begin, Settled, See, Leave
    <3> QED BY <3>1, <3>2 DEF SeenInv
  <2> QED BY <2>1, <2>2
<1>6. EffectInv(d)' BY <1>3 DEF DInv, EffectInv, SeenInv, LockInv, InLock, Holds, Untouched, TypeOK, Job, Row
<1>7. WantInv(d)' BY <1>3 DEF DInv, WantInv, SeenInv, LockInv, InLock, Unsettled, EffectInv, Terminal, TypeOK, Job, Row
<1>8. Promised(d) BY <1>3 DEF Promised, Kept, TypeOK
<1> QED BY <1>1, <1>2, <1>4, <1>5, <1>6, <1>7, <1>8, OneByOne DEF DInv, Step

LEMMA StartingStep ==
  ASSUME IInv, NEW d \in Deliveries, Starting(d)
  PROVE  Step(d)
<1> USE DEF Starting, Verdicts, Save, Saved, Current, Closing, Free
<1>1. TypeOK'
  <2>0. TypeOK BY DEF IInv
  <2>1. record' \in [Deliveries -> Row] BY <2>0, PhasesAre, RowTyped DEF TypeOK
  <2>2. task' \in [Deliveries -> Job]
    <3> HIDE DEF Saved, Closing
    <3>1. PICK verdict \in Verdicts(d) :
            task' = [task EXCEPT ![d] =
              IF verdict = "started"
              THEN [@ EXCEPT !.st = "calling", !.seen = Saved(d, verdict)]
              ELSE Closing]
      OBVIOUS
    <3>2. verdict \in Phases BY PhasesAre
    <3>3. Saved(d, verdict) \in Row BY <2>0, <3>2, RowTyped
    <3>4. [task[d] EXCEPT !.st = "calling", !.seen = Saved(d, verdict)] \in Job
      BY <2>0, <3>3, StartedTyped DEF TypeOK
    <3> QED BY <2>0, <3>1, <3>4, EmptyJobs, PutTyped DEF TypeOK
  <2>3. QED BY <2>0, <2>1, <2>2, DeliveryAssumption DEF TypeOK, Calls, Terminal, Under
<1>2. \A e \in Deliveries : e # d => Same(e) BY DEF IInv, TypeOK, Same
<1>3. DInv(d) /\ TypeOK BY DEF IInv
<1>4. LockInv(d)' BY <1>3 DEF DInv, LockInv, InLock, SeenInv, TypeOK, Job, Row
<1>5. SeenInv(d)'
  <2>1. PICK verdict \in Verdicts(d) :
          /\ Save(d, verdict)
          /\ task' = [task EXCEPT ![d] =
               IF verdict = "started"
               THEN [@ EXCEPT !.st = "calling", !.seen = Saved(d, verdict)]
               ELSE Closing]
    OBVIOUS
  <2>2. record'[d] = Saved(d, verdict) BY <1>3, <2>1 DEF TypeOK
  <2>3. CASE verdict = "started"
    <3>1. task'[d].st = "calling" /\ task'[d].seen = record'[d]
      BY <1>3, <2>1, <2>2, <2>3 DEF TypeOK, Job
    <3>2. record'[d].phase = "started" BY <2>2, <2>3
    <3> HIDE DEF Starting, Verdicts, Save, Saved, Free, Closing
    <3> QED BY <3>1, <3>2 DEF SeenInv
  <2>4. CASE verdict # "started"
    <3>1. task'[d] = Closing BY <1>3, <2>1, <2>4 DEF TypeOK
    <3> HIDE DEF Starting, Verdicts, Save, Saved, Free, Closing
    <3>2. task'[d].st = "closing" /\ task'[d].seen.phase = "none" BY <3>1, ClosingIs
    <3> QED BY <3>2 DEF SeenInv
  <2> QED BY <2>3, <2>4
<1>6. EffectInv(d)' BY <1>3 DEF DInv, EffectInv, SeenInv, LockInv, InLock, Holds, Untouched, TypeOK, Job, Row
<1>7. WantInv(d)' BY <1>3 DEF DInv, WantInv, SeenInv, LockInv, InLock, Unsettled, EffectInv, Terminal, TypeOK, Job, Row
<1>8. Promised(d)
  <2>1. \/ record'[d].phase = "started"
        \/ record'[d].phase = "rejected" /\ task[d].seen.phase = "prepared"
    BY <1>3 DEF TypeOK
  <2>2. task[d].seen = record[d] /\ record[d].phase \in {"prepared", "started"}
    BY <1>3 DEF DInv, SeenInv
  <2> QED BY <2>1, <2>2 DEF Promised, Kept, Turned
<1> QED BY <1>1, <1>2, <1>4, <1>5, <1>6, <1>7, <1>8, OneByOne DEF DInv, Step

LEMMA AnsweredStep ==
  ASSUME IInv, NEW d \in Deliveries, Answered(d)
  PROVE  Step(d)
<1> USE DEF Answered, Under
<1>1. TypeOK'
  <2>0. TypeOK BY DEF IInv
  <2>1. record' \in [Deliveries -> Row] BY <2>0, PhasesAre, RowTyped DEF TypeOK
  <2>2. task' \in [Deliveries -> Job]
    <3>1. task' = [task EXCEPT ![d].st = IF call[d] = "error" THEN "failing" ELSE "save",
                               ![d].receipt = IF call[d] = "error" THEN "failed" ELSE call[d]]
      OBVIOUS
    <3>2. call[d] = "error" \/ call[d] \in {"none"} \cup Terminal BY <2>0 DEF TypeOK, Calls
    <3> QED BY <2>0, <3>1, <3>2, JudgeTyped, StagesAre DEF Terminal
  <2>3. QED BY <2>0, <2>1, <2>2, DeliveryAssumption DEF TypeOK, Calls, Terminal, Under
<1>2. \A e \in Deliveries : e # d => Same(e) BY DEF IInv, TypeOK, Same
<1>3. DInv(d) /\ TypeOK BY DEF IInv
<1>4. LockInv(d)' BY <1>3 DEF DInv, LockInv, InLock, SeenInv, TypeOK, Job, Row
<1>5. SeenInv(d)' BY <1>3 DEF DInv, SeenInv, LockInv, InLock, Free, NoRecord, TypeOK, Job, Row
<1>6. EffectInv(d)' BY <1>3 DEF DInv, EffectInv, SeenInv, LockInv, InLock, Holds, Untouched, TypeOK, Job, Row
<1>7. WantInv(d)' BY <1>3 DEF DInv, WantInv, SeenInv, LockInv, InLock, Unsettled, EffectInv, Terminal, TypeOK, Job, Row
<1>8. Promised(d) BY <1>3 DEF Promised, Kept, TypeOK
<1> QED BY <1>1, <1>2, <1>4, <1>5, <1>6, <1>7, <1>8, OneByOne DEF DInv, Step

LEMMA OutcomeStep ==
  ASSUME IInv, NEW d \in Deliveries, Outcome(d)
  PROVE  Step(d)
<1> USE DEF Outcome, Save, Saved, Current, Leave, Closing, Free
<1>1. TypeOK'
  <2>0. TypeOK BY DEF IInv
  <2>1. record' \in [Deliveries -> Row]
    <3>1. task[d].receipt \in Phases BY <2>0 DEF TypeOK, Job, Phases
    <3> QED BY <2>0, <3>1, RowTyped DEF Save, Saved
  <2>2. task' \in [Deliveries -> Job]
    <3> HIDE DEF Leave, Closing
    <3> QED BY <2>0, GotoTyped, StagesAre
  <2>3. QED BY <2>0, <2>1, <2>2, DeliveryAssumption DEF TypeOK, Calls, Terminal, Under
<1>2. \A e \in Deliveries : e # d => Same(e) BY DEF IInv, TypeOK, Same
<1>3. DInv(d) /\ TypeOK BY DEF IInv
<1>4. LockInv(d)' BY <1>3 DEF DInv, LockInv, InLock, SeenInv, TypeOK, Job, Row
<1>5. SeenInv(d)' BY <1>3 DEF DInv, SeenInv, LockInv, InLock, Free, NoRecord, TypeOK, Job, Row
<1>6. EffectInv(d)'
  <2>1. record'[d].phase = task[d].receipt BY <1>3 DEF TypeOK
  <2>2. task'[d].st = "closing" BY <1>3 DEF TypeOK
  <2>3. task[d].receipt \in Terminal /\ Holds(d, task[d].receipt)
    BY <1>3 DEF DInv, EffectInv, Holds, Terminal
  <2>4. call[d] = "none" BY <1>3 DEF DInv, EffectInv
  <2> QED BY <1>3, <2>1, <2>2, <2>3, <2>4 DEF DInv, EffectInv, Holds, Untouched, Terminal
<1>7. WantInv(d)' BY <1>3 DEF DInv, WantInv, SeenInv, LockInv, InLock, Unsettled, EffectInv, Terminal, TypeOK, Job, Row
<1>8. Promised(d)
  <2>1. record'[d].phase = task[d].receipt /\ record[d].phase = "started"
    BY <1>3 DEF DInv, SeenInv, TypeOK
  <2>2. task[d].receipt \in {"delivered", "rejected", "failed"} /\ Holds(d, task[d].receipt)
    BY <1>3 DEF DInv, EffectInv, Holds, Terminal
  <2> QED BY <2>1, <2>2 DEF Promised, Turned
<1> QED BY <1>1, <1>2, <1>4, <1>5, <1>6, <1>7, <1>8, OneByOne DEF DInv, Step

LEMMA CloseStep ==
  ASSUME IInv, NEW d \in Deliveries, Close(d)
  PROVE  Step(d)
<1> USE DEF Close, Free
<1>1. TypeOK'
  <2>0. TypeOK BY DEF IInv
  <2>1. record' \in [Deliveries -> Row] BY <2>0, PhasesAre, RowTyped DEF TypeOK
  <2>2. task' \in [Deliveries -> Job]
    BY <2>0, PutTyped, EmptyJobs
  <2>3. QED BY <2>0, <2>1, <2>2, DeliveryAssumption DEF TypeOK, Calls, Terminal, Under
<1>2. \A e \in Deliveries : e # d => Same(e) BY DEF IInv, TypeOK, Same
<1>3. DInv(d) /\ TypeOK BY DEF IInv
<1>4. LockInv(d)' BY <1>3 DEF DInv, LockInv, InLock, SeenInv, TypeOK, Job, Row
<1>5. SeenInv(d)' BY <1>3 DEF DInv, SeenInv, LockInv, InLock, Free, NoRecord, TypeOK, Job, Row
<1>6. EffectInv(d)' BY <1>3 DEF DInv, EffectInv, SeenInv, LockInv, InLock, Holds, Untouched, TypeOK, Job, Row
<1>7. WantInv(d)' BY <1>3 DEF DInv, WantInv, SeenInv, LockInv, InLock, Unsettled, EffectInv, Terminal, TypeOK, Job, Row
<1>8. Promised(d) BY <1>3 DEF Promised, Kept, TypeOK
<1> QED BY <1>1, <1>2, <1>4, <1>5, <1>6, <1>7, <1>8, OneByOne DEF DInv, Step

LEMMA InterruptStep ==
  ASSUME IInv, NEW d \in Deliveries, Interrupt(d)
  PROVE  Step(d)
<1> USE DEF Interrupt, Raise, Unlock, InTry, Closing, Free, Spend
<1>1. TypeOK'
  <2>0. TypeOK BY DEF IInv
  <2>1. record' \in [Deliveries -> Row] BY <2>0, PhasesAre, RowTyped DEF TypeOK
  <2>2. task' \in [Deliveries -> Job]
    <3>1. [st |-> "failing", seen |-> task[d].seen, receipt |-> "failed", cut |-> TRUE] \in Job
      BY <2>0, StagesAre DEF TypeOK, Job, Terminal
    <3> QED BY <2>0, <3>1, PutTyped, EmptyJobs DEF TypeOK
  <2>3. QED BY <2>0, <2>1, <2>2, DeliveryAssumption DEF TypeOK, Calls, Terminal, Under
<1>2. \A e \in Deliveries : e # d => Same(e) BY DEF IInv, TypeOK, Same
<1>3. DInv(d) /\ TypeOK BY DEF IInv
<1>4. LockInv(d)' BY <1>3 DEF DInv, LockInv, InLock, SeenInv, TypeOK, Job, Row
<1>5. SeenInv(d)' BY <1>3 DEF DInv, SeenInv, LockInv, InLock, Free, NoRecord, TypeOK, Job, Row
<1>6. EffectInv(d)' BY <1>3 DEF DInv, EffectInv, SeenInv, LockInv, InLock, Holds, Untouched, TypeOK, Job, Row
<1>7. WantInv(d)' BY <1>3 DEF DInv, WantInv, SeenInv, LockInv, InLock, Unsettled, EffectInv, Terminal, TypeOK, Job, Row
<1>8. Promised(d) BY <1>3 DEF Promised, Kept, TypeOK
<1> QED BY <1>1, <1>2, <1>4, <1>5, <1>6, <1>7, <1>8, OneByOne DEF DInv, Step

LEMMA InterruptLateStep ==
  ASSUME IInv, NEW d \in Deliveries, InterruptLate(d)
  PROVE  Step(d)
<1> USE DEF InterruptLate, Raise, Unlock, Verdicts, Save, Saved, Current, InTry, Closing, Free, Spend
<1>1. TypeOK'
  <2>0. TypeOK BY DEF IInv
  <2>1. record' \in [Deliveries -> Row] BY <2>0, PhasesAre, RowTyped DEF TypeOK
  <2>2. task' \in [Deliveries -> Job]
    <3> HIDE DEF Saved, Closing
    <3>1. PICK phase \in Phases : Raise(d, Saved(d, phase), TRUE) OBVIOUS
    <3>2. Saved(d, phase) \in Row BY <2>0, RowTyped
    <3>3. [st |-> "failing", seen |-> Saved(d, phase), receipt |-> "failed", cut |-> TRUE] \in Job
      BY <3>2, StagesAre DEF Job, Terminal
    <3> QED BY <2>0, <3>1, <3>3, PutTyped, EmptyJobs DEF TypeOK
  <2>3. QED BY <2>0, <2>1, <2>2, DeliveryAssumption DEF TypeOK, Calls, Terminal, Under
<1>2. \A e \in Deliveries : e # d => Same(e) BY DEF IInv, TypeOK, Same
<1>3. DInv(d) /\ TypeOK BY DEF IInv
<1>4. LockInv(d)' BY <1>3 DEF DInv, LockInv, InLock, SeenInv, TypeOK, Job, Row
<1>5. SeenInv(d)' BY <1>3 DEF DInv, SeenInv, LockInv, InLock, Free, NoRecord, TypeOK, Job, Row
<1>6. EffectInv(d)'
  <2>1. PICK phase \in Phases :
          /\ \/ task[d].st = "starting" /\ phase \in Verdicts(d)
             \/ task[d].st \in {"save", "failing"} /\ phase = task[d].receipt
          /\ Save(d, phase)
          /\ Raise(d, Saved(d, phase), TRUE)
    OBVIOUS
  <2>2. record'[d].phase = phase BY <1>3, <2>1 DEF TypeOK
  <2>3. /\ task'[d].st \in {"failing", "closing"}
        /\ task'[d].st = "failing" => task'[d].receipt = "failed"
    BY <1>3, <2>1 DEF TypeOK
  <2>4. call[d] = "none" /\ call'[d] = "none" /\ orphans'[d] = orphans[d]
    BY <1>3, <2>1 DEF DInv, EffectInv, TypeOK
  <2>5. phase \in {"started"} \cup Terminal /\ Holds(d, phase)
    <3>1. CASE task[d].st = "starting"
      <4>1. record[d].phase \in {"prepared", "started"}
        BY <1>3, <3>1 DEF DInv, SeenInv
      <4>2. phase = "started" \/ (phase = "rejected" /\ record[d].phase = "prepared")
        <5>1. phase \in Verdicts(d) BY <2>1, <3>1
        <5>2. task[d].seen = record[d] BY <1>3, <3>1 DEF DInv, SeenInv
        <5> HIDE DEF InterruptLate
        <5> QED BY <5>1, <5>2
      <4> QED BY <1>3, <4>2 DEF DInv, EffectInv, Holds, Terminal
    <3>2. CASE task[d].st \in {"save", "failing"}
      BY <1>3, <2>1, <3>2 DEF DInv, EffectInv, Holds, Terminal
    <3> QED BY <2>1, <3>1, <3>2
  <2> QED BY <1>3, <2>2, <2>3, <2>4, <2>5 DEF DInv, EffectInv, Holds, Untouched, Terminal
<1>7. WantInv(d)' BY <1>3 DEF DInv, WantInv, SeenInv, LockInv, InLock, Unsettled, EffectInv, Terminal, TypeOK, Job, Row
<1>8. Promised(d)
  <2>1. PICK phase \in Phases :
          /\ \/ task[d].st = "starting" /\ phase \in Verdicts(d)
             \/ task[d].st \in {"save", "failing"} /\ phase = task[d].receipt
          /\ Save(d, phase)
    OBVIOUS
  <2>2. record'[d].phase = phase BY <1>3, <2>1 DEF TypeOK
  <2>3. CASE task[d].st = "starting"
    <3>1. task[d].seen = record[d] /\ record[d].phase \in {"prepared", "started"}
      BY <1>3, <2>3 DEF DInv, SeenInv
    <3>2. phase \in Verdicts(d) BY <2>1, <2>3
    <3>3. \/ phase = "started"
          \/ phase = "rejected" /\ record[d].phase = "prepared"
      <4> HIDE DEF InterruptLate
      <4> QED BY <3>1, <3>2
    <3> QED BY <2>2, <3>1, <3>3 DEF Promised, Kept, Turned
  <2>4. CASE task[d].st \in {"save", "failing"}
    <3>1. record[d].phase = "started" /\ phase = task[d].receipt
      BY <1>3, <2>1, <2>4 DEF DInv, SeenInv
    <3>2. task[d].receipt \in {"delivered", "rejected", "failed"} /\ Holds(d, task[d].receipt)
      BY <1>3, <2>4 DEF DInv, EffectInv, Holds, Terminal
    <3> QED BY <2>2, <3>1, <3>2 DEF Promised, Turned
  <2> QED BY <2>1, <2>3, <2>4
<1> QED BY <1>1, <1>2, <1>4, <1>5, <1>6, <1>7, <1>8, OneByOne DEF DInv, Step

LEMMA ErrorStep ==
  ASSUME IInv, NEW d \in Deliveries, Error(d)
  PROVE  Step(d)
<1> USE DEF Error, Raise, Unlock, InTry, Closing, Free, Spend
<1>1. TypeOK'
  <2>0. TypeOK BY DEF IInv
  <2>1. record' \in [Deliveries -> Row] BY <2>0, PhasesAre, RowTyped DEF TypeOK
  <2>2. task' \in [Deliveries -> Job]
    <3>1. [st |-> "failing", seen |-> task[d].seen, receipt |-> "failed", cut |-> task[d].cut] \in Job
      BY <2>0, StagesAre DEF TypeOK, Job, Terminal
    <3> QED BY <2>0, <3>1, PutTyped, EmptyJobs DEF TypeOK
  <2>3. QED BY <2>0, <2>1, <2>2, DeliveryAssumption DEF TypeOK, Calls, Terminal, Under
<1>2. \A e \in Deliveries : e # d => Same(e) BY DEF IInv, TypeOK, Same
<1>3. DInv(d) /\ TypeOK BY DEF IInv
<1>4. LockInv(d)' BY <1>3 DEF DInv, LockInv, InLock, SeenInv, TypeOK, Job, Row
<1>5. SeenInv(d)' BY <1>3 DEF DInv, SeenInv, LockInv, InLock, Free, NoRecord, TypeOK, Job, Row
<1>6. EffectInv(d)' BY <1>3 DEF DInv, EffectInv, SeenInv, LockInv, InLock, Holds, Untouched, TypeOK, Job, Row
<1>7. WantInv(d)' BY <1>3 DEF DInv, WantInv, SeenInv, LockInv, InLock, Unsettled, EffectInv, Terminal, TypeOK, Job, Row
<1>8. Promised(d) BY <1>3 DEF Promised, Kept, TypeOK
<1> QED BY <1>1, <1>2, <1>4, <1>5, <1>6, <1>7, <1>8, OneByOne DEF DInv, Step

LEMMA CancelBeginStep ==
  ASSUME IInv, NEW d \in Deliveries, CancelBegin(d)
  PROVE  Step(d)
<1> USE DEF CancelBegin, Spend
<1>1. TypeOK'
  <2>0. TypeOK BY DEF IInv
  <2>1. record' \in [Deliveries -> Row] BY <2>0, PhasesAre, RowTyped DEF TypeOK
  <2>2. task' \in [Deliveries -> Job]
    BY <2>0 DEF TypeOK
  <2>3. QED BY <2>0, <2>1, <2>2, DeliveryAssumption DEF TypeOK, Calls, Terminal, Under
<1>2. \A e \in Deliveries : e # d => Same(e) BY DEF IInv, TypeOK, Same
<1>3. DInv(d) /\ TypeOK BY DEF IInv
<1>4. LockInv(d)' BY <1>3 DEF DInv, LockInv, InLock, SeenInv, TypeOK, Job, Row
<1>5. SeenInv(d)' BY <1>3 DEF DInv, SeenInv, LockInv, InLock, Free, NoRecord, TypeOK, Job, Row
<1>6. EffectInv(d)' BY <1>3 DEF DInv, EffectInv, SeenInv, LockInv, InLock, Holds, Untouched, TypeOK, Job, Row
<1>7. WantInv(d)' BY <1>3 DEF DInv, WantInv, SeenInv, LockInv, InLock, Unsettled, EffectInv, Terminal, TypeOK, Job, Row
<1>8. Promised(d) BY <1>3 DEF Promised, Kept, TypeOK
<1> QED BY <1>1, <1>2, <1>4, <1>5, <1>6, <1>7, <1>8, OneByOne DEF DInv, Step

LEMMA CancelCommitStep ==
  ASSUME IInv, NEW d \in Deliveries, CancelCommit(d)
  PROVE  Step(d)
<1> USE DEF CancelCommit, Save, Saved
<1>1. TypeOK'
  <2>0. TypeOK BY DEF IInv
  <2>1. record' \in [Deliveries -> Row] BY <2>0, PhasesAre, RowTyped DEF TypeOK
  <2>2. task' \in [Deliveries -> Job]
    BY <2>0 DEF TypeOK
  <2>3. QED BY <2>0, <2>1, <2>2, DeliveryAssumption DEF TypeOK, Calls, Terminal, Under
<1>2. \A e \in Deliveries : e # d => Same(e) BY DEF IInv, TypeOK, Same
<1>3. DInv(d) /\ TypeOK BY DEF IInv
<1>4. LockInv(d)' BY <1>3 DEF DInv, LockInv, InLock, SeenInv, TypeOK, Job, Row
<1>5. SeenInv(d)' BY <1>3 DEF DInv, SeenInv, LockInv, InLock, Free, NoRecord, TypeOK, Job, Row
<1>6. EffectInv(d)' BY <1>3 DEF DInv, EffectInv, SeenInv, LockInv, InLock, Holds, Untouched, TypeOK, Job, Row
<1>7. WantInv(d)' BY <1>3 DEF DInv, WantInv, SeenInv, LockInv, InLock, Unsettled, EffectInv, Terminal, TypeOK, Job, Row
<1>8. Promised(d) BY <1>3 DEF Promised, Kept, Turned, TypeOK
<1> QED BY <1>1, <1>2, <1>4, <1>5, <1>6, <1>7, <1>8, OneByOne DEF DInv, Step

LEMMA CancelTaskStep ==
  ASSUME IInv, NEW d \in Deliveries, CancelTask(d)
  PROVE  Step(d)
<1> USE DEF CancelTask, Closing, Free
<1>1. TypeOK'
  <2>0. TypeOK BY DEF IInv
  <2>1. record' \in [Deliveries -> Row] BY <2>0, PhasesAre, RowTyped DEF TypeOK
  <2>2. task' \in [Deliveries -> Job]
    BY <2>0, PutTyped, EmptyJobs DEF TypeOK
  <2>3. QED BY <2>0, <2>1, <2>2, DeliveryAssumption DEF TypeOK, Calls, Terminal, Under
<1>2. \A e \in Deliveries : e # d => Same(e) BY DEF IInv, TypeOK, Same
<1>3. DInv(d) /\ TypeOK BY DEF IInv
<1>4. LockInv(d)' BY <1>3 DEF DInv, LockInv, InLock, SeenInv, TypeOK, Job, Row
<1>5. SeenInv(d)' BY <1>3 DEF DInv, SeenInv, LockInv, InLock, Free, NoRecord, TypeOK, Job, Row
<1>6. EffectInv(d)' BY <1>3 DEF DInv, EffectInv, SeenInv, LockInv, InLock, Holds, Untouched, TypeOK, Job, Row
<1>7. WantInv(d)' BY <1>3 DEF DInv, WantInv, SeenInv, LockInv, InLock, Unsettled, EffectInv, Terminal, TypeOK, Job, Row
<1>8. Promised(d) BY <1>3 DEF Promised, Kept, TypeOK
<1> QED BY <1>1, <1>2, <1>4, <1>5, <1>6, <1>7, <1>8, OneByOne DEF DInv, Step

LEMMA RetryCallStep ==
  ASSUME IInv, NEW d \in Deliveries, RetryCall(d)
  PROVE  Step(d)
<1> USE DEF RetryCall, Retry, Spend
<1>1. TypeOK'
  <2>0. TypeOK BY DEF IInv
  <2>1. record' \in [Deliveries -> Row] BY <2>0, PhasesAre, RowTyped DEF TypeOK
  <2>2. task' \in [Deliveries -> Job]
    BY <2>0 DEF TypeOK
  <2>3. QED BY <2>0, <2>1, <2>2, DeliveryAssumption DEF TypeOK, Calls, Terminal, Under
<1>2. \A e \in Deliveries : e # d => Same(e) BY DEF IInv, TypeOK, Same
<1>3. DInv(d) /\ TypeOK BY DEF IInv
<1>4. LockInv(d)' BY <1>3 DEF DInv, LockInv, InLock, SeenInv, TypeOK, Job, Row
<1>5. SeenInv(d)' BY <1>3 DEF DInv, SeenInv, LockInv, InLock, Free, NoRecord, TypeOK, Job, Row
<1>6. EffectInv(d)' BY <1>3 DEF DInv, EffectInv, SeenInv, LockInv, InLock, Holds, Untouched, TypeOK, Job, Row
<1>7. WantInv(d)' BY <1>3 DEF DInv, WantInv, SeenInv, LockInv, InLock, Unsettled, EffectInv, Terminal, TypeOK, Job, Row
<1>8. Promised(d) BY <1>3 DEF Promised, Kept, TypeOK
<1> QED BY <1>1, <1>2, <1>4, <1>5, <1>6, <1>7, <1>8, OneByOne DEF DInv, Step

LEMMA RetryBeginStep ==
  ASSUME IInv, NEW d \in Deliveries, RetryBegin(d)
  PROVE  Step(d)
<1> USE DEF RetryBegin, Retry
<1>1. TypeOK'
  <2>0. TypeOK BY DEF IInv
  <2>1. record' \in [Deliveries -> Row] BY <2>0, PhasesAre, RowTyped DEF TypeOK
  <2>2. task' \in [Deliveries -> Job]
    BY <2>0 DEF TypeOK
  <2>3. QED BY <2>0, <2>1, <2>2, DeliveryAssumption DEF TypeOK, Calls, Terminal, Under
<1>2. \A e \in Deliveries : e # d => Same(e) BY DEF IInv, TypeOK, Same
<1>3. DInv(d) /\ TypeOK BY DEF IInv
<1>4. LockInv(d)' BY <1>3 DEF DInv, LockInv, InLock, SeenInv, TypeOK, Job, Row
<1>5. SeenInv(d)' BY <1>3 DEF DInv, SeenInv, LockInv, InLock, Free, NoRecord, TypeOK, Job, Row
<1>6. EffectInv(d)' BY <1>3 DEF DInv, EffectInv, SeenInv, LockInv, InLock, Holds, Untouched, TypeOK, Job, Row
<1>7. WantInv(d)' BY <1>3 DEF DInv, WantInv, SeenInv, LockInv, InLock, Unsettled, EffectInv, Terminal, TypeOK, Job, Row
<1>8. Promised(d) BY <1>3 DEF Promised, Kept, TypeOK
<1> QED BY <1>1, <1>2, <1>4, <1>5, <1>6, <1>7, <1>8, OneByOne DEF DInv, Step

LEMMA RetryReadStep ==
  ASSUME IInv, NEW d \in Deliveries, RetryRead(d)
  PROVE  Step(d)
<1> USE DEF RetryRead, Retry, RetrySends
<1>1. TypeOK'
  <2>0. TypeOK BY DEF IInv
  <2>1. record' \in [Deliveries -> Row] BY <2>0, PhasesAre, RowTyped DEF TypeOK
  <2>2. task' \in [Deliveries -> Job]
    BY <2>0 DEF TypeOK
  <2>3. QED BY <2>0, <2>1, <2>2, DeliveryAssumption DEF TypeOK, Calls, Terminal, Under
<1>2. \A e \in Deliveries : e # d => Same(e) BY DEF IInv, TypeOK, Same
<1>3. DInv(d) /\ TypeOK BY DEF IInv
<1>4. LockInv(d)' BY <1>3 DEF DInv, LockInv, InLock, SeenInv, TypeOK, Job, Row
<1>5. SeenInv(d)' BY <1>3 DEF DInv, SeenInv, LockInv, InLock, Free, NoRecord, TypeOK, Job, Row
<1>6. EffectInv(d)' BY <1>3 DEF DInv, EffectInv, SeenInv, LockInv, InLock, Holds, Untouched, TypeOK, Job, Row
<1>7. WantInv(d)' BY <1>3 DEF DInv, WantInv, SeenInv, LockInv, InLock, Unsettled, EffectInv, Terminal, TypeOK, Job, Row
<1>8. Promised(d) BY <1>3 DEF Promised, Kept, TypeOK
<1> QED BY <1>1, <1>2, <1>4, <1>5, <1>6, <1>7, <1>8, OneByOne DEF DInv, Step

LEMMA RetryJoinedStep ==
  ASSUME IInv, NEW d \in Deliveries, RetryJoined(d)
  PROVE  Step(d)
<1> USE DEF RetryJoined, Retry
<1>1. TypeOK'
  <2>0. TypeOK BY DEF IInv
  <2>1. record' \in [Deliveries -> Row] BY <2>0, PhasesAre, RowTyped DEF TypeOK
  <2>2. task' \in [Deliveries -> Job]
    BY <2>0 DEF TypeOK
  <2>3. QED BY <2>0, <2>1, <2>2, DeliveryAssumption DEF TypeOK, Calls, Terminal, Under
<1>2. \A e \in Deliveries : e # d => Same(e) BY DEF IInv, TypeOK, Same
<1>3. DInv(d) /\ TypeOK BY DEF IInv
<1>4. LockInv(d)' BY <1>3 DEF DInv, LockInv, InLock, SeenInv, TypeOK, Job, Row
<1>5. SeenInv(d)' BY <1>3 DEF DInv, SeenInv, LockInv, InLock, Free, NoRecord, TypeOK, Job, Row
<1>6. EffectInv(d)' BY <1>3 DEF DInv, EffectInv, SeenInv, LockInv, InLock, Holds, Untouched, TypeOK, Job, Row
<1>7. WantInv(d)' BY <1>3 DEF DInv, WantInv, SeenInv, LockInv, InLock, Unsettled, EffectInv, Terminal, TypeOK, Job, Row
<1>8. Promised(d) BY <1>3 DEF Promised, Kept, TypeOK
<1> QED BY <1>1, <1>2, <1>4, <1>5, <1>6, <1>7, <1>8, OneByOne DEF DInv, Step

LEMMA RetryRearmStep ==
  ASSUME IInv, NEW d \in Deliveries, RetryRearm(d)
  PROVE  Step(d)
<1> USE DEF RetryRearm, Retry, RetrySends, Save, Saved
<1>1. TypeOK'
  <2>0. TypeOK BY DEF IInv
  <2>1. record' \in [Deliveries -> Row] BY <2>0, PhasesAre, RowTyped DEF TypeOK
  <2>2. task' \in [Deliveries -> Job]
    BY <2>0 DEF TypeOK
  <2>3. QED BY <2>0, <2>1, <2>2, DeliveryAssumption DEF TypeOK, Calls, Terminal, Under
<1>2. \A e \in Deliveries : e # d => Same(e) BY DEF IInv, TypeOK, Same
<1>3. DInv(d) /\ TypeOK BY DEF IInv
<1>4. LockInv(d)' BY <1>3 DEF DInv, LockInv, InLock, SeenInv, TypeOK, Job, Row
<1>5. SeenInv(d)' BY <1>3 DEF DInv, SeenInv, LockInv, InLock, Free, NoRecord, TypeOK, Job, Row
<1>6. EffectInv(d)' BY <1>3 DEF DInv, EffectInv, SeenInv, LockInv, InLock, Holds, Untouched, TypeOK, Job, Row
<1>7. WantInv(d)' BY <1>3 DEF DInv, WantInv, SeenInv, LockInv, InLock, Unsettled, EffectInv, Terminal, TypeOK, Job, Row
<1>8. Promised(d) BY <1>3 DEF Promised, Turned, DInv, LockInv, TypeOK
<1> QED BY <1>1, <1>2, <1>4, <1>5, <1>6, <1>7, <1>8, OneByOne DEF DInv, Step

LEMMA RetryCutStep ==
  ASSUME IInv, NEW d \in Deliveries, RetryCut(d)
  PROVE  Step(d)
<1> USE DEF RetryCut, Retry, Save, Saved, Spend
<1>1. TypeOK'
  <2>0. TypeOK BY DEF IInv
  <2>1. record' \in [Deliveries -> Row] BY <2>0, PhasesAre, RowTyped DEF TypeOK
  <2>2. task' \in [Deliveries -> Job]
    BY <2>0 DEF TypeOK
  <2>3. QED BY <2>0, <2>1, <2>2, DeliveryAssumption DEF TypeOK, Calls, Terminal, Under
<1>2. \A e \in Deliveries : e # d => Same(e) BY DEF IInv, TypeOK, Same
<1>3. DInv(d) /\ TypeOK BY DEF IInv
<1>4. LockInv(d)' BY <1>3 DEF DInv, LockInv, InLock, SeenInv, TypeOK, Job, Row
<1>5. SeenInv(d)' BY <1>3 DEF DInv, SeenInv, LockInv, InLock, Free, NoRecord, TypeOK, Job, Row
<1>6. EffectInv(d)' BY <1>3 DEF DInv, EffectInv, SeenInv, LockInv, InLock, Holds, Untouched, TypeOK, Job, Row
<1>7. WantInv(d)' BY <1>3 DEF DInv, WantInv, SeenInv, LockInv, InLock, Unsettled, EffectInv, Terminal, TypeOK, Job, Row
<1>8. Promised(d) BY <1>3 DEF Promised, Turned, DInv, LockInv, TypeOK
<1> QED BY <1>1, <1>2, <1>4, <1>5, <1>6, <1>7, <1>8, OneByOne DEF DInv, Step

LEMMA CallReachesStep ==
  ASSUME IInv, NEW d \in Deliveries, CallReaches(d)
  PROVE  Step(d)
<1> USE DEF CallReaches, Reach
<1>1. TypeOK'
  <2>0. TypeOK BY DEF IInv
  <2>1. record' \in [Deliveries -> Row] BY <2>0, PhasesAre, RowTyped DEF TypeOK
  <2>2. task' \in [Deliveries -> Job]
    BY <2>0 DEF TypeOK
  <2>3. QED BY <2>0, <2>1, <2>2, DeliveryAssumption DEF TypeOK, Calls, Terminal, Under
<1>2. \A e \in Deliveries : e # d => Same(e) BY DEF IInv, TypeOK, Same
<1>3. DInv(d) /\ TypeOK BY DEF IInv
<1>4. LockInv(d)' BY <1>3 DEF DInv, LockInv, InLock, SeenInv, TypeOK, Job, Row
<1>5. SeenInv(d)' BY <1>3 DEF DInv, SeenInv, LockInv, InLock, Free, NoRecord, TypeOK, Job, Row
<1>6. EffectInv(d)' BY <1>3 DEF DInv, EffectInv, SeenInv, LockInv, InLock, Holds, Untouched, TypeOK, Job, Row
<1>7. WantInv(d)' BY <1>3 DEF DInv, WantInv, SeenInv, LockInv, InLock, Unsettled, EffectInv, Terminal, TypeOK, Job, Row
<1>8. Promised(d)
  <2>1. record[d].phase = "started" /\ UNCHANGED record BY <1>3 DEF DInv, EffectInv, SeenInv
  <2>2. effects[d] \in 0..1 /\ (d \notin Idempotent => effects[d] = 0)
    BY <1>3 DEF DInv, EffectInv, Untouched
  <2>3. effects'[d] = 1 BY <1>3, <2>2 DEF TypeOK
  <2> QED BY <2>1, <2>2, <2>3 DEF Promised, Kept
<1> QED BY <1>1, <1>2, <1>4, <1>5, <1>6, <1>7, <1>8, OneByOne DEF DInv, Step

LEMMA CallAnswersStep ==
  ASSUME IInv, NEW d \in Deliveries, CallAnswers(d)
  PROVE  Step(d)
<1> USE DEF CallAnswers, True, Under, Terminal
<1>1. TypeOK'
  <2>0. TypeOK BY DEF IInv
  <2>1. record' \in [Deliveries -> Row] BY <2>0, PhasesAre, RowTyped DEF TypeOK
  <2>2. task' \in [Deliveries -> Job]
    BY <2>0 DEF TypeOK
  <2>3. call' \in [Deliveries -> Calls] /\ orphans' \in [Deliveries -> BOOLEAN]
    <3>1. PICK answer \in Terminal \cup {"error"} :
            /\ call' = [call EXCEPT ![d] = answer]
            /\ orphans' = [orphans EXCEPT ![d] =
                 IF answer = "rejected" THEN FALSE ELSE @ \/ call[d] = "out"]
      OBVIOUS
    <3>2. answer \in Calls BY DEF Calls
    <3> QED BY <2>0, <3>1, <3>2 DEF TypeOK
  <2> QED BY <2>0, <2>1, <2>2, <2>3 DEF TypeOK
<1>2. \A e \in Deliveries : e # d => Same(e) BY DEF IInv, TypeOK, Same
<1>3. DInv(d) /\ TypeOK BY DEF IInv
<1>4. LockInv(d)' BY <1>3 DEF DInv, LockInv, InLock, SeenInv, TypeOK, Job, Row
<1>5. SeenInv(d)' BY <1>3 DEF DInv, SeenInv, LockInv, InLock, Free, NoRecord, TypeOK, Job, Row
<1>6. EffectInv(d)' BY <1>3 DEF DInv, EffectInv, SeenInv, LockInv, InLock, Holds, Untouched, TypeOK, Job, Row
<1>7. WantInv(d)' BY <1>3 DEF DInv, WantInv, SeenInv, LockInv, InLock, Unsettled, EffectInv, Terminal, TypeOK, Job, Row
<1>8. Promised(d) BY <1>3 DEF Promised, Kept, TypeOK
<1> QED BY <1>1, <1>2, <1>4, <1>5, <1>6, <1>7, <1>8, OneByOne DEF DInv, Step

LEMMA LateStep ==
  ASSUME IInv, NEW d \in Deliveries, Late(d)
  PROVE  Step(d)
<1> USE DEF Late, Reach
<1>1. TypeOK'
  <2>0. TypeOK BY DEF IInv
  <2>1. record' \in [Deliveries -> Row] BY <2>0, PhasesAre, RowTyped DEF TypeOK
  <2>2. task' \in [Deliveries -> Job]
    BY <2>0 DEF TypeOK
  <2>3. QED BY <2>0, <2>1, <2>2, DeliveryAssumption DEF TypeOK, Calls, Terminal, Under
<1>2. \A e \in Deliveries : e # d => Same(e) BY DEF IInv, TypeOK, Same
<1>3. DInv(d) /\ TypeOK BY DEF IInv
<1>4. LockInv(d)' BY <1>3 DEF DInv, LockInv, InLock, SeenInv, TypeOK, Job, Row
<1>5. SeenInv(d)' BY <1>3 DEF DInv, SeenInv, LockInv, InLock, Free, NoRecord, TypeOK, Job, Row
<1>6. EffectInv(d)' BY <1>3 DEF DInv, EffectInv, SeenInv, LockInv, InLock, Holds, Untouched, TypeOK, Job, Row
<1>7. WantInv(d)' BY <1>3 DEF DInv, WantInv, SeenInv, LockInv, InLock, Unsettled, EffectInv, Terminal, TypeOK, Job, Row
<1>8. Promised(d)
  <2>1. record[d].phase \in {"started", "failed", "delivered"} /\ UNCHANGED record
    BY <1>3 DEF DInv, EffectInv, Holds, Untouched, TypeOK, Row, Phases, Terminal
  <2>2. effects[d] \in 0..1 /\ (d \notin Idempotent => effects[d] = 0)
    BY <1>3 DEF DInv, EffectInv
  <2>3. effects'[d] = 1 BY <1>3, <2>2 DEF TypeOK
  <2>4. record[d].phase = "delivered" => effects[d] = 1 BY <1>3 DEF DInv, EffectInv, Holds
  <2> QED BY <2>1, <2>2, <2>3, <2>4 DEF Promised, Kept
<1> QED BY <1>1, <1>2, <1>4, <1>5, <1>6, <1>7, <1>8, OneByOne DEF DInv, Step

\* A crash leaves the records and what happens outside.
LEMMA CrashStep ==
  ASSUME IInv, Crash
  PROVE  IInv' /\ UNCHANGED <<record, effects>>
<1> USE DEF Crash
<1>1. TypeOK /\ Limit \in Nat BY DeliveryAssumption DEF IInv
<1>2. TypeOK'
  BY <1>1, EmptyJobs DEF TypeOK, Spend, MaxAsks, Calls
<1>3. ASSUME NEW d \in Deliveries PROVE DInv(d)'
  <2>1. DInv(d) BY DEF IInv
  <2>2. /\ task'[d] = Free /\ lock'[d] = "none" /\ retry'[d] = "none" /\ call'[d] = "none"
        /\ record'[d] = record[d] /\ effects'[d] = effects[d]
        /\ orphans'[d] = (orphans[d] \/ call[d] = "out")
        /\ asks'[d] = IF record[d].phase \in {"prepared", "started"} THEN 2 ELSE 0
    BY <1>1 DEF TypeOK, MaxAsks
  <2>3. LockInv(d)' BY <2>2 DEF LockInv, Free, InLock
  <2>4. SeenInv(d)' BY <2>2 DEF SeenInv, Free, NoRecord
  <2>5. EffectInv(d)'
    <3>1. call[d] = "out" => record[d].phase = "started" BY <2>1 DEF DInv, EffectInv, SeenInv
    <3> QED BY <2>1, <2>2, <3>1 DEF DInv, EffectInv, Holds, Untouched, Free
  <2>6. WantInv(d)' BY <2>2 DEF WantInv, Unsettled, Free
  <2> QED BY <2>3, <2>4, <2>5, <2>6 DEF DInv
<1> QED BY <1>2, <1>3 DEF IInv

LEMMA InitInv == Init => IInv
<1> SUFFICES ASSUME Init PROVE IInv OBVIOUS
<1> USE DEF Init
<1>1. NoRecord \in Row BY DEF NoRecord, Row, Phases
<1>2. TypeOK BY <1>1, EmptyJobs, DeliveryAssumption DEF TypeOK, Calls
<1>3. ASSUME NEW d \in Deliveries PROVE DInv(d)
  <2>1. LockInv(d) BY DEF LockInv, Free, InLock
  <2>2. SeenInv(d) BY DEF SeenInv, Free, NoRecord
  <2>3. EffectInv(d) BY DEF EffectInv, Holds, Untouched, Free, NoRecord
  <2>4. WantInv(d) BY DEF WantInv, Unsettled, Free, NoRecord
  <2> QED BY <2>1, <2>2, <2>3, <2>4 DEF DInv
<1> QED BY <1>2, <1>3 DEF IInv

LEMMA EachStep ==
  ASSUME IInv, Next
  PROVE  (\E d \in Deliveries : Step(d)) \/ (IInv' /\ UNCHANGED <<record, effects>>)
<1>1. CASE Crash BY <1>1, CrashStep
<1>2. ASSUME NEW d \in Deliveries, Work(d) PROVE Step(d)
  BY <1>2, StartStep, ReadStep, EnterStep, RereadStep, QueryStep, AdmitStep, BeginStep,
     StartingStep, AnsweredStep, OutcomeStep, CloseStep DEF Work
<1>3. ASSUME NEW d \in Deliveries, Change(d) PROVE Step(d)
  BY <1>3, CancelCommitStep, CancelTaskStep, RetryBeginStep, RetryReadStep, RetryJoinedStep,
     RetryRearmStep DEF Change
<1>4. ASSUME NEW d \in Deliveries, Disturb(d) PROVE Step(d)
  BY <1>4, InterruptStep, InterruptLateStep, ErrorStep, CancelBeginStep, RetryCallStep,
     RetryCutStep DEF Disturb
<1>5. ASSUME NEW d \in Deliveries,
             Prepare(d) \/ CallReaches(d) \/ CallAnswers(d) \/ Late(d)
      PROVE  Step(d)
  BY <1>5, PrepareStep, CallReachesStep, CallAnswersStep, LateStep
<1> QED BY <1>1, <1>2, <1>3, <1>4, <1>5 DEF Next

LEMMA NextInv == IInv /\ [Next]_vars => IInv'
<1> SUFFICES ASSUME IInv, [Next]_vars PROVE IInv' OBVIOUS
<1>1. CASE UNCHANGED vars
  <2>1. TypeOK' BY <1>1 DEF IInv, TypeOK, vars
  <2>2. \A e \in Deliveries : Same(e) BY <1>1 DEF Same, vars
  <2> QED BY <2>1, <2>2, SameKeeps DEF IInv
<1>2. CASE Next BY <1>2, EachStep DEF Step
<1> QED BY <1>1, <1>2

THEOREM Invariance == Spec => []IInv
BY InitInv, NextInv, PTL DEF Spec

-----------------------------------------------------------------------------
(* What follows.                                                           *)

\* The type invariant, for any deliveries and any number of disturbances.
THEOREM TypeCorrect == Spec => []TypeOK
<1>1. IInv => TypeOK BY DEF IInv
<1> QED BY <1>1, Invariance, PTL

\* Withdrawal, retry and the sending task never conflict in the store: what a task
\* saves replaces what it saw (DeliveryRecords._save, expected_version).
THEOREM NoConflict == Spec => []SavesAreCurrent
<1>1. ASSUME IInv PROVE SavesAreCurrent
  <2>1. ASSUME NEW d \in Deliveries, task[d].st \in {"starting", "save", "failing"}
        PROVE  Current(d, task[d].seen)
    BY <1>1, <2>1 DEF IInv, DInv, SeenInv, Current
  <2> QED BY <2>1 DEF SavesAreCurrent
<1> QED BY <1>1, Invariance, PTL

\* Whatever is not settled has somebody who will look at it, or a caller that was
\* told of the failure (Deliveries._start, retry, recovery).
THEOREM NothingForgotten == Spec => []UnsettledIsWanted
<1>1. ASSUME IInv PROVE UnsettledIsWanted
  <2>1. ASSUME NEW d \in Deliveries, record[d].phase \in {"prepared", "started"}
        PROVE  asks[d] # 0 \/ task[d].st \notin {"free", "closing"} \/ left[d]
    BY <1>1, <2>1 DEF IInv, DInv, WantInv, Unsettled
  <2> QED BY <2>1 DEF UnsettledIsWanted
<1> QED BY <1>1, Invariance, PTL

-----------------------------------------------------------------------------
(* The refinement.                                                         *)

LEMMA PromisedMaps ==
  ASSUME TypeOK, TypeOK', NEW d \in Deliveries, Promised(d),
         \A e \in Deliveries : e # d => Same(e)
  PROVE  [Promise!PromiseNext]_<<Phase, effects>>
<1>1. DOMAIN Phase = Deliveries /\ DOMAIN Phase' = Deliveries BY DEF Phase
<1>2. \A e \in Deliveries : Phase[e] = record[e].phase /\ Phase'[e] = record'[e].phase
  BY DEF Phase
<1>3. \A e \in Deliveries : e # d => Phase'[e] = Phase[e] /\ effects'[e] = effects[e]
  BY <1>2 DEF Same
<1>4. effects \in [Deliveries -> Nat] /\ effects' \in [Deliveries -> Nat] BY DEF TypeOK
<1>5. ASSUME effects'[d] = effects[d] PROVE effects' = effects BY <1>3, <1>4, <1>5
<1>6. ASSUME NEW to, Phase'[d] = to PROVE Phase' = [Phase EXCEPT ![d] = to]
  BY <1>1, <1>3, <1>6 DEF Phase
<1>7. ASSUME NEW from, NEW to, Turned(d, from, to) PROVE Promise!Become(d, from, to)
  BY <1>2, <1>5, <1>6, <1>7 DEF Turned, Promise!Become
<1>8. CASE Kept(d)
  <2>1. Phase' = Phase BY <1>1, <1>2, <1>3, <1>8 DEF Kept, Phase
  <2> QED BY <1>5, <1>8, <2>1 DEF Kept
<1>9. ASSUME NEW outcome \in {"delivered", "rejected", "failed"},
             Turned(d, "started", outcome), Holds(d, outcome)
      PROVE  Promise!PSettle(d, outcome)
  BY <1>7, <1>9 DEF Promise!PSettle, Holds, Untouched
<1>10. CASE /\ record[d].phase \in {"started", "failed"} /\ record'[d].phase = record[d].phase
            /\ effects[d] = 0 /\ effects'[d] = 1
  <2>1. Phase' = Phase BY <1>1, <1>2, <1>3, <1>10 DEF Phase
  <2>2. effects' = [effects EXCEPT ![d] = 1] BY <1>3, <1>4, <1>10
  <2>3. Promise!PEffect(d) BY <1>2, <1>10, <2>1, <2>2 DEF Promise!PEffect
  <2> QED BY <2>3 DEF Promise!PromiseNext
<1> QED
  BY <1>7, <1>8, <1>9, <1>10
  DEF Promised, Promise!PromiseNext, Promise!PPrepare, Promise!PWithdraw, Promise!PStart,
      Promise!PRearm

LEMMA StepsMap == IInv /\ [Next]_vars => [Promise!PromiseNext]_<<Phase, effects>>
<1> SUFFICES ASSUME IInv, [Next]_vars PROVE [Promise!PromiseNext]_<<Phase, effects>> OBVIOUS
<1>1. CASE UNCHANGED <<record, effects>> BY <1>1 DEF Phase
<1>2. CASE UNCHANGED vars BY <1>1, <1>2 DEF vars
<1>3. ASSUME NEW d \in Deliveries, Step(d) PROVE [Promise!PromiseNext]_<<Phase, effects>>
  BY <1>3, PromisedMaps DEF Step, IInv
<1> QED BY <1>1, <1>2, <1>3, EachStep

\* Delivery implements DeliveryPromise: however a delivery is cancelled, retried,
\* withdrawn, lost and recovered, each arming has at most one effect, none comes
\* after a withdrawal, and the saved outcome does not contradict what happened.
THEOREM KeepsPromise == Spec => ImplementsPromise
<1>1. Init => Promise!PromiseInit
  BY DEF Init, Phase, NoRecord, Promise!PromiseInit
<1> QED BY <1>1, StepsMap, Invariance, PTL
        DEF Spec, ImplementsPromise, Promise!PromiseSpec, Promise!pvars

\* What a record says has happened outside (Deliveries._send).
THEOREM HonestRecords == Spec => []Promise!RecordsAreHonest
<1>1. ASSUME IInv PROVE Promise!RecordsAreHonest
  BY <1>1 DEF IInv, DInv, EffectInv, Holds, Untouched, Phase, Promise!RecordsAreHonest
<1> QED BY <1>1, Invariance, PTL

=============================================================================
