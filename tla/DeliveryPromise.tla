---------------------------- MODULE DeliveryPromise ----------------------------
(***************************************************************************)
(* What plugins/delivery promises whoever asked it to send a message to a  *)
(* destination: the outside effect happens at most once for each time it   *)
(* was armed, never after it was withdrawn, and an outcome that is saved   *)
(* does not contradict what happened.  The module Delivery implements it.  *)
(***************************************************************************)
EXTENDS Naturals

CONSTANT Deliveries

VARIABLES
  state,    \* what the saved record of a delivery says
  effects   \* how often the message reached the address outside

pvars == <<state, effects>>

States == {"none", "prepared", "started", "delivered", "rejected", "failed"}

PromiseTypeOK == state \in [Deliveries -> States] /\ effects \in [Deliveries -> 0..1]

PromiseInit ==
  /\ state = [d \in Deliveries |-> "none"]
  /\ effects = [d \in Deliveries |-> 0]

Become(d, from, to) ==
  /\ state[d] = from
  /\ state' = [state EXCEPT ![d] = to]
  /\ UNCHANGED effects

\* A destination is fixed with the message, or added later.
PPrepare(d) == Become(d, "none", "prepared")

\* Whoever asked takes it back, or the guard of the sender's owner refuses.
PWithdraw(d) == Become(d, "prepared", "rejected")

PStart(d) == Become(d, "prepared", "started")

\* The effect, which may come after everybody has given it up.
PEffect(d) ==
  /\ state[d] \in {"started", "failed"} /\ effects[d] = 0
  /\ effects' = [effects EXCEPT ![d] = 1]
  /\ UNCHANGED state

\* An outcome: what was delivered has happened, what was rejected has not.
PSettle(d, outcome) ==
  /\ outcome = "delivered" => effects[d] = 1
  /\ outcome = "rejected" => effects[d] = 0
  /\ Become(d, "started", outcome)

\* An explicit retry, of a rejected delivery only.
PRearm(d) == Become(d, "rejected", "prepared")

PromiseNext ==
  \E d \in Deliveries :
    \/ PPrepare(d) \/ PWithdraw(d) \/ PStart(d) \/ PEffect(d) \/ PRearm(d)
    \/ \E outcome \in {"delivered", "rejected", "failed"} : PSettle(d, outcome)

PromiseSpec == PromiseInit /\ [][PromiseNext]_pvars

\* What a record says has happened outside (Deliveries._send, DeliveryRecords).
RecordsAreHonest ==
  \A d \in Deliveries :
    /\ state[d] = "delivered" => effects[d] = 1
    /\ state[d] \in {"none", "prepared", "rejected"} => effects[d] = 0

=============================================================================
