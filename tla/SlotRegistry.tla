---------------------------- MODULE SlotRegistry ----------------------------
(***************************************************************************)
(* What a cooldown backend promises to the workers of its deployments      *)
(* (the protocol class CooldownBackend): a worker that contends for a      *)
(* deployment holds one slot of its own, keeps that slot until it releases *)
(* it, and never shares it with a worker of the same deployment.           *)
(*                                                                         *)
(* Nothing is said here of how a slot is found or how large it may be.     *)
(***************************************************************************)
EXTENDS Integers

CONSTANTS
  Workers,   \* the identities given as worker_id
  KeyOf      \* KeyOf[w] is the deployment_key worker w contends for

VARIABLE slot  \* slot[w] is the slot index w holds, Unclaimed when it holds none

Unclaimed == -1

Peers(w) == {v \in Workers \ {w} : KeyOf[v] = KeyOf[w]}

Init == slot = [w \in Workers |-> Unclaimed]

Claim(w) ==
  /\ slot[w] = Unclaimed
  /\ slot'[w] \in Nat
  /\ \A v \in Peers(w) : slot[v] # slot'[w]
  /\ slot' = [slot EXCEPT ![w] = slot'[w]]

Release(w) ==
  /\ slot[w] # Unclaimed
  /\ slot' = [slot EXCEPT ![w] = Unclaimed]

Next == \E w \in Workers : Claim(w) \/ Release(w)

Spec == Init /\ [][Next]_slot
=============================================================================
