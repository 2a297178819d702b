-------------------------- MODULE KeyValueCooldown --------------------------
(***************************************************************************)
(* KeyValueCooldownBackend: the slots of one deployment kept in a shared   *)
(* key-value store by workers of several hosts.  A claim is up to five     *)
(* calls of the client, and other workers, the clock and a crash of the    *)
(* worker can come between any two of them.                                *)
(*                                                                         *)
(* The store is what the code uses of Redis: one counter and one key per   *)
(* worker, each of which may have a time to live.                          *)
(***************************************************************************)
EXTENDS Integers, FiniteSets

CONSTANTS
  Workers,     \* the worker_ids contending for the deployment
  TTL,         \* ttl_seconds, in clock ticks
  Setters,     \* workers whose client has the optional method set
  Deleters,    \* workers whose client has the optional method delete
  MaxCounter,  \* bound on the counter, which the code never decrements
  MayFail,     \* whether workers crash and client calls raise
  Prompt       \* whether a claim takes less than a tick of the store's clock

ASSUME StoreAssumption ==
  /\ TTL \in Nat \ {0}
  /\ MaxCounter \in Nat
  /\ Setters \subseteq Workers
  /\ Deleters \subseteq Workers
  /\ MayFail \in BOOLEAN
  /\ Prompt \in BOOLEAN

VARIABLES
  counter,      \* the counter's value, 0 when the key is absent
  counterTTL,   \* ticks the counter has left, Forever without a TTL
  key,          \* key[w]: the slot stored for w, NoSlot when absent
  keyTTL,       \* ticks key[w] has left
  pc,           \* the next client call of each worker
  idx,          \* slot_index in w's hands
  active,       \* w's call holds a claim it has not released
  current       \* history: idx[w] was drawn from the counter's present life

vars == <<counter, counterTTL, key, keyTTL, pc, idx, active, current>>

NoSlot == -1
Forever == -1

Claiming == {"get", "refresh", "incr", "expireCounter", "set", "expireWorker"}

Places == Claiming \cup {"idle", "holding"}

Init ==
  /\ counter = 0
  /\ counterTTL = Forever
  /\ key = [w \in Workers |-> NoSlot]
  /\ keyTTL = [w \in Workers |-> Forever]
  /\ pc = [w \in Workers |-> "idle"]
  /\ idx = [w \in Workers |-> NoSlot]
  /\ active = [w \in Workers |-> FALSE]
  /\ current = [w \in Workers |-> FALSE]

GoTo(w, place) == pc' = [pc EXCEPT ![w] = place]

----------------------------------------------------------------------------
(* claim_slot, one action per client call.                                   *)

\* A 429 to sleep on: the first of a call (idle) or a retry (holding).
BeginClaim(w) ==
  /\ pc[w] \in {"idle", "holding"}
  /\ GoTo(w, "get")
  /\ UNCHANGED <<counter, counterTTL, key, keyTTL, idx, active, current>>

GetCached(w) ==
  /\ pc[w] = "get"
  /\ key[w] # NoSlot
  /\ idx' = [idx EXCEPT ![w] = key[w]]
  /\ GoTo(w, "refresh")
  /\ UNCHANGED <<counter, counterTTL, key, keyTTL, active, current>>

GetMissing(w) ==
  /\ pc[w] = "get"
  /\ key[w] = NoSlot
  /\ GoTo(w, "incr")
  /\ UNCHANGED <<counter, counterTTL, key, keyTTL, idx, active, current>>

\* expire on a key that is gone has no effect.
ExpireKey(w, ticks) ==
  keyTTL' = [keyTTL EXCEPT ![w] = IF key[w] = NoSlot THEN Forever ELSE ticks]

\* Deviation: the slot is the value read before an increment by another call.
IncrTorn(w) ==
  /\ pc[w] = "incr"
  /\ counter < MaxCounter
  /\ \E n \in {counter, counter - 1} :
       /\ n >= 0
       /\ idx' = [idx EXCEPT ![w] = n]
       /\ counter' = n + 1
  /\ current' = [current EXCEPT ![w] = TRUE]
  /\ GoTo(w, "expireCounter")
  /\ UNCHANGED <<counterTTL, key, keyTTL, active>>

\* incr returns the new value; the slot is that value minus one.
Incr(w) ==
  /\ pc[w] = "incr"
  /\ counter < MaxCounter
  /\ counter' = counter + 1
  /\ idx' = [idx EXCEPT ![w] = counter]
  /\ current' = [current EXCEPT ![w] = TRUE]
  /\ GoTo(w, "expireCounter")
  /\ UNCHANGED <<counterTTL, key, keyTTL, active>>

ExpireCounter(w) ==
  /\ pc[w] = "expireCounter"
  /\ counterTTL' = IF counter = 0 THEN Forever ELSE TTL
  /\ GoTo(w, "set")
  /\ UNCHANGED <<counter, key, keyTTL, idx, active, current>>

\* Deviation: the counter is cached instead of the slot index.
CachedCounter(w) == idx[w] + 1

CachedIndex(w) == idx[w]

\* set, which also drops a TTL; a client without it is tolerated.
SetKey(w) ==
  /\ pc[w] = "set"
  /\ IF w \in Setters
     THEN /\ key' = [key EXCEPT ![w] = CachedIndex(w)]
          /\ keyTTL' = [keyTTL EXCEPT ![w] = Forever]
     ELSE UNCHANGED <<key, keyTTL>>
  /\ GoTo(w, "expireWorker")
  /\ UNCHANGED <<counter, counterTTL, idx, active, current>>

\* The last client call of both branches; the coordinator records the claim.
FinishClaim(w) ==
  /\ pc[w] \in {"refresh", "expireWorker"}
  /\ ExpireKey(w, TTL)
  /\ active' = [active EXCEPT ![w] = TRUE]
  /\ GoTo(w, "holding")
  /\ UNCHANGED <<counter, counterTTL, key, idx, current>>

----------------------------------------------------------------------------
\* release_slot: delete the worker's key, or let it live one more second.
Release(w) ==
  /\ pc[w] = "holding"
  /\ IF w \in Deleters
     THEN /\ key' = [key EXCEPT ![w] = NoSlot]
          /\ keyTTL' = [keyTTL EXCEPT ![w] = Forever]
     ELSE ExpireKey(w, 1) /\ UNCHANGED key
  /\ idx' = [idx EXCEPT ![w] = NoSlot]
  /\ active' = [active EXCEPT ![w] = FALSE]
  /\ GoTo(w, "idle")
  /\ UNCHANGED <<counter, counterTTL, current>>

\* A client call raises: the controller swallows the exception and sleeps the
\* plain wait.  An earlier claim of the call is still released when it ends.
ClientError(w) ==
  /\ MayFail
  /\ pc[w] \in Claiming
  /\ idx' = [idx EXCEPT ![w] = NoSlot]
  /\ GoTo(w, IF active[w] THEN "holding" ELSE "idle")
  /\ UNCHANGED <<counter, counterTTL, key, keyTTL, active, current>>

\* The worker's process dies and is started again under its worker_id.  A
\* release whose client call raises is swallowed and leaves the same behind.
Crash(w) ==
  /\ MayFail
  /\ pc[w] # "idle"
  /\ idx' = [idx EXCEPT ![w] = NoSlot]
  /\ active' = [active EXCEPT ![w] = FALSE]
  /\ GoTo(w, "idle")
  /\ UNCHANGED <<counter, counterTTL, key, keyTTL, current>>

\* One tick of the store's clock: what has one tick left expires.
Elapsed(ttl) == IF ttl > 1 THEN ttl - 1 ELSE Forever

Tick ==
  /\ \/ counterTTL # Forever
     \/ \E w \in Workers : keyTTL[w] # Forever
  /\ Prompt => \A w \in Workers : pc[w] \notin Claiming
  /\ counter' = IF counterTTL = 1 THEN 0 ELSE counter
  /\ counterTTL' = Elapsed(counterTTL)
  /\ key' = [w \in Workers |-> IF keyTTL[w] = 1 THEN NoSlot ELSE key[w]]
  /\ keyTTL' = [w \in Workers |-> Elapsed(keyTTL[w])]
  /\ current' = [w \in Workers |-> counterTTL # 1 /\ current[w]]
  /\ UNCHANGED <<pc, idx, active>>

WorkerStep(w) ==
  \/ BeginClaim(w) \/ GetCached(w) \/ GetMissing(w) \/ Incr(w)
  \/ ExpireCounter(w) \/ SetKey(w) \/ FinishClaim(w)
  \/ Release(w) \/ ClientError(w) \/ Crash(w)

Next == Tick \/ \E w \in Workers : WorkerStep(w)

Spec == Init /\ [][Next]_vars

----------------------------------------------------------------------------
\* Type invariant of the store and of the workers' local state; a claim ends
\* with the call that made it.
TypeOK ==
  /\ counter \in 0 .. MaxCounter
  /\ counterTTL \in {Forever} \cup 1 .. TTL
  /\ key \in [Workers -> {NoSlot} \cup Nat]
  /\ keyTTL \in [Workers -> {Forever} \cup 1 .. TTL]
  /\ pc \in [Workers -> Places]
  /\ idx \in [Workers -> {NoSlot} \cup Nat]
  /\ active \in [Workers -> BOOLEAN]
  /\ current \in [Workers -> BOOLEAN]
  /\ \A w \in Workers : pc[w] = "idle" => ~active[w] /\ idx[w] = NoSlot

\* As long as the counter lives, no two workers hold the same slot, however
\* their client calls interleave and whoever crashes in between.
DistinctWithinCounter ==
  \A v, w \in Workers :
    /\ v # w
    /\ idx[v] # NoSlot /\ current[v]
    /\ idx[w] # NoSlot /\ current[w]
    => idx[v] # idx[w]

\* What the store remembers of a worker that holds a slot is that slot, so
\* that a re-claim that finds the key returns the offset already in use.
CachedSlotIsHeld ==
  \A w \in Workers :
    pc[w] \in {"holding", "get"} /\ idx[w] # NoSlot /\ key[w] # NoSlot
      => key[w] = idx[w]
=============================================================================
