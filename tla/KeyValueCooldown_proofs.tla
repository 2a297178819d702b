---------------------- MODULE KeyValueCooldown_proofs ----------------------
(***************************************************************************)
(* Proofs about KeyValueCooldown for any set of workers, any TTL and any   *)
(* client, with crashes, client errors and the clock at arbitrary points.  *)
(***************************************************************************)
EXTENDS KeyValueCooldown, TLAPS

LEMMA ElapsedType ==
  ASSUME NEW t \in {Forever} \cup 1 .. TTL
  PROVE  Elapsed(t) \in {Forever} \cup 1 .. TTL
BY StoreAssumption DEF Elapsed, Forever

LEMMA TypeOKNext == TypeOK /\ [Next]_vars => TypeOK'
<1> SUFFICES ASSUME TypeOK, [Next]_vars
             PROVE  TypeOK'
  OBVIOUS
<1> USE StoreAssumption DEF TypeOK, Places, Claiming, GoTo
<1>1. ASSUME NEW w \in Workers, BeginClaim(w)
      PROVE  TypeOK'
  BY <1>1 DEF BeginClaim
<1>2. ASSUME NEW w \in Workers, GetCached(w) \/ GetMissing(w)
      PROVE  TypeOK'
  BY <1>2 DEF GetCached, GetMissing
<1>3. ASSUME NEW w \in Workers, Incr(w)
      PROVE  TypeOK'
  BY <1>3 DEF Incr
<1>4. ASSUME NEW w \in Workers, ExpireCounter(w)
      PROVE  TypeOK'
  BY <1>4 DEF ExpireCounter
<1>5. ASSUME NEW w \in Workers, SetKey(w)
      PROVE  TypeOK'
  BY <1>5 DEF SetKey, CachedIndex
<1>6. ASSUME NEW w \in Workers, FinishClaim(w)
      PROVE  TypeOK'
  BY <1>6 DEF FinishClaim, ExpireKey
<1>7. ASSUME NEW w \in Workers, Release(w)
      PROVE  TypeOK'
  BY <1>7 DEF Release, ExpireKey
<1>8. ASSUME NEW w \in Workers, ClientError(w) \/ Crash(w)
      PROVE  TypeOK'
  BY <1>8 DEF ClientError, Crash
<1>9. ASSUME Tick
      PROVE  TypeOK'
  <2>1. /\ counterTTL' \in {Forever} \cup 1 .. TTL
        /\ keyTTL' \in [Workers -> {Forever} \cup 1 .. TTL]
    BY <1>9, ElapsedType DEF Tick
  <2>2. counter' \in 0 .. MaxCounter /\ key' \in [Workers -> {NoSlot} \cup Nat]
    BY <1>9 DEF Tick
  <2>3. current' \in [Workers -> BOOLEAN]
    BY <1>9 DEF Tick
  <2> QED  BY <1>9, <2>1, <2>2, <2>3 DEF Tick
<1>10. CASE UNCHANGED vars
  BY <1>10 DEF vars
<1> QED
  BY <1>1, <1>2, <1>3, <1>4, <1>5, <1>6, <1>7, <1>8, <1>9, <1>10
  DEF Next, WorkerStep

LEMMA TypeOKInit == Init => TypeOK
BY StoreAssumption DEF Init, TypeOK, Places, Claiming

\* The variables have their types in every reachable state.
THEOREM TypeCorrect == Spec => []TypeOK
BY TypeOKInit, TypeOKNext, PTL DEF Spec

----------------------------------------------------------------------------
(* An index drawn from the living counter lies below it, whether it is in   *)
(* the worker's hands or in its key, and no other worker has it in either   *)
(* place.  A worker about to draw has no key that the draw would revive.    *)
Has(w, n) == n # NoSlot /\ current[w] /\ (idx[w] = n \/ key[w] = n)

DrawInv ==
  /\ TypeOK
  /\ \A w \in Workers : \A n \in Nat : Has(w, n) => n < counter
  /\ \A v, w \in Workers : \A n \in Nat : v # w => ~(Has(v, n) /\ Has(w, n))
  /\ \A w \in Workers :
       pc[w] \in {"incr", "expireCounter", "set"} => key[w] = NoSlot

\* A step that lets no worker gain an index and leaves the counter alone, or
\* ends its life, keeps the invariant.
LEMMA DrawInvShrinks ==
  ASSUME DrawInv, TypeOK',
         \A w \in Workers : \A n \in Nat : Has(w, n)' => Has(w, n),
         counter' = counter \/ \A w \in Workers : ~current'[w],
         \A w \in Workers :
           pc'[w] \in {"incr", "expireCounter", "set"} => key'[w] = NoSlot
  PROVE  DrawInv'
BY DEF DrawInv, Has

LEMMA DrawInvNext == DrawInv /\ [Next]_vars => DrawInv'
<1> SUFFICES ASSUME DrawInv, [Next]_vars
             PROVE  DrawInv'
  OBVIOUS
<1>0. TypeOK /\ TypeOK'
  BY TypeOKNext DEF DrawInv
<1> USE <1>0 DEF GoTo
<1>1. ASSUME NEW w \in Workers, BeginClaim(w)
      PROVE  DrawInv'
  BY <1>1, DrawInvShrinks DEF BeginClaim, DrawInv, TypeOK, Has
<1>2. ASSUME NEW w \in Workers, GetCached(w)
      PROVE  DrawInv'
  BY <1>2, DrawInvShrinks DEF GetCached, DrawInv, TypeOK, Has
<1>3. ASSUME NEW w \in Workers, GetMissing(w)
      PROVE  DrawInv'
  BY <1>3, DrawInvShrinks DEF GetMissing, DrawInv, TypeOK, Has
<1>4. ASSUME NEW w \in Workers, Incr(w)
      PROVE  DrawInv'
  <2>1. /\ counter \in Nat /\ counter' = counter + 1
        /\ idx' = [idx EXCEPT ![w] = counter] /\ idx \in [Workers -> {NoSlot} \cup Nat]
        /\ current' = [current EXCEPT ![w] = TRUE] /\ current \in [Workers -> BOOLEAN]
        /\ key' = key /\ key[w] = NoSlot
    BY <1>4 DEF Incr, DrawInv, TypeOK
  <2>2. \A n \in Nat : Has(w, n)' => n = counter
    BY <2>1 DEF Has, NoSlot
  <2>3. \A v \in Workers \ {w} : \A n \in Nat : Has(v, n)' => Has(v, n)
    BY <2>1 DEF Has
  <2>4. \A v \in Workers : \A n \in Nat : Has(v, n)' => n < counter'
    BY <2>1, <2>2, <2>3 DEF DrawInv
  <2>5. \A u, v \in Workers : \A n \in Nat :
          u # v => ~(Has(u, n)' /\ Has(v, n)')
    BY <2>1, <2>2, <2>3 DEF DrawInv
  <2>6. \A v \in Workers :
          pc'[v] \in {"incr", "expireCounter", "set"} => key'[v] = NoSlot
    BY <1>4 DEF Incr, DrawInv, TypeOK
  <2> QED  BY <2>4, <2>5, <2>6 DEF DrawInv
<1>5. ASSUME NEW w \in Workers, ExpireCounter(w)
      PROVE  DrawInv'
  BY <1>5, DrawInvShrinks DEF ExpireCounter, DrawInv, TypeOK, Has
<1>6. ASSUME NEW w \in Workers, SetKey(w)
      PROVE  DrawInv'
  BY <1>6, DrawInvShrinks DEF SetKey, CachedIndex, DrawInv, TypeOK, Has
<1>7. ASSUME NEW w \in Workers, FinishClaim(w)
      PROVE  DrawInv'
  BY <1>7, DrawInvShrinks DEF FinishClaim, DrawInv, TypeOK, Has
<1>8. ASSUME NEW w \in Workers, Release(w)
      PROVE  DrawInv'
  BY <1>8, DrawInvShrinks DEF Release, DrawInv, TypeOK, Has
<1>9. ASSUME NEW w \in Workers, ClientError(w)
      PROVE  DrawInv'
  BY <1>9, DrawInvShrinks DEF ClientError, DrawInv, TypeOK, Has
<1>10. ASSUME NEW w \in Workers, Crash(w)
       PROVE  DrawInv'
  BY <1>10, DrawInvShrinks DEF Crash, DrawInv, TypeOK, Has
<1>11. ASSUME Tick
       PROVE  DrawInv'
  BY <1>11, DrawInvShrinks DEF Tick, DrawInv, TypeOK, Has
<1>12. CASE UNCHANGED vars
  BY <1>12, DrawInvShrinks DEF vars, DrawInv, Has
<1> QED
  BY <1>1, <1>2, <1>3, <1>4, <1>5, <1>6, <1>7, <1>8, <1>9, <1>10, <1>11, <1>12
  DEF Next, WorkerStep

\* As long as the counter lives, no two workers hold the same slot.
THEOREM SlotsDistinctWhileCounterLives == Spec => []DistinctWithinCounter
<1>1. Init => DrawInv
  BY TypeOKInit DEF Init, DrawInv, Has
<1>2. DrawInv => DistinctWithinCounter
  BY DEF DrawInv, Has, DistinctWithinCounter, TypeOK
<1> QED  BY <1>1, <1>2, DrawInvNext, PTL DEF Spec

----------------------------------------------------------------------------
(* A slot in the worker's hands was read from its key, or was drawn while    *)
(* there was none and is what the key is set to.                             *)
CachedInv ==
  \A w \in Workers : idx[w] # NoSlot /\ key[w] # NoSlot => key[w] = idx[w]

LEMMA CachedInvNext == DrawInv /\ CachedInv /\ [Next]_vars => CachedInv'
<1> SUFFICES ASSUME DrawInv, CachedInv, [Next]_vars
             PROVE  CachedInv'
  OBVIOUS
<1> USE DEF DrawInv, TypeOK, CachedInv
<1>1. ASSUME NEW w \in Workers, GetCached(w) \/ Incr(w) \/ SetKey(w)
      PROVE  CachedInv'
  BY <1>1 DEF GetCached, Incr, SetKey, CachedIndex
<1>2. ASSUME NEW w \in Workers, Release(w) \/ ClientError(w) \/ Crash(w)
      PROVE  CachedInv'
  BY <1>2 DEF Release, ClientError, Crash
<1>3. CASE Tick
  BY <1>3 DEF Tick
<1>4. CASE UNCHANGED <<idx, key>>
  BY <1>4
<1> QED
  BY <1>1, <1>2, <1>3, <1>4
  DEF Next, WorkerStep, BeginClaim, GetMissing, ExpireCounter, FinishClaim, vars

\* What the store remembers of a worker that holds a slot is that slot.
THEOREM CacheAgrees == Spec => []CachedSlotIsHeld
<1>1. Init => DrawInv /\ CachedInv
  BY TypeOKInit DEF Init, DrawInv, CachedInv, Has
<1>2. CachedInv => CachedSlotIsHeld
  BY DEF CachedInv, CachedSlotIsHeld
<1> QED  BY <1>1, <1>2, DrawInvNext, CachedInvNext, PTL DEF Spec
=============================================================================
