-------------------------- MODULE PriceCacheProofs --------------------------
(* PriceCache for every number of threads, builds, keys and clock readings. *)
EXTENDS PriceCache, FiniteSetTheorems, TLAPS

\* A bucket is no greater than the moment it was computed at.
LEMMA BucketInRange ==
  ASSUME NEW x \in Nat, NEW b \in Nat \ {0}
  PROVE  x \div b \in 0 .. x
<1>1. x \div b \in Int /\ x % b \in 0 .. (b - 1) /\ x = b * (x \div b) + (x % b)
  BY SMT
<1>2. x \div b >= 0
  BY <1>1, SMT
<1>3. b * (x \div b) >= x \div b
  BY <1>1, <1>2, SMT
<1> QED BY <1>1, <1>2, <1>3

LEMMA KeysOfRequests ==
  ASSUME NEW s \in Nat \cup {Full}, NEW now \in MaxSinceAge .. MaxClock
  PROVE  PricesCacheKey(s, now) \in Keys
<1>1. CASE s = Full
  BY <1>1 DEF PricesCacheKey, Keys
<1>2. CASE s # Full
  <2>1. s \in Nat /\ now \in Nat /\ MaxSinceAge \in Nat /\ MaxClock \in Nat /\ Bucket \in Nat \ {0}
    BY <1>2, CacheAssumption
  <2> DEFINE x == Lesser(Greater(s, now - MaxSinceAge), now)
  <2>2. x \in 0 .. now
    BY <2>1 DEF Lesser, Greater
  <2> HIDE DEF x
  <2>3. x \div Bucket \in 0 .. x
    BY <2>1, <2>2, BucketInRange
  <2>4. x \div Bucket \in 0 .. MaxClock
    BY <2>1, <2>2, <2>3
  <2> QED BY <1>2, <2>4 DEF PricesCacheKey, BucketedSince, Keys, x
<1> QED BY <1>1, <1>2

\* There is always a number for a new lock: there are more of them than threads.
LEMMA NewLockInRange ==
  ASSUME NEW key
  PROVE  /\ NewLock(key) \in LockNumbers \ {0}
         /\ \A t \in Waiting(key) \cup Inside(key) : req[t].lock # NewLock(key)
<1> DEFINE S == 1 .. (Cardinality(Threads) + 1)
           Taken(n) == \E t \in Threads : req[t].lock = n
           f == [n \in S |-> CHOOSE t \in Threads : req[t].lock = n]
<1>1. IsFiniteSet(Threads) /\ Cardinality(Threads) \in Nat
  BY CacheAssumption, FS_CardinalityType
<1>2. IsFiniteSet(S) /\ Cardinality(S) = Cardinality(Threads) + 1
  BY <1>1, FS_Interval
<1>3. \E n \in S : \A t \in Threads : req[t].lock # n
  <2>1. SUFFICES ASSUME \A n \in S : Taken(n) PROVE FALSE
    OBVIOUS
  <2>2. f \in [S -> Threads]
    BY <2>1
  <2>3. Cardinality(Threads) < Cardinality(S)
    BY <1>1, <1>2
  <2>4. PICK x \in S, y \in S : x # y /\ f[x] = f[y]
    <3> HIDE DEF S, f
    <3> QED BY <1>1, <1>2, <2>2, <2>3, FS_PigeonHole
  <2>5. req[f[x]].lock = x /\ req[f[y]].lock = y
    BY <2>1
  <2> QED BY <2>4, <2>5
<1>4. S \subseteq LockNumbers \ {0}
  BY <1>1 DEF LockNumbers
<1> QED BY <1>3, <1>4 DEF NewLock, Waiting, Inside

-----------------------------------------------------------------------------
(* The slots taken are those of the threads that build. *)

Builders == {t \in Threads : pc[t] = "build"}
SlotsCounted == slots = Cardinality(Builders)

TypeInv == TypeOK /\ SlotsCounted

LEMMA NoRequestTyped == NoRequest \in [since : Nat \cup {Full}, load : Keys, key : Keys,
                                       now : Nat, lock : LockNumbers, body : Bodies, seen : Nat]
<1>1. Cardinality(Threads) \in Nat /\ MaxClock \in Nat
  BY CacheAssumption, FS_CardinalityType
<1>2. NoBody \in Bodies
  BY <1>1 DEF NoBody, Bodies, Keys
<1> QED BY <1>1, <1>2 DEF NoRequest, LockNumbers, Keys

LEMMA TypeInit == Init => TypeInv
<1> SUFFICES ASSUME Init PROVE TypeInv
  OBVIOUS
<1>1. Cardinality(Threads) \in Nat /\ MaxClock \in Nat /\ MaxSinceAge \in 0 .. MaxClock
      /\ MaxBuilds \in Nat
  BY CacheAssumption, FS_CardinalityType
<1>2. TypeOK
  BY <1>1, NoRequestTyped DEF Init, TypeOK, HoldingPlaces, LockNumbers, Keys
<1>3. Builders = {}
  BY DEF Init, Builders
<1> QED BY <1>2, <1>3, FS_EmptySet DEF TypeInv, SlotsCounted, Init

LEMMA BuildersMove ==
  ASSUME TypeOK, NEW t \in Threads, NEW p, pc' = [pc EXCEPT ![t] = p]
  PROVE  /\ Cardinality(Builders) \in Nat
         /\ (p # "build" /\ pc[t] # "build") => Cardinality(Builders)' = Cardinality(Builders)
         /\ (p = "build" /\ pc[t] # "build") => Cardinality(Builders)' = Cardinality(Builders) + 1
         /\ (p # "build" /\ pc[t] = "build") => /\ Cardinality(Builders)' = Cardinality(Builders) - 1
                                                /\ Cardinality(Builders) >= 1
<1>1. IsFiniteSet(Builders) /\ Cardinality(Builders) \in Nat
  <2>1. Builders \in SUBSET Threads
    BY DEF Builders
  <2> QED BY <2>1, CacheAssumption, FS_Subset, FS_CardinalityType
<1> USE DEF TypeOK
<1>2. (p # "build" /\ pc[t] # "build") => Builders' = Builders
  BY DEF Builders
<1>3. (p = "build" /\ pc[t] # "build") => t \notin Builders /\ Builders' = Builders \cup {t}
  BY DEF Builders
<1>4. (p # "build" /\ pc[t] = "build") => t \in Builders /\ Builders' = Builders \ {t}
  BY DEF Builders
<1>5. (p = "build" /\ pc[t] # "build") => Cardinality(Builders)' = Cardinality(Builders) + 1
  <2> SUFFICES ASSUME p = "build", pc[t] # "build"
               PROVE  Cardinality(Builders)' = Cardinality(Builders) + 1
    OBVIOUS
  <2>1. Cardinality(Builders \cup {t}) = Cardinality(Builders) + 1
    BY <1>1, <1>3, FS_AddElement
  <2> QED BY <1>3, <2>1
<1>6. (p # "build" /\ pc[t] = "build") => /\ Cardinality(Builders)' = Cardinality(Builders) - 1
                                          /\ Cardinality(Builders) >= 1
  <2> SUFFICES ASSUME p # "build", pc[t] = "build"
               PROVE  /\ Cardinality(Builders)' = Cardinality(Builders) - 1
                      /\ Cardinality(Builders) >= 1
    OBVIOUS
  <2>1. Cardinality(Builders \ {t}) = Cardinality(Builders) - 1
    BY <1>1, <1>4, FS_RemoveElement
  <2>2. Cardinality(Builders) # 0
    BY <1>1, <1>4, FS_EmptySet
  <2>3. Cardinality(Builders)' = Cardinality(Builders \ {t})
    BY <1>4
  <2> QED BY <1>1, <2>1, <2>2, <2>3
<1> QED BY <1>1, <1>2, <1>5, <1>6

LEMMA StaysCounted ==
  ASSUME TypeInv, NEW t \in Threads, NEW p, pc' = [pc EXCEPT ![t] = p],
         pc[t] # "build", p # "build", slots' = slots
  PROVE  SlotsCounted'
BY BuildersMove DEF TypeInv, SlotsCounted

LEMMA TypeNext == TypeInv /\ [Next]_vars => TypeInv'
<1> SUFFICES ASSUME TypeInv, [Next]_vars PROVE TypeInv'
  OBVIOUS
<1>a. Cardinality(Threads) \in Nat /\ MaxClock \in Nat /\ MaxSinceAge \in 0 .. MaxClock
      /\ MaxBuilds \in Nat \ {0} /\ TTLFull \in Nat /\ TTLWindow \in Nat
      /\ Requests \subseteq Nat \cup {Full}
  BY CacheAssumption, FS_CardinalityType
<1>b. clock \in Nat /\ clock \in Keys
  BY <1>a DEF TypeInv, TypeOK, Keys
<1> USE DEF TypeInv, TypeOK, SlotsCounted, HoldingPlaces
<1>1. CASE Tick
  BY <1>1, <1>a DEF Tick, Builders
<1>2. ASSUME NEW t \in Threads, Arrive(t) PROVE TypeInv'
  <2>1. PICK s \in Requests : req' = [req EXCEPT ![t] = [NoRequest EXCEPT !.since = s, !.load = PricesCacheKey(s, clock)]]
    BY <1>2 DEF Arrive
  <2>2. PricesCacheKey(s, clock) \in Keys
    BY <1>a, KeysOfRequests
  <2>3. req' \in [Threads -> [since : Nat \cup {Full}, load : Keys, key : Keys, now : Nat,
                         lock : LockNumbers, body : Bodies, seen : Nat]]
    BY <1>a, <2>1, <2>2, NoRequestTyped
  <2>4. TypeOK'
    BY <1>2, <2>3 DEF Arrive
  <2>5. SlotsCounted'
    BY <1>2, StaysCounted DEF Arrive
  <2> QED BY <2>4, <2>5
<1>3. ASSUME NEW t \in Threads, Enter(t) PROVE TypeInv'
  <2>1. EnterKey(t) \in Keys
    BY KeysOfRequests DEF EnterKey
  <2>2. newest[EnterKey(t)] \in Nat
    BY <2>1
  <2>3. req' \in [Threads -> [since : Nat \cup {Full}, load : Keys, key : Keys, now : Nat,
                         lock : LockNumbers, body : Bodies, seen : Nat]]
    <3>1. [req[t] EXCEPT !.key = EnterKey(t), !.now = clock, !.seen = newest[EnterKey(t)]]
             \in [since : Nat \cup {Full}, load : Keys, key : Keys, now : Nat,
                  lock : LockNumbers, body : Bodies, seen : Nat]
      <4> DEFINE r == [since : Nat \cup {Full}, load : Keys, key : Keys, now : Nat,
                       lock : LockNumbers, body : Bodies, seen : Nat]
      <4>1. req[t] \in r /\ clock \in Nat
        BY <1>b
      <4> QED BY ONLY <4>1, <2>1, <2>2
    <3> QED BY <1>3, <3>1 DEF Enter
  <2>4. TypeOK'
    BY <1>3, <2>3 DEF Enter
  <2>5. SlotsCounted'
    BY <1>3, StaysCounted DEF Enter
  <2> QED BY <2>4, <2>5
<1>4. ASSUME NEW t \in Threads, ReadCache(t) PROVE TypeInv'
  <2>1. Fresh(req[t].key, req[t].now) => cache[req[t].key].body.at \in Nat
    BY DEF Fresh, Bodies
  <2>2. TypeOK'
    BY <1>4, <2>1, NoRequestTyped DEF ReadCache, Leave, Shown, Greater
  <2>3. SlotsCounted'
    <3>1. pc' = [pc EXCEPT ![t] = "idle"] \/ pc' = [pc EXCEPT ![t] = "lookup"]
      BY <1>4 DEF ReadCache, Leave
    <3> QED BY <1>4, <3>1, StaysCounted DEF ReadCache
  <2> QED BY <2>2, <2>3
<1>5. ASSUME NEW t \in Threads, LookUpLock(t) PROVE TypeInv'
  <2>1. BuildLockFor(req[t].key) \in LockNumbers
    BY NewLockInRange DEF BuildLockFor
  <2>2. TypeOK'
    BY <1>5, <2>1 DEF LookUpLock
  <2>3. SlotsCounted'
    BY <1>5, StaysCounted DEF LookUpLock
  <2> QED BY <2>2, <2>3
<1>6. ASSUME NEW t \in Threads, AcquireBuildLock(t) PROVE TypeInv'
  <2>1. TypeOK'
    BY <1>6 DEF AcquireBuildLock, LockOf
  <2>2. SlotsCounted'
    BY <1>6, StaysCounted DEF AcquireBuildLock
  <2> QED BY <2>1, <2>2
<1>7. ASSUME NEW t \in Threads, Recheck(t) PROVE TypeInv'
  <2>1. Fresh(req[t].key, req[t].now) => cache[req[t].key].body \in Bodies
                                         /\ cache[req[t].key].body.at \in Nat
    BY DEF Fresh, Bodies
  <2>2. TypeOK'
    BY <1>7, <2>1 DEF Recheck, Shown, Greater
  <2>3. SlotsCounted'
    <3>1. pc' = [pc EXCEPT ![t] = "release"] \/ pc' = [pc EXCEPT ![t] = "slot"]
      BY <1>7 DEF Recheck
    <3> QED BY <1>7, <3>1, StaysCounted DEF Recheck
  <2> QED BY <2>2, <2>3
<1>8. ASSUME NEW t \in Threads, AcquireSlot(t) PROVE TypeInv'
  <2>1. TypeOK'
    <3>1. [at |-> clock, since |-> req[t].load] \in Bodies
      BY <1>b DEF Bodies
    <3>2. req' \in [Threads -> [since : Nat \cup {Full}, load : Keys, key : Keys, now : Nat,
                         lock : LockNumbers, body : Bodies, seen : Nat]]
      BY <1>8, <3>1 DEF AcquireSlot
    <3> QED BY <1>8, <1>a, <3>2 DEF AcquireSlot
  <2>2. SlotsCounted'
    <3>1. pc' = [pc EXCEPT ![t] = "build"] /\ pc[t] = "slot"
      BY <1>8 DEF AcquireSlot
    <3>2. Cardinality(Builders)' = Cardinality(Builders) + 1
      BY <3>1, BuildersMove
    <3> QED BY <1>8, <3>2 DEF AcquireSlot
  <2> QED BY <2>1, <2>2
<1>9. ASSUME NEW t \in Threads, BuildSucceeds(t) PROVE TypeInv'
  <2>1. slots >= 1 /\ SlotsCounted'
    <3>1. pc' = [pc EXCEPT ![t] = "store"] /\ pc[t] = "build"
      BY <1>9 DEF BuildSucceeds
    <3>2. Cardinality(Builders)' = Cardinality(Builders) - 1 /\ Cardinality(Builders) >= 1
      BY <3>1, "idle" # "build", "store" # "build", BuildersMove
    <3> QED BY <1>9, <3>2 DEF BuildSucceeds
  <2>2. TypeOK'
    BY <1>9, <1>a, <2>1 DEF BuildSucceeds
  <2> QED BY <2>1, <2>2
<1>10. ASSUME NEW t \in Threads, BuildFails(t) PROVE TypeInv'
  <2>1. slots >= 1 /\ SlotsCounted'
    <3>1. pc' = [pc EXCEPT ![t] = "idle"] /\ pc[t] = "build"
      BY <1>10 DEF BuildFails, Leave
    <3>2. Cardinality(Builders)' = Cardinality(Builders) - 1 /\ Cardinality(Builders) >= 1
      BY <3>1, "idle" # "build", BuildersMove
    <3> QED BY <1>10, <3>2 DEF BuildFails
  <2>2. TypeOK'
    BY <1>10, <1>a, <2>1, NoRequestTyped DEF BuildFails, Leave
  <2> QED BY <2>1, <2>2
<1>11. ASSUME NEW t \in Threads, StoreBody(t) PROVE TypeInv'
  <2>1. PICK kept \in Trimmed(Stored(t), req[t].now) :
           /\ cache' = [k \in kept |-> Stored(t)[k]]
           /\ locks' = [k \in Keys |-> IF k \in IdleLocks(kept) THEN 0 ELSE locks[k]]
           /\ split' = split \cup {k \in IdleLocks(kept) : Waiting(k) # {}}
    BY <1>11 DEF StoreBody
  <2>2. req[t].key \in Keys /\ req[t].body \in Bodies /\ req[t].body.at \in Nat
    BY DEF Bodies
  <2>3. TtlSeconds(req[t].key) \in Nat
    BY <1>a DEF TtlSeconds
  <2>4. DOMAIN Stored(t) \subseteq Keys
        /\ \A k \in DOMAIN Stored(t) : Stored(t)[k] \in [expires : Nat, body : Bodies]
    BY <1>b, <2>2, <2>3 DEF Stored
  <2>5. kept \subseteq DOMAIN Stored(t)
    BY DEF Trimmed
  <2>6. 0 \in LockNumbers
    BY <1>a DEF LockNumbers
  <2>7. IdleLocks(kept) \subseteq Keys
    BY DEF IdleLocks
  <2>8. DOMAIN cache' \subseteq Keys /\ \A k \in DOMAIN cache' : cache'[k] \in [expires : Nat, body : Bodies]
    BY <2>1, <2>4, <2>5
  <2>9. locks' \in [Keys -> LockNumbers] /\ split' \subseteq Keys
    BY <2>1, <2>6, <2>7
  <2>10. TypeOK'
    BY <1>11, <2>2, <2>8, <2>9 DEF StoreBody, Shown, Greater
  <2>11. SlotsCounted'
    BY <1>11, StaysCounted DEF StoreBody
  <2> QED BY <2>10, <2>11
<1>12. ASSUME NEW t \in Threads, ReleaseBuildLock(t) PROVE TypeInv'
  <2>1. TypeOK'
    BY <1>12, NoRequestTyped DEF ReleaseBuildLock, Leave
  <2>2. SlotsCounted'
    <3>1. pc' = [pc EXCEPT ![t] = "idle"]
      BY <1>12 DEF ReleaseBuildLock, Leave
    <3> QED BY <1>12, <3>1, StaysCounted DEF ReleaseBuildLock
  <2> QED BY <2>1, <2>2
<1>13. CASE UNCHANGED vars
  BY <1>13 DEF vars, Builders
<1> QED BY <1>1, <1>2, <1>3, <1>4, <1>5, <1>6, <1>7, <1>8, <1>9, <1>10, <1>11, <1>12, <1>13
        DEF Next, Step

LEMMA CacheInvariant == Spec => []TypeInv
<1>1. Init => TypeInv
  BY TypeInit
<1>2. TypeInv /\ [Next]_vars => TypeInv'
  BY TypeNext
<1> QED BY <1>1, <1>2, PTL DEF Spec

\* Types hold; in particular no more than MaxBuilds threads build at a time, because
\* the slots taken are those of the threads that build (get_cached_prices_body).
THEOREM CacheTypes == Spec => [](TypeOK /\ Cardinality(Builders) <= MaxBuilds)
<1>1. TypeInv => TypeOK /\ Cardinality(Builders) <= MaxBuilds
  BY CacheAssumption DEF TypeInv, TypeOK, SlotsCounted
<1> QED BY <1>1, CacheInvariant, PTL

-----------------------------------------------------------------------------
(* Build locks exclude: whoever is inside has locked its lock, alone, and as long
   as the key's lock was not pruned under a waiting thread all threads of the key
   have the lock that the dictionary has. *)

HeldInside == \A t \in Threads : pc[t] \in HoldingPlaces => LockOf(t) \in held
AloneInside ==
  \A t, u \in Threads :
    (pc[t] \in HoldingPlaces /\ pc[u] \in HoldingPlaces /\ t # u) => LockOf(t) # LockOf(u)
SameLock ==
  \A t \in Threads :
    (pc[t] \in HoldingPlaces \cup {"acquire"} /\ req[t].key \notin split)
      => locks[req[t].key] # 0 /\ req[t].lock = locks[req[t].key]

Exclusion == HeldInside /\ AloneInside /\ SameLock

LEMMA ExclusionNext == TypeInv /\ Exclusion /\ [Next]_vars => Exclusion'
<1> SUFFICES ASSUME TypeInv, Exclusion, [Next]_vars PROVE Exclusion'
  OBVIOUS
<1>a. /\ DOMAIN pc = Threads /\ DOMAIN req = Threads /\ DOMAIN locks = Keys
      /\ \A t \in Threads : req[t].key \in Keys
      /\ req \in [Threads -> [since : Nat \cup {Full}, load : Keys, key : Keys, now : Nat,
                              lock : LockNumbers, body : Bodies, seen : Nat]]
      /\ pc \in [Threads -> {"idle", "enter", "read", "lookup", "acquire"} \cup HoldingPlaces]
      /\ locks \in [Keys -> LockNumbers]
  BY DEF TypeInv, TypeOK
<1> USE DEF Exclusion, HeldInside, AloneInside, SameLock, LockOf, HoldingPlaces
<1>1. CASE Tick
  BY <1>1 DEF Tick
<1>2. ASSUME NEW t \in Threads, Arrive(t) PROVE Exclusion'
  BY <1>a, <1>2 DEF Arrive
<1>3. ASSUME NEW t \in Threads, Enter(t) PROVE Exclusion'
  BY <1>a, <1>3 DEF Enter
<1>4. ASSUME NEW t \in Threads, ReadCache(t) PROVE Exclusion'
  BY <1>a, <1>4 DEF ReadCache, Leave
<1>5. ASSUME NEW t \in Threads, LookUpLock(t) PROVE Exclusion'
  <2> DEFINE key == req[t].key
  <2>1. BuildLockFor(key) # 0
    BY NewLockInRange DEF BuildLockFor
  <2>2. pc' = [pc EXCEPT ![t] = "acquire"] /\ pc[t] = "lookup" /\ held' = held /\ split' = split
        /\ req' = [req EXCEPT ![t].lock = BuildLockFor(key)]
        /\ locks' = [locks EXCEPT ![key] = BuildLockFor(key)]
    BY <1>5 DEF LookUpLock
  <2>3. \A u \in Threads : req'[u].key = req[u].key /\ (u # t => req'[u] = req[u] /\ pc'[u] = pc[u])
    BY <1>a, <2>2
  <2>4. HeldInside' /\ AloneInside'
    BY <1>a, <2>2, <2>3
  <2>5. locks'[key] # 0 /\ req'[t].lock = locks'[key]
    BY <1>a, <2>1, <2>2
  <2>6. \A u \in Threads : locks[req[u].key] # 0 => locks'[req[u].key] = locks[req[u].key]
    BY <1>a, <2>2 DEF BuildLockFor
  <2>7. SameLock'
    BY <2>2, <2>3, <2>5, <2>6
  <2> QED BY <2>4, <2>7
<1>6. ASSUME NEW t \in Threads, AcquireBuildLock(t) PROVE Exclusion'
  BY <1>a, <1>6 DEF AcquireBuildLock
<1>7. ASSUME NEW t \in Threads, Recheck(t) PROVE Exclusion'
  <2>1. \A u \in Threads : req'[u].key = req[u].key /\ req'[u].lock = req[u].lock
    BY <1>a, <1>7 DEF Recheck
  <2>2. \A u \in Threads : pc'[u] \in HoldingPlaces <=> pc[u] \in HoldingPlaces
    BY <1>a, <1>7 DEF Recheck
  <2>3. \A u \in Threads : pc'[u] = "acquire" => pc[u] = "acquire"
    BY <1>a, <1>7 DEF Recheck
  <2> QED BY <1>7, <2>1, <2>2, <2>3 DEF Recheck
<1>8. ASSUME NEW t \in Threads, AcquireSlot(t) PROVE Exclusion'
  <2>1. \A u \in Threads : req'[u].key = req[u].key /\ req'[u].lock = req[u].lock
    BY <1>a, <1>8 DEF AcquireSlot
  <2> QED BY <1>a, <1>8, <2>1 DEF AcquireSlot
<1>9. ASSUME NEW t \in Threads, BuildSucceeds(t) PROVE Exclusion'
  BY <1>a, <1>9 DEF BuildSucceeds
<1>10. ASSUME NEW t \in Threads, BuildFails(t) PROVE Exclusion'
  <2>1. \A u \in Threads : u # t => req'[u] = req[u] /\ pc'[u] = pc[u]
    BY <1>a, <1>10 DEF BuildFails, Leave
  <2>2. pc'[t] = "idle" /\ pc[t] \in HoldingPlaces /\ held' = held \ {LockOf(t)}
        /\ locks' = locks /\ split' = split
    BY <1>a, <1>10 DEF BuildFails, Leave
  <2> QED BY <2>1, <2>2
<1>11. ASSUME NEW t \in Threads, StoreBody(t) PROVE Exclusion'
  <2>1. PICK kept \in Trimmed(Stored(t), req[t].now) :
           /\ locks' = [k \in Keys |-> IF k \in IdleLocks(kept) THEN 0 ELSE locks[k]]
           /\ split' = split \cup {k \in IdleLocks(kept) : Waiting(k) # {}}
    BY <1>11 DEF StoreBody
  <2>2. pc' = [pc EXCEPT ![t] = "release"] /\ pc[t] = "store" /\ held' = held /\ req' = req
    BY <1>11 DEF StoreBody
  <2>3. HeldInside' /\ AloneInside'
    BY <1>a, <2>2
  <2>4. ASSUME NEW u \in Threads, pc'[u] \in HoldingPlaces \cup {"acquire"}, req[u].key \notin split'
        PROVE  req[u].key \notin IdleLocks(kept)
    <3>1. pc[u] \in HoldingPlaces \cup {"acquire"} /\ (pc[u] = "acquire" <=> pc'[u] = "acquire")
      BY <1>a, <2>2, <2>4
    <3>2. CASE pc[u] = "acquire"
      BY <2>1, <2>4, <3>2 DEF Waiting
    <3>3. CASE pc[u] \in HoldingPlaces
      <4>1. req[u].key \notin split
        BY <2>1, <2>4
      <4>2. <<req[u].key, locks[req[u].key]>> \in held
        BY <3>3, <4>1
      <4> QED BY <4>2 DEF IdleLocks
    <3> QED BY <3>1, <3>2, <3>3
  <2>5. SameLock'
    BY <1>a, <2>1, <2>2, <2>4
  <2> QED BY <2>3, <2>5
<1>12. ASSUME NEW t \in Threads, ReleaseBuildLock(t) PROVE Exclusion'
  <2>1. \A u \in Threads : u # t => req'[u] = req[u] /\ pc'[u] = pc[u]
    BY <1>a, <1>12 DEF ReleaseBuildLock, Leave
  <2>2. pc'[t] = "idle" /\ pc[t] \in HoldingPlaces /\ held' = held \ {LockOf(t)}
        /\ locks' = locks /\ split' = split
    BY <1>a, <1>12 DEF ReleaseBuildLock, Leave
  <2> QED BY <2>1, <2>2
<1>13. CASE UNCHANGED vars
  BY <1>13 DEF vars
<1> QED BY <1>1, <1>2, <1>3, <1>4, <1>5, <1>6, <1>7, <1>8, <1>9, <1>10, <1>11, <1>12, <1>13
        DEF Next, Step

LEMMA AtMostOne ==
  ASSUME NEW S \in SUBSET Threads, \A t, u \in S : t = u
  PROVE  Cardinality(S) <= 1
<1>1. CASE S = {}
  BY <1>1, FS_EmptySet
<1>2. CASE S # {}
  <2>1. PICK t \in S : S = {t}
    BY <1>2
  <2> QED BY <2>1, FS_Singleton
<1> QED BY <1>1, <1>2

LEMMA ExclusionGivesOneBuild == Exclusion => OneBuildPerKey
<1> SUFFICES ASSUME Exclusion, NEW k \in Keys, k \notin split PROVE Cardinality(Inside(k)) <= 1
  BY DEF OneBuildPerKey
<1>1. \A t, u \in Inside(k) : t = u
  BY DEF Exclusion, AloneInside, SameLock, Inside, LockOf
<1>2. Inside(k) \in SUBSET Threads
  BY DEF Inside
<1> QED BY <1>1, <1>2, AtMostOne

\* One build per key at a time, for every number of threads and keys, unless the
\* key's lock was pruned between a look-up and an acquisition.
THEOREM OneBuildSafe == Spec => []OneBuildPerKey
<1>1. Init => Exclusion
  BY DEF Init, Exclusion, HeldInside, AloneInside, SameLock, HoldingPlaces
<1>2. TypeInv /\ Exclusion /\ [Next]_vars => Exclusion'
  BY ExclusionNext
<1>3. Exclusion => OneBuildPerKey
  BY ExclusionGivesOneBuild
<1> QED BY <1>1, <1>2, <1>3, CacheInvariant, PTL DEF Spec

-----------------------------------------------------------------------------
(* What is shown never goes back: the cached body is the newest one shown, and a
   body under way is at least as new, because only one thread of the key is inside. *)

NothingFromTheFuture ==
  /\ \A k \in Keys : newest[k] <= clock
  /\ \A k \in DOMAIN cache : cache[k].body.at <= clock
  /\ \A t \in Threads : req[t].body.at <= clock
CachedNewest == \A k \in DOMAIN cache : k \notin split => cache[k].body.at = newest[k]
BuiltNewer ==
  \A t \in Threads :
    (pc[t] \in {"build", "store"} /\ req[t].key \notin split) => req[t].body.at >= newest[req[t].key]
SeenBefore == \A t \in Threads : pc[t] \notin {"idle", "enter"} => req[t].seen <= newest[req[t].key]
AnswerNewer ==
  \A t \in Threads :
    (pc[t] = "release" /\ req[t].key \notin split) => req[t].body.at >= req[t].seen

Forward == NothingFromTheFuture /\ CachedNewest /\ BuiltNewer /\ SeenBefore /\ AnswerNewer

LEMMA ForwardNext == TypeInv /\ Exclusion /\ Forward /\ [Next]_vars => Forward'
<1> SUFFICES ASSUME TypeInv, Exclusion, Forward, [Next]_vars PROVE Forward'
  OBVIOUS
<1>a. /\ req \in [Threads -> [since : Nat \cup {Full}, load : Keys, key : Keys, now : Nat,
                              lock : LockNumbers, body : Bodies, seen : Nat]]
      /\ pc \in [Threads -> {"idle", "enter", "read", "lookup", "acquire"} \cup HoldingPlaces]
      /\ newest \in [Keys -> Nat] /\ clock \in Nat /\ DOMAIN cache \subseteq Keys
      /\ \A k \in DOMAIN cache : cache[k].body.at \in Nat
      /\ \A t \in Threads : req[t].key \in Keys /\ req[t].body.at \in Nat /\ req[t].seen \in Nat
  <2>1. MaxSinceAge \in Nat
    BY CacheAssumption
  <2> QED BY <2>1 DEF TypeInv, TypeOK, Bodies
<1> USE DEF Forward, NothingFromTheFuture, CachedNewest, BuiltNewer, SeenBefore, AnswerNewer
<1>1. CASE Tick
  BY <1>1, <1>a DEF Tick
<1>2. ASSUME NEW t \in Threads, Arrive(t) PROVE Forward'
  <2>1. \A u \in Threads : u # t => req'[u] = req[u] /\ pc'[u] = pc[u]
    BY <1>2, <1>a DEF Arrive
  <2>2. pc'[t] = "enter" /\ req'[t].body.at = 0
    BY <1>2, <1>a DEF Arrive, NoRequest, NoBody
  <2> QED BY <1>2, <1>a, <2>1, <2>2 DEF Arrive
<1>3. ASSUME NEW t \in Threads, Enter(t) PROVE Forward'
  <2>1. \A u \in Threads : u # t => req'[u] = req[u] /\ pc'[u] = pc[u]
    BY <1>3, <1>a DEF Enter
  <2>2. pc'[t] = "read" /\ req'[t].seen = newest[req'[t].key] /\ req'[t].body = req[t].body
    BY <1>3, <1>a DEF Enter
  <2>3. req'[t].key \in Keys
    BY <1>3, TypeNext DEF Next, Step, TypeInv, TypeOK
  <2>4. newest' = newest /\ clock' = clock /\ cache' = cache /\ split' = split
    BY <1>3 DEF Enter
  <2>5. SeenBefore'
    BY <1>a, <2>1, <2>2, <2>3, <2>4
  <2>6. BuiltNewer' /\ AnswerNewer'
    BY <2>1, <2>2, <2>4
  <2>7. NothingFromTheFuture'
    BY <1>a, <2>1, <2>2, <2>4
  <2>8. CachedNewest'
    BY <2>4
  <2> QED BY <2>5, <2>6, <2>7, <2>8
<1>4. ASSUME NEW t \in Threads, ReadCache(t) PROVE Forward'
  <2>1. CASE Fresh(req[t].key, req[t].now)
    <3> DEFINE k == req[t].key
    <3>1. pc' = [pc EXCEPT ![t] = "idle"] /\ req' = [req EXCEPT ![t] = NoRequest]
          /\ newest' = [newest EXCEPT ![k] = Greater(newest[k], cache[k].body.at)]
          /\ UNCHANGED <<clock, cache, split>>
      BY <1>4, <2>1 DEF ReadCache, Leave, Shown
    <3>2. k \in DOMAIN cache /\ k \in Keys
      BY <1>a, <2>1 DEF Fresh
    <3>3. \A j \in Keys : newest'[j] >= newest[j] /\ newest'[j] \in Nat /\ (j \notin split => newest'[j] = newest[j])
      BY <1>a, <3>1, <3>2 DEF Greater
    <3>4. \A u \in Threads : u # t => req'[u] = req[u] /\ pc'[u] = pc[u]
      BY <1>a, <3>1
    <3>5. pc'[t] = "idle"
      BY <1>a, <3>1
    <3>6. req'[t].body.at = 0
      BY <1>a, <3>1 DEF NoRequest, NoBody
    <3>7. NothingFromTheFuture'
      BY <1>a, <3>1, <3>2, <3>4, <3>6 DEF Greater
    <3>8. CachedNewest'
      BY <1>a, <3>1, <3>3
    <3>9. BuiltNewer' /\ AnswerNewer' /\ SeenBefore'
      BY <1>a, <3>1, <3>3, <3>4, <3>5
    <3> QED BY <3>7, <3>8, <3>9
  <2>2. CASE ~Fresh(req[t].key, req[t].now)
    BY <1>4, <1>a, <2>2 DEF ReadCache
  <2> QED BY <2>1, <2>2
<1>5. ASSUME NEW t \in Threads, LookUpLock(t) PROVE Forward'
  <2>1. \A u \in Threads : /\ req'[u].key = req[u].key /\ req'[u].body = req[u].body
                           /\ req'[u].seen = req[u].seen
    BY <1>5, <1>a DEF LookUpLock
  <2> QED BY <1>5, <1>a, <2>1 DEF LookUpLock
<1>6. ASSUME NEW t \in Threads, AcquireBuildLock(t) PROVE Forward'
  BY <1>6, <1>a DEF AcquireBuildLock
<1>7. ASSUME NEW t \in Threads, Recheck(t) PROVE Forward'
  <2>1. CASE Fresh(req[t].key, req[t].now)
    <3> DEFINE k == req[t].key
    <3>1. pc' = [pc EXCEPT ![t] = "release"] /\ req' = [req EXCEPT ![t].body = cache[k].body]
          /\ newest' = [newest EXCEPT ![k] = Greater(newest[k], cache[k].body.at)]
          /\ UNCHANGED <<clock, cache, split>> /\ pc[t] = "recheck"
      BY <1>7, <2>1 DEF Recheck, Shown
    <3>2. k \in DOMAIN cache /\ k \in Keys
      BY <1>a, <2>1 DEF Fresh
    <3>3. \A j \in Keys : newest'[j] >= newest[j] /\ newest'[j] \in Nat /\ (j \notin split => newest'[j] = newest[j])
      BY <1>a, <3>1, <3>2 DEF Greater
    <3>4. \A u \in Threads : u # t => req'[u] = req[u] /\ pc'[u] = pc[u]
      BY <1>a, <3>1
    <3>5. pc'[t] = "release" /\ req'[t].key = k /\ req'[t].seen = req[t].seen
          /\ req'[t].body = cache[k].body
      BY <1>a, <3>1
    <3>6. NothingFromTheFuture'
      BY <1>a, <3>1, <3>2, <3>4, <3>5 DEF Greater
    <3>7. CachedNewest'
      BY <1>a, <3>1, <3>3
    <3>8. BuiltNewer' /\ SeenBefore'
      BY <1>a, <3>1, <3>3, <3>4, <3>5
    <3>9. AnswerNewer'
      BY <1>a, <3>1, <3>2, <3>4, <3>5
    <3> QED BY <3>6, <3>7, <3>8, <3>9
  <2>2. CASE ~Fresh(req[t].key, req[t].now)
    BY <1>7, <1>a, <2>2 DEF Recheck
  <2> QED BY <2>1, <2>2
<1>8. ASSUME NEW t \in Threads, AcquireSlot(t) PROVE Forward'
  <2>1. \A u \in Threads : u # t => req'[u] = req[u] /\ pc'[u] = pc[u]
    BY <1>8, <1>a DEF AcquireSlot
  <2>2. pc'[t] = "build" /\ pc[t] = "slot" /\ req'[t].key = req[t].key /\ req'[t].seen = req[t].seen
        /\ req'[t].body.at = clock
    BY <1>8, <1>a DEF AcquireSlot
  <2>3. UNCHANGED <<clock, cache, split, newest>>
    BY <1>8 DEF AcquireSlot
  <2> QED BY <1>a, <2>1, <2>2, <2>3
<1>9. ASSUME NEW t \in Threads, BuildSucceeds(t) PROVE Forward'
  BY <1>9, <1>a DEF BuildSucceeds
<1>10. ASSUME NEW t \in Threads, BuildFails(t) \/ ReleaseBuildLock(t) PROVE Forward'
  <2>1. \A u \in Threads : u # t => req'[u] = req[u] /\ pc'[u] = pc[u]
    BY <1>10, <1>a DEF BuildFails, ReleaseBuildLock, Leave
  <2>2. pc'[t] = "idle" /\ req'[t].body.at = 0
    BY <1>10, <1>a DEF BuildFails, ReleaseBuildLock, Leave, NoRequest, NoBody
  <2>3. UNCHANGED <<clock, cache, split, newest>>
    BY <1>10 DEF BuildFails, ReleaseBuildLock
  <2> QED BY <1>a, <2>1, <2>2, <2>3
<1>11. ASSUME NEW t \in Threads, StoreBody(t) PROVE Forward'
  <2> DEFINE key == req[t].key
  <2>1. PICK kept \in Trimmed(Stored(t), req[t].now) :
           /\ cache' = [k \in kept |-> Stored(t)[k]]
           /\ split' = split \cup {k \in IdleLocks(kept) : Waiting(k) # {}}
    BY <1>11 DEF StoreBody
  <2>2. pc' = [pc EXCEPT ![t] = "release"] /\ pc[t] = "store" /\ UNCHANGED <<clock, req>>
        /\ newest' = [newest EXCEPT ![key] = Greater(newest[key], req[t].body.at)]
    BY <1>11 DEF StoreBody, Shown
  <2>3. \A j \in Keys : newest'[j] \in Nat /\ newest'[j] >= newest[j] /\ (j # key => newest'[j] = newest[j])
    BY <1>a, <2>2 DEF Greater
  <2>4. newest'[key] = Greater(newest[key], req[t].body.at)
        /\ (key \notin split => newest'[key] = req[t].body.at)
    BY <1>a, <2>2 DEF Greater
  <2>5. \A k \in DOMAIN cache' : IF k = key THEN cache'[k].body = req[t].body
                                 ELSE k \in DOMAIN cache /\ cache'[k] = cache[k]
    BY <2>1 DEF Trimmed, Stored
  <2>6. split \subseteq split'
    BY <2>1
  <2>7. NothingFromTheFuture'
    BY <1>a, <2>2, <2>3, <2>4, <2>5 DEF Greater
  <2>8. CachedNewest'
    BY <1>a, <2>3, <2>4, <2>5, <2>6
  <2>9. \A u \in Threads : (u # t /\ pc[u] \in HoldingPlaces /\ req[u].key \notin split) => req[u].key # key
    BY <2>2 DEF Exclusion, AloneInside, SameLock, LockOf, HoldingPlaces
  <2>10. BuiltNewer'
    BY <1>a, <2>2, <2>3, <2>6, <2>9 DEF HoldingPlaces
  <2>11. SeenBefore'
    BY <1>a, <2>2, <2>3
  <2>12. AnswerNewer'
    BY <1>a, <2>2, <2>6
  <2> QED BY <2>7, <2>8, <2>10, <2>11, <2>12
<1>12. CASE UNCHANGED vars
  BY <1>12 DEF vars
<1> QED BY <1>1, <1>2, <1>3, <1>4, <1>5, <1>6, <1>7, <1>8, <1>9, <1>10, <1>11, <1>12
        DEF Next, Step

\* Whatever threads do, an answer shows nothing older than what an earlier answer
\* for the key had shown before the request arrived.
THEOREM ReadsSafe == Spec => ReadsNeverGoBack
<1>1. Init => Exclusion /\ Forward
  <2> SUFFICES ASSUME Init PROVE Exclusion /\ Forward
    OBVIOUS
  <2>1. MaxSinceAge \in Nat
    BY CacheAssumption
  <2> QED BY <2>1 DEF Init, Exclusion, HeldInside, AloneInside, SameLock, HoldingPlaces, Forward,
               NothingFromTheFuture, CachedNewest, BuiltNewer, SeenBefore, AnswerNewer,
               NoRequest, NoBody
<1>2. TypeInv /\ Exclusion /\ Forward /\ [Next]_vars => Exclusion' /\ Forward'
  BY ExclusionNext, ForwardNext
<1>3. TypeInv /\ Forward /\ [Next]_vars =>
        [\A t \in Threads : LET k == req[t].key IN
           /\ (ReadCache(t) /\ pc'[t] = "idle" /\ k \notin split) => cache[k].body.at >= req[t].seen
           /\ (ReleaseBuildLock(t) /\ k \notin split) => req[t].body.at >= req[t].seen]_vars
  <2> SUFFICES ASSUME TypeInv, Forward, NEW t \in Threads, req[t].key \notin split
               PROVE  /\ (ReadCache(t) /\ pc'[t] = "idle") => cache[req[t].key].body.at >= req[t].seen
                      /\ ReleaseBuildLock(t) => req[t].body.at >= req[t].seen
    OBVIOUS
  <2>1. ASSUME ReadCache(t), pc'[t] = "idle" PROVE cache[req[t].key].body.at >= req[t].seen
    <3>1. Fresh(req[t].key, req[t].now)
      BY <2>1 DEF ReadCache, TypeInv, TypeOK
    <3> QED BY <2>1, <3>1 DEF Fresh, ReadCache, Forward, CachedNewest, SeenBefore
  <2>2. ReleaseBuildLock(t) => req[t].body.at >= req[t].seen
    BY DEF ReleaseBuildLock, Forward, AnswerNewer
  <2> QED BY <2>1, <2>2
<1> QED BY <1>1, <1>2, <1>3, CacheInvariant, PTL DEF Spec, ReadsNeverGoBack

-----------------------------------------------------------------------------
(* A body holds what its key asks for: the cutoff it was loaded with is computed
   before the key, and cutoffs only move forward. *)

LEMMA BucketsMove ==
  ASSUME NEW x \in Nat, NEW y \in Nat, x <= y, NEW b \in Nat \ {0}
  PROVE  x \div b <= y \div b
<1> DEFINE i == x \div b
           j == y \div b
<1>1. i \in Int /\ j \in Int /\ b * i <= x /\ y < b * j + b
  <2>1. x \div b \in Int /\ x % b \in 0 .. (b - 1) /\ x = b * (x \div b) + (x % b)
    BY SMT
  <2>2. y \div b \in Int /\ y % b \in 0 .. (b - 1) /\ y = b * (y \div b) + (y % b)
    BY SMT
  <2> QED BY <2>1, <2>2
<1> HIDE DEF i, j
<1>2. ASSUME i >= j + 1 PROVE FALSE
  <2>1. b * i >= b * (j + 1)
    BY <1>1, <1>2, SMT
  <2>2. b * (j + 1) = b * j + b
    BY <1>1, SMT
  <2> QED BY <1>1, <2>1, <2>2
<1>3. i <= j
  BY <1>1, <1>2
<1> QED BY <1>3 DEF i, j

\* load_since and the cutoff of a key computed at that moment or later.
Covers(load, key) == IF key = Full THEN load = Full ELSE load \in Nat /\ load <= key

LEMMA CutoffsMove ==
  ASSUME NEW s \in Nat \cup {Full}, NEW load, NEW now \in MaxSinceAge .. MaxClock,
         NEW later \in MaxSinceAge .. MaxClock, now <= later, Covers(load, PricesCacheKey(s, now))
  PROVE  Covers(load, PricesCacheKey(s, later))
<1>1. CASE s = Full
  BY <1>1 DEF PricesCacheKey
<1>2. CASE s # Full
  <2>1. /\ s \in Nat /\ now \in Nat /\ later \in Nat /\ MaxSinceAge \in Nat /\ Full \notin Int
        /\ Bucket \in Nat \ {0} /\ MaxSinceAge <= now
    BY <1>2, CacheAssumption
  <2> DEFINE x == Lesser(Greater(s, now - MaxSinceAge), now)
             y == Lesser(Greater(s, later - MaxSinceAge), later)
  <2>2. x \in Nat /\ y \in Nat /\ x <= y
    BY <2>1 DEF Lesser, Greater
  <2>3. PricesCacheKey(s, now) = x \div Bucket /\ PricesCacheKey(s, later) = y \div Bucket
    BY <1>2 DEF PricesCacheKey, BucketedSince
  <2> HIDE DEF x, y
  <2>4. x \div Bucket <= y \div Bucket
    BY <2>1, <2>2, BucketsMove
  <2>5. x \div Bucket \in Nat /\ y \div Bucket \in Nat
    <3>1. x \div Bucket \in 0 .. x /\ y \div Bucket \in 0 .. y
      BY <2>1, <2>2, BucketInRange
    <3> QED BY <2>2, <3>1
  <2> QED BY <2>1, <2>3, <2>4, <2>5 DEF Covers
<1> QED BY <1>1, <1>2

LoadBeforeKey ==
  \A t \in Threads :
    /\ pc[t] = "enter" => Covers(req[t].load, PricesCacheKey(req[t].since, clock))
    /\ pc[t] \notin {"idle", "enter"} => Covers(req[t].load, req[t].key)
    /\ pc[t] \in {"build", "store"} => req[t].body.since = req[t].load
CachedCovers == \A k \in DOMAIN cache : Covers(cache[k].body.since, k)

LEMMA CoversNext ==
  TypeInv /\ LoadBeforeKey /\ CachedCovers /\ [Next]_vars => LoadBeforeKey' /\ CachedCovers'
<1> SUFFICES ASSUME TypeInv, LoadBeforeKey, CachedCovers, [Next]_vars
             PROVE  LoadBeforeKey' /\ CachedCovers'
  OBVIOUS
<1>a. /\ req \in [Threads -> [since : Nat \cup {Full}, load : Keys, key : Keys, now : Nat,
                              lock : LockNumbers, body : Bodies, seen : Nat]]
      /\ pc \in [Threads -> {"idle", "enter", "read", "lookup", "acquire"} \cup HoldingPlaces]
      /\ clock \in MaxSinceAge .. MaxClock /\ clock \in Nat
  <2>1. MaxSinceAge \in Nat
    BY CacheAssumption
  <2> QED BY <2>1 DEF TypeInv, TypeOK
\* Threads other than the one that moves.
<1>b. ASSUME NEW t \in Threads, clock' = clock, pc' = [pc EXCEPT ![t] = pc'[t]],
             req' = [req EXCEPT ![t] = req'[t]],
             /\ pc'[t] = "enter" => Covers(req'[t].load, PricesCacheKey(req'[t].since, clock))
             /\ pc'[t] \notin {"idle", "enter"} => Covers(req'[t].load, req'[t].key)
             /\ pc'[t] \in {"build", "store"} => req'[t].body.since = req'[t].load
      PROVE  LoadBeforeKey'
  <2>1. \A u \in Threads : u # t => req'[u] = req[u] /\ pc'[u] = pc[u]
    BY <1>a, <1>b
  <2> QED BY <1>b, <2>1 DEF LoadBeforeKey
<1>1. CASE Tick
  <2>1. clock' \in MaxSinceAge .. MaxClock /\ clock <= clock'
    <3>1. MaxClock \in Nat /\ MaxSinceAge \in Nat
      BY CacheAssumption
    <3> QED BY <1>1, <1>a, <3>1 DEF Tick
  <2>2. ASSUME NEW t \in Threads, pc[t] = "enter"
        PROVE  Covers(req[t].load, PricesCacheKey(req[t].since, clock'))
    BY <1>a, <2>1, <2>2, CutoffsMove DEF LoadBeforeKey
  <2> QED BY <1>1, <2>2 DEF Tick, LoadBeforeKey, CachedCovers
<1>2. ASSUME NEW t \in Threads, Arrive(t) PROVE LoadBeforeKey' /\ CachedCovers'
  <2>1. PICK s \in Requests : req' = [req EXCEPT ![t] = [NoRequest EXCEPT !.since = s,
                                                           !.load = PricesCacheKey(s, clock)]]
    BY <1>2 DEF Arrive
  <2>2. pc'[t] = "enter" /\ req'[t].since = s /\ req'[t].load = PricesCacheKey(s, clock)
    BY <1>2, <1>a, <2>1 DEF Arrive, NoRequest
  <2>3. s \in Nat \cup {Full} /\ Full \notin Int
    BY CacheAssumption
  <2>4. PricesCacheKey(s, clock) \in Keys
    BY <1>a, <2>3, KeysOfRequests
  <2>5. Covers(PricesCacheKey(s, clock), PricesCacheKey(s, clock))
    <3> DEFINE key == PricesCacheKey(s, clock)
    <3>1. key = Full \/ key \in Nat
      BY <2>4, CacheAssumption DEF Keys
    <3> HIDE DEF key
    <3>2. key \in Nat => key <= key
      OBVIOUS
    <3>3. Covers(key, key)
      BY <3>1, <3>2 DEF Covers
    <3> QED BY <3>3 DEF key
  <2>6. LoadBeforeKey'
    BY <1>2, <1>a, <1>b, <2>1, <2>2, <2>5 DEF Arrive
  <2> QED BY <1>2, <2>6 DEF Arrive, CachedCovers
<1>3. ASSUME NEW t \in Threads, Enter(t) PROVE LoadBeforeKey' /\ CachedCovers'
  <2>1. pc[t] = "enter" /\ pc'[t] = "read" /\ req'[t].load = req[t].load /\ req'[t].key = EnterKey(t)
    BY <1>3, <1>a DEF Enter
  <2>2. Covers(req[t].load, EnterKey(t))
    BY <2>1 DEF LoadBeforeKey, EnterKey
  <2>3. LoadBeforeKey'
    BY <1>3, <1>a, <1>b, <2>1, <2>2 DEF Enter
  <2> QED BY <1>3, <2>3 DEF Enter, CachedCovers
<1>4. ASSUME NEW t \in Threads, ReadCache(t) \/ BuildFails(t) \/ ReleaseBuildLock(t)
      PROVE  LoadBeforeKey' /\ CachedCovers'
  <2>1. clock' = clock /\ cache' = cache
    BY <1>4 DEF ReadCache, BuildFails, ReleaseBuildLock
  <2>2. CASE Leave(t)
    <3>1. pc'[t] = "idle"
      BY <2>2, <1>a DEF Leave
    <3>2. LoadBeforeKey'
      BY <1>a, <1>b, <2>1, <2>2, <3>1 DEF Leave
    <3> QED BY <2>1, <3>2 DEF CachedCovers
  <2>3. CASE pc[t] = "read" /\ pc' = [pc EXCEPT ![t] = "lookup"] /\ req' = req
    BY <1>a, <2>1, <2>3 DEF LoadBeforeKey, CachedCovers
  <2> QED BY <1>4, <2>2, <2>3 DEF ReadCache, BuildFails, ReleaseBuildLock
<1>5. ASSUME NEW t \in Threads, LookUpLock(t) \/ AcquireBuildLock(t) \/ Recheck(t)
      PROVE  LoadBeforeKey' /\ CachedCovers'
  <2>1. /\ clock' = clock /\ cache' = cache /\ pc[t] \in {"lookup", "acquire", "recheck"}
        /\ pc'[t] \in {"acquire", "recheck", "slot", "release"}
        /\ pc' = [pc EXCEPT ![t] = pc'[t]] /\ req' = [req EXCEPT ![t] = req'[t]]
        /\ req'[t].load = req[t].load /\ req'[t].key = req[t].key
    BY <1>5, <1>a DEF LookUpLock, AcquireBuildLock, Recheck
  <2>2. LoadBeforeKey'
    BY <1>b, <2>1 DEF LoadBeforeKey
  <2> QED BY <2>1, <2>2 DEF CachedCovers
<1>6. ASSUME NEW t \in Threads, AcquireSlot(t) \/ BuildSucceeds(t)
      PROVE  LoadBeforeKey' /\ CachedCovers'
  <2>1. /\ clock' = clock /\ cache' = cache /\ pc[t] \in {"slot", "build"}
        /\ pc'[t] \in {"build", "store"}
        /\ pc' = [pc EXCEPT ![t] = pc'[t]] /\ req' = [req EXCEPT ![t] = req'[t]]
        /\ req'[t].load = req[t].load /\ req'[t].key = req[t].key
    BY <1>6, <1>a DEF AcquireSlot, BuildSucceeds
  <2>2. req'[t].body.since = req'[t].load
    BY <1>6, <1>a DEF AcquireSlot, BuildSucceeds, LoadBeforeKey
  <2>3. LoadBeforeKey'
    BY <1>b, <2>1, <2>2 DEF LoadBeforeKey
  <2> QED BY <2>1, <2>3 DEF CachedCovers
<1>7. ASSUME NEW t \in Threads, StoreBody(t) PROVE LoadBeforeKey' /\ CachedCovers'
  <2>1. PICK kept \in Trimmed(Stored(t), req[t].now) : cache' = [k \in kept |-> Stored(t)[k]]
    BY <1>7 DEF StoreBody
  <2>2. pc' = [pc EXCEPT ![t] = "release"] /\ pc[t] = "store" /\ UNCHANGED <<clock, req>>
    BY <1>7 DEF StoreBody
  <2>3. \A k \in DOMAIN cache' : IF k = req[t].key THEN cache'[k].body = req[t].body
                                 ELSE k \in DOMAIN cache /\ cache'[k] = cache[k]
    BY <2>1 DEF Trimmed, Stored
  <2>4. Covers(req[t].body.since, req[t].key)
    BY <2>2 DEF LoadBeforeKey
  <2>5. LoadBeforeKey'
    BY <1>a, <2>2 DEF LoadBeforeKey
  <2> QED BY <2>3, <2>4, <2>5 DEF CachedCovers
<1>8. CASE UNCHANGED vars
  BY <1>8 DEF vars, LoadBeforeKey, CachedCovers
<1> QED BY <1>1, <1>2, <1>3, <1>4, <1>5, <1>6, <1>7, <1>8 DEF Next, Step

\* A cached body holds at least the rows its key asks for, for every width of a bucket,
\* also when the bucket turns between the cutoff to load and the key.
THEOREM BodySafe == Spec => []BodyCoversItsKey
<1>1. Init => LoadBeforeKey /\ CachedCovers
  BY DEF Init, LoadBeforeKey, CachedCovers
<1>2. TypeInv /\ LoadBeforeKey /\ CachedCovers /\ [Next]_vars => LoadBeforeKey' /\ CachedCovers'
  BY CoversNext
<1>3. CachedCovers => BodyCoversItsKey
  BY DEF CachedCovers, Covers, BodyCoversItsKey
<1> QED BY <1>1, <1>2, <1>3, CacheInvariant, PTL DEF Spec
=============================================================================
