----------------------------- MODULE PriceCache -----------------------------
(***************************************************************************)
(* The cache of /api/prices: request threads of server/http_handler.py     *)
(* that call get_cached_prices_body of server/price_cache.py.  A body is   *)
(* built at most by MaxBuilds threads at a time, and under a build lock of *)
(* its key; the dictionary of build locks is itself pruned.                *)
(*                                                                         *)
(* Time is a clock that both time.time and time.monotonic read.  A body is *)
(* represented by the moment its data was read and the bucket its data was *)
(* cut off at.  Nothing waits inside "with _lock" or _build_locks_guard, so *)
(* each of these blocks is one step and neither lock is a variable.        *)
(***************************************************************************)
EXTENDS Integers, FiniteSets

CONSTANTS
  Threads,              \* handler threads; one serves one request at a time
  Full,                 \* the key, and the request, of the full history
  Requests,             \* sinceMs of the requests, or Full
  MaxSinceAge,          \* MAX_SINCE_AGE_MS
  Bucket,               \* BUCKET_MS
  TTLFull, TTLWindow,   \* TTL_SECONDS_FULL, TTL_SECONDS_WINDOW
  MaxBuilds,            \* _MAX_CONCURRENT_BUILDS
  MaxEntries,           \* _MAX_ENTRIES
  MaxClock, MaxRequests \* bounds of the model

ASSUME CacheAssumption ==
  /\ Full \notin Int
  /\ Threads \subseteq Nat /\ IsFiniteSet(Threads)
  /\ Requests \subseteq Nat \cup {Full}
  /\ {MaxSinceAge, MaxClock, MaxRequests} \subseteq Nat /\ MaxSinceAge <= MaxClock
  /\ {Bucket, TTLFull, TTLWindow, MaxBuilds, MaxEntries} \subseteq Nat \ {0}

VARIABLES
  clock,
  pc,        \* where each thread is
  req,       \* its request: sinceMs, load_since, key, now, build lock and body
  cache,     \* _cache: key -> expiry and body
  locks,     \* _build_locks: key -> the lock's number, 0 for no entry
  held,      \* the build locks that are locked, as <<key, number>>
  slots,     \* slots of _build_slots that are taken
  arrived,   \* requests begun so far
  split,     \* history: keys whose lock was pruned while a thread had it
  newest     \* history: for each key the newest data an answer has shown

vars == <<clock, pc, req, cache, locks, held, slots, arrived, split, newest>>

Keys == {Full} \cup (0 .. MaxClock)

Lesser(a, b) == IF a < b THEN a ELSE b
Greater(a, b) == IF a > b THEN a ELSE b

\* _bucketed_since_ms, in units of one bucket.
BucketedSince(since, now) ==
  Lesser(Greater(since, now - MaxSinceAge), now) \div Bucket

\* since_ms_for_load and prices_cache_key are the same number, or none and "full".
PricesCacheKey(since, now) == IF since = Full THEN Full ELSE BucketedSince(since, now)

TtlSeconds(key) == IF key = Full THEN TTLFull ELSE TTLWindow

\* The threads that have looked up the build lock of a key, and those that hold it.
Waiting(key) == {t \in Threads : pc[t] = "acquire" /\ req[t].key = key}
HoldingPlaces == {"recheck", "slot", "build", "store", "release"}
Inside(key) == {t \in Threads : pc[t] \in HoldingPlaces /\ req[t].key = key}
LockOf(t) == <<req[t].key, req[t].lock>>

Fresh(key, now) == key \in DOMAIN cache /\ now < cache[key].expires

-----------------------------------------------------------------------------
NoBody == [at |-> 0, since |-> 0]
NoRequest == [since |-> Full, load |-> Full, key |-> Full, now |-> 0,
              lock |-> 0, body |-> NoBody, seen |-> 0]

Init ==
  /\ clock = MaxSinceAge
  /\ pc = [t \in Threads |-> "idle"]
  /\ req = [t \in Threads |-> NoRequest]
  /\ cache = [k \in {} |-> [expires |-> 0, body |-> NoBody]]
  /\ locks = [k \in Keys |-> 0]
  /\ held = {}
  /\ slots = 0
  /\ arrived = 0
  /\ split = {}
  /\ newest = [k \in Keys |-> 0]

Tick ==
  /\ clock < MaxClock
  /\ clock' = clock + 1
  /\ UNCHANGED <<pc, req, cache, locks, held, slots, arrived, split, newest>>

\* do_GET computes load_since before it calls get_cached_prices_body.  Which of the
\* free threads serves a request makes no difference: it is the first one.
Arrive(t) ==
  /\ pc[t] = "idle" /\ arrived < MaxRequests
  /\ \A u \in Threads : pc[u] = "idle" => t <= u
  /\ arrived' = arrived + 1
  /\ \E s \in Requests :
       req' = [req EXCEPT ![t] = [NoRequest EXCEPT !.since = s,
                                                   !.load = PricesCacheKey(s, clock)]]
  /\ pc' = [pc EXCEPT ![t] = "enter"]
  /\ UNCHANGED <<clock, cache, locks, held, slots, split, newest>>

\* get_cached_prices_body begins: the key and the moment of arrival.
EnterKey(t) == PricesCacheKey(req[t].since, clock)

Enter(t) ==
  /\ pc[t] = "enter"
  /\ req' = [req EXCEPT ![t] = [@ EXCEPT !.key = EnterKey(t), !.now = clock,
                                         !.seen = newest[EnterKey(t)]]]
  /\ pc' = [pc EXCEPT ![t] = "read"]
  /\ UNCHANGED <<clock, cache, locks, held, slots, arrived, split, newest>>

Leave(t) == pc' = [pc EXCEPT ![t] = "idle"] /\ req' = [req EXCEPT ![t] = NoRequest]

Shown(t, body) == newest' = [newest EXCEPT ![req[t].key] = Greater(@, body.at)]

\* The first look into the cache, under _lock.
ReadCache(t) ==
  /\ pc[t] = "read"
  /\ IF Fresh(req[t].key, req[t].now)
       THEN /\ Leave(t)
            /\ Shown(t, cache[req[t].key].body)
       ELSE /\ pc' = [pc EXCEPT ![t] = "lookup"]
            /\ UNCHANGED <<req, newest>>
  /\ UNCHANGED <<clock, cache, locks, held, slots, arrived, split>>

\* A new threading.Lock(): a number that no thread of the key has.
NewLock(key) ==
  CHOOSE n \in 1 .. (Cardinality(Threads) + 1) :
    \A t \in Waiting(key) \cup Inside(key) : req[t].lock # n

\* Mutant: every look-up makes a lock of its own.
BuildLockForEach(key) == NewLock(key)

\* _build_lock_for
BuildLockFor(key) == IF locks[key] = 0 THEN NewLock(key) ELSE locks[key]

LookUpLock(t) ==
  LET key == req[t].key IN
  /\ pc[t] = "lookup"
  /\ locks' = [locks EXCEPT ![key] = BuildLockFor(key)]
  /\ req' = [req EXCEPT ![t].lock = BuildLockFor(key)]
  /\ pc' = [pc EXCEPT ![t] = "acquire"]
  /\ UNCHANGED <<clock, cache, held, slots, arrived, split, newest>>

AcquireBuildLock(t) ==
  /\ pc[t] = "acquire"
  /\ LockOf(t) \notin held
  /\ held' = held \cup {LockOf(t)}
  /\ pc' = [pc EXCEPT ![t] = "recheck"]
  /\ UNCHANGED <<clock, req, cache, locks, slots, arrived, split, newest>>

\* The second look, with the clock reading of the arrival.
Recheck(t) ==
  /\ pc[t] = "recheck"
  /\ IF Fresh(req[t].key, req[t].now)
       THEN /\ req' = [req EXCEPT ![t].body = cache[req[t].key].body]
            /\ Shown(t, cache[req[t].key].body)
            /\ pc' = [pc EXCEPT ![t] = "release"]
       ELSE /\ pc' = [pc EXCEPT ![t] = "slot"]
            /\ UNCHANGED <<req, newest>>
  /\ UNCHANGED <<clock, cache, locks, held, slots, arrived, split>>

\* Mutant: the bucket to load is computed when the build begins.
AcquireSlotThenCutOff(t) ==
  /\ pc[t] = "slot" /\ slots < MaxBuilds
  /\ slots' = slots + 1
  /\ req' = [req EXCEPT ![t].body = [at |-> clock,
                                     since |-> PricesCacheKey(req[t].since, clock)]]
  /\ pc' = [pc EXCEPT ![t] = "build"]
  /\ UNCHANGED <<clock, cache, locks, held, arrived, split, newest>>

\* A slot of _build_slots, and the database read of load_price_data.
AcquireSlot(t) ==
  /\ pc[t] = "slot" /\ slots < MaxBuilds
  /\ slots' = slots + 1
  /\ req' = [req EXCEPT ![t].body = [at |-> clock, since |-> req[t].load]]
  /\ pc' = [pc EXCEPT ![t] = "build"]
  /\ UNCHANGED <<clock, cache, locks, held, arrived, split, newest>>

BuildSucceeds(t) ==
  /\ pc[t] = "build"
  /\ slots' = slots - 1
  /\ pc' = [pc EXCEPT ![t] = "store"]
  /\ UNCHANGED <<clock, req, cache, locks, held, arrived, split, newest>>

\* Mutant: the build lock is acquired without "with" and stays locked.
BuildFailsKeepingLock(t) ==
  /\ pc[t] = "build"
  /\ slots' = slots - 1
  /\ Leave(t)
  /\ UNCHANGED <<clock, cache, locks, held, arrived, split, newest>>

\* Mutant: the slot is released by the handler of the exception as well.
BuildFailsFreeingTwice(t) ==
  /\ pc[t] = "build"
  /\ slots' = slots - 2
  /\ held' = held \ {LockOf(t)}
  /\ Leave(t)
  /\ UNCHANGED <<clock, cache, locks, arrived, split, newest>>

\* build() raises: both with-blocks are left, nothing is stored or pruned.
BuildFails(t) ==
  /\ pc[t] = "build"
  /\ slots' = slots - 1
  /\ held' = held \ {LockOf(t)}
  /\ Leave(t)
  /\ UNCHANGED <<clock, cache, locks, arrived, split, newest>>

\* The caches _prune_locked can leave: nothing that had expired when the request
\* arrived, and of the rest the entries that expire last, MaxEntries of them.
Trimmed(entries, now) ==
  LET live == {k \in DOMAIN entries : now < entries[k].expires} IN
  {kept \in SUBSET live :
     /\ Cardinality(kept) = Lesser(MaxEntries, Cardinality(live))
     /\ \A k \in kept, d \in live \ kept : entries[d].expires <= entries[k].expires}

Stored(t) ==
  LET entry == [expires |-> clock + TtlSeconds(req[t].key), body |-> req[t].body] IN
  [k \in DOMAIN cache \cup {req[t].key} |-> IF k = req[t].key THEN entry ELSE cache[k]]

\* Mutant: locks of uncached keys are dropped whether they are held or not.
IdleLocksHeldOrNot(kept) ==
  {k \in Keys : locks[k] # 0 /\ k \notin kept}

\* Build locks of keys not in the pruned cache that nobody holds.
IdleLocks(kept) ==
  {k \in Keys : locks[k] # 0 /\ k \notin kept /\ <<k, locks[k]>> \notin held}

\* Under _lock: the body is stored, and _prune_locked trims the cache and drops
\* the idle build locks.
StoreBody(t) ==
  /\ pc[t] = "store"
  /\ \E kept \in Trimmed(Stored(t), req[t].now) :
       /\ cache' = [k \in kept |-> Stored(t)[k]]
       /\ locks' = [k \in Keys |-> IF k \in IdleLocks(kept) THEN 0 ELSE locks[k]]
       /\ split' = split \cup {k \in IdleLocks(kept) : Waiting(k) # {}}
  /\ Shown(t, req[t].body)
  /\ pc' = [pc EXCEPT ![t] = "release"]
  /\ UNCHANGED <<clock, req, held, slots, arrived>>

ReleaseBuildLock(t) ==
  /\ pc[t] = "release"
  /\ held' = held \ {LockOf(t)}
  /\ Leave(t)
  /\ UNCHANGED <<clock, cache, locks, slots, arrived, split, newest>>

Step(t) ==
  \/ Enter(t) \/ ReadCache(t) \/ LookUpLock(t) \/ AcquireBuildLock(t) \/ Recheck(t)
  \/ AcquireSlot(t) \/ BuildSucceeds(t) \/ BuildFails(t)
  \/ StoreBody(t) \/ ReleaseBuildLock(t)

Next == Tick \/ \E t \in Threads : Arrive(t) \/ Step(t)

Spec == Init /\ [][Next]_vars

\* Every thread that can go on does: the interpreter schedules all of them, every
\* build ends, and requests do not arrive without end (MaxRequests), so a lock that
\* is free again and again is got in the end although threading.Lock is not fair.
FairSpec == Spec /\ \A t \in Threads : WF_vars(Step(t))
-----------------------------------------------------------------------------
(* Properties *)

\* TYPES.  Lock numbers stay small because a number is used again once no thread
\* of the key has it.
LockNumbers == 0 .. (Cardinality(Threads) + 1)
Bodies == [at : Nat, since : Keys]

TypeOK ==
  /\ clock \in MaxSinceAge .. MaxClock
  /\ pc \in [Threads -> {"idle", "enter", "read", "lookup", "acquire"} \cup HoldingPlaces]
  /\ req \in [Threads -> [since : Nat \cup {Full}, load : Keys, key : Keys, now : Nat,
                         lock : LockNumbers, body : Bodies, seen : Nat]]
  /\ DOMAIN cache \subseteq Keys
  /\ \A k \in DOMAIN cache : cache[k] \in [expires : Nat, body : Bodies]
  /\ locks \in [Keys -> LockNumbers]
  /\ held \subseteq Keys \X LockNumbers
  /\ slots \in 0 .. MaxBuilds
  /\ arrived \in Nat
  /\ split \subseteq Keys
  /\ newest \in [Keys -> Nat]

\* The point of the build locks (get_cached_prices_body): two threads never build
\* or store a body of one key at the same time.  The exception is a key whose lock
\* was pruned after a thread had looked it up and before it acquired it; no other
\* order of look-ups, failures and prunes leads there.
OneBuildPerKey ==
  \A k \in Keys : k \notin split => Cardinality(Inside(k)) <= 1

\* An answer never shows older data than an earlier answer for the same key had
\* shown before the request arrived: no thread stores an older body over a newer
\* one (get_cached_prices_body, with the same exception).
ReadsNeverGoBack ==
  [][\A t \in Threads : LET k == req[t].key IN
       /\ (ReadCache(t) /\ pc'[t] = "idle" /\ k \notin split) => cache[k].body.at >= req[t].seen
       /\ (ReleaseBuildLock(t) /\ k \notin split) => req[t].body.at >= req[t].seen]_vars

\* "Normalize cutoff for DB load so all clients in the same bucket share one
\* payload": a body holds at least the rows its key asks for, even when the bucket
\* turned between since_ms_for_load and prices_cache_key.
BodyCoversItsKey ==
  \A k \in DOMAIN cache :
    LET since == cache[k].body.since IN IF k = Full THEN since = Full ELSE since <= k

\* Every request is answered, or fails with its own build: no cycle of build lock,
\* build slot and cache lock keeps a thread waiting, whatever builds fail.
RequestsEnd == \A t \in Threads : pc[t] = "enter" ~> pc[t] = "idle"
=============================================================================
