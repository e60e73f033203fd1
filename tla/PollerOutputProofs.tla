------------------------- MODULE PollerOutputProofs -------------------------
(***************************************************************************)
(* PollerOutput for every number of listings, sellers, prices and keys, and *)
(* for every cooldown.  The three alerts argue alike: each keeps a mark of  *)
(* when it spoke last (a cycle number in a row, an uptime in a dictionary   *)
(* or a file), and the inductive invariant relates the mark to the time     *)
(* that has really passed since.  The mark may make the age too small,      *)
(* never too great, except where the history says what was lost.  The       *)
(* limiter argues from spacing: the requests the server remembers came a    *)
(* natural delay apart.                                                     *)
(***************************************************************************)
EXTENDS PollerOutput, FiniteSetTheorems, WellFoundedInduction, TLAPS

-----------------------------------------------------------------------------
(* Least values.                                                           *)

\* A minimal subset without a least value would have one.
LEMMA FiniteHasLeast ==
  ASSUME NEW S, IsFiniteSet(S), S # {}, NEW f \in [S -> Int]
  PROVE  \E m \in S : \A n \in S : f[m] <= f[n]
<1> DEFINE Least(U) == \E m \in U : \A n \in U : f[m] <= f[n]
           Bad == {U \in SUBSET S : U # {} /\ ~Least(U)}
<1> SUFFICES ASSUME Bad # {} PROVE FALSE
  OBVIOUS
<1>1. Bad \subseteq FiniteSubsetsOf(S)
  BY FS_Subset DEF FiniteSubsetsOf
<1>2. PICK U \in Bad : \A V \in Bad : <<V, U>> \notin StrictSubsetOrdering(S)
  <2>1. IsWellFoundedOn(StrictSubsetOrdering(S), FiniteSubsetsOf(S))
    BY FS_StrictSubsetOrderingWellFounded
  <2> HIDE DEF Bad
  <2> QED BY <1>1, <2>1, WFMin
<1>3. PICK e \in U : TRUE
  OBVIOUS
<1> DEFINE V == U \ {e}
<1>4. V \notin Bad
  <2>1. <<V, U>> \in (SUBSET S) \X (SUBSET S) /\ V \subseteq U /\ V # U
    BY <1>3
  <2> QED BY <1>2, <2>1 DEF StrictSubsetOrdering
<1>5. V # {}
  BY <1>3
<1>6. PICK m \in V : \A n \in V : f[m] <= f[n]
  BY <1>4, <1>5
<1>7. \A n \in U : f[n] \in Int /\ (n = e \/ n \in V)
  OBVIOUS
<1>8. CASE f[m] <= f[e]
  BY <1>6, <1>7, <1>8
<1>9. CASE f[e] <= f[m]
  <2>1. \A n \in U : f[e] <= f[n]
    BY <1>3, <1>6, <1>7, <1>9
  <2> QED BY <1>3, <2>1
<1> QED BY <1>3, <1>6, <1>7, <1>8, <1>9

LEMMA MinOfFinite ==
  ASSUME NEW S \in SUBSET Int, IsFiniteSet(S), S # {}
  PROVE  Min(S) \in S /\ \A n \in S : Min(S) <= n
<1> DEFINE f == [n \in S |-> n]
<1>1. \E m \in S : \A n \in S : f[m] <= f[n]
  BY FiniteHasLeast
<1> QED BY <1>1 DEF Min

LEMMA MinOfTwo ==
  ASSUME NEW a \in Int, NEW b \in Int
  PROVE  Min({a, b}) = IF a <= b THEN a ELSE b
BY DEF Min

LEMMA MaxOfTwo ==
  ASSUME NEW a \in Int, NEW b \in Int
  PROVE  Max({a, b}) = IF a >= b THEN a ELSE b
BY DEF Max

-----------------------------------------------------------------------------
(* New items.                                                              *)

ItemTyped ==
  /\ worker \in {"down", "idle", "post", "store"}
  /\ itemCycle \in 0 .. MaxItemCycles /\ storedCycle \in 0 .. MaxItemCycles
  /\ signals \in SUBSET Listings
  /\ lastSeen \in [Listings -> 0 .. MaxItemCycles] /\ lastTold \in [Listings -> 0 .. MaxItemCycles]
  /\ news \in [listings : SUBSET Listings, transfers : SUBSET Listings]
  /\ sinceSeen \in [Listings -> 0 .. Long] /\ sinceTold \in [Listings -> 0 .. Long]
  /\ itemSpent \in 0 .. MaxItemFaults
  /\ itemTorn \in [untold : SUBSET Listings, unseen : SUBSET Listings, cleared : BOOLEAN]

\* A process has begun every cycle that is stored, and the one whose news it has.
CycleCounts ==
  /\ worker # "down" => storedCycle <= itemCycle
  /\ worker \in {"post", "store"} => itemCycle >= 1

\* A cycle number dates an event no farther back than it was, for this process and for the next
\* one; without a number the event is as old as matters.
Dates(last, since) ==
  since = Long \/ (last # 0 /\ itemCycle - last <= since /\ storedCycle - last <= since)

Unstored == itemTorn.untold \cup (IF worker = "store" THEN news.listings ELSE {})

ToldIsDated == \A p \in Listings \ Unstored : Dates(lastTold[p], sinceTold[p])

SeenIsDated ==
  ~itemTorn.cleared => \A p \in Listings \ itemTorn.unseen : Dates(lastSeen[p], sinceSeen[p])

\* What waits to be posted was not posted for a cooldown.
NewsIsFresh ==
  worker = "post" => \A p \in news.listings \ itemTorn.untold : sinceTold[p] >= NewItemCooldown

ItemInv == ItemTyped /\ CycleCounts /\ ToldIsDated /\ SeenIsDated /\ NewsIsFresh

LEMMA LongCovers == Long \in Nat \ {0} /\ Long >= NewItemCooldown /\ Long >= ReturnMinCycles
BY NewItemAssumption, MaxOfTwo DEF Long

LEMMA AgesAre ==
  ASSUME NEW since \in [Listings -> 0 .. Long]
  PROVE  /\ Ages(since) \in [Listings -> 0 .. Long]
         /\ \A p \in Listings : Ages(since)[p] = IF since[p] = Long THEN Long ELSE since[p] + 1
BY LongCovers, MinOfTwo DEF Ages

LEMMA ItemInitInv == ItemInit => ItemInv
BY LongCovers, NewItemAssumption
   DEF ItemInit, ItemInv, ItemTyped, CycleCounts, ToldIsDated, SeenIsDated, NewsIsFresh, Dates,
       NoNews, Unstored

LEMMA PollKeepsItems ==
  ASSUME ItemInv, NEW up \in SUBSET Listings, NEW merged \in MayMerge(up),
         NEW skipped \in MaySkip(up), NEW moved \in SUBSET MayMove(up),
         PollItems(up, merged, skipped, moved)
  PROVE  ItemInv'
<1> DEFINE c == itemCycle + 1
           found == Classified(up, skipped, moved, c)
<1> USE NewItemAssumption, LongCovers DEF ItemInv, ItemTyped
<1>1. /\ c \in 1 .. MaxItemCycles /\ itemCycle' = c /\ storedCycle' = c
      /\ found \in SUBSET Listings /\ merged \in SUBSET up /\ moved \in SUBSET Listings
      /\ worker = "idle" /\ worker' = (IF found = {} THEN "idle" ELSE "post")
      /\ news' = [listings |-> found, transfers |-> found \cap moved]
      /\ UNCHANGED <<lastTold, itemSpent>>
  BY DEF PollItems, Classified, MayMerge, MayMove
<1>2. /\ lastSeen' \in [Listings -> 0 .. MaxItemCycles]
      /\ \A p \in Listings : lastSeen'[p] = IF p \in up \ merged THEN c ELSE lastSeen[p]
  BY <1>1 DEF PollItems, Rows
<1>3. /\ sinceTold' = Ages(sinceTold)
      /\ sinceSeen' \in [Listings -> 0 .. Long]
      /\ \A p \in Listings : sinceSeen'[p] = IF p \in up THEN 0 ELSE Ages(sinceSeen)[p]
  BY AgesAre DEF PollItems
<1>4. /\ itemTorn'.untold = itemTorn.untold /\ itemTorn'.cleared = itemTorn.cleared
      /\ itemTorn'.unseen = (itemTorn.unseen \ up) \cup merged
      /\ itemTorn' \in [untold : SUBSET Listings, unseen : SUBSET Listings, cleared : BOOLEAN]
  BY <1>1 DEF PollItems
<1>5. ItemTyped'
  BY <1>1, <1>2, <1>3, <1>4, AgesAre DEF PollItems
<1>6. CycleCounts'
  BY <1>1 DEF CycleCounts
<1>7. ASSUME NEW p \in Listings \ itemTorn.untold
      PROVE  Dates(lastTold[p], sinceTold[p])' /\ (p \in found => sinceTold'[p] >= NewItemCooldown)
  <2>1. Dates(lastTold[p], sinceTold[p])
    BY <1>1, <1>7 DEF ToldIsDated, Unstored
  <2>2. lastTold[p] \in Nat /\ sinceTold[p] \in 0 .. Long /\ storedCycle \in Nat /\ itemCycle \in Nat
    OBVIOUS
  <2>3. sinceTold'[p] = IF sinceTold[p] = Long THEN Long ELSE sinceTold[p] + 1
    BY <1>3, AgesAre
  <2>4. p \in found => ~CoolingDown(p, c)
    BY DEF Classified
  <2> QED BY <1>1, <2>1, <2>2, <2>3, <2>4 DEF Dates, CoolingDown
<1>8. ToldIsDated'
  BY <1>1, <1>4, <1>7 DEF ToldIsDated, Unstored
<1>9. NewsIsFresh'
  BY <1>1, <1>4, <1>7 DEF NewsIsFresh
<1>10. SeenIsDated'
  <2> SUFFICES ASSUME ~itemTorn.cleared, NEW p \in Listings \ itemTorn'.unseen
               PROVE  Dates(lastSeen[p], sinceSeen[p])'
    BY <1>4 DEF SeenIsDated
  <2>1. CASE p \in up
    BY <1>1, <1>2, <1>3, <1>4, <2>1 DEF Dates
  <2>2. CASE p \notin up
    <3>1. Dates(lastSeen[p], sinceSeen[p])
      BY <1>4, <2>2 DEF SeenIsDated
    <3>2. sinceSeen'[p] = IF sinceSeen[p] = Long THEN Long ELSE sinceSeen[p] + 1
      BY <1>3, <2>2, AgesAre
    <3>3. lastSeen[p] \in Nat /\ sinceSeen[p] \in 0 .. Long /\ itemCycle \in Nat /\ lastSeen'[p] = lastSeen[p]
      BY <1>2, <2>2
    <3> QED BY <1>1, <3>1, <3>2, <3>3 DEF Dates
  <2> QED BY <2>1, <2>2
<1> QED BY <1>5, <1>6, <1>8, <1>9, <1>10

\* The steps between a poll's classification and the next poll
LEMMA StoreKeepsItems ==
  ASSUME ItemInv, NEW q \in Listings, StoreOne(q)
  PROVE  ItemInv'
<1> USE NewItemAssumption, LongCovers DEF ItemInv, ItemTyped
<1>1. /\ worker = "store" /\ q \in news.listings /\ itemCycle >= 1 /\ storedCycle <= itemCycle
      /\ lastTold' = [lastTold EXCEPT ![q] = itemCycle]
      /\ UNCHANGED <<itemCycle, storedCycle, signals, lastSeen, sinceSeen, sinceTold, itemSpent, itemTorn>>
  BY DEF StoreOne, Stored, CycleCounts
<1>2. /\ news' \in [listings : SUBSET Listings, transfers : SUBSET Listings]
      /\ news'.listings = news.listings \ {q}
      /\ worker' = IF news.listings = {q} THEN "idle" ELSE "store"
  BY <1>1 DEF StoreOne, NoNews
<1>3. ItemTyped'
  BY <1>1, <1>2
<1>4. ToldIsDated'
  <2> SUFFICES ASSUME NEW p \in Listings \ Unstored'
               PROVE  Dates(lastTold[p], sinceTold[p])'
    BY DEF ToldIsDated
  <2>1. CASE p = q
    BY <1>1, <2>1 DEF Dates
  <2>2. CASE p # q
    <3>1. p \notin Unstored
      BY <1>1, <1>2, <2>2 DEF Unstored
    <3> QED BY <1>1, <2>2, <3>1 DEF ToldIsDated, Dates
  <2> QED BY <2>1, <2>2
<1> QED BY <1>1, <1>2, <1>3, <1>4 DEF CycleCounts, SeenIsDated, NewsIsFresh, Dates

LEMMA PostKeepsItems ==
  ASSUME ItemInv, PostNews \/ PostRefused
  PROVE  ItemInv'
<1> USE NewItemAssumption, LongCovers DEF ItemInv, ItemTyped
<1>1. /\ worker = "post" /\ worker' \in {"store", "idle"}
      /\ UNCHANGED <<itemCycle, storedCycle, signals, lastSeen, lastTold, sinceSeen>>
  BY DEF PostNews, PostRefused
<1>2. CASE PostNews
  <2>1. /\ sinceTold' \in [Listings -> 0 .. Long] /\ UNCHANGED <<news, itemSpent>>
        /\ \A p \in Listings \ news.listings : sinceTold'[p] = sinceTold[p]
        /\ itemTorn'.untold = itemTorn.untold \ news.listings
        /\ itemTorn'.unseen = itemTorn.unseen /\ itemTorn'.cleared = itemTorn.cleared
        /\ itemTorn' \in [untold : SUBSET Listings, unseen : SUBSET Listings, cleared : BOOLEAN]
        /\ worker' = "store"
    BY <1>2 DEF PostNews
  <2>2. ItemTyped'
    BY <1>1, <2>1
  <2>3. ToldIsDated'
    BY <1>1, <2>1 DEF ToldIsDated, Unstored, Dates
  <2> QED BY <1>1, <2>1, <2>2, <2>3 DEF CycleCounts, SeenIsDated, NewsIsFresh, Dates
<1>3. CASE PostRefused
  <2>1. /\ news' = NoNews /\ worker' = "idle" /\ UNCHANGED <<sinceTold, itemTorn>>
        /\ itemSpent < MaxItemFaults /\ itemSpent' = itemSpent + 1
    BY <1>3 DEF PostRefused, Spends
  <2>2. ItemTyped'
    BY <1>1, <2>1 DEF NoNews
  <2>3. ToldIsDated'
    BY <1>1, <2>1 DEF ToldIsDated, Unstored, Dates
  <2> QED BY <1>1, <2>1, <2>2, <2>3 DEF CycleCounts, SeenIsDated, NewsIsFresh, Dates
<1> QED BY <1>2, <1>3

LEMMA TornFields ==
  ASSUME NEW torn \in [untold : SUBSET Listings, unseen : SUBSET Listings, cleared : BOOLEAN],
         NEW more \in SUBSET Listings
  PROVE  {[torn EXCEPT !.untold = @ \cup more], [torn EXCEPT !.cleared = TRUE]}
           \subseteq [untold : SUBSET Listings, unseen : SUBSET Listings, cleared : BOOLEAN]
OBVIOUS

LEMMA FaultKeepsItems ==
  ASSUME ItemInv, StoreFails \/ WorkerDies \/ WorkerStarts \/ MarketCleared
  PROVE  ItemInv'
<1> USE NewItemAssumption, LongCovers DEF ItemInv, ItemTyped
<1>1. UNCHANGED <<lastTold, sinceSeen, sinceTold>> /\ itemTorn'.unseen = itemTorn.unseen
  BY DEF StoreFails, WorkerDies, WorkerStarts, MarketCleared
<1>2. itemSpent' \in 0 .. MaxItemFaults /\ news' \in {news, NoNews} /\ signals' \in {signals, {}}
  BY DEF StoreFails, WorkerDies, WorkerStarts, MarketCleared, Spends
<1>3. itemTorn' \in [untold : SUBSET Listings, unseen : SUBSET Listings, cleared : BOOLEAN]
  <2>1. \/ itemTorn' = itemTorn
        \/ itemTorn' = [itemTorn EXCEPT !.untold = @ \cup news.listings]
        \/ itemTorn' = [itemTorn EXCEPT !.cleared = TRUE]
    BY DEF StoreFails, WorkerDies, WorkerStarts, MarketCleared
  <2>2. news.listings \in SUBSET Listings
    OBVIOUS
  <2>3. {[itemTorn EXCEPT !.untold = @ \cup news.listings], [itemTorn EXCEPT !.cleared = TRUE]}
          \subseteq [untold : SUBSET Listings, unseen : SUBSET Listings, cleared : BOOLEAN]
    BY <2>2, TornFields
  <2> QED BY <2>1, <2>3
<1>4. /\ lastSeen' \in {lastSeen, [p \in Listings |-> 0]}
      /\ itemCycle' \in {itemCycle, 0, storedCycle} /\ storedCycle' \in {storedCycle, 0}
      /\ lastSeen' # lastSeen => itemTorn'.cleared
      /\ itemTorn.cleared => itemTorn'.cleared
  BY DEF StoreFails, WorkerDies, WorkerStarts, MarketCleared
<1>5. /\ Unstored \in SUBSET Unstored'
      /\ worker' = "post" => worker = "post" /\ news' = news /\ itemTorn'.untold = itemTorn.untold
  BY DEF StoreFails, WorkerDies, WorkerStarts, MarketCleared, Unstored, NoNews
<1>6. ItemTyped'
  BY <1>1, <1>2, <1>3, <1>4 DEF NoNews, StoreFails, WorkerDies, WorkerStarts, MarketCleared
<1>7. CycleCounts'
  BY DEF CycleCounts, StoreFails, WorkerDies, WorkerStarts, MarketCleared
<1>8. ASSUME NEW last \in 0 .. MaxItemCycles, NEW since \in 0 .. Long, Dates(last, since)
      PROVE  since = Long \/ (last # 0 /\ itemCycle' - last <= since /\ storedCycle' - last <= since)
  <2>1. CASE since # Long
    <3>1. last # 0 /\ itemCycle - last <= since /\ storedCycle - last <= since
      BY <1>8, <2>1 DEF Dates
    <3>2. itemCycle \in Nat /\ storedCycle \in Nat /\ last \in Nat /\ since \in Nat /\ 0 - last <= since
      OBVIOUS
    <3>3. itemCycle' - last <= since
      BY <1>4, <3>1, <3>2
    <3>4. storedCycle' - last <= since
      BY <1>4, <3>1, <3>2
    <3> QED BY <3>1, <3>3, <3>4
  <2> QED BY <2>1
<1>9. ToldIsDated'
  BY <1>1, <1>5, <1>8 DEF ToldIsDated, Dates
<1>10. SeenIsDated'
  BY <1>1, <1>4, <1>8 DEF SeenIsDated, Dates
<1> QED BY <1>1, <1>5, <1>6, <1>7, <1>9, <1>10 DEF NewsIsFresh

LEMMA EmptyCycleKeepsItems ==
  ASSUME ItemInv, ItemCycleFails
  PROVE  ItemInv'
<1> USE NewItemAssumption, LongCovers DEF ItemInv, ItemTyped
<1>1. /\ worker = "idle" /\ itemCycle < MaxItemCycles /\ itemCycle' = itemCycle + 1
      /\ sinceSeen' = Ages(sinceSeen) /\ sinceTold' = Ages(sinceTold)
      /\ itemSpent < MaxItemFaults /\ itemSpent' = itemSpent + 1
      /\ UNCHANGED <<worker, storedCycle, signals, lastSeen, lastTold, news, itemTorn>>
  BY DEF ItemCycleFails, Spends
<1>2. ItemTyped'
  BY <1>1, AgesAre
<1>3. ASSUME NEW last \in 0 .. MaxItemCycles, NEW since \in 0 .. Long, Dates(last, since),
             NEW older, older = IF since = Long THEN Long ELSE since + 1
      PROVE  older = Long \/ (last # 0 /\ itemCycle' - last <= older /\ storedCycle' - last <= older)
  BY <1>1, <1>3 DEF Dates
<1>4. ToldIsDated' /\ SeenIsDated'
  BY <1>1, <1>3, AgesAre DEF ToldIsDated, SeenIsDated, Unstored, Dates
<1> QED BY <1>1, <1>2, <1>4 DEF CycleCounts, NewsIsFresh

LEMMA ItemStep ==
  ASSUME ItemInv, [ItemNext]_itemVars
  PROVE  ItemInv'
<1>1. CASE UNCHANGED itemVars
  BY <1>1 DEF itemVars, ItemInv, ItemTyped, CycleCounts, ToldIsDated, SeenIsDated, NewsIsFresh,
              Dates, Unstored
<1> QED BY <1>1, PollKeepsItems, StoreKeepsItems, PostKeepsItems, FaultKeepsItems,
           EmptyCycleKeepsItems DEF ItemNext

LEMMA ItemsAnnouncedOnce ==
  ASSUME ItemInv, [ItemNext]_itemVars
  PROVE  [PostNews => \A p \in news.listings \ itemTorn.untold : sinceTold[p] >= NewItemCooldown]_itemVars
BY DEF ItemInv, NewsIsFresh, PostNews

LEMMA ShortGapStep ==
  ASSUME ItemInv, [ItemNext]_itemVars, worker = "idle", worker' = "post", ~itemTorn.cleared,
         NEW p \in (news'.listings \ news'.transfers) \ itemTorn.unseen
  PROVE  sinceSeen[p] + 1 >= ReturnMinCycles
<1>1. PICK up \in SUBSET Listings : \E merged \in MayMerge(up), skipped \in MaySkip(up),
             moved \in SUBSET MayMove(up) : PollItems(up, merged, skipped, moved)
  BY DEF ItemNext, itemVars, PostNews, PostRefused, StoreFails, StoreOne, ItemCycleFails, WorkerDies,
         WorkerStarts, MarketCleared
<1>2. PICK merged \in MayMerge(up), skipped \in MaySkip(up), moved \in SUBSET MayMove(up) :
        PollItems(up, merged, skipped, moved)
  BY <1>1
<1>3. p \in Listings /\ ~JustRelisted(p, itemCycle + 1)
  BY <1>2 DEF PollItems, Classified
<1>4. Dates(lastSeen[p], sinceSeen[p])
  BY <1>3 DEF ItemInv, SeenIsDated
<1>5. lastSeen[p] \in Nat /\ sinceSeen[p] \in Nat /\ itemCycle \in Nat /\ ReturnMinCycles \in Nat
  BY <1>3, LongCovers, NewItemAssumption DEF ItemInv, ItemTyped
<1> QED BY <1>3, <1>4, <1>5, LongCovers DEF Dates, JustRelisted
-----------------------------------------------------------------------------
(* Ops alerts.                                                             *)

\* A mark and the time since an alert: the key was told of no earlier than the mark says.
MarkedInTime(mark, since) == since = Cooldown \/ (mark # 0 /\ uptime - mark <= since)

MarksAreTold ==
  /\ \A k \in PollerKeys \ forgotten : MarkedInTime(told[k], silent[k])
  /\ \A k \in ProbeKeys \ forgotten : MarkedInTime(state[k], silent[k])

\* And no later: the poller marks what arrived, the probe also what was lost.
ToldWhenMarked ==
  /\ \A k \in PollerKeys : told[k] # 0 => silent[k] <= uptime - told[k]
  /\ \A k \in ProbeKeys \ bygone : state[k] # 0 =>
       silent[k] <= uptime - state[k] \/ missed[k] <= uptime - state[k]

OpsTyped ==
  /\ uptime \in 1 .. MaxUptime /\ idle \in 0 .. (StalePoll + 1)
  /\ broken \in BOOLEAN /\ opsCycle \in 0 .. (DbCheckEvery - 1)
  /\ told \in [PollerKeys -> 0 .. MaxUptime] /\ state \in [ProbeKeys -> 0 .. MaxUptime]
  /\ \A k \in PollerKeys : told[k] <= uptime
  /\ \A k \in ProbeKeys \ bygone : state[k] <= uptime
  /\ met \in SUBSET Keys
  /\ silent \in [Keys -> 0 .. Cooldown] /\ missed \in [Keys -> 0 .. Cooldown]
  /\ forgotten \in SUBSET Keys /\ bygone \in SUBSET ProbeKeys
  /\ opsFaults \in 0 .. MaxOpsFaults

OpsInv == OpsTyped /\ MarksAreTold /\ ToldWhenMarked /\ TroubleIsTold

LEMMA OpsKeys ==
  /\ PollerKeys \cap ProbeKeys = {} /\ PollerKeys \in SUBSET Keys /\ ProbeKeys \in SUBSET Keys
  /\ Keys = PollerKeys \cup ProbeKeys /\ IsFiniteSet(Keys)
<1>1. IsFiniteSet({"stale-polling"}) /\ IsFiniteSet({"db-integrity"})
  BY FS_Singleton
<1>2. IsFiniteSet(((ProbeKeys \cup Endings) \cup {"stale-polling"}) \cup {"db-integrity"})
  BY <1>1, OpsAssumption, FS_Union
<1>3. Keys = ((ProbeKeys \cup Endings) \cup {"stale-polling"}) \cup {"db-integrity"}
  BY DEF Keys, PollerKeys
<1> QED BY <1>2, <1>3, OpsAssumption DEF Keys, PollerKeys

LEMMA LostAreCounted ==
  ASSUME NEW lost \in SUBSET Keys
  PROVE  Cardinality(lost) \in Nat
BY OpsKeys, FS_Subset, FS_CardinalityType

LEMMA OpsInitInv == OpsInit => OpsInv
<1> SUFFICES ASSUME OpsInit PROVE OpsInv
  OBVIOUS
<1> USE OpsAssumption, OpsKeys DEF OpsInit
<1>1. OpsTyped
  <2>1. /\ MaxUptime \in Nat \ {0} /\ DbCheckEvery \in Nat \ {0} /\ StalePoll \in Nat \ {0}
        /\ Cooldown \in Nat \ {0} /\ MaxOpsFaults \in Nat
    OBVIOUS
  <2>2. /\ told \in [PollerKeys -> 0 .. MaxUptime] /\ state \in [ProbeKeys -> 0 .. MaxUptime]
        /\ \A k \in PollerKeys : told[k] = 0
        /\ \A k \in ProbeKeys : state[k] = 0
    BY <2>1
  <2>3. silent \in [Keys -> 0 .. Cooldown] /\ missed \in [Keys -> 0 .. Cooldown]
    BY <2>1
  <2>4. uptime \in 1 .. MaxUptime /\ idle \in 0 .. (StalePoll + 1)
    BY <2>1
  <2>8. broken \in BOOLEAN
    BY Zenon
  <2>5. opsCycle \in 0 .. (DbCheckEvery - 1) /\ opsFaults \in 0 .. MaxOpsFaults
    BY <2>1
  <2>6. /\ \A k \in PollerKeys : told[k] <= uptime
        /\ \A k \in ProbeKeys \ bygone : state[k] <= uptime
    BY <2>2
  <2>7. met \in SUBSET Keys /\ forgotten \in SUBSET Keys /\ bygone \in SUBSET ProbeKeys
    OBVIOUS
  <2> HIDE DEF OpsInit
  <2> QED BY <2>2, <2>3, <2>4, <2>5, <2>6, <2>7, <2>8 DEF OpsTyped
<1>2. MarksAreTold
  BY DEF MarksAreTold, MarkedInTime
<1>3. ToldWhenMarked /\ TroubleIsTold
  BY DEF ToldWhenMarked, TroubleIsTold
<1> QED BY <1>1, <1>2, <1>3 DEF OpsInv

LEMMA CycleKeepsOps ==
  ASSUME OpsInv, PollerCycles
  PROVE  OpsInv'
<1> USE OpsAssumption, OpsKeys DEF OpsInv, OpsTyped
<1>1. PICK failed \in {e \in SUBSET Endings : Cardinality(e) <= 1} :
        \E lost \in SUBSET Due(told, HealthChecks \cup failed) :
          /\ Posted(Due(told, HealthChecks \cup failed), lost)
          /\ told' = Remembers(Due(told, HealthChecks \cup failed), lost)
          /\ met' = HealthChecks \cup failed
          /\ idle' = IF failed = {} THEN 0 ELSE idle
          /\ opsCycle' = (opsCycle + 1) % DbCheckEvery
          /\ forgotten' = forgotten \ (Due(told, HealthChecks \cup failed) \ lost)
          /\ opsFaults' = opsFaults + Cardinality(lost)
          /\ UNCHANGED <<uptime, broken, state, bygone>>
  BY DEF PollerCycles
<1> DEFINE found == HealthChecks \cup failed
           due == Due(told, found)
<1>2. PICK lost \in SUBSET due :
          /\ Posted(due, lost)
          /\ told' = Remembers(due, lost)
          /\ met' = found
          /\ idle' = IF failed = {} THEN 0 ELSE idle
          /\ opsCycle' = (opsCycle + 1) % DbCheckEvery
          /\ forgotten' = forgotten \ (due \ lost)
          /\ opsFaults' = opsFaults + Cardinality(lost)
          /\ UNCHANGED <<uptime, broken, state, bygone>>
  BY <1>1
<1>3. found \in SUBSET PollerKeys /\ due \in SUBSET found
  BY DEF HealthChecks, PollerKeys, Due
<1>4. /\ silent' \in [Keys -> 0 .. Cooldown] /\ missed' \in [Keys -> 0 .. Cooldown]
      /\ \A k \in Keys : silent'[k] = IF k \in due \ lost THEN 0 ELSE silent[k]
      /\ \A k \in Keys : missed'[k] = IF k \in lost THEN 0 ELSE missed[k]
  BY <1>2 DEF Posted
<1>5. /\ told' \in [PollerKeys -> 0 .. MaxUptime]
      /\ \A k \in PollerKeys : told'[k] = IF k \in due \ lost THEN uptime ELSE told[k]
  BY <1>2 DEF Remembers, Marked
<1>6. opsFaults' \in 0 .. MaxOpsFaults
  <2>1. Cardinality(lost) \in Nat /\ Cardinality(lost) + opsFaults <= MaxOpsFaults
    BY <1>2, <1>3, LostAreCounted DEF Posted
  <2> QED BY <1>2, <2>1
<1>7. opsCycle' \in 0 .. (DbCheckEvery - 1)
  BY <1>2
<1> HIDE DEF found, due
<1>8. OpsTyped'
  BY <1>2, <1>3, <1>4, <1>5, <1>6, <1>7
<1>9. MarksAreTold'
  <2>1. ASSUME NEW k \in PollerKeys \ forgotten'
        PROVE  MarkedInTime(told[k], silent[k])'
    BY <1>2, <1>4, <1>5, <2>1 DEF MarksAreTold, MarkedInTime
  <2>2. ASSUME NEW k \in ProbeKeys \ forgotten'
        PROVE  MarkedInTime(state[k], silent[k])'
    BY <1>2, <1>3, <1>4, <2>2 DEF MarksAreTold, MarkedInTime
  <2> QED BY <2>1, <2>2 DEF MarksAreTold
<1>10. ToldWhenMarked'
  <2>1. ASSUME NEW k \in PollerKeys, told'[k] # 0
        PROVE  silent'[k] <= uptime' - told'[k]
    BY <1>2, <1>4, <1>5, <2>1 DEF ToldWhenMarked
  <2>2. ASSUME NEW k \in ProbeKeys \ bygone', state'[k] # 0
        PROVE  silent'[k] <= uptime' - state'[k] \/ missed'[k] <= uptime' - state'[k]
    BY <1>2, <1>3, <1>4, <2>2 DEF ToldWhenMarked
  <2> QED BY <2>1, <2>2 DEF ToldWhenMarked
<1>11. ASSUME NEW k \in found
       PROVE  silent'[k] < Cooldown \/ missed'[k] < 1
  <2>1. CASE k \in due
    BY <1>3, <1>4, <2>1
  <2>2. CASE k \notin due
    <3>1. told[k] # 0 /\ uptime - told[k] < Cooldown
      BY <1>3, <2>2 DEF Due, due
    <3> QED BY <1>2, <1>3, <1>4, <2>2, <3>1 DEF ToldWhenMarked
  <2> QED BY <2>1, <2>2
<1>12. TroubleIsTold'
  BY <1>2, <1>3, <1>11 DEF TroubleIsTold
<1> QED BY <1>8, <1>9, <1>10, <1>12

LEMMA ProbeKeepsOps ==
  ASSUME OpsInv, ProbeRuns
  PROVE  OpsInv'
<1> USE OpsAssumption, OpsKeys DEF OpsInv, OpsTyped
<1>1. PICK issues \in SUBSET ProbeKeys, saved \in BOOLEAN : \E lost \in SUBSET Due(state, issues) :
         /\ Cardinality(lost) + (IF saved THEN 0 ELSE 1) + opsFaults <= MaxOpsFaults
         /\ Posted(Due(state, issues), lost)
         /\ state' = Saved(Due(state, issues), saved)
         /\ met' = issues
         /\ forgotten' = IF saved THEN forgotten \ Due(state, issues) ELSE forgotten \cup Due(state, issues)
         /\ bygone' = IF saved THEN bygone \ Due(state, issues) ELSE bygone
         /\ opsFaults' = opsFaults + Cardinality(lost) + (IF saved THEN 0 ELSE 1)
         /\ UNCHANGED <<uptime, idle, broken, opsCycle, told>>
  BY DEF ProbeRuns
<1> DEFINE due == Due(state, issues)
<1>2. PICK lost \in SUBSET due :
         /\ Cardinality(lost) + (IF saved THEN 0 ELSE 1) + opsFaults <= MaxOpsFaults
         /\ Posted(due, lost)
         /\ state' = Saved(due, saved)
         /\ met' = issues
         /\ forgotten' = IF saved THEN forgotten \ due ELSE forgotten \cup due
         /\ bygone' = IF saved THEN bygone \ due ELSE bygone
         /\ opsFaults' = opsFaults + Cardinality(lost) + (IF saved THEN 0 ELSE 1)
         /\ UNCHANGED <<uptime, idle, broken, opsCycle, told>>
  BY <1>1
<1>3. due \in SUBSET issues /\ due \in SUBSET ProbeKeys
  BY DEF Due
<1>4. /\ silent' \in [Keys -> 0 .. Cooldown] /\ missed' \in [Keys -> 0 .. Cooldown]
      /\ \A k \in Keys : silent'[k] = IF k \in due \ lost THEN 0 ELSE silent[k]
      /\ \A k \in Keys : missed'[k] = IF k \in lost THEN 0 ELSE missed[k]
  BY <1>2 DEF Posted
<1>5. /\ state' \in [ProbeKeys -> 0 .. MaxUptime]
      /\ \A k \in ProbeKeys : state'[k] = IF saved /\ k \in due THEN uptime ELSE state[k]
  BY <1>2 DEF Saved, Marked
<1>6. opsFaults' \in 0 .. MaxOpsFaults
  <2>1. Cardinality(lost) \in Nat
    BY <1>3, LostAreCounted
  <2> QED BY <1>2, <2>1
<1> HIDE DEF due
<1>8. OpsTyped'
  BY <1>2, <1>3, <1>4, <1>5, <1>6
<1>9. MarksAreTold'
  <2>1. ASSUME NEW k \in PollerKeys \ forgotten'
        PROVE  MarkedInTime(told[k], silent[k])'
    BY <1>2, <1>3, <1>4, <2>1 DEF MarksAreTold, MarkedInTime
  <2>2. ASSUME NEW k \in ProbeKeys \ forgotten'
        PROVE  MarkedInTime(state[k], silent[k])'
    BY <1>2, <1>4, <1>5, <2>2 DEF MarksAreTold, MarkedInTime
  <2> QED BY <2>1, <2>2 DEF MarksAreTold
<1>10. ToldWhenMarked'
  <2>1. ASSUME NEW k \in PollerKeys, told'[k] # 0
        PROVE  silent'[k] <= uptime' - told'[k]
    BY <1>2, <1>3, <1>4, <2>1 DEF ToldWhenMarked
  <2>2. ASSUME NEW k \in ProbeKeys \ bygone', state'[k] # 0
        PROVE  silent'[k] <= uptime' - state'[k] \/ missed'[k] <= uptime' - state'[k]
    BY <1>2, <1>4, <1>5, <2>2 DEF ToldWhenMarked
  <2> QED BY <2>1, <2>2 DEF ToldWhenMarked
<1>11. ASSUME NEW k \in issues, k \notin bygone'
       PROVE  silent'[k] < Cooldown \/ missed'[k] < Cooldown
  <2>1. CASE k \in due
    BY <1>3, <1>4, <2>1
  <2>2. CASE k \notin due
    <3>1. state[k] # 0 /\ uptime - state[k] < Cooldown
      BY <2>2 DEF Due, due
    <3>2. k \in ProbeKeys \ bygone
      BY <1>2, <1>11, <2>2
    <3> QED BY <1>3, <1>4, <2>2, <3>1, <3>2 DEF ToldWhenMarked
  <2> QED BY <2>1, <2>2
<1>12. TroubleIsTold'
  BY <1>2, <1>11 DEF TroubleIsTold
<1> QED BY <1>8, <1>9, <1>10, <1>12

LEMMA TimeKeepsOps ==
  ASSUME OpsInv, TimePasses
  PROVE  OpsInv'
<1> USE OpsAssumption, OpsKeys DEF OpsInv, OpsTyped
<1>1. /\ uptime < MaxUptime /\ uptime' = uptime + 1 /\ idle' = Older(idle, StalePoll + 1) /\ met' = {}
      /\ UNCHANGED <<broken, opsCycle, told, state, forgotten, bygone, opsFaults>>
  BY DEF TimePasses
<1>2. /\ silent' \in [Keys -> 0 .. Cooldown] /\ missed' \in [Keys -> 0 .. Cooldown]
      /\ \A k \in Keys : silent'[k] = IF silent[k] < Cooldown THEN silent[k] + 1 ELSE Cooldown
      /\ \A k \in Keys : missed'[k] = IF missed[k] < Cooldown THEN missed[k] + 1 ELSE Cooldown
  BY DEF TimePasses, Older
<1>3. OpsTyped'
  BY <1>1, <1>2 DEF Older
<1>4. ASSUME NEW k \in Keys, NEW mark \in 0 .. MaxUptime, MarkedInTime(mark, silent[k])
      PROVE  silent'[k] = Cooldown \/ (mark # 0 /\ uptime' - mark <= silent'[k])
  BY <1>1, <1>2, <1>4 DEF MarkedInTime
<1>5. MarksAreTold'
  BY <1>1, <1>4 DEF MarksAreTold, MarkedInTime
<1>6. ToldWhenMarked'
  BY <1>1, <1>2 DEF ToldWhenMarked
<1>7. TroubleIsTold'
  BY <1>1 DEF TroubleIsTold
<1> QED BY <1>3, <1>5, <1>6, <1>7

LEMMA StartKeepsOps ==
  ASSUME OpsInv, DatabaseBreaks \/ OpsPollerStarts \/ HostStarts
  PROVE  OpsInv'
<1> USE OpsAssumption, OpsKeys DEF OpsInv, OpsTyped
<1>1. CASE DatabaseBreaks
  BY <1>1 DEF DatabaseBreaks, MarksAreTold, MarkedInTime, ToldWhenMarked, TroubleIsTold
<1>2. CASE OpsPollerStarts
  <2>1. /\ told' \in [PollerKeys -> 0 .. MaxUptime] /\ \A k \in PollerKeys : told'[k] = 0
        /\ forgotten' = forgotten \cup PollerKeys /\ opsFaults' \in 0 .. MaxOpsFaults
        /\ UNCHANGED <<uptime, idle, broken, opsCycle, state, met, silent, missed, bygone>>
    BY <1>2 DEF OpsPollerStarts
  <2>2. OpsTyped'
    BY <2>1
  <2>3. MarksAreTold' /\ ToldWhenMarked'
    BY <2>1 DEF MarksAreTold, MarkedInTime, ToldWhenMarked
  <2> QED BY <2>1, <2>2, <2>3 DEF TroubleIsTold
<1>3. CASE HostStarts
  <2>1. /\ uptime' = 1 /\ told' \in [PollerKeys -> 0 .. MaxUptime] /\ \A k \in PollerKeys : told'[k] = 0
        /\ forgotten' = forgotten \cup PollerKeys /\ opsFaults' \in 0 .. MaxOpsFaults
        /\ bygone' = {k \in ProbeKeys : state[k] # 0} /\ met' = {}
        /\ UNCHANGED <<idle, broken, opsCycle, state, silent, missed>>
    BY <1>3 DEF HostStarts
  <2>2. OpsTyped'
    BY <2>1
  <2>3. MarksAreTold'
    BY <2>1 DEF MarksAreTold, MarkedInTime
  <2>4. ToldWhenMarked'
    BY <2>1 DEF ToldWhenMarked
  <2> QED BY <2>1, <2>2, <2>3, <2>4 DEF TroubleIsTold
<1> QED BY <1>1, <1>2, <1>3

LEMMA OpsStep ==
  ASSUME OpsInv, [OpsNext]_opsVars
  PROVE  OpsInv'
<1>1. CASE UNCHANGED opsVars
  BY <1>1 DEF opsVars, OpsInv, OpsTyped, MarksAreTold, MarkedInTime, ToldWhenMarked, TroubleIsTold
<1> QED BY <1>1, CycleKeepsOps, ProbeKeepsOps, TimeKeepsOps, StartKeepsOps DEF OpsNext

\* Only what is posted and arrives sets the silence to zero, and what is posted was due.
LEMMA OpsToldOnce ==
  ASSUME OpsInv, [OpsNext]_opsVars, NEW k \in Keys, silent'[k] = 0, silent[k] # 0, k \notin forgotten
  PROVE  silent[k] >= Cooldown
<1> USE OpsAssumption, OpsKeys DEF OpsInv, OpsTyped
<1>1. CASE PollerCycles
  <2>1. PICK found : \E lost : Posted(Due(told, found), lost)
    BY <1>1 DEF PollerCycles
  <2>2. k \in PollerKeys => (told[k] = 0 \/ uptime - told[k] >= Cooldown)
    BY <2>1 DEF Posted, Due
  <2>3. k \in PollerKeys
    BY <1>1, OpsKeys DEF PollerCycles, Posted, Due, HealthChecks, PollerKeys
  <2> QED BY <2>2, <2>3 DEF MarksAreTold, MarkedInTime
<1>2. CASE ProbeRuns
  <2>1. PICK issues \in SUBSET ProbeKeys : \E lost : Posted(Due(state, issues), lost)
    BY <1>2 DEF ProbeRuns
  <2>2. k \in ProbeKeys /\ (state[k] = 0 \/ uptime - state[k] >= Cooldown)
    BY <2>1 DEF Posted, Due
  <2> QED BY <2>2 DEF MarksAreTold, MarkedInTime
<1>3. CASE TimePasses
  BY <1>3 DEF TimePasses, Older
<1>4. CASE DatabaseBreaks \/ OpsPollerStarts \/ HostStarts \/ UNCHANGED opsVars
  BY <1>4 DEF DatabaseBreaks, OpsPollerStarts, HostStarts, opsVars
<1> QED BY <1>1, <1>2, <1>3, <1>4 DEF OpsNext
-----------------------------------------------------------------------------
(* Price-drop alerts.                                                      *)

Fractions == [num : Nat, den : Nat \ {0}]
Alerts == [cycle : -1 .. MaxCycles, low : Fractions, price : Prices \cup {NoPrice},
           seller : Sellers \cup {0}]
Deals == [low : Fractions, cheapest : Prices \cup {NoPrice}, sellers : SUBSET Sellers,
          hidden : BOOLEAN, silenced : BOOLEAN]

AlertTyped ==
  /\ filtered \in BOOLEAN /\ poller \in {"down", "idle", "send", "store"}
  /\ cycle \in 0 .. MaxCycles /\ lastCycle \in 0 .. MaxCycles
  /\ history \in 0 .. HistoryCycles /\ polls \in 0 .. HistoryCycles
  /\ lastAlert \in Alerts /\ row \in Alerts /\ deal \in Deals
  /\ posted \in [price : Prices \cup {NoPrice}, seller : Sellers \cup {0}, hidden : BOOLEAN,
                 age : 0 .. CooldownCycles]
  /\ alertSpent \in 0 .. MaxAlertFaults /\ alertTorn \in SUBSET {"unsaved", "cleared"}

\* As long as the cycles are not counted anew, an alert's number makes it no younger than it is.
AgeFits(a, now) == (a.seller # 0 /\ "cleared" \notin alertTorn) => posted.age <= now - a.cycle

AgesFit ==
  /\ AgeFits(row, lastCycle)
  /\ poller # "down" => AgeFits(lastAlert, cycle)
  /\ "cleared" \notin alertTorn =>
       /\ poller # "down" => lastCycle <= cycle
       /\ poller \in {"send", "store"} => lastCycle = cycle

\* A deal under way is not silenced, and a process that is not there has none.
DealsAreLoud == poller # "idle" => ~deal.silenced

\* A fraction that a price comes to at some ratio.
Worth(low, price) == \E ratio \in Ratios : low = Mirrors(price, ratio)

\* An alert that was posted is remembered as it was, in memory and, once stored, in the row.
IsPosted(a) ==
  posted.seller # 0 =>
    a.price = posted.price /\ a.seller = posted.seller /\ (posted.hidden \/ Worth(a.low, a.price))

PostIsKept ==
  "unsaved" \notin alertTorn =>
    (poller # "store" => IsPosted(row)) /\ (poller # "down" => IsPosted(lastAlert))

\* What is about to be sent repeats nothing.
DealIsNews ==
  poller = "send" => /\ ~IsRepeat(lastAlert, deal, cycle)
                     /\ deal.hidden \/ Worth(deal.low, deal.cheapest)

AlertInv == AlertTyped /\ AgesFit /\ DealsAreLoud /\ PostIsKept /\ DealIsNews /\ HeldBackForCooldown

LEMMA MirrorsTyped ==
  ASSUME NEW p \in Prices \cup {NoPrice}, NEW ratio \in Ratios
  PROVE  Mirrors(p, ratio) \in Fractions
<1>1. p.amt \in Nat /\ ratio \in Nat \ {0}
  <2>1. CASE p \in Prices
    BY <2>1, AlertAssumption
  <2>2. CASE p = NoPrice
    BY <2>2, AlertAssumption DEF NoPrice
  <2> QED BY <2>1, <2>2
<1>2. p.amt * ratio \in Nat
  BY <1>1
<1> QED BY <1>1, <1>2 DEF Mirrors, Fractions

\* All values are at one ratio, so the least of them is that of the least numerator.
LEMMA CheapestIsOffered ==
  ASSUME NEW offers \in [Sellers -> Prices \cup {NoPrice}], NEW among \in SUBSET Selling(offers),
         among # {}, NEW ratio \in Ratios
  PROVE  Cheapest(offers, among, ratio) \in Prices
<1> DEFINE P == {offers[s] : s \in among}
           f == [p \in P |-> Mirrors(p, ratio).num]
<1>1. P \in SUBSET Prices /\ P # {} /\ IsFiniteSet(P)
  <2>1. P \in SUBSET Prices /\ P # {}
    BY DEF Selling
  <2> QED BY <2>1, AlertAssumption, FS_Subset
<1>2. \A p \in P : Mirrors(p, ratio).num \in Nat
  BY <1>1, MirrorsTyped DEF Fractions
<1>3. f \in [P -> Int]
  BY <1>2
<1>4. PICK m \in P : \A n \in P : f[m] <= f[n]
  <2> HIDE DEF P, f
  <2> QED BY <1>1, <1>3, FiniteHasLeast
<1>5. ASSUME NEW s \in among
      PROVE  ~Below(Mirrors(offers[s], ratio), Mirrors(m, ratio))
  <2> DEFINE x == Mirrors(offers[s], ratio).num
             y == Mirrors(m, ratio).num
  <2>1. ratio \in Nat /\ x \in Nat /\ y \in Nat /\ y <= x
    BY <1>2, <1>4, AlertAssumption
  <2>2. Mirrors(offers[s], ratio).den = ratio /\ Mirrors(m, ratio).den = ratio
    BY DEF Mirrors
  <2> HIDE DEF x, y
  <2>3. y * ratio <= x * ratio
    BY <2>1
  <2>4. ~(x * ratio < y * ratio)
    BY <2>1, <2>3
  <2> QED BY <2>2, <2>4 DEF Below, x, y
<1>6. \E p \in P : \A s \in among : ~Below(Mirrors(offers[s], ratio), Mirrors(p, ratio))
  BY <1>5
<1>7. Cheapest(offers, among, ratio) \in P
  BY <1>6 DEF Cheapest
<1> QED BY <1>1, <1>7

LEMMA DealIsSound ==
  ASSUME NEW offers \in [Sellers -> Prices \cup {NoPrice}], NEW shown \in SUBSET Selling(offers),
         shown # {}, NEW ratio \in Ratios
  PROVE  /\ Deal(offers, shown, ratio) \in Deals
         /\ \/ Deal(offers, shown, ratio).hidden
            \/ Worth(Deal(offers, shown, ratio).low, Deal(offers, shown, ratio).cheapest)
<1> DEFINE low == Cheapest(offers, Priced(offers, shown), ratio)
           seen == Cheapest(offers, shown, ratio)
<1>1. Priced(offers, shown) \in SUBSET Selling(offers) /\ Priced(offers, shown) # {}
  BY DEF Priced
<1>2. low \in Prices /\ seen \in Prices
  BY <1>1, CheapestIsOffered
<1>3. Mirrors(low, ratio) \in Fractions
  BY <1>2, MirrorsTyped
<1>4. SellersAt(offers, shown, seen) \in SUBSET Sellers
  BY DEF SellersAt, Selling
<1>5. Deal(offers, shown, ratio) =
        [low |-> Mirrors(low, ratio), cheapest |-> seen, sellers |-> SellersAt(offers, shown, seen),
         hidden |-> low # seen, silenced |-> FALSE]
  BY DEF Deal
<1> HIDE DEF low, seen
<1>6. Deal(offers, shown, ratio) \in Deals
  BY <1>2, <1>3, <1>4, <1>5 DEF Deals
<1>7. Deal(offers, shown, ratio).low = Mirrors(low, ratio) /\ Deal(offers, shown, ratio).cheapest = seen
  BY <1>5
<1>8. Deal(offers, shown, ratio).hidden = (low # seen)
  BY <1>5
<1>9. low = seen => Worth(Mirrors(low, ratio), seen)
  BY DEF Worth
<1> QED BY <1>6, <1>7, <1>8, <1>9

LEMMA Lengths ==
  ASSUME NEW n \in 0 .. HistoryCycles
  PROVE  Longer(n) \in 0 .. HistoryCycles /\ Min({n, HistoryCycles}) \in 0 .. HistoryCycles
BY AlertAssumption, MinOfTwo DEF Longer

LEMMA NothingTyped == NoAlert \in Alerts /\ LegacyRow \in Alerts /\ NoDeal \in Deals
<1>1. -1 \in -1 .. MaxCycles /\ 0 \in -1 .. MaxCycles
  BY AlertAssumption
<1>2. NoMirror \in Fractions /\ [num |-> 3, den |-> 5] \in Fractions
  BY DEF NoMirror, Fractions
<1>3. NoAlert \in Alerts
  BY <1>1, <1>2 DEF NoAlert, Alerts
<1>4. LegacyRow \in Alerts
  BY <1>1, <1>2, <1>3 DEF LegacyRow, Alerts, NoAlert
<1>5. NoDeal \in Deals
  BY <1>2 DEF NoDeal, Deals
<1> QED BY <1>3, <1>4, <1>5

LEMMA AlertInitInv == AlertInit => AlertInv
<1> SUFFICES ASSUME AlertInit PROVE AlertInv
  OBVIOUS
<1> USE AlertAssumption, NothingTyped
<1>1. AlertTyped
  <2>1. posted \in [price : Prices \cup {NoPrice}, seller : Sellers \cup {0}, hidden : BOOLEAN,
                    age : 0 .. CooldownCycles]
    BY DEF AlertInit
  <2>2. filtered \in BOOLEAN
    BY DEF AlertInit
  <2> QED BY <2>1, <2>2 DEF AlertTyped, AlertInit
<1>2. row.seller = 0
  <2>1. NoAlert.seller = 0 /\ LegacyRow.seller = 0
    BY DEF NoAlert, LegacyRow
  <2> QED BY <2>1 DEF AlertInit
<1>3. posted.seller = 0 /\ poller = "down" /\ ~deal.silenced
  BY DEF AlertInit, NoDeal
<1> QED BY <1>1, <1>2, <1>3 DEF AlertInv, AgesFit, AgeFits, DealsAreLoud, PostIsKept, IsPosted, DealIsNews,
                          HeldBackForCooldown

LEMMA PollKeepsAlerts ==
  ASSUME AlertInv, NEW offers \in [Sellers -> Prices \cup {NoPrice}], NEW hidden \in SUBSET MayHide(offers),
         NEW ratio \in Ratios, NEW check \in Checks,
         PollVariant(offers, Selling(offers) \ hidden, ratio, check)
  PROVE  AlertInv'
<1> USE AlertAssumption DEF AlertInv, AlertTyped
<1> DEFINE shown == Selling(offers) \ hidden
           d == Deal(offers, shown, ratio)
           due == shown # {} /\ check = "drop" /\ history >= HistoryCycles
           again == due /\ IsRepeat(lastAlert, d, cycle + 1)
<1>1. /\ poller = "idle" /\ cycle < MaxCycles /\ cycle' = cycle + 1 /\ lastCycle' = cycle + 1
      /\ deal' = (IF due THEN [d EXCEPT !.silenced = again] ELSE NoDeal)
      /\ poller' = (IF due /\ ~again THEN "send" ELSE "idle")
      /\ polls' = (IF shown # {} THEN Longer(polls) ELSE polls)
      /\ history' = (IF shown # {} /\ check # "off" /\ poller' = "idle" THEN Longer(history) ELSE history)
      /\ posted' = [posted EXCEPT !.age = Min({@ + 1, CooldownCycles})]
      /\ UNCHANGED <<filtered, lastAlert, row, alertSpent, alertTorn>>
  BY DEF PollVariant
<1>2. due => d \in Deals /\ (d.hidden \/ Worth(d.low, d.cheapest))
  BY DealIsSound
<1>3. again \in BOOLEAN
  OBVIOUS
<1> HIDE DEF d, again
<1>4. /\ deal' \in Deals
      /\ due => /\ deal'.silenced = again /\ deal'.low = d.low /\ deal'.cheapest = d.cheapest
                /\ deal'.sellers = d.sellers /\ deal'.hidden = d.hidden
      /\ ~due => ~deal'.silenced
  BY <1>1, <1>2, <1>3, NothingTyped DEF Deals, NoDeal
<1>5. due => (IsRepeat(lastAlert, deal', cycle + 1) <=> IsRepeat(lastAlert, d, cycle + 1))
  BY <1>4 DEF IsRepeat, SamePrice
<1>6. /\ posted' \in [price : Prices \cup {NoPrice}, seller : Sellers \cup {0}, hidden : BOOLEAN,
                      age : 0 .. CooldownCycles]
      /\ posted'.age <= posted.age + 1
      /\ posted'.price = posted.price /\ posted'.seller = posted.seller /\ posted'.hidden = posted.hidden
  <2>1. posted.age \in Nat /\ posted.age + 1 \in Nat /\ CooldownCycles \in Nat
    OBVIOUS
  <2>2. Min({posted.age + 1, CooldownCycles}) \in 0 .. CooldownCycles
        /\ Min({posted.age + 1, CooldownCycles}) <= posted.age + 1
    BY <2>1, MinOfTwo
  <2> QED BY <1>1, <2>2
<1>7. AlertTyped'
  <2>1. polls' \in 0 .. HistoryCycles /\ history' \in 0 .. HistoryCycles
    BY <1>1, Lengths
  <2>2. cycle' \in 0 .. MaxCycles /\ lastCycle' \in 0 .. MaxCycles
    BY <1>1
  <2>3. poller' \in {"down", "idle", "send", "store"}
    BY <1>1
  <2> QED BY <1>1, <1>4, <1>6, <2>1, <2>2, <2>3
<1>8. AgesFit'
  <2>1. /\ row.cycle \in Int /\ lastAlert.cycle \in Int /\ cycle \in Nat /\ lastCycle \in Nat
        /\ posted.age \in Nat /\ posted'.age \in Nat
    BY <1>6 DEF Alerts
  <2>2. ASSUME "cleared" \notin alertTorn, row.seller # 0
        PROVE  posted'.age <= (cycle + 1) - row.cycle
    <3>1. posted.age <= lastCycle - row.cycle /\ lastCycle <= cycle
      BY <1>1, <2>2 DEF AgesFit, AgeFits
    <3> QED BY <1>6, <2>1, <3>1
  <2>3. ASSUME "cleared" \notin alertTorn, lastAlert.seller # 0
        PROVE  posted'.age <= (cycle + 1) - lastAlert.cycle
    <3>1. posted.age <= cycle - lastAlert.cycle
      BY <1>1, <2>3 DEF AgesFit, AgeFits
    <3> QED BY <1>6, <2>1, <3>1
  <2>4. /\ row' = row /\ lastAlert' = lastAlert /\ alertTorn' = alertTorn
        /\ lastCycle' = cycle + 1 /\ cycle' = cycle + 1
    BY <1>1
  <2>6. row'.seller # 0 /\ "cleared" \notin alertTorn' => posted'.age <= lastCycle' - row'.cycle
    BY <2>2, <2>4
  <2>7. lastAlert'.seller # 0 /\ "cleared" \notin alertTorn' => posted'.age <= cycle' - lastAlert'.cycle
    BY <2>3, <2>4
  <2>5. lastCycle' <= cycle' /\ lastCycle' = cycle'
    BY <1>1, <2>1
  <2> QED BY <2>5, <2>6, <2>7 DEF AgesFit, AgeFits
<1>9. DealsAreLoud' /\ DealIsNews'
  <2>1. poller' = "send" => due /\ ~again
    BY <1>1
  <2>2. DealsAreLoud'
    BY <1>1, <1>4, <2>1 DEF DealsAreLoud
  <2>3. ASSUME poller' = "send"
        PROVE  ~IsRepeat(lastAlert, deal', cycle + 1) /\ (deal'.hidden \/ Worth(deal'.low, deal'.cheapest))
    BY <1>2, <1>4, <1>5, <2>1, <2>3 DEF again
  <2>4. DealIsNews'
    BY <1>1, <2>3 DEF DealIsNews, IsRepeat, SamePrice, Worth
  <2> QED BY <2>2, <2>4
<1>10. PostIsKept'
  BY <1>1, <1>6 DEF PostIsKept, IsPosted, Worth
<1>11. HeldBackForCooldown'
  <2> SUFFICES ASSUME deal'.silenced, lastAlert.seller \notin deal'.sellers \cup {0},
                      "cleared" \notin alertTorn
               PROVE  posted'.age < CooldownCycles
    BY <1>1 DEF HeldBackForCooldown
  <2>1. due /\ again
    BY <1>4
  <2>2. (cycle + 1) - lastAlert.cycle < CooldownCycles
    <3>1. IsRepeat(lastAlert, d, cycle + 1) /\ lastAlert.seller \notin d.sellers \cup {0}
      BY <1>4, <2>1 DEF again
    <3>2. \/ lastAlert.seller = 0 \/ lastAlert.seller \in d.sellers
          \/ (cycle + 1) - lastAlert.cycle < CooldownCycles
      BY <3>1, Zenon DEF IsRepeat
    <3>3. lastAlert.seller # 0 /\ lastAlert.seller \notin d.sellers
      BY <3>1
    <3> QED BY <3>2, <3>3, Zenon
  <2>3. posted.age <= cycle - lastAlert.cycle
    BY <1>1 DEF AgesFit, AgeFits
  <2>4. lastAlert.cycle \in Int /\ posted.age \in Nat /\ posted'.age \in Nat /\ cycle \in Nat
    BY <1>6 DEF Alerts
  <2> QED BY <1>6, <2>2, <2>3, <2>4
<1> QED BY <1>7, <1>8, <1>9, <1>10, <1>11

LEMMA SendKeepsAlerts ==
  ASSUME AlertInv, SendAlert
  PROVE  AlertInv'
<1> USE AlertAssumption DEF AlertInv, AlertTyped
<1>1. /\ poller = "send" /\ poller' = "store" /\ alertTorn' = alertTorn \ {"unsaved"}
      /\ UNCHANGED <<filtered, cycle, history, row, polls, lastCycle, deal, alertSpent>>
  BY DEF SendAlert
<1> DEFINE named == IF deal.sellers = {} THEN 0 ELSE Min(deal.sellers)
<1>2. named \in Sellers \cup {0}
  <2>1. deal.sellers \in SUBSET Sellers
    BY DEF Deals
  <2>2. IsFiniteSet(Sellers) /\ Sellers \in SUBSET Int
    OBVIOUS
  <2>3. IsFiniteSet(deal.sellers) /\ deal.sellers \in SUBSET Int
    BY <2>1, <2>2, FS_Subset
  <2> QED BY <2>1, <2>3, MinOfFinite
<1>3. /\ lastAlert' = [cycle |-> cycle, low |-> deal.low, price |-> deal.cheapest, seller |-> named]
      /\ posted' = [price |-> deal.cheapest, seller |-> named, hidden |-> deal.hidden, age |-> 0]
  BY DEF SendAlert
<1> HIDE DEF named
<1>4. lastAlert' \in Alerts
  BY <1>2, <1>3 DEF Alerts, Deals
<1>5. posted' \in [price : Prices \cup {NoPrice}, seller : Sellers \cup {0}, hidden : BOOLEAN,
                   age : 0 .. CooldownCycles]
  BY <1>2, <1>3 DEF Deals
<1>6. AlertTyped'
  BY <1>1, <1>4, <1>5
<1>7. AgesFit'
  <2>1. row.cycle \in Int /\ posted.age \in Nat /\ lastCycle \in Nat /\ cycle \in Nat
    BY DEF Alerts
  <2>2. AgeFits(row, lastCycle)'
    BY <1>1, <1>3, <2>1 DEF AgesFit, AgeFits
  <2>3. AgeFits(lastAlert, cycle)'
    BY <1>1, <1>3, <2>1 DEF AgeFits
  <2> QED BY <1>1, <2>2, <2>3 DEF AgesFit
<1>8. PostIsKept'
  <2>1. deal.hidden \/ Worth(deal.low, deal.cheapest)
    BY <1>1 DEF DealIsNews
  <2> QED BY <1>1, <1>3, <2>1 DEF PostIsKept, IsPosted, Worth
<1>9. ~deal'.silenced
  BY <1>1 DEF DealsAreLoud
<1> QED BY <1>1, <1>6, <1>7, <1>8, <1>9 DEF DealsAreLoud, DealIsNews, HeldBackForCooldown

LEMMA StoreKeepsAlerts ==
  ASSUME AlertInv, StoreAlert
  PROVE  AlertInv'
<1> USE AlertAssumption DEF AlertInv, AlertTyped
<1>1. /\ poller = "store" /\ poller' = "idle" /\ row' = lastAlert /\ history' = Longer(history) /\ deal' = NoDeal
      /\ UNCHANGED <<filtered, cycle, lastAlert, polls, lastCycle, posted, alertSpent, alertTorn>>
  BY DEF StoreAlert
<1>2. AlertTyped'
  BY <1>1, Lengths, NothingTyped
<1>3. AgesFit'
  BY <1>1 DEF AgesFit, AgeFits
<1>4. PostIsKept'
  BY <1>1 DEF PostIsKept, IsPosted, Worth
<1> QED BY <1>1, <1>2, <1>3, <1>4 DEF DealsAreLoud, DealIsNews, HeldBackForCooldown, NoDeal

LEMMA FailureKeepsAlerts ==
  ASSUME AlertInv, CycleFails \/ PollerDies \/ AdminClears
  PROVE  AlertInv'
<1> USE AlertAssumption DEF AlertInv, AlertTyped
<1>1. /\ alertSpent' \in 0 .. MaxAlertFaults /\ alertTorn \in SUBSET alertTorn'
      /\ alertTorn' \in SUBSET {"unsaved", "cleared"} /\ UNCHANGED <<filtered, row, posted>>
  <2>1. PICK e \in {{}, {"unsaved"}, {"cleared"}} : Faults(e)
    BY DEF CycleFails, PollerDies, AdminClears
  <2>2. alertSpent' \in 0 .. MaxAlertFaults
    BY <2>1 DEF Faults
  <2>3. alertTorn \in SUBSET alertTorn' /\ alertTorn' \in SUBSET {"unsaved", "cleared"}
    BY <2>1 DEF Faults
  <2> QED BY <2>2, <2>3 DEF CycleFails, PollerDies, AdminClears
<1>2. CASE CycleFails
  <2>1. /\ poller = "idle" /\ cycle < MaxCycles /\ cycle' = cycle + 1 /\ alertTorn' = alertTorn
        /\ UNCHANGED <<poller, history, lastAlert, polls, lastCycle, deal>>
    BY <1>2 DEF CycleFails, Faults
  <2>2. lastAlert.cycle \in Int /\ posted.age \in Nat /\ cycle \in Nat /\ lastCycle \in Nat
    BY DEF Alerts
  <2>3. AgesFit'
    BY <1>1, <2>1, <2>2 DEF AgesFit, AgeFits
  <2>4. PostIsKept'
    BY <1>1, <2>1 DEF PostIsKept, IsPosted, Worth
  <2> QED BY <1>1, <2>1, <2>3, <2>4 DEF DealsAreLoud, DealIsNews, HeldBackForCooldown
<1>3. CASE PollerDies
  <2>1. /\ poller # "down" /\ poller' = "down" /\ cycle' = 0 /\ history' = 0 /\ lastAlert' = NoAlert
        /\ deal' = NoDeal /\ UNCHANGED <<polls, lastCycle>>
        /\ poller = "store" => "unsaved" \in alertTorn'
    BY <1>3 DEF PollerDies, Faults
  <2>2. AlertTyped'
    BY <1>1, <2>1, NothingTyped
  <2>3. AgesFit'
    BY <1>1, <2>1 DEF AgesFit, AgeFits
  <2>4. PostIsKept'
    BY <1>1, <2>1 DEF PostIsKept, IsPosted, Worth
  <2> QED BY <2>1, <2>2, <2>3, <2>4 DEF DealsAreLoud, DealIsNews, HeldBackForCooldown, NoDeal
<1>4. CASE AdminClears
  <2>1. /\ polls' = 0 /\ lastCycle' = 0 /\ "cleared" \in alertTorn'
        /\ UNCHANGED <<poller, cycle, history, lastAlert, deal>>
    BY <1>4 DEF AdminClears, Faults
  <2>2. DealIsNews'
    BY <2>1 DEF DealIsNews, IsRepeat, SamePrice, Worth
  <2>3. AgesFit'
    BY <2>1 DEF AgesFit, AgeFits
  <2>4. PostIsKept'
    BY <1>1, <2>1 DEF PostIsKept, IsPosted, Worth
  <2> QED BY <1>1, <2>1, <2>2, <2>3, <2>4 DEF DealsAreLoud, HeldBackForCooldown
<1> QED BY <1>2, <1>3, <1>4

LEMMA StartKeepsAlerts ==
  ASSUME AlertInv, PollerStarts
  PROVE  AlertInv'
<1> USE AlertAssumption DEF AlertInv, AlertTyped
<1>1. /\ poller = "down" /\ poller' = "idle" /\ cycle' = lastCycle /\ history' = SeededHistory
      /\ lastAlert' = row
      /\ UNCHANGED <<filtered, row, polls, lastCycle, deal, posted, alertSpent, alertTorn>>
  BY DEF PollerStarts, SeededCycle
<1>2. history' \in 0 .. HistoryCycles
  BY <1>1, Lengths DEF SeededHistory
<1>3. AgesFit'
  BY <1>1 DEF AgesFit, AgeFits
<1>4. PostIsKept'
  BY <1>1 DEF PostIsKept, IsPosted, Worth
<1> QED BY <1>1, <1>2, <1>3, <1>4 DEF DealsAreLoud, DealIsNews, HeldBackForCooldown

LEMMA AlertStep ==
  ASSUME AlertInv, [AlertNext]_alertVars
  PROVE  AlertInv'
<1>1. CASE UNCHANGED alertVars
  <2>1. AlertTyped' /\ AgesFit' /\ DealsAreLoud' /\ HeldBackForCooldown'
    BY <1>1 DEF alertVars, AlertInv, AlertTyped, AgesFit, AgeFits, DealsAreLoud, HeldBackForCooldown
  <2>2. PostIsKept'
    BY <1>1 DEF alertVars, AlertInv, PostIsKept, IsPosted, Worth
  <2>3. DealIsNews'
    BY <1>1 DEF alertVars, AlertInv, DealIsNews, IsRepeat, SamePrice, Worth
  <2> QED BY <2>1, <2>2, <2>3 DEF AlertInv
<1> QED BY <1>1, PollKeepsAlerts, SendKeepsAlerts, StoreKeepsAlerts, FailureKeepsAlerts, StartKeepsAlerts
        DEF AlertNext

\* One native price is the same price, at whatever two ratios it was valued.
LEMMA OnePrice ==
  ASSUME NEW p \in Prices \cup {NoPrice}, NEW r1 \in Ratios, NEW r2 \in Ratios, NEW last, NEW d,
         last.price = p, d.cheapest = p, last.low = Mirrors(p, r1), d.low = Mirrors(p, r2)
  PROVE  SamePrice(last, d)
<1>1. r1 \in Nat /\ r2 \in Nat
  BY AlertAssumption
<1>4. p.amt \in Nat /\ (p.cur \in {"mirror", "divine"} \/ p = NoPrice)
  <2>1. CASE p \in Prices
    BY <2>1, AlertAssumption
  <2>2. NoPrice.amt = 0
    BY DEF NoPrice
  <2> QED BY <2>1, <2>2
<1>2. CASE p.cur = "divine"
  <2>1. Diff(p.amt, p.amt) = 0
    BY <1>4 DEF Diff
  <2>2. 0 <= Max({100, 2 * p.amt})
    BY <1>4, MaxOfTwo
  <2> QED BY <1>2, <2>1, <2>2 DEF SamePrice
<1>3. CASE p.cur = "mirror"
  <2>1. last.low.num = p.amt * r1 /\ last.low.den = r1 /\ d.low.num = p.amt * r2 /\ d.low.den = r2
    BY <1>3 DEF Mirrors
  <2>2. (p.amt * r1) * r2 = (p.amt * r2) * r1 /\ (p.amt * r1) * r2 \in Nat /\ r1 * r2 \in Nat
    BY <1>1, <1>4
  <2>3. Diff((p.amt * r1) * r2, (p.amt * r2) * r1) = 0
    BY <2>2 DEF Diff
  <2>4. 0 <= Max({r1 * r2, (p.amt * r1) * r2})
    BY <2>2, MaxOfTwo
  <2> QED BY <1>3, <2>1, <2>3, <2>4 DEF SamePrice
<1>5. CASE p = NoPrice
  <2>4. NoPrice.cur = "" /\ NoPrice.amt = 0
    BY DEF NoPrice
  <2>0. p.cur \notin {"mirror", "divine"} /\ p.amt = 0
    BY <1>5, <2>4
  <2>1. last.low.num = 0 /\ last.low.den = r1 /\ d.low.num = 0 /\ d.low.den = r2
    BY <2>0 DEF Mirrors
  <2>2. 0 * r2 = 0 /\ 0 * r1 = 0 /\ r1 * r2 \in Nat
    BY <1>1
  <2>5. Diff(0 * r2, 0 * r1) = 0
    BY <2>2 DEF Diff
  <2>3. 0 <= Max({r1 * r2, 0 * r2})
    BY <2>2, MaxOfTwo
  <2> QED BY <1>5, <2>0, <2>1, <2>3, <2>5 DEF SamePrice
<1> QED BY <1>2, <1>3, <1>4, <1>5

LEMMA QuietStep ==
  ASSUME AlertInv, SendAlert, ~deal.hidden, ~posted.hidden, "unsaved" \notin alertTorn,
         posted.price = deal.cheapest, posted.seller \in deal.sellers
  PROVE  FALSE
<1>1. poller = "send" /\ posted.seller # 0
  BY AlertAssumption DEF SendAlert, AlertInv, AlertTyped, Deals
<1>2. IsPosted(lastAlert) /\ ~IsRepeat(lastAlert, deal, cycle) /\ Worth(deal.low, deal.cheapest)
  BY <1>1 DEF AlertInv, PostIsKept, DealIsNews
<1>3. /\ lastAlert.price = deal.cheapest /\ lastAlert.seller \in deal.sellers
      /\ lastAlert.seller # 0 /\ Worth(lastAlert.low, deal.cheapest)
  BY <1>1, <1>2 DEF IsPosted
<1>4. lastAlert # NoAlert
  BY <1>3 DEF NoAlert
<1>5. ~SamePrice(lastAlert, deal)
  BY <1>2, <1>3, <1>4 DEF IsRepeat
<1>6. deal.cheapest \in Prices \cup {NoPrice}
  BY DEF AlertInv, AlertTyped, Deals
<1> QED BY <1>2, <1>3, <1>5, <1>6, OnePrice DEF Worth
-----------------------------------------------------------------------------
(* The pacing of requests.                                                 *)

MaxOfFinite(S) == Max(S) \in S /\ \A n \in S : n <= Max(S)

LEMMA MaxIsGreatest ==
  ASSUME NEW S \in SUBSET Int, IsFiniteSet(S), S # {}
  PROVE  MaxOfFinite(S)
<1> DEFINE f == [n \in S |-> -n]
<1>1. f \in [S -> Int] /\ \A n \in S : f[n] = -n
  OBVIOUS
<1>2. PICK m \in S : \A n \in S : f[m] <= f[n]
  <2> HIDE DEF f
  <2> QED BY <1>1, FiniteHasLeast
<1>3. \A n \in S : m >= n
  <2> HIDE DEF f
  <2> QED BY <1>1, <1>2
<1> QED BY <1>3 DEF Max, MaxOfFinite

LEMMA FiniteImage ==
  ASSUME NEW S, IsFiniteSet(S), NEW T, NEW f \in [S -> T], T = {f[x] : x \in S}
  PROVE  IsFiniteSet(T)
<1>1. f \in Surjection(S, T)
  BY DEF Surjection
<1> QED BY <1>1, FS_Surjection

\* What holds of a position and of every earlier one holds of the first positions.
LEMMA InitialSegment ==
  ASSUME NEW n \in Nat, NEW U \in SUBSET (1 .. n),
         \A i, j \in 1 .. n : i <= j /\ j \in U => i \in U
  PROVE  Cardinality(U) \in 0 .. n /\ U = 1 .. Cardinality(U)
<1>1. CASE U = {}
  BY <1>1, FS_EmptySet
<1>2. CASE U # {}
  <2>1. IsFiniteSet(U)
    <3>1. IsFiniteSet(1 .. n)
      BY FS_Interval
    <3> QED BY <3>1, FS_Subset
  <2>4. U \in SUBSET Int
    OBVIOUS
  <2>2. PICK m \in U : \A i \in U : i <= m
    BY <1>2, <2>1, <2>4, MaxIsGreatest DEF MaxOfFinite
  <2>3. m \in 1 .. n /\ U = 1 .. m
    <3>1. \A i \in 1 .. n : i <= m => i \in U
      BY <2>2
    <3>2. m \in 1 .. n /\ \A i \in 1 .. m : i \in 1 .. n /\ i <= m
      OBVIOUS
    <3>3. \A i \in U : i \in 1 .. m
      BY <2>2
    <3> QED BY <3>1, <3>2, <3>3
  <2>5. Cardinality(1 .. m) = m
    BY <2>3, FS_Interval
  <2> QED BY <2>3, <2>5
<1> QED BY <1>1, <1>2

\* As many natural delays as a window has requests outlast the window.
LEMMA DelaysFillTheWindow ==
  ASSUME NEW w \in Limits
  PROVE  /\ NaturalDelay(w) \in Nat
         /\ \A n \in Nat : n >= w.max => n * NaturalDelay(w) >= w.span
<1>1. /\ w.max \in Nat \ {0} /\ w.span \in Nat \ {0}
      /\ (11 * w.span) % (10 * w.max) = 0
  BY LimiterAssumption DEF LimiterAssumption
<1>2. PICK a \in Nat, b \in Nat \ {0} : a = 11 * w.span /\ b = 10 * w.max
  BY <1>1
<1>3. PICK d \in Nat : d = a \div b /\ b * d = a
  <2>1. PICK c \in Int : a = b * c
    <3>1. a \in Int /\ b \in Int /\ b > 0 /\ a % b = 0
      BY <1>1, <1>2
    <3> QED BY <3>1, SMTT(30)
  <2>2. a \div b = c
    <3>1. a \in Int /\ b \in Int /\ b > 0
      OBVIOUS
    <3> QED BY <2>1, <3>1, SMTT(30)
  <2>3. c >= 0
    <3>1. c < 0 => b * c < 0
      OBVIOUS
    <3> QED BY <2>1, <3>1
  <2> QED BY <2>1, <2>2, <2>3
<1>4. NaturalDelay(w) = d
  BY <1>2, <1>3 DEF NaturalDelay
<1>5. 10 * (w.max * d) = 11 * w.span
  <2>1. (10 * w.max) * d = 10 * (w.max * d)
    BY <1>1
  <2> QED BY <1>2, <1>3, <2>1
<1>6. w.max * d >= w.span
  <2>1. w.max * d \in Nat
    BY <1>1
  <2> QED BY <1>1, <1>5, <2>1
<1>7. ASSUME NEW n \in Nat, n >= w.max
      PROVE  n * d >= w.span
  <2>1. n * d = w.max * d + (n - w.max) * d
    BY <1>1
  <2>2. (n - w.max) * d >= 0
    BY <1>1, <1>7
  <2>3. w.max * d \in Nat /\ (n - w.max) * d \in Nat
    BY <1>1, <1>7
  <2> QED BY <1>1, <1>6, <2>1, <2>2, <2>3
<1> QED BY <1>4, <1>7

\* The requests a server counted of a policy, the newest first.
LogOfRequests(ages) ==
  /\ ages \in Seq(Nat)
  /\ \A i \in DOMAIN ages : ages[i] < Longest
  /\ \A i, j \in DOMAIN ages : i <= j => ages[i] <= ages[j]

\* Each request came a natural delay after the one before, and those that fill a window but
\* for one are out of it, when the wait is over; "spared" requests were not waited for.
Spaced(ages, w, ticks, spared) ==
  \A i \in DOMAIN ages : /\ ages[i] + ticks >= (i - spared) * NaturalDelay(w)
                         /\ i >= (w.max - 1) + spared => ages[i] + ticks >= w.span

LEMMA WindowTypes ==
  ASSUME NEW w \in Limits
  PROVE  /\ w.max \in Nat \ {0} /\ w.span \in Nat \ {0} /\ w.span <= Longest
         /\ Longest \in Nat \ {0}
<1> DEFINE spans == {v.span : v \in Limits}
           f == [v \in Limits |-> v.span]
<1>1. \A v \in Limits : v.max \in Nat \ {0} /\ v.span \in Nat \ {0}
  BY LimiterAssumption DEF LimiterAssumption
<1>2. IsFiniteSet(spans)
  <2>1. IsFiniteSet(Limits) /\ f \in [Limits -> spans] /\ spans = {f[v] : v \in Limits}
    BY LimiterAssumption DEF LimiterAssumption
  <2> HIDE DEF f, spans
  <2> QED BY <2>1, FiniteImage
<1>3. MaxOfFinite(spans)
  BY <1>1, <1>2, MaxIsGreatest
<1> QED BY <1>1, <1>3 DEF Longest, MaxOfFinite

LEMMA UsedAreNewest ==
  ASSUME NEW ages, LogOfRequests(ages), NEW w \in Limits
  PROVE  /\ Used(ages, w) \in 0 .. Len(ages)
         /\ \A i \in DOMAIN ages : ages[i] < w.span <=> i <= Used(ages, w)
<1> DEFINE U == {i \in DOMAIN ages : ages[i] < w.span}
<1>1. w.span \in Nat
  BY WindowTypes
<1>2. /\ Len(ages) \in Nat /\ DOMAIN ages = 1 .. Len(ages) /\ U \in SUBSET (1 .. Len(ages))
      /\ \A i, j \in 1 .. Len(ages) : i <= j /\ j \in U => i \in U
  BY <1>1 DEF LogOfRequests
<1>3. Cardinality(U) \in 0 .. Len(ages) /\ U = 1 .. Cardinality(U)
  <2> HIDE DEF U
  <2> QED BY <1>2, InitialSegment
<1> QED BY <1>2, <1>3 DEF Used

\* A log that is spaced but for one request takes another.
LEMMA RoomForAnother ==
  ASSUME NEW ages, LogOfRequests(ages), NEW w \in Limits, Spaced(ages, w, 0, 1)
  PROVE  ~(Used(ages, w) >= w.max)
<1> SUFFICES ASSUME Used(ages, w) >= w.max PROVE FALSE
  OBVIOUS
<1>1. w.max \in Nat \ {0} /\ w.span \in Nat
  BY WindowTypes
<1>2. w.max \in DOMAIN ages /\ ages[w.max] < w.span
  BY <1>1, UsedAreNewest DEF LogOfRequests
<1>3. ages[w.max] + 0 >= w.span
  BY <1>1, <1>2 DEF Spaced
<1> QED BY <1>1, <1>2, <1>3 DEF LogOfRequests

LEMMA ReserveOfWindow ==
  ASSUME NEW max \in Nat, max > 1
  PROVE  Reserve(max) \in Nat /\ Reserve(max) >= 1
<1>1. ReservePct \in Nat
  BY LimiterAssumption DEF LimiterAssumption
<1>2. PICK n \in Nat : n = max * ReservePct + 99
  BY <1>1
<1>3. PICK q \in Int : q = n \div 100
  OBVIOUS
<1>4. PICK m \in Int : m = Max({1, q}) /\ m >= 1
  BY MaxOfTwo
<1>5. Reserve(max) = Min({max - 1, m})
  BY <1>2, <1>3, <1>4 DEF Reserve
<1>6. max - 1 \in Int /\ max - 1 >= 1
  OBVIOUS
<1>7. Min({max - 1, m}) = IF max - 1 <= m THEN max - 1 ELSE m
  BY <1>4, <1>6, MinOfTwo
<1> QED BY <1>4, <1>5, <1>6, <1>7

\* What a request adds: the ages move up by one.
LEMMA Recorded ==
  ASSUME NEW ages, LogOfRequests(ages)
  PROVE  /\ LogOfRequests(<<0>> \o ages)
         /\ DOMAIN (<<0>> \o ages) = 1 .. (Len(ages) + 1)
         /\ \A i \in 1 .. (Len(ages) + 1) : (<<0>> \o ages)[i] = IF i = 1 THEN 0 ELSE ages[i - 1]
<1> DEFINE more == <<0>> \o ages
<1>1. Longest \in Nat \ {0}
  BY LimiterAssumption, WindowTypes DEF LimiterAssumption
<1>2. /\ ages \in Seq(Nat) /\ Len(ages) \in Nat /\ DOMAIN ages = 1 .. Len(ages)
      /\ \A i \in 1 .. Len(ages) : ages[i] \in Nat /\ ages[i] < Longest
      /\ \A i, j \in 1 .. Len(ages) : i <= j => ages[i] <= ages[j]
  BY DEF LogOfRequests
<1>3. /\ more \in Seq(Nat) /\ DOMAIN more = 1 .. (Len(ages) + 1)
      /\ \A i \in 1 .. (Len(ages) + 1) : more[i] = IF i = 1 THEN 0 ELSE ages[i - 1]
  BY <1>2
<1>4. \A i \in DOMAIN more : more[i] < Longest
  BY <1>1, <1>2, <1>3
<1>5. \A i, j \in DOMAIN more : i <= j => more[i] <= more[j]
  BY <1>2, <1>3
<1> QED BY <1>3, <1>4, <1>5 DEF LogOfRequests

\* A request that no wait was kept before uses the room of one.
LEMMA UnpacedRequest ==
  ASSUME NEW ages, LogOfRequests(ages), NEW w \in Limits, w.max > 1, NEW ticks \in Nat,
         Spaced(ages, w, ticks, 0)
  PROVE  Spaced(<<0>> \o ages, w, ticks, 1)
<1> DEFINE more == <<0>> \o ages
<1>1. /\ w.max \in Nat \ {0} /\ w.span \in Nat /\ NaturalDelay(w) \in Nat
  BY WindowTypes, DelaysFillTheWindow
<1>2. PICK d \in Nat : d = NaturalDelay(w)
  BY <1>1
<1>3. /\ Len(ages) \in Nat /\ DOMAIN ages = 1 .. Len(ages)
      /\ DOMAIN more = 1 .. (Len(ages) + 1)
      /\ \A i \in 1 .. (Len(ages) + 1) : more[i] = IF i = 1 THEN 0 ELSE ages[i - 1]
  BY Recorded DEF LogOfRequests
<1>4. ASSUME NEW i \in DOMAIN more
      PROVE  /\ more[i] + ticks >= (i - 1) * d
             /\ i >= (w.max - 1) + 1 => more[i] + ticks >= w.span
  <2>1. CASE i = 1
    BY <1>1, <1>3, <2>1
  <2>2. CASE i > 1
    <3>1. i - 1 \in DOMAIN ages /\ more[i] = ages[i - 1]
      BY <1>3, <2>2
    <3>2. PICK j \in DOMAIN ages : j = i - 1
      BY <3>1
    <3>3. ages[j] + ticks >= (j - 0) * d /\ (j >= (w.max - 1) + 0 => ages[j] + ticks >= w.span)
      BY <1>2 DEF Spaced
    <3>4. (j - 0) * d = (i - 1) * d
      BY <1>3, <3>2
    <3> QED BY <1>1, <1>3, <3>1, <3>2, <3>3, <3>4
  <2> QED BY <1>3, <2>1, <2>2
<1> QED
  <2> HIDE DEF more
  <2>1. Spaced(more, w, ticks, 1)
    BY <1>2, <1>4 DEF Spaced
  <2> QED BY <2>1 DEF more

\* A request that the wait was kept before keeps the spacing, when the wait after it is that of
\* its answer.
LEMMA PacedRequest ==
  ASSUME NEW ages, LogOfRequests(ages), NEW w \in Limits, w.max > 1, NEW ticks \in Nat,
         NEW spared \in {0, 1}, Spaced(ages, w, 0, spared),
         ticks >= NaturalDelay(w),
         Used(<< 0 >> \o ages, w) >= w.max - 1 => ticks >= 4 * NaturalDelay(w)
  PROVE  Spaced(<< 0 >> \o ages, w, ticks, spared)
<1> DEFINE more == << 0 >> \o ages
<1>1. w.max \in Nat \ {0} /\ w.span \in Nat
  BY WindowTypes
<1>2. PICK d \in Nat : /\ d = NaturalDelay(w)
                       /\ \A n \in Nat : n >= w.max => n * d >= w.span
  BY DelaysFillTheWindow
<1>3. /\ Len(ages) \in Nat /\ DOMAIN ages = 1 .. Len(ages) /\ LogOfRequests(more)
      /\ DOMAIN more = 1 .. (Len(ages) + 1)
      /\ \A i \in 1 .. (Len(ages) + 1) : more[i] \in Nat /\ more[i] = IF i = 1 THEN 0 ELSE ages[i - 1]
  <2>1. LogOfRequests(more)
    BY Recorded
  <2> QED BY <2>1, Recorded DEF LogOfRequests
<1>4. ASSUME NEW i \in DOMAIN more
      PROVE  more[i] >= ((i - 1) - spared) * d
  <2>1. CASE i = 1
    <3>1. ((i - 1) - spared) * d <= 0
      BY <2>1
    <3> QED BY <1>3, <2>1, <3>1
  <2>2. CASE i > 1
    <3>1. i - 1 \in DOMAIN ages /\ more[i] = ages[i - 1]
      BY <1>3, <2>2
    <3>2. PICK j \in DOMAIN ages : j = i - 1
      BY <3>1
    <3>3. ages[j] + 0 >= (j - spared) * d
      BY <1>2 DEF Spaced
    <3> QED BY <1>3, <3>1, <3>2, <3>3
  <2> QED BY <1>3, <2>1, <2>2
<1>5. ASSUME NEW i \in DOMAIN more
      PROVE  more[i] + ticks >= (i - spared) * d
  <2>1. (i - spared) * d = ((i - 1) - spared) * d + d
    BY <1>3
  <2>2. PICK x \in Int : x = ((i - 1) - spared) * d
    BY <1>3
  <2>3. PICK y \in Nat : y = more[i]
    BY <1>3
  <2>4. y >= x /\ ticks >= d
    BY <1>2, <1>4, <2>2, <2>3
  <2>5. y + ticks >= x + d
    BY <2>4
  <2> HIDE DEF more
  <2> QED BY <2>1, <2>2, <2>3, <2>5
<1>6. ASSUME NEW i \in DOMAIN more, i >= (w.max - 1) + spared
      PROVE  more[i] + ticks >= w.span
  <2>1. CASE more[i] >= w.span
    BY <1>1, <1>3, <2>1
  <2>2. CASE more[i] < w.span
    <3>1. i <= Used(more, w) /\ Used(more, w) \in Nat
      <4> HIDE DEF more
      <4> QED BY <1>3, <2>2, UsedAreNewest
    <3>2. ticks >= 4 * d
      BY <1>1, <1>2, <1>3, <1>6, <3>1
    <3>3. ((i - 1) - spared) * d + 4 * d = ((i + 3) - spared) * d
      BY <1>3
    <3>4. (i + 3) - spared \in Nat /\ (i + 3) - spared >= w.max
      BY <1>1, <1>3, <1>6
    <3>5. ((i + 3) - spared) * d >= w.span
      BY <1>2, <3>4
    <3>6. PICK x \in Int : x = ((i - 1) - spared) * d
      BY <1>3
    <3>7. PICK y \in Nat : y = more[i]
      BY <1>3
    <3>8. y >= x
      BY <1>4, <3>6, <3>7
    <3>9. y + ticks >= x + 4 * d
      BY <3>2, <3>8
    <3>10. x + 4 * d >= w.span
      BY <3>3, <3>5, <3>6
    <3>11. y + ticks >= w.span
      BY <1>1, <3>9, <3>10
    <3> HIDE DEF more
    <3> QED BY <3>7, <3>11
  <2> QED BY <1>1, <1>3, <2>1, <2>2
<1> QED
  <2> HIDE DEF more
  <2>1. Spaced(more, w, ticks, spared)
    BY <1>2, <1>5, <1>6 DEF Spaced
  <2> QED BY <2>1 DEF more

\* A tick keeps the newest requests, all of them a tick older.
LEMMA AgedLog ==
  ASSUME NEW ages, LogOfRequests(ages)
  PROVE  /\ LogOfRequests(Aged(ages))
         /\ DOMAIN Aged(ages) \subseteq DOMAIN ages
         /\ \A i \in DOMAIN Aged(ages) : Aged(ages)[i] = ages[i] + 1
<1> DEFINE U == {j \in DOMAIN ages : ages[j] + 1 < Longest}
           k == Cardinality(U)
<1>1. Longest \in Nat
  BY LimiterAssumption, WindowTypes DEF LimiterAssumption
<1>2. /\ Len(ages) \in Nat /\ DOMAIN ages = 1 .. Len(ages) /\ U \in SUBSET (1 .. Len(ages))
      /\ \A i \in 1 .. Len(ages) : ages[i] \in Nat
      /\ \A i, j \in 1 .. Len(ages) : i <= j => ages[i] <= ages[j]
  BY DEF LogOfRequests
<1>3. \A i, j \in 1 .. Len(ages) : i <= j /\ j \in U => i \in U
  BY <1>1, <1>2
<1>4. k \in 0 .. Len(ages) /\ U = 1 .. k
  <2> HIDE DEF U
  <2> QED BY <1>2, <1>3, InitialSegment
<1>5. Aged(ages) = [i \in 1 .. k |-> ages[i] + 1]
  BY DEF Aged
<1>6. \A i \in 1 .. k : i \in DOMAIN ages /\ ages[i] \in Nat /\ ages[i] + 1 < Longest
  BY <1>2, <1>4
<1> HIDE DEF k
<1>7. Aged(ages) \in Seq(Nat) /\ DOMAIN Aged(ages) = 1 .. k
  BY <1>4, <1>5, <1>6
<1>8. \A i, j \in 1 .. k : i <= j => ages[i] + 1 <= ages[j] + 1
  BY <1>2, <1>6
<1> QED BY <1>2, <1>5, <1>6, <1>7, <1>8 DEF LogOfRequests

LEMMA SpacedInATick ==
  ASSUME NEW ages, LogOfRequests(ages), NEW w \in Limits, NEW ticks \in Nat, NEW later \in Nat,
         later >= ticks - 1, NEW spared \in {0, 1}, Spaced(ages, w, ticks, spared)
  PROVE  Spaced(Aged(ages), w, later, spared)
<1>1. w.max \in Nat \ {0} /\ w.span \in Nat
  BY WindowTypes
<1>2. PICK d \in Nat : d = NaturalDelay(w)
  BY DelaysFillTheWindow
<1>3. ASSUME NEW i \in DOMAIN Aged(ages)
      PROVE  /\ Aged(ages)[i] + later >= (i - spared) * d
             /\ i >= (w.max - 1) + spared => Aged(ages)[i] + later >= w.span
  <2>1. i \in DOMAIN ages /\ Aged(ages)[i] = ages[i] + 1
    BY AgedLog
  <2>2. i \in Nat /\ ages[i] \in Nat
    BY <2>1 DEF LogOfRequests
  <2>3. /\ ages[i] + ticks >= (i - spared) * d
        /\ i >= (w.max - 1) + spared => ages[i] + ticks >= w.span
    BY <1>2, <2>1 DEF Spaced
  <2>4. (i - spared) * d \in Int
    BY <2>2
  <2> QED BY <1>1, <2>1, <2>2, <2>3, <2>4
<1> QED BY <1>2, <1>3 DEF Spaced

\* The wait an answer says: at least the natural delay of each window, four of them when only
\* the reserve is left, and longer than the block of a refusal.
LEMMA WaitOfAnswer ==
  ASSUME NEW ages, LogOfRequests(ages), NEW block \in Nat, NEW refused \in BOOLEAN,
         \A w \in Limits : w.max > 1
  PROVE  /\ ComputedWait(Windows(ages, block), refused) \in Nat
         /\ \A w \in Limits :
              /\ ComputedWait(Windows(ages, block), refused) >= NaturalDelay(w)
              /\ Used(ages, w) >= w.max - 1
                   => ComputedWait(Windows(ages, block), refused) >= 4 * NaturalDelay(w)
         /\ refused /\ block > 0 => ComputedWait(Windows(ages, block), refused) > block
<1> DEFINE V(w) == [max |-> w.max, span |-> w.span, used |-> Used(ages, w), retry |-> block]
           f == [w \in Limits |-> PacedWait(V(w))]
           g == [w \in Limits |-> BlockWait(V(w), refused)]
           F == {f[w] : w \in Limits}
           G == {g[w] : w \in Limits}
           S == UNION {{PacedWait(v), BlockWait(v, refused)} : v \in Windows(ages, block)}
<1>1. S = F \cup G
  <2>1. Windows(ages, block) = {V(w) : w \in Limits}
    BY DEF Windows
  <2>2. \A w \in Limits : f[w] = PacedWait(V(w)) /\ g[w] = BlockWait(V(w), refused)
    OBVIOUS
  <2>3. S = UNION {{f[w], g[w]} : w \in Limits}
    <3>1. {{PacedWait(v), BlockWait(v, refused)} : v \in Windows(ages, block)}
            = {{f[w], g[w]} : w \in Limits}
      <4> HIDE DEF V, f, g
      <4> QED BY <2>1, <2>2
    <3> QED BY <3>1
  <2> HIDE DEF V, f, g, S
  <2> QED BY <2>3
<1>2. ASSUME NEW w \in Limits
      PROVE  /\ f[w] \in Nat /\ f[w] >= NaturalDelay(w)
             /\ Used(ages, w) >= w.max - 1 => f[w] >= 4 * NaturalDelay(w)
  <2>1. /\ w.max \in Nat /\ w.max > 1 /\ w.span \in Nat /\ Used(ages, w) \in Nat
    BY WindowTypes, UsedAreNewest DEF LogOfRequests
  <2>2. PICK d \in Nat : d = NaturalDelay(w)
    BY DelaysFillTheWindow
  <2>3. NaturalDelay(V(w)) = d
    BY <2>2 DEF NaturalDelay
  <2>4. PICK r \in Nat : r = Max({0, w.max - Used(ages, w)}) /\ (Used(ages, w) >= w.max - 1 => r <= 1)
    BY <2>1, MaxOfTwo
  <2>5. PICK s \in Nat : s = Reserve(w.max) /\ s >= 1
    BY <2>1, ReserveOfWindow
  <2>6. f[w] = d * (IF r <= s THEN 4 ELSE IF 100 * r <= 8 * w.max THEN 3
                     ELSE IF 100 * r <= 15 * w.max THEN 2 ELSE 1)
    BY <2>3, <2>4, <2>5 DEF PacedWait
  <2>7. \/ f[w] = d * 4
        \/ r > s /\ (f[w] = d * 3 \/ f[w] = d * 2 \/ f[w] = d * 1)
    <3>1. CASE r <= s
      BY <2>6, <3>1
    <3>2. CASE ~(r <= s)
      <4>1. r > s
        BY <2>4, <2>5, <3>2
      <4>2. \/ f[w] = d * 3
            \/ f[w] = d * 2
            \/ f[w] = d * 1
        <5>1. CASE 100 * r <= 8 * w.max
          BY <2>6, <3>2, <5>1
        <5>2. CASE ~(100 * r <= 8 * w.max) /\ 100 * r <= 15 * w.max
          BY <2>6, <3>2, <5>2
        <5>3. CASE ~(100 * r <= 8 * w.max) /\ ~(100 * r <= 15 * w.max)
          BY <2>6, <3>2, <5>3
        <5> QED BY <5>1, <5>2, <5>3
      <4> QED BY <4>1, <4>2
    <3> QED BY <3>1, <3>2
  <2> HIDE DEF f
  <2> QED BY <2>2, <2>4, <2>5, <2>7
<1>3. ASSUME NEW w \in Limits
      PROVE  g[w] \in Nat /\ (refused /\ block > 0 => g[w] = block + 1)
  BY DEF BlockWait
<1> HIDE DEF f, g
<1>4. IsFiniteSet(F) /\ IsFiniteSet(G)
  <2>1. IsFiniteSet(Limits) /\ f \in [Limits -> F] /\ g \in [Limits -> G]
    BY LimiterAssumption DEF LimiterAssumption, f, g
  <2> QED BY <2>1, FiniteImage
<1>5. MaxOfFinite(F \cup G)
  <2>1. F \cup G \in SUBSET Int
    BY <1>2, <1>3
  <2>3. F # {}
    <3>1. PICK w \in Limits : TRUE
      BY LimiterAssumption DEF LimiterAssumption
    <3>2. f[w] \in F
      OBVIOUS
    <3> QED BY <3>2
  <2>2. IsFiniteSet(F \cup G)
    BY <1>4, FS_Union
  <2> QED BY <2>1, <2>2, <2>3, MaxIsGreatest
<1>6. ComputedWait(Windows(ages, block), refused) = Max(F \cup G)
  BY <1>1 DEF ComputedWait
<1>7. PICK m \in F \cup G : m = Max(F \cup G) /\ \A n \in F \cup G : n <= m
  BY <1>5 DEF MaxOfFinite
<1>8. m \in Nat /\ \A w \in Limits : f[w] <= m /\ g[w] <= m
  BY <1>2, <1>3, <1>7
<1>9. \A w \in Limits : NaturalDelay(w) \in Nat
  BY DelaysFillTheWindow
<1>10. \A w \in Limits : m >= NaturalDelay(w) /\ (Used(ages, w) >= w.max - 1 => m >= 4 * NaturalDelay(w))
  BY <1>2, <1>8, <1>9
<1>11. refused /\ block > 0 => m > block
  BY <1>3, <1>8, LimiterAssumption DEF LimiterAssumption
<1> QED BY <1>6, <1>7, <1>8, <1>10, <1>11

Knows(p) == \E b \in known : policyOf[b] = p

\* The requests of a policy are spaced: but for one, as long as at most one was not paced, and but
\* for those not paced after its first, once the wait is over, for a process that knows the policy.
Pacing(p) ==
  /\ unpaced[p] = 0 => log[p] = <<>> /\ ~Knows(p)
  /\ unpaced[p] <= 1 => \A w \in Limits : Spaced(log[p], w, 0, 1)
  /\ unpaced[p] <= 2 /\ Knows(p) =>
       \A w \in Limits : Spaced(log[p], w, wait[p], IF unpaced[p] = 2 THEN 1 ELSE 0)

LimiterTyped ==
  /\ policyOf \in [Buckets -> Policies] /\ known \in SUBSET Buckets
  /\ DOMAIN log = Policies /\ \A p \in Policies : LogOfRequests(log[p])
  /\ blocked \in [Policies -> 0 .. Penalty] /\ toldBlock \in [Policies -> 0 .. Penalty]
  /\ wait \in [Policies -> Nat] /\ unpaced \in [Policies -> 0 .. 3]
  /\ disturbed \in 0 .. MaxDisturbances

\* The wait outlasts what the process was told of a block.
Blocks(p) ==
  /\ toldBlock[p] <= wait[p] /\ toldBlock[p] <= blocked[p]
  /\ unpaced[p] <= 2 => blocked[p] = 0

LimiterInv == LimiterTyped /\ \A p \in Policies : Pacing(p) /\ Blocks(p)

LEMMA LimiterInitInv == LimiterInit => LimiterInv
<1> SUFFICES ASSUME LimiterInit PROVE LimiterInv
  OBVIOUS
<1> USE LimiterAssumption DEF LimiterAssumption, LimiterInit
<1>1. LogOfRequests(<<>>)
  BY DEF LogOfRequests
<1>2. LimiterTyped
  BY <1>1 DEF LimiterTyped
<1>3. ASSUME NEW p \in Policies
      PROVE  Pacing(p) /\ Blocks(p)
  BY DEF Pacing, Blocks, Knows, Spaced
<1> QED BY <1>2, <1>3 DEF LimiterInv

\* What the server does with a request: nothing is refused while the log has room.
LEMMA CountsOf ==
  ASSUME LimiterInv, NEW p \in Policies, Counts(p)
  PROVE  /\ DOMAIN log' = Policies /\ blocked' \in [Policies -> 0 .. Penalty]
         /\ \A q \in Policies : q # p => log'[q] = log[q] /\ blocked'[q] = blocked[q]
         /\ LogOfRequests(log'[p])
         /\ blocked[p] <= blocked'[p]
         /\ (unpaced[p] <= 2 /\ \A w \in Limits : Spaced(log[p], w, 0, 1))
              => ~Refuses(p) /\ log'[p] = <<0>> \o log[p] /\ blocked'[p] = 0
<1> USE LimiterAssumption DEF LimiterAssumption, LimiterInv, LimiterTyped
<1>1. ASSUME unpaced[p] <= 2, \A w \in Limits : Spaced(log[p], w, 0, 1)
      PROVE  ~Refuses(p)
  <2>1. blocked[p] = 0
    BY <1>1 DEF Blocks
  <2>2. \A w \in Limits : ~(Used(log[p], w) >= w.max)
    BY <1>1, RoomForAnother
  <2> QED BY <2>1, <2>2 DEF Refuses
<1>2. CASE Refuses(p)
  BY <1>1, <1>2 DEF Counts
<1>3. CASE ~Refuses(p)
  <2>1. LogOfRequests(<<0>> \o log[p])
    BY Recorded
  <2>2. log' = [log EXCEPT ![p] = <<0>> \o @] /\ blocked' = blocked
    BY <1>3 DEF Counts
  <2>3. unpaced[p] <= 2 => blocked[p] = 0
    BY DEF Blocks
  <2> QED BY <2>1, <2>2, <2>3, <1>3
<1> QED BY <1>2, <1>3

\* What a request that is not paced does to the spacing of its policy.
LEMMA NotPacedOf ==
  ASSUME LimiterInv, NEW p \in Policies, NotPaced(p)
  PROVE  /\ unpaced' \in [Policies -> 0 .. 3]
         /\ \A q \in Policies : unpaced'[q] = IF q # p THEN unpaced[q]
                                              ELSE IF unpaced[p] = 3 THEN 3 ELSE unpaced[p] + 1
<1>1. PICK n \in 0 .. 3 : n = unpaced[p]
  BY DEF LimiterInv, LimiterTyped
<1>2. Min({n + 1, 3}) = IF n = 3 THEN 3 ELSE n + 1
  BY MinOfTwo
<1> QED BY <1>1, <1>2 DEF NotPaced, LimiterInv, LimiterTyped

\* Requests the process was not told the answer of, and those of others.
LEMMA UntoldStep ==
  ASSUME LimiterInv, \A w \in Limits : w.max > 1, NEW p \in Policies,
         Counts(p), NotPaced(p), Disturbs, UNCHANGED <<policyOf, known, wait, toldBlock>>
  PROVE  LimiterInv'
<1> USE LimiterAssumption DEF LimiterAssumption
<1>1. LimiterTyped'
  <2>1. disturbed' \in 0 .. MaxDisturbances
    BY DEF Disturbs, LimiterInv, LimiterTyped
  <2>2. \A q \in Policies : LogOfRequests(log'[q])
    BY CountsOf DEF LimiterInv, LimiterTyped
  <2> QED BY <2>1, <2>2, CountsOf, NotPacedOf DEF LimiterInv, LimiterTyped
<1>2. ASSUME NEW q \in Policies
      PROVE  Pacing(q)' /\ Blocks(q)'
  <2>1. Knows(q)' = Knows(q)
    BY DEF Knows
  <2>2. CASE q # p
    <3>1. /\ log'[q] = log[q] /\ blocked'[q] = blocked[q] /\ unpaced'[q] = unpaced[q]
          /\ wait'[q] = wait[q] /\ toldBlock'[q] = toldBlock[q]
      BY <2>2, CountsOf, NotPacedOf
    <3> QED BY <2>1, <3>1 DEF LimiterInv, Pacing, Blocks
  <2>3. CASE q = p
    <3>1. /\ unpaced[p] \in 0 .. 3 /\ wait[p] \in Nat /\ LogOfRequests(log[p])
          /\ wait'[p] = wait[p] /\ toldBlock'[p] = toldBlock[p]
          /\ toldBlock[p] \in Nat /\ blocked[p] \in Nat /\ blocked'[p] \in Nat
      BY CountsOf DEF LimiterInv, LimiterTyped
    <3>2. Pacing(p) /\ Blocks(p)
      BY DEF LimiterInv
    <3>3. CASE unpaced[p] = 0
      <4>1. log[p] = <<>> /\ ~Knows(p) /\ \A w \in Limits : Spaced(log[p], w, 0, 1)
        BY <3>2, <3>3 DEF Pacing
      <4>2. unpaced'[p] = 1 /\ log'[p] = <<0>> \o log[p] /\ blocked'[p] = 0
        <5>1. unpaced[p] <= 2
          BY <3>3
        <5>2. unpaced'[p] = 1
          BY <3>3, NotPacedOf
        <5> QED BY <4>1, <5>1, <5>2, CountsOf
      <4>3. \A w \in Limits : Spaced(log[p], w, 0, 0)
        BY <4>1 DEF Spaced
      <4>4. \A w \in Limits : Spaced(<<0>> \o log[p], w, 0, 1)
        BY <3>1, <4>3, UnpacedRequest
      <4> QED BY <2>1, <2>3, <3>1, <3>2, <3>3, <4>1, <4>2, <4>4 DEF Pacing, Blocks
    <3>4. CASE unpaced[p] = 1
      <4>1. \A w \in Limits : Spaced(log[p], w, 0, 1)
        BY <3>2, <3>4 DEF Pacing
      <4>2. unpaced'[p] = 2 /\ log'[p] = <<0>> \o log[p] /\ blocked'[p] = 0
        <5>1. unpaced[p] <= 2
          BY <3>4
        <5>2. unpaced'[p] = 2
          BY <3>4, NotPacedOf
        <5> QED BY <4>1, <5>1, <5>2, CountsOf
      <4>3. ASSUME Knows(p)
            PROVE  \A w \in Limits : Spaced(<<0>> \o log[p], w, wait[p], 1)
        <5>1. \A w \in Limits : Spaced(log[p], w, wait[p], 0)
          BY <3>2, <3>4, <4>3 DEF Pacing
        <5> QED BY <3>1, <5>1, UnpacedRequest
      <4> QED BY <2>1, <2>3, <3>1, <3>2, <3>4, <4>2, <4>3 DEF Pacing, Blocks
    <3>5. CASE unpaced[p] >= 2
      <4>1. unpaced'[p] = 3
        BY <3>1, <3>5, NotPacedOf
      <4>2. Pacing(p)'
        BY <4>1 DEF Pacing
      <4>3. blocked[p] <= blocked'[p]
        BY CountsOf
      <4> QED BY <2>3, <3>1, <3>2, <4>1, <4>2, <4>3 DEF Blocks
    <3> QED BY <3>1, <3>3, <3>4, <3>5
  <2> QED BY <2>2, <2>3
<1> QED BY <1>1, <1>2 DEF LimiterInv

LEMMA RestartStep ==
  ASSUME LimiterInv, LimiterRestarts
  PROVE  LimiterInv'
<1> USE LimiterAssumption DEF LimiterAssumption, LimiterRestarts
<1>1. LimiterTyped'
  BY DEF LimiterInv, LimiterTyped, Disturbs
<1>2. ASSUME NEW p \in Policies
      PROVE  Pacing(p)' /\ Blocks(p)'
  <2>1. ~Knows(p)'
    BY DEF Knows
  <2>2. Pacing(p) /\ Blocks(p) /\ blocked[p] \in Nat
    BY DEF LimiterInv, LimiterTyped
  <2>3. wait'[p] = 0 /\ toldBlock'[p] = 0
    OBVIOUS
  <2> QED BY <2>1, <2>2, <2>3 DEF Pacing, Blocks
<1> QED BY <1>1, <1>2 DEF LimiterInv

LEMMA SoonerIs ==
  ASSUME NEW ticks, NEW p \in Policies, ticks[p] \in Nat
  PROVE  /\ Sooner(ticks)[p] = IF ticks[p] = 0 THEN 0 ELSE ticks[p] - 1
         /\ Sooner(ticks)[p] \in Nat
<1>1. PICK n \in Nat : n = ticks[p]
  OBVIOUS
<1>2. Max({0, n - 1}) = IF n = 0 THEN 0 ELSE n - 1
  BY MaxOfTwo
<1> QED BY <1>1, <1>2 DEF Sooner

LEMMA TickStep ==
  ASSUME LimiterInv, Tick
  PROVE  LimiterInv'
<1> USE LimiterAssumption DEF LimiterAssumption
<1>1. ASSUME NEW p \in Policies
      PROVE  /\ log'[p] = Aged(log[p]) /\ LogOfRequests(log[p]) /\ LogOfRequests(log'[p])
             /\ blocked[p] \in 0 .. Penalty /\ toldBlock[p] \in 0 .. Penalty /\ wait[p] \in Nat
             /\ blocked'[p] = (IF blocked[p] = 0 THEN 0 ELSE blocked[p] - 1)
             /\ toldBlock'[p] = (IF toldBlock[p] = 0 THEN 0 ELSE toldBlock[p] - 1)
             /\ wait'[p] = (IF wait[p] = 0 THEN 0 ELSE wait[p] - 1)
             /\ unpaced'[p] = unpaced[p] /\ unpaced[p] \in 0 .. 3
  <2>1. LogOfRequests(log[p]) /\ log'[p] = Aged(log[p])
    BY DEF Tick, LimiterInv, LimiterTyped
  <2>2. LogOfRequests(log'[p])
    BY <2>1, AgedLog
  <2>3. blocked[p] \in 0 .. Penalty /\ toldBlock[p] \in 0 .. Penalty /\ wait[p] \in Nat
        /\ unpaced[p] \in 0 .. 3
    BY DEF LimiterInv, LimiterTyped
  <2>4. blocked' = Sooner(blocked) /\ toldBlock' = Sooner(toldBlock) /\ wait' = Sooner(wait)
        /\ unpaced' = unpaced
    BY DEF Tick
  <2>5. blocked[p] \in Nat /\ toldBlock[p] \in Nat
    BY <2>3
  <2>6. /\ Sooner(blocked)[p] = (IF blocked[p] = 0 THEN 0 ELSE blocked[p] - 1)
        /\ Sooner(toldBlock)[p] = (IF toldBlock[p] = 0 THEN 0 ELSE toldBlock[p] - 1)
        /\ Sooner(wait)[p] = (IF wait[p] = 0 THEN 0 ELSE wait[p] - 1)
    BY <2>3, <2>5, SoonerIs
  <2> QED BY <2>1, <2>2, <2>3, <2>4, <2>6
<1>2. LimiterTyped'
  <2>1. DOMAIN log' = Policies /\ UNCHANGED <<policyOf, known, unpaced, disturbed>>
    BY DEF Tick
  <2>2. blocked' \in [Policies -> 0 .. Penalty]
    <3>1. blocked' = [p \in Policies |-> blocked'[p]]
      BY DEF Tick, Sooner
    <3>2. \A p \in Policies : blocked'[p] \in 0 .. Penalty
      BY <1>1
    <3> QED BY <3>1, <3>2
  <2>3. toldBlock' \in [Policies -> 0 .. Penalty]
    <3>1. toldBlock' = [p \in Policies |-> toldBlock'[p]]
      BY DEF Tick, Sooner
    <3>2. \A p \in Policies : toldBlock'[p] \in 0 .. Penalty
      BY <1>1
    <3> QED BY <3>1, <3>2
  <2>4. wait' \in [Policies -> Nat]
    <3>1. wait' = [p \in Policies |-> wait'[p]]
      BY DEF Tick, Sooner
    <3>2. \A p \in Policies : wait'[p] \in Nat
      BY <1>1
    <3> QED BY <3>1, <3>2
  <2>5. \A p \in Policies : LogOfRequests(log'[p])
    BY <1>1
  <2> QED BY <2>1, <2>2, <2>3, <2>4, <2>5 DEF LimiterInv, LimiterTyped
<1>3. ASSUME NEW p \in Policies
      PROVE  Pacing(p)' /\ Blocks(p)'
  <2>1. Knows(p)' = Knows(p)
    BY DEF Tick, Knows
  <2>2. Pacing(p) /\ Blocks(p)
    BY DEF LimiterInv
  <2>3. ASSUME unpaced[p] = 0
        PROVE  log'[p] = <<>> /\ ~Knows(p)
    <3>1. log[p] = <<>> /\ ~Knows(p)
      BY <2>2, <2>3 DEF Pacing
    <3>2. DOMAIN Aged(log[p]) \subseteq DOMAIN log[p] /\ DOMAIN log[p] = {}
      BY <1>1, <3>1, AgedLog
    <3>3. log'[p] \in Seq(Nat) /\ DOMAIN log'[p] = {}
      BY <1>1, <3>2 DEF LogOfRequests
    <3>4. PICK ages \in Seq(Nat) : ages = log'[p] /\ DOMAIN ages = {}
      BY <3>3
    <3>5. Len(ages) \in Nat /\ 1 \notin 1 .. Len(ages)
      <4>1. Len(ages) \in Nat /\ DOMAIN ages = 1 .. Len(ages)
        OBVIOUS
      <4> QED BY <3>4, <4>1
    <3>6. Len(ages) = 0
      BY <3>5
    <3> QED BY <3>1, <3>4, <3>6
  <2>4. ASSUME unpaced[p] <= 1
        PROVE  \A w \in Limits : Spaced(log'[p], w, 0, 1)
    <3>1. \A w \in Limits : Spaced(log[p], w, 0, 1)
      BY <2>2, <2>4 DEF Pacing
    <3> QED BY <1>1, <3>1, SpacedInATick
  <2>5. ASSUME unpaced[p] <= 2, Knows(p)
        PROVE  \A w \in Limits : Spaced(log'[p], w, wait'[p], IF unpaced[p] = 2 THEN 1 ELSE 0)
    <3>1. PICK e \in {0, 1} : e = IF unpaced[p] = 2 THEN 1 ELSE 0
      BY <1>1
    <3>2. \A w \in Limits : Spaced(log[p], w, wait[p], e)
      BY <2>2, <2>5, <3>1 DEF Pacing
    <3>3. wait[p] \in Nat /\ wait'[p] \in Nat /\ wait'[p] >= wait[p] - 1
      BY <1>1
    <3>4. \A w \in Limits : Spaced(Aged(log[p]), w, wait'[p], e)
      BY <1>1, <3>2, <3>3, SpacedInATick
    <3> QED BY <1>1, <3>1, <3>4
  <2>6. Pacing(p)'
    <3>1. unpaced'[p] = unpaced[p]
      BY <1>1
    <3> QED BY <2>1, <2>3, <2>4, <2>5, <3>1 DEF Pacing
  <2>7. Blocks(p)'
    BY <1>1, <2>2 DEF Blocks
  <2> QED BY <2>6, <2>7
<1> QED BY <1>2, <1>3 DEF LimiterInv

\* A request whose answer says the wait.
LEMMA RequestStep ==
  ASSUME LimiterInv, \A w \in Limits : w.max > 1, NEW b \in Buckets, Request(b)
  PROVE  LimiterInv'
<1> USE LimiterAssumption DEF LimiterAssumption
<1>0. PICK p \in Policies : p = policyOf[b]
  BY DEF LimiterInv, LimiterTyped
<1>1. /\ p \in Policies /\ MayRequest(b) /\ Counts(p) /\ known' = known \union {b}
      /\ UNCHANGED <<policyOf, disturbed>>
      /\ wait' = [wait EXCEPT ![p] = Max({@, ComputedWait(Windows(log'[p], blocked'[p]), Refuses(p))})]
      /\ toldBlock' = [toldBlock EXCEPT ![p] = IF Refuses(p) THEN blocked'[p] ELSE @]
      /\ IF b \in known THEN UNCHANGED unpaced ELSE NotPaced(p)
  BY <1>0 DEF Request
<1>2. /\ LogOfRequests(log[p]) /\ LogOfRequests(log'[p]) /\ wait[p] \in Nat /\ unpaced[p] \in 0 .. 3
      /\ blocked[p] \in 0 .. Penalty /\ blocked'[p] \in 0 .. Penalty /\ toldBlock[p] \in 0 .. Penalty
      /\ blocked[p] <= blocked'[p] /\ Pacing(p) /\ Blocks(p)
  <2>1. LogOfRequests(log'[p]) /\ blocked'[p] \in 0 .. Penalty /\ blocked[p] <= blocked'[p]
    BY <1>1, CountsOf
  <2> QED BY <1>1, <2>1 DEF LimiterInv, LimiterTyped
<1>3. PICK asked \in Nat :
        /\ asked = ComputedWait(Windows(log'[p], blocked'[p]), Refuses(p))
        /\ \A w \in Limits : /\ asked >= NaturalDelay(w)
                             /\ Used(log'[p], w) >= w.max - 1 => asked >= 4 * NaturalDelay(w)
        /\ Refuses(p) /\ blocked'[p] > 0 => asked > blocked'[p]
  <2>1. Refuses(p) \in BOOLEAN /\ blocked'[p] \in Nat
    BY <1>2 DEF Refuses
  <2> QED BY <1>2, <2>1, WaitOfAnswer
<1>4. wait'[p] \in Nat /\ wait'[p] >= asked /\ wait'[p] >= wait[p]
  <2>1. wait'[p] = Max({wait[p], asked})
    BY <1>1, <1>3 DEF LimiterInv, LimiterTyped
  <2> QED BY <1>2, <1>3, <2>1, MaxOfTwo
<1>5. /\ \A q \in Policies : unpaced'[q] \in 0 .. 3 /\ (q # p => unpaced'[q] = unpaced[q])
      /\ unpaced' \in [Policies -> 0 .. 3]
      /\ unpaced'[p] = (IF b \in known \/ unpaced[p] = 3 THEN unpaced[p] ELSE unpaced[p] + 1)
  <2>1. CASE b \in known
    BY <1>1, <2>1 DEF LimiterInv, LimiterTyped
  <2>2. CASE b \notin known
    <3>1. NotPaced(p)
      BY <1>1, <2>2
    <3> QED BY <1>1, <2>2, <3>1, NotPacedOf
  <2> QED BY <2>1, <2>2
<1>6. LimiterTyped'
  <2>1. DOMAIN log' = Policies /\ blocked' \in [Policies -> 0 .. Penalty]
        /\ \A q \in Policies : q # p => log'[q] = log[q]
    BY <1>1, CountsOf
  <2>2. \A q \in Policies : LogOfRequests(log'[q])
    BY <1>2, <2>1 DEF LimiterInv, LimiterTyped
  <2>3. wait' \in [Policies -> Nat]
    BY <1>1, <1>4 DEF LimiterInv, LimiterTyped
  <2>4. toldBlock' \in [Policies -> 0 .. Penalty]
    BY <1>1, <1>2 DEF LimiterInv, LimiterTyped
  <2>5. policyOf' \in [Buckets -> Policies] /\ known' \in SUBSET Buckets /\ disturbed' \in 0 .. MaxDisturbances
    BY <1>1 DEF LimiterInv, LimiterTyped
  <2> QED BY <1>5, <2>1, <2>2, <2>3, <2>4, <2>5 DEF LimiterTyped
\* The other policies are as they were.
<1>7. ASSUME NEW q \in Policies, q # p
      PROVE  Pacing(q)' /\ Blocks(q)'
  <2>1. Knows(q)' = Knows(q)
    BY <1>0, <1>1, <1>7 DEF Knows
  <2>2. log'[q] = log[q] /\ blocked'[q] = blocked[q]
    BY <1>1, <1>7, CountsOf
  <2>3. unpaced'[q] = unpaced[q] /\ wait'[q] = wait[q] /\ toldBlock'[q] = toldBlock[q]
    BY <1>1, <1>5, <1>7 DEF LimiterInv, LimiterTyped
  <2> QED BY <2>1, <2>2, <2>3 DEF LimiterInv, Pacing, Blocks
<1>8. ASSUME unpaced'[p] <= 2
      PROVE  unpaced[p] <= 2 /\ \A w \in Limits : Spaced(log[p], w, 0, 1)
  <2>1. unpaced[p] <= 2
    BY <1>2, <1>5, <1>8
  <2>2. CASE unpaced[p] <= 1
    BY <1>2, <2>1, <2>2 DEF Pacing
  <2>3. CASE unpaced[p] = 2
    <3>1. b \in known
      BY <1>2, <1>5, <1>8, <2>3
    <3>2. Knows(p) /\ wait[p] = 0
      BY <1>0, <1>1, <3>1 DEF Knows, MayRequest
    <3> QED BY <1>2, <2>3, <3>2 DEF Pacing
  <2> QED BY <1>2, <2>1, <2>2, <2>3
<1>9. ASSUME unpaced'[p] <= 2
      PROVE  ~Refuses(p) /\ log'[p] = <<0>> \o log[p] /\ blocked'[p] = 0
  <2>1. unpaced[p] <= 2 /\ \A w \in Limits : Spaced(log[p], w, 0, 1)
    BY <1>8, <1>9
  <2> QED BY <1>1, <2>1, CountsOf
<1>10. Blocks(p)'
  <2>1. toldBlock'[p] = IF Refuses(p) THEN blocked'[p] ELSE toldBlock[p]
    BY <1>1 DEF LimiterInv, LimiterTyped
  <2>2. CASE Refuses(p)
    <3>1. toldBlock'[p] = blocked'[p]
      BY <2>1, <2>2
    <3>2. blocked'[p] <= wait'[p]
      <4>1. blocked'[p] > 0 => asked > blocked'[p]
        BY <1>3, <2>2
      <4>2. wait'[p] \in Nat /\ wait'[p] >= asked /\ asked \in Nat /\ blocked'[p] \in Nat
        BY <1>2, <1>4
      <4> QED BY <4>1, <4>2
    <3>3. ~(unpaced'[p] <= 2)
      BY <1>9, <2>2
    <3> QED BY <1>2, <3>1, <3>2, <3>3 DEF Blocks
  <2>3. CASE ~Refuses(p)
    BY <1>2, <1>3, <1>4, <1>9, <2>1, <2>3 DEF Blocks
  <2> QED BY <2>2, <2>3
<1>11. ASSUME NEW e \in {0, 1}, unpaced'[p] <= 2, \A w \in Limits : Spaced(log[p], w, 0, e)
       PROVE  \A w \in Limits : Spaced(log'[p], w, wait'[p], e)
  <2>1. log'[p] = <<0>> \o log[p]
    BY <1>9, <1>11
  <2>2. \A w \in Limits : NaturalDelay(w) \in Nat
    BY DelaysFillTheWindow
  <2>3. \A w \in Limits : /\ wait'[p] >= NaturalDelay(w)
                          /\ Used(<<0>> \o log[p], w) >= w.max - 1 => wait'[p] >= 4 * NaturalDelay(w)
    BY <1>3, <1>4, <2>1, <2>2
  <2> QED BY <1>2, <1>4, <1>11, <2>1, <2>3, PacedRequest
<1>12. ASSUME unpaced'[p] <= 2, \A w \in Limits : Spaced(log[p], w, 0, 0)
       PROVE  \A w \in Limits : Spaced(log'[p], w, 0, 1)
  <2>1. log'[p] = <<0>> \o log[p]
    BY <1>9, <1>12
  <2> QED BY <1>2, <1>12, <2>1, UnpacedRequest
<1>13. Pacing(p)'
  <2>1. CASE b \in known
    <3>1. unpaced'[p] = unpaced[p] /\ Knows(p) /\ wait[p] = 0 /\ unpaced[p] # 0
      BY <1>0, <1>1, <1>2, <1>5, <2>1 DEF Knows, MayRequest, Pacing
    <3>2. CASE unpaced[p] = 1
      <4>1. \A w \in Limits : Spaced(log[p], w, 0, 0)
        BY <1>2, <3>1, <3>2 DEF Pacing
      <4>2. \A w \in Limits : Spaced(log'[p], w, wait'[p], 0) /\ Spaced(log'[p], w, 0, 1)
        BY <1>11, <1>12, <3>1, <3>2, <4>1
      <4> QED BY <3>1, <3>2, <4>2 DEF Pacing
    <3>3. CASE unpaced[p] = 2
      <4>1. \A w \in Limits : Spaced(log[p], w, 0, 1)
        BY <1>2, <3>1, <3>3 DEF Pacing
      <4>2. \A w \in Limits : Spaced(log'[p], w, wait'[p], 1)
        BY <1>11, <3>1, <3>3, <4>1
      <4> QED BY <3>1, <3>3, <4>2 DEF Pacing
    <3>4. CASE unpaced[p] = 3
      BY <3>1, <3>4 DEF Pacing
    <3> QED BY <1>2, <3>1, <3>2, <3>3, <3>4
  <2>2. CASE b \notin known
    <3>1. unpaced'[p] = IF unpaced[p] = 3 THEN 3 ELSE unpaced[p] + 1
      BY <1>5, <2>2
    <3>2. CASE unpaced[p] = 0
      <4>1. log[p] = <<>> /\ unpaced'[p] = 1
        BY <1>2, <3>1, <3>2 DEF Pacing
      <4>2. \A w \in Limits : Spaced(log[p], w, 0, 0)
        BY <4>1 DEF Spaced
      <4>3. \A w \in Limits : Spaced(log'[p], w, wait'[p], 0) /\ Spaced(log'[p], w, 0, 1)
        BY <1>11, <1>12, <4>1, <4>2
      <4> QED BY <4>1, <4>3 DEF Pacing
    <3>3. CASE unpaced[p] = 1
      <4>1. (\A w \in Limits : Spaced(log[p], w, 0, 1)) /\ unpaced'[p] = 2
        BY <1>2, <3>1, <3>3 DEF Pacing
      <4>2. \A w \in Limits : Spaced(log'[p], w, wait'[p], 1)
        BY <1>11, <4>1
      <4> QED BY <4>1, <4>2 DEF Pacing
    <3>4. CASE unpaced[p] \in {2, 3}
      <4>1. unpaced'[p] = 3
        BY <3>1, <3>4
      <4> QED BY <4>1 DEF Pacing
    <3> QED BY <1>2, <3>2, <3>3, <3>4
  <2> QED BY <2>1, <2>2
<1> QED BY <1>6, <1>7, <1>10, <1>13 DEF LimiterInv

LEMMA LimiterStep ==
  ASSUME LimiterInv, \A w \in Limits : w.max > 1, [LimiterNext]_limiterVars
  PROVE  LimiterInv'
<1>1. CASE UNCHANGED limiterVars
  BY <1>1 DEF limiterVars, LimiterInv, LimiterTyped, Pacing, Blocks, Knows
<1>2. ASSUME NEW b \in Buckets, Request(b)
      PROVE  LimiterInv'
  BY <1>2, RequestStep
<1>3. ASSUME NEW b \in Buckets, RequestUnanswered(b)
      PROVE  LimiterInv'
  <2>1. policyOf[b] \in Policies
    BY DEF LimiterInv, LimiterTyped
  <2> QED BY <1>3, <2>1, UntoldStep DEF RequestUnanswered
<1>4. ASSUME NEW p \in Policies, OthersRequest(p)
      PROVE  LimiterInv'
  BY <1>4, UntoldStep DEF OthersRequest
<1> QED BY <1>1, <1>2, <1>3, <1>4, RestartStep, TickStep DEF LimiterNext

LEMMA LimiterInvOf ==
  ASSUME LimiterInv
  PROVE  LimiterTypeOK /\ RoomForOne
<1>1. ASSUME NEW p \in Policies
      PROVE  /\ \A i \in DOMAIN log[p] : log[p][i] \in 0 .. (Longest - 1)
             /\ blocked[p] \in 0 .. Penalty /\ toldBlock[p] \in 0 .. blocked[p]
             /\ wait[p] \in Nat
  <2>1. Longest \in Nat
    BY LimiterAssumption, WindowTypes DEF LimiterAssumption
  <2>2. LogOfRequests(log[p]) /\ blocked[p] \in 0 .. Penalty /\ toldBlock[p] \in 0 .. Penalty
        /\ wait[p] \in Nat /\ toldBlock[p] <= blocked[p]
    BY DEF LimiterInv, LimiterTyped, Blocks
  <2>3. \A i \in DOMAIN log[p] : log[p][i] \in Nat /\ log[p][i] < Longest
    BY <2>2 DEF LogOfRequests
  <2> QED BY <2>1, <2>2, <2>3, LimiterAssumption DEF LimiterAssumption
<1>2. RoomForOne
  BY DEF LimiterInv, Blocks, RoomForOne
<1> QED BY <1>1, <1>2 DEF LimiterTypeOK, LimiterInv, LimiterTyped

LEMMA HonouredBlock ==
  ASSUME LimiterInv, NEW b \in known, Request(b)
  PROVE  toldBlock[policyOf[b]] = 0
<1>1. policyOf[b] \in Policies
  BY DEF LimiterInv, LimiterTyped
<1>2. wait[policyOf[b]] = 0
  BY DEF Request, MayRequest
<1> QED BY <1>1, <1>2 DEF LimiterInv, LimiterTyped, Blocks
-----------------------------------------------------------------------------
(* The theorems.                                                           *)

OutputInv == ItemInv /\ OpsInv /\ AlertInv

LEMMA PartsMove ==
  ASSUME [Next]_outputVars
  PROVE  /\ [AlertNext]_alertVars /\ [ItemNext]_itemVars /\ [OpsNext]_opsVars
         /\ [LimiterNext]_limiterVars
BY DEF Next, outputVars

LEMMA OutputInitInv == Init => OutputInv
BY ItemInitInv, OpsInitInv, AlertInitInv DEF Init, OutputInv

LEMMA OutputStep ==
  ASSUME OutputInv, [Next]_outputVars
  PROVE  OutputInv'
BY PartsMove, ItemStep, OpsStep, AlertStep DEF OutputInv

LEMMA InvOfTypes ==
  ASSUME OutputInv
  PROVE  ItemTypeOK /\ OpsTypeOK /\ AlertTypeOK
<1>1. ItemTypeOK
  BY DEF OutputInv, ItemInv, ItemTyped, ItemTypeOK
<1>2. OpsTypeOK
  <2>1. OpsTyped /\ OpsAssumption
    BY OpsAssumption DEF OutputInv, OpsInv
  <2>2. told \in [PollerKeys -> 0 .. uptime]
    BY <2>1 DEF OpsTyped
  <2> QED BY <2>1, <2>2 DEF OpsTyped, OpsTypeOK
<1>3. AlertTypeOK
  <2>1. AlertTyped
    BY DEF OutputInv, AlertInv
  <2>2. \A a \in {lastAlert, row} : /\ a.cycle \in -1 .. MaxCycles /\ a.seller \in Sellers \cup {0}
                                    /\ a.price \in Prices \cup {NoPrice}
    BY <2>1 DEF AlertTyped, Alerts
  <2>3. deal.sellers \subseteq Sellers /\ deal.cheapest \in Prices \cup {NoPrice}
    BY <2>1 DEF AlertTyped, Deals
  <2> QED BY <2>1, <2>2, <2>3 DEF AlertTyped, AlertTypeOK
<1> QED BY <1>1, <1>2, <1>3

\* A listing is announced and a trouble told once per cooldown, for every cooldown, whatever
\* cycles fail and processes, hosts and runs of the probe start or are killed in between.
THEOREM ToldOnce == Spec => ToldOncePerCooldown
<1>1. OutputInv /\ [Next]_outputVars =>
        [PostNews => \A p \in news.listings \ itemTorn.untold : sinceTold[p] >= NewItemCooldown]_itemVars
  BY PartsMove, ItemsAnnouncedOnce DEF OutputInv
<1>2. OutputInv /\ [Next]_outputVars =>
        [\A k \in Keys : silent'[k] = 0 /\ silent[k] # 0 => silent[k] >= Cooldown \/ k \in forgotten]_opsVars
  BY PartsMove, OpsToldOnce DEF OutputInv
<1>3. OutputInv => ItemTypeOK
  BY InvOfTypes
<1>4. OutputInv /\ [Next]_outputVars => OutputInv'
  BY OutputStep
<1> QED BY <1>1, <1>2, <1>3, <1>4, OutputInitInv, PTL
        DEF Spec, ToldOncePerCooldown, AnnouncedOncePerCooldown, OncePerCooldown

\* A listing is not announced as new supply after a short gap, for every length of the gap.
THEOREM GapIsNoNews == Spec => ShortGapIsNoNews
<1>1. OutputInv /\ [Next]_outputVars =>
        [(worker = "idle" /\ worker' = "post" /\ ~itemTorn.cleared)
           => \A p \in (news'.listings \ news'.transfers) \ itemTorn.unseen :
                sinceSeen[p] + 1 >= ReturnMinCycles]_itemVars
  BY PartsMove, ShortGapStep DEF OutputInv
<1>2. OutputInv /\ [Next]_outputVars => OutputInv'
  BY OutputStep
<1> QED BY <1>1, <1>2, OutputInitInv, PTL DEF Spec, ShortGapIsNoNews

\* No alert waits for longer than its cooldown, for all prices, sellers, keys and clocks.
THEOREM NothingWithheld == Spec => []NoAlertWithheld
<1>1. OutputInv => NoAlertWithheld
  BY InvOfTypes DEF OutputInv, AlertInv, OpsInv, NoAlertWithheld
<1>2. OutputInv /\ [Next]_outputVars => OutputInv'
  BY OutputStep
<1> QED BY <1>1, <1>2, OutputInitInv, PTL DEF Spec

\* The listing of the last alert is not alerted again at its price, at whatever ratio the price
\* is valued when it is seen again.
THEOREM LastAlertQuiet == Spec => LastAlertedStaysQuiet
<1>1. OutputInv /\ [Next]_outputVars =>
        [(SendAlert /\ ~deal.hidden /\ ~posted.hidden /\ "unsaved" \notin alertTorn)
           => ~(posted.price = deal.cheapest /\ posted.seller \in deal.sellers)]_alertVars
  BY QuietStep DEF OutputInv
<1>2. OutputInv /\ [Next]_outputVars => OutputInv'
  BY OutputStep
<1> QED BY <1>1, <1>2, OutputInitInv, PTL DEF Spec, LastAlertedStaysQuiet

\* The pacing leaves room for one request, and no block that was told of is broken, for every set
\* of windows, reserve and penalty, whatever answers are lost, processes start and others send at
\* the address.  A window of a single request is full after the first, so that none is left for
\* a second one nobody paced.
THEOREM RequestsPaced ==
  ASSUME \A w \in Limits : w.max > 1
  PROVE  Spec => RequestsArePaced
<1>1. Init => LimiterInv
  BY LimiterInitInv DEF Init
<1>2. LimiterInv /\ [Next]_outputVars => LimiterInv'
  BY PartsMove, LimiterStep
<1>3. LimiterInv => LimiterTypeOK /\ RoomForOne
  BY LimiterInvOf
<1>4. LimiterInv /\ [Next]_outputVars
        => [\A b \in known : Request(b) => toldBlock[policyOf[b]] = 0]_limiterVars
  BY HonouredBlock
<1> QED BY <1>1, <1>2, <1>3, <1>4, PTL DEF Spec, RequestsArePaced, BlockHonoured
=============================================================================
