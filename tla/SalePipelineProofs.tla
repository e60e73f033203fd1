------------------------- MODULE SalePipelineProofs -------------------------
(***************************************************************************)
(* Proofs about SalePipeline, and about it beside the replay script, for   *)
(* every set of fingerprints and sellers, every bound and every value of   *)
(* the configuration.  Type correctness comes first, THEOREM TypeCorrect:  *)
(* what the other proofs rest on.  Its work is in the tables being finite, *)
(* since the counters of a poll are cardinalities.  Then the rules, and    *)
(* the counters themselves, CountersCovered: a sum over the polls against  *)
(* the size of the sales table, by induction over the polls.  Last the     *)
(* ledger: the pipeline implements that of SaleLedger, and so do pipeline  *)
(* and script together, THEOREMS LedgerKept and ReplayKeepsLedger; what    *)
(* the ledger promises then holds of the sales table.  LiveRuleAgrees and  *)
(* ReplaySettled are about the script: that its rule 8 and the engine's    *)
(* agree, and that a plan settles the pairs it saw however late it is      *)
(* applied.                                                                *)
(***************************************************************************)
EXTENDS HygieneReplay, FiniteSetTheorems, WellFoundedInduction, TLAPS

-----------------------------------------------------------------------------
(* Finite sets.                                                            *)

LEMMA ImageFinite ==
  ASSUME NEW S, NEW f, IsFiniteSet(S)
  PROVE  IsFiniteSet({f[k] : k \in S})
<1> DEFINE g == [k \in S |-> f[k]]
<1>1. g \in Surjection(S, {f[k] : k \in S})
  BY DEF Surjection
<1> QED BY <1>1, FS_Surjection

LEMMA SubsetFinite ==
  ASSUME NEW S, NEW T, T \subseteq S, IsFiniteSet(S)
  PROVE  IsFiniteSet(T) /\ Cardinality(T) \in Nat
BY FS_Subset, FS_CardinalityType

LEMMA PairFinite ==
  ASSUME NEW a, NEW b
  PROVE  IsFiniteSet({a, b})
<1>1. IsFiniteSet({a} \cup {b})
  BY FS_Singleton, FS_AddElement
<1>2. {a, b} = {a} \cup {b}
  OBVIOUS
<1> QED BY <1>1, <1>2

LEMMA KeysFinite == IsFiniteSet(Keys)
BY FS_Product, EngineAssumption DEF EngineAssumption, Keys

LEMMA TransfersFinite ==
  ASSUME NEW x
  PROVE  IsFiniteSet(Transfers(x)) /\ Cardinality(Transfers(x)) \in Nat
<1> DEFINE row == [q \in (Fps \X Sellers) \X Sellers |->
                     [fp |-> q[1][1], seller |-> q[1][2], buyer |-> q[2]]]
<1> DEFINE rows == {row[q] : q \in (Fps \X Sellers) \X Sellers}
<1>1. IsFiniteSet((Fps \X Sellers) \X Sellers)
  BY FS_Product, EngineAssumption DEF EngineAssumption
<1>2. IsFiniteSet(rows)
  <2> HIDE DEF row
  <2> QED BY <1>1, ImageFinite
<1>3. [fp : Fps, seller : Sellers, buyer : Sellers] \subseteq rows
  <2> SUFFICES ASSUME NEW t \in [fp : Fps, seller : Sellers, buyer : Sellers]
               PROVE  t \in rows
    OBVIOUS
  <2>1. <<<<t.fp, t.seller>>, t.buyer>> \in (Fps \X Sellers) \X Sellers
    OBVIOUS
  <2>2. t = row[<<<<t.fp, t.seller>>, t.buyer>>]
    BY <2>1
  <2> QED BY <2>1, <2>2
<1>4. Transfers(x) \subseteq [fp : Fps, seller : Sellers, buyer : Sellers]
  BY DEF Transfers
<1> QED BY <1>2, <1>3, <1>4, SubsetFinite

LEMMA SaleEventsFinite == IsFiniteSet(SaleEvents)
<1> DEFINE domain == (({Instant, Online} \X Keys) \X (1..4)) \X (1..MaxCopies)
           event == [q \in domain |-> [rule |-> q[1][1][1], key |-> q[1][1][2],
                                       stage |-> q[1][2], copy |-> q[2]]]
           events == {event[q] : q \in domain}
<1>1. IsFiniteSet(domain)
  <2>1. IsFiniteSet({Instant, Online})
    BY PairFinite
  <2>2. IsFiniteSet(1..4) /\ IsFiniteSet(1..MaxCopies)
    <3>1. MaxCopies \in Int /\ 1 \in Int /\ 4 \in Int
      BY EngineAssumption DEF EngineAssumption
    <3> QED BY <3>1, FS_Interval
  <2>3. IsFiniteSet({Instant, Online} \X Keys)
    BY <2>1, KeysFinite, FS_Product
  <2>4. IsFiniteSet(({Instant, Online} \X Keys) \X (1..4))
    BY <2>2, <2>3, FS_Product
  <2> QED BY <2>2, <2>4, FS_Product
<1>2. IsFiniteSet(events)
  <2> HIDE DEF event, domain
  <2> QED BY <1>1, ImageFinite
<1>3. SaleEvents \subseteq events
  <2> SUFFICES ASSUME NEW e \in SaleEvents
               PROVE  e \in events
    OBVIOUS
  <2> DEFINE q == <<<<<<e.rule, e.key>>, e.stage>>, e.copy>>
  <2>1. q \in domain
    BY DEF SaleEvents
  <2>2. e = event[q]
    BY <2>1 DEF SaleEvents
  <2> QED BY <2>1, <2>2
<1> QED BY <1>2, <1>3, SubsetFinite

-----------------------------------------------------------------------------
(* What one poll computes has its type.                                    *)

\* An observation of the fields the rules read, typed.
IsObservation(x) ==
  /\ IsSnapshot(x.prev) /\ IsSnapshot(x.curr)
  /\ x.pend \subseteq PendingRows /\ IsFiniteSet(x.pend)
  /\ x.cycle \in Nat /\ x.at \in Nat

LEMMA SnapshotsAreSnapshots ==
  ASSUME NEW curr \in Snapshots
  PROVE  IsSnapshot(curr)
BY PipelineAssumption DEF PipelineAssumption, Snapshots, IsSnapshot

LEMMA VanishPendingsTyped ==
  ASSUME NEW x, IsObservation(x)
  PROVE  VanishPendings(x) \subseteq PendingRows /\ IsFiniteSet(VanishPendings(x))
<1> DEFINE instant == [k \in Keys |-> NewPendingRow(x, k, Instant, DeferInstant(x), JitterGrace)]
           online  == [k \in Keys |-> NewPendingRow(x, k, Online, DeferOnline, OnlineGrace)]
<1>1. /\ InstantVanishes(x) \subseteq DOMAIN x.prev
      /\ OnlineVanishes(x) \subseteq DOMAIN x.prev
  BY DEF InstantVanishes, OnlineVanishes, ConsideredVanishes, Vanished
<1>2. DOMAIN x.prev \subseteq Keys
  BY DEF IsObservation, IsSnapshot
<1>3. VanishPendings(x) = {instant[k] : k \in InstantVanishes(x)}
                            \cup {online[k] : k \in OnlineVanishes(x)}
  BY <1>1, <1>2 DEF VanishPendings
<1>4. IsFiniteSet(InstantVanishes(x)) /\ IsFiniteSet(OnlineVanishes(x))
  BY <1>1, <1>2, KeysFinite, SubsetFinite
<1>5. IsFiniteSet(VanishPendings(x))
  <2> HIDE DEF instant, online
  <2>1. IsFiniteSet({instant[k] : k \in InstantVanishes(x)})
    BY <1>4, ImageFinite
  <2>2. IsFiniteSet({online[k] : k \in OnlineVanishes(x)})
    BY <1>4, ImageFinite
  <2> QED BY <1>3, <2>1, <2>2, FS_Union
<1>6. \A k \in DOMAIN x.prev : k \in Keys /\ x.prev[k].price \in Nat
  BY <1>2 DEF IsObservation, IsSnapshot, Listings
<1>7. JitterGrace \in Nat /\ OnlineGrace \in Nat
  BY EngineAssumption DEF EngineAssumption
<1>8. \A k \in DOMAIN x.prev, kind \in {Instant, Online}, defer \in BOOLEAN, grace \in Nat :
        NewPendingRow(x, k, kind, defer, grace) \in PendingRows
  BY <1>6 DEF NewPendingRow, PendingRows, IsObservation
<1>9. DeferInstant(x) \in BOOLEAN /\ DeferOnline \in BOOLEAN
  BY DEF DeferInstant, DeferOnline
<1>10. VanishPendings(x) \subseteq PendingRows
  <2> HIDE DEF instant, online
  <2> QED BY <1>1, <1>7, <1>8, <1>9 DEF VanishPendings
<1> QED BY <1>5, <1>10

LEMMA NewPendingsTyped ==
  ASSUME NEW x, NEW kept, IsObservation(x)
  PROVE  NewPendings(x, kept) \subseteq PendingRows /\ IsFiniteSet(NewPendings(x, kept))
<1>1. StillPending(x) \subseteq x.pend
  BY DEF StillPending
<1>2. NewPendings(x, kept) \subseteq x.pend \cup VanishPendings(x)
  BY <1>1 DEF NewPendings
<1>3. IsFiniteSet(x.pend \cup VanishPendings(x))
  BY VanishPendingsTyped, FS_Union DEF IsObservation
<1> QED BY <1>2, <1>3, VanishPendingsTyped, SubsetFinite DEF IsObservation

LEMMA VanishSaleEventsTyped ==
  ASSUME NEW x, IsObservation(x)
  PROVE  VanishSaleEvents(x) \subseteq SaleEvents
<1>1. \A p \in CreditedPendings(x) : p.kind \in {Instant, Online} /\ p.key \in Keys
  BY DEF CreditedPendings, IsObservation, PendingRows
<1>2. \A p \in CountedAtOnce(x) : p.kind \in {Instant, Online} /\ p.key \in Keys
  BY VanishPendingsTyped DEF CountedAtOnce, PendingRows
<1>3. 1 \in 1..MaxCopies
  BY EngineAssumption DEF EngineAssumption
<1>4. \A k \in CountDecreases(x) :
        /\ k \in Keys
        /\ \A copy \in 1..(x.prev[k].count - x.curr[k].count) : copy \in 1..MaxCopies
  <2> SUFFICES ASSUME NEW k \in CountDecreases(x)
               PROVE  /\ k \in Keys
                      /\ \A copy \in 1..(x.prev[k].count - x.curr[k].count) :
                           copy \in 1..MaxCopies
    OBVIOUS
  <2>1. k \in DOMAIN x.prev /\ k \in DOMAIN x.curr
    BY DEF CountDecreases, StillListed
  <2>2. k \in Keys /\ x.prev[k].count \in 1..MaxCopies /\ x.curr[k].count \in 1..MaxCopies
    BY <2>1 DEF IsObservation, IsSnapshot, Listings
  <2> QED BY <2>2, EngineAssumption DEF EngineAssumption
<1> QED BY <1>1, <1>2, <1>3, <1>4 DEF VanishSaleEvents, SaleEvent, SaleEvents

LEMMA CreditedAreSaleEvents ==
  ASSUME NEW x, NEW kept \in CreditedChoices(x)
  PROVE  kept \subseteq VanishSaleEvents(x)
BY DEF CreditedChoices

\* Sales rows of a poll sequence of length n.
SalesFit(rows, n) ==
  rows \subseteq SaleRows /\ IsFiniteSet(rows) /\ \A s \in rows : s.poll \in 1..n

LEMMA FewerSalesFit ==
  ASSUME NEW rows, NEW n, NEW fewer \in SUBSET rows, SalesFit(rows, n)
  PROVE  SalesFit(fewer, n) /\ Cardinality(fewer) \in Nat
BY SubsetFinite DEF SalesFit

LEMMA NewSalesTyped ==
  ASSUME NEW x, NEW kept \in CreditedChoices(x), IsObservation(x), polls \in Seq(PollRows)
  PROVE  /\ NewSales(x, kept) \subseteq SaleRows
         /\ IsFiniteSet(NewSales(x, kept))
         /\ \A s \in NewSales(x, kept) : s.poll = Len(polls) + 1
<1> DEFINE poll == Len(polls) + 1
           sale == [e \in SaleEvents |->
                      [rule |-> e.rule, fp |-> e.key[1], seller |-> e.key[2], buyer |-> NoSeller,
                       poll |-> poll, reverted |-> FALSE]]
           transfer == [t \in Transfers(x) |->
                          [rule |-> Transfer, fp |-> t.fp, seller |-> t.seller, buyer |-> t.buyer,
                           poll |-> poll, reverted |-> FALSE]]
           bought == Transfers(x) \ PingPong(x)
<1>1. poll \in Nat \ {0}
  OBVIOUS
<1>2. kept \subseteq SaleEvents /\ IsFiniteSet(kept)
  BY VanishSaleEventsTyped, CreditedAreSaleEvents, SaleEventsFinite, SubsetFinite
<1>3. bought \subseteq Transfers(x) /\ IsFiniteSet(bought)
  BY TransfersFinite, SubsetFinite
<1>4. NewSales(x, kept) = {sale[e] : e \in kept} \cup {transfer[t] : t \in bought}
  BY <1>2, <1>3 DEF NewSales
<1>5. \A e \in SaleEvents : sale[e] \in SaleRows /\ sale[e].poll = poll
  <2> HIDE DEF poll
  <2> SUFFICES ASSUME NEW e \in SaleEvents
               PROVE  sale[e] \in SaleRows /\ sale[e].poll = poll
    OBVIOUS
  <2>1. e.rule \in {Instant, Online} /\ e.key[1] \in Fps /\ e.key[2] \in Sellers
    BY DEF SaleEvents, Keys
  <2> QED BY <1>1, <2>1 DEF SaleRows
<1>6. \A t \in Transfers(x) : transfer[t] \in SaleRows /\ transfer[t].poll = poll
  <2> HIDE DEF poll
  <2> SUFFICES ASSUME NEW t \in Transfers(x)
               PROVE  transfer[t] \in SaleRows /\ transfer[t].poll = poll
    OBVIOUS
  <2>1. t.fp \in Fps /\ t.seller \in Sellers /\ t.buyer \in Sellers
    BY DEF Transfers
  <2> QED BY <1>1, <2>1 DEF SaleRows
<1>7. IsFiniteSet({sale[e] : e \in kept}) /\ IsFiniteSet({transfer[t] : t \in bought})
  <2> HIDE DEF sale, transfer, bought
  <2> QED BY <1>2, <1>3, ImageFinite
<1> HIDE DEF sale, transfer, bought
<1>8. IsFiniteSet(NewSales(x, kept))
  BY <1>4, <1>7, FS_Union
<1> QED BY <1>2, <1>3, <1>4, <1>5, <1>6, <1>8

LEMMA RevertingFits ==
  ASSUME NEW S \in SUBSET sales, NEW n, SalesFit(sales, n)
  PROVE  SalesFit(Reverting(S), n)
<1> DEFINE revert == [s \in sales |-> [s EXCEPT !.reverted = TRUE]]
<1>1. \A s \in sales : revert[s] \in SaleRows /\ revert[s].poll = s.poll
  BY DEF SalesFit, SaleRows
<1>2. Reverting(S) = (sales \ S) \cup {revert[s] : s \in S}
  BY DEF Reverting
<1>3. IsFiniteSet(sales \ S) /\ IsFiniteSet(S)
  BY SubsetFinite DEF SalesFit
<1> HIDE DEF revert
<1>4. IsFiniteSet(Reverting(S))
  <2>1. IsFiniteSet({revert[s] : s \in S})
    BY <1>3, ImageFinite
  <2> QED BY <1>2, <1>3, <2>1, FS_Union
<1> QED BY <1>1, <1>2, <1>4 DEF SalesFit

-----------------------------------------------------------------------------
(* The poll rows.                                                          *)

LEMMA PollAppended ==
  ASSUME NEW f \in [DOMAIN polls -> PollRows], polls \in Seq(PollRows), NEW row \in PollRows
  PROVE  /\ f \in Seq(PollRows) /\ DOMAIN f = DOMAIN polls /\ Len(f) = Len(polls)
         /\ Append(f, row) \in Seq(PollRows)
         /\ DOMAIN Append(f, row) = 1..(Len(polls) + 1)
<1>1. DOMAIN polls = 1..Len(polls) /\ Len(polls) \in Nat
  OBVIOUS
<1>2. f \in Seq(PollRows) /\ Len(f) = Len(polls)
  BY <1>1
<1> QED BY <1>1, <1>2

LEMMA AtLeastZeroTyped == \A n \in Int : AtLeastZero(n) \in Nat /\ AtLeastZero(n) \in Int
BY DEF AtLeastZero

LEMMA LoweredPollsTyped ==
  ASSUME NEW S \in SUBSET sales, IsFiniteSet(sales), polls \in Seq(PollRows)
  PROVE  /\ PollsWithoutTransfers(S) \in [DOMAIN polls -> PollRows]
         /\ PollsWithoutSales(S) \in [DOMAIN polls -> PollRows]
<1>1. \A T \in SUBSET S : Cardinality(T) \in Nat
  BY SubsetFinite
<1>2. \A i \in DOMAIN polls : /\ polls[i] \in PollRows
                               /\ Cardinality({s \in S : s.poll = i}) \in Nat
  BY <1>1
<1>3. \A rule : \A i \in DOMAIN polls : Cardinality({r \in OfRule(S, rule) : r.poll = i}) \in Nat
  BY <1>1 DEF OfRule
<1>4. PollsWithoutTransfers(S) \in [DOMAIN polls -> PollRows]
  <2> SUFFICES ASSUME NEW i \in DOMAIN polls
               PROVE  PollsWithoutTransfers(S)[i] \in PollRows
    BY DEF PollsWithoutTransfers
  <2> DEFINE row == polls[i]
             gone == Cardinality({s \in S : s.poll = i})
             xfer == AtLeastZero(row.xfer - gone)
  <2>1. PollsWithoutTransfers(S)[i] = [row EXCEPT !.xfer = xfer]
    BY DEF PollsWithoutTransfers
  <2>2. row \in PollRows /\ gone \in Nat
    BY <1>2
  <2> HIDE DEF row, gone
  <2>3. xfer \in Nat
    <3>1. row.xfer \in Int
      BY <2>2 DEF PollRows
    <3>2. row.xfer - gone \in Int
      BY <2>2, <3>1
    <3> QED BY <3>2, AtLeastZeroTyped
  <2> HIDE DEF xfer
  <2>4. [row EXCEPT !.xfer = xfer] \in PollRows
    BY <2>2, <2>3 DEF PollRows
  <2> QED BY <2>1, <2>4
<1>5. PollsWithoutSales(S) \in [DOMAIN polls -> PollRows]
  <2> SUFFICES ASSUME NEW i \in DOMAIN polls
               PROVE  PollsWithoutSales(S)[i] \in PollRows
    BY DEF PollsWithoutSales
  <2> DEFINE row == polls[i]
             gone(rule) == Cardinality({r \in OfRule(S, rule) : r.poll = i})
             less(m, k) == IF k = 0 THEN m ELSE AtLeastZero(m - k)
             inst == less(row.inst, gone(Instant))
             online == less(row.online, gone(Online))
  <2>1. PollsWithoutSales(S)[i] = [row EXCEPT !.inst = inst, !.online = online]
    BY DEF PollsWithoutSales
  <2>2. row \in PollRows /\ gone(Instant) \in Nat /\ gone(Online) \in Nat
    BY <1>2, <1>3
  <2> HIDE DEF row, gone
  <2>3. \A m \in Int, k \in Nat : less(m, k) \in Int
    BY AtLeastZeroTyped
  <2>4. row.inst \in Int /\ row.online \in Int
    BY <2>2 DEF PollRows
  <2> HIDE DEF less
  <2>5. inst \in Int /\ online \in Int
    BY <2>2, <2>3, <2>4
  <2> HIDE DEF inst, online
  <2>6. [row EXCEPT !.inst = inst, !.online = online] \in PollRows
    BY <2>2, <2>5 DEF PollRows
  <2> QED BY <2>1, <2>6
<1> QED BY <1>4, <1>5

LEMMA RebuiltPollsTyped ==
  ASSUME NEW rows, IsFiniteSet(rows), polls \in Seq(PollRows)
  PROVE  RebuiltPolls(rows) \in [DOMAIN polls -> PollRows]
<1>1. \A i, rule : Cardinality({s \in rows : Active(s) /\ s.rule = rule /\ s.poll = i}) \in Nat
  BY SubsetFinite
<1> SUFFICES ASSUME NEW i \in DOMAIN polls
             PROVE  RebuiltPolls(rows)[i] \in PollRows
  BY DEF RebuiltPolls
<1> DEFINE row == polls[i]
           count(rule) == Cardinality({s \in rows : Active(s) /\ s.rule = rule /\ s.poll = i})
           xfer == count(Transfer)
           inst == count(Instant)
           online == count(Online)
<1>2. RebuiltPolls(rows)[i] = [row EXCEPT !.xfer = xfer, !.inst = inst, !.online = online]
  BY DEF RebuiltPolls
<1>3. \A rule : count(rule) \in Nat
  BY <1>1
<1>4. row \in PollRows
  OBVIOUS
<1> HIDE DEF row, count
<1>5. xfer \in Nat /\ inst \in Int /\ online \in Int
  BY <1>3
<1> HIDE DEF xfer, inst, online
<1>6. [row EXCEPT !.xfer = xfer, !.inst = inst, !.online = online] \in PollRows
  BY <1>4, <1>5 DEF PollRows
<1> QED BY <1>2, <1>6

LEMMA NewPollRowTyped ==
  ASSUME NEW x, NEW kept \in CreditedChoices(x), NEW late \in SUBSET sales,
         IsObservation(x), IsFiniteSet(sales)
  PROVE  NewPollRow(x, kept, late) \in PollRows
<1>1. kept \subseteq SaleEvents /\ IsFiniteSet(kept)
  BY VanishSaleEventsTyped, CreditedAreSaleEvents, SaleEventsFinite, SubsetFinite
<1>2. \A rule : /\ Cardinality(OfRule(kept, rule)) \in Nat
                /\ Cardinality(OfRule(late, rule)) \in Nat
  <2> SUFFICES ASSUME NEW rule
               PROVE  /\ Cardinality(OfRule(kept, rule)) \in Nat
                      /\ Cardinality(OfRule(late, rule)) \in Nat
    OBVIOUS
  <2>1. OfRule(kept, rule) \subseteq kept /\ OfRule(late, rule) \subseteq sales
    BY DEF OfRule
  <2> QED BY <1>1, <2>1, SubsetFinite
<1>3. \A rule : Cardinality({p \in Relisted(x) : p.kind = rule /\ p.counted}) \in Nat
  BY SubsetFinite DEF Relisted, Reappeared, IsObservation
<1>4. \A rule : ReconciledCount(x, kept, rule) \in Int
  BY <1>2, <1>3 DEF ReconciledCount
<1>5. Cardinality(PingPongPairs(x)) \in Nat
  <2> DEFINE pair == [t \in Transfers(x) |-> <<t.seller, t.buyer>>]
  <2>1. PingPong(x) \subseteq Transfers(x)
    BY DEF PingPong
  <2>2. PingPongPairs(x) = {pair[t] : t \in PingPong(x)}
    BY <2>1 DEF PingPongPairs
  <2>3. IsFiniteSet(PingPong(x))
    BY <2>1, TransfersFinite, SubsetFinite
  <2> HIDE DEF pair
  <2> QED BY <2>2, <2>3, ImageFinite, FS_CardinalityType
<1>6. InferenceSafeVanishes(x) \in SUBSET Keys
  BY DEF InferenceSafeVanishes, ConsideredVanishes, Vanished, IsObservation, IsSnapshot
<1>7. AtLeastZero(Cardinality(Transfers(x)) - Cardinality(PingPongPairs(x))) \in Nat
  BY <1>5, TransfersFinite DEF AtLeastZero
<1> QED BY <1>2, <1>4, <1>6, <1>7 DEF NewPollRow, PollRows, IsObservation

-----------------------------------------------------------------------------
(* Type correctness.                                                       *)

\* The rows a poll or a revert picks are rows of the sales table.
LEMMA RevertsAreSales ==
  ASSUME NEW x, NEW preview
  PROVE  /\ PingPongReverts(x) \subseteq ActiveSales
         /\ RelistReverts(x) \subseteq ActiveSales
         /\ LateRelistReverts(x, preview) \subseteq ActiveSales
<1>1. \A rule, key, since : LatestSale(rule, key, since) \subseteq ActiveSales
  BY DEF LatestSale
<1>2. PingPongReverts(x) \subseteq ActiveSales
  BY DEF PingPongReverts, TransfersBetween
<1>3. RelistReverts(x) \subseteq ActiveSales
  BY <1>1 DEF RelistReverts
<1>4. \A key : LateRelistRevert(x, key) \subseteq ActiveSales
  BY <1>1 DEF LateRelistRevert
<1>5. LateRelistReverts(x, preview) \subseteq ActiveSales
  BY <1>4 DEF LateRelistReverts
<1> QED BY <1>2, <1>3, <1>5

LEMMA ActiveAreSales == ActiveSales \subseteq sales
BY DEF ActiveSales

\* Storing a poll comes down to one observation of what the poller holds.
LEMMA WritePollObserves ==
  ASSUME WritePoll
  PROVE  \E x, kept, preview :
           /\ x.prev = held.sig /\ x.pend = held.pend
           /\ x.cycle = cycle /\ x.curr \in Snapshots
           /\ \E gap \in Gaps : x.at = LastPollAt + gap
           /\ kept \in CreditedChoices(x)
           /\ WritePollResult(x, kept, preview)
BY DEF WritePoll, Probed, Observation

LEMMA TimeTyped ==
  ASSUME polls \in Seq(PollRows), NEW gap \in Gaps
  PROVE  LastPollAt \in Nat /\ LastPollAt + gap \in Nat
<1>1. LastPollAt \in Nat
  <2>1. CASE polls = <<>>
    BY <2>1 DEF LastPollAt
  <2>2. CASE polls # <<>>
    <3>1. polls[Len(polls)] \in PollRows
      BY <2>2
    <3> QED BY <2>2, <3>1 DEF LastPollAt, PollRows
  <2> QED BY <2>1, <2>2
<1>2. gap \in Nat
  BY PipelineAssumption DEF PipelineAssumption
<1> QED BY <1>1, <1>2

LEMMA HeldObserved ==
  ASSUME TypeOK, NEW x, x.prev = held.sig, x.pend = held.pend, x.cycle = cycle,
         x.curr \in Snapshots, \E gap \in Gaps : x.at = LastPollAt + gap
  PROVE  IsObservation(x)
BY TimeTyped, SnapshotsAreSnapshots DEF TypeOK, IsObservation

\* A step that reverts sales and rewrites poll rows keeps both tables typed.
LEMMA RevertStep ==
  ASSUME TypeOK, NEW S \in SUBSET sales, sales' = Reverting(S),
         polls' \in [DOMAIN polls -> PollRows]
  PROVE  /\ polls' \in Seq(PollRows)
         /\ sales' \subseteq SaleRows /\ IsFiniteSet(sales')
         /\ \A s \in sales' : s.poll \in DOMAIN polls'
<1>1. polls \in Seq(PollRows) /\ DOMAIN polls = 1..Len(polls) /\ Len(polls) \in Nat
  BY DEF TypeOK
<1>2. SalesFit(sales, Len(polls))
  BY <1>1 DEF TypeOK, SalesFit
<1>3. SalesFit(sales', Len(polls))
  BY <1>2, RevertingFits
<1>4. polls' \in Seq(PollRows) /\ DOMAIN polls' = 1..Len(polls)
  BY <1>1
<1> QED BY <1>1, <1>3, <1>4 DEF SalesFit

LEMMA WritePollTyped ==
  ASSUME TypeOK, WritePoll
  PROVE  /\ IsSnapshot(sig')
         /\ pend' \subseteq PendingRows /\ IsFiniteSet(pend')
         /\ polls' \in Seq(PollRows)
         /\ sales' \subseteq SaleRows /\ IsFiniteSet(sales')
         /\ \A s \in sales' : s.poll \in DOMAIN polls'
         /\ dbCycle' = cycle
<1>1. PICK x, kept, preview :
        /\ x.prev = held.sig /\ x.pend = held.pend
        /\ x.cycle = cycle /\ x.curr \in Snapshots
        /\ \E gap \in Gaps : x.at = LastPollAt + gap
        /\ kept \in CreditedChoices(x)
        /\ WritePollResult(x, kept, preview)
  BY WritePollObserves
<1> DEFINE late == LateRelistReverts(x, preview)
           undone == PingPongReverts(x) \cup late \cup RelistReverts(x)
<1>2. IsObservation(x)
  BY <1>1, HeldObserved
<1>3. polls \in Seq(PollRows) /\ DOMAIN polls = 1..Len(polls) /\ Len(polls) \in Nat
  BY DEF TypeOK
<1>4. undone \in SUBSET sales /\ late \in SUBSET sales /\ PingPongReverts(x) \in SUBSET sales
  BY RevertsAreSales, ActiveAreSales
<1>5. SalesFit(sales, Len(polls))
  BY <1>3 DEF TypeOK, SalesFit
<1>6. SalesFit(Reverting(undone), Len(polls))
  BY <1>4, <1>5, RevertingFits
<1>7. sales' = Reverting(undone) \cup NewSales(x, kept)
  BY <1>1 DEF WritePollResult
<1>8. polls' = Append(PollsWithoutTransfers(PingPongReverts(x)), NewPollRow(x, kept, late))
  BY <1>1 DEF WritePollResult
<1>9. sig' = x.curr /\ pend' = NewPendings(x, kept) /\ dbCycle' = cycle
  BY <1>1 DEF WritePollResult
<1> HIDE DEF late, undone
<1>10. polls' \in Seq(PollRows) /\ DOMAIN polls' = 1..(Len(polls) + 1)
  <2>1. NewPollRow(x, kept, late) \in PollRows
    BY <1>1, <1>2, <1>4, NewPollRowTyped DEF TypeOK
  <2>2. PollsWithoutTransfers(PingPongReverts(x)) \in [DOMAIN polls -> PollRows]
    BY <1>3, <1>4, LoweredPollsTyped DEF TypeOK
  <2> QED BY <1>3, <1>8, <2>1, <2>2, PollAppended
<1>11. /\ NewSales(x, kept) \subseteq SaleRows
       /\ IsFiniteSet(NewSales(x, kept))
       /\ \A s \in NewSales(x, kept) : s.poll = Len(polls) + 1
  BY <1>1, <1>2, <1>3, NewSalesTyped
<1>12. sales' \subseteq SaleRows /\ IsFiniteSet(sales')
  BY <1>6, <1>7, <1>11, FS_Union DEF SalesFit
<1>13. \A s \in sales' : s.poll \in 1..(Len(polls) + 1)
  BY <1>3, <1>6, <1>7, <1>11 DEF SalesFit
<1> QED BY <1>1, <1>2, <1>9, <1>10, <1>12, <1>13, NewPendingsTyped, SnapshotsAreSnapshots

LEMMA EmptyTyped ==
  /\ IsSnapshot(<<>>)
  /\ IsFiniteSet({})
  /\ NothingHeld.sig = <<>> /\ NothingHeld.pend = {}
  /\ <<>> \in Seq(PollRows)
BY FS_EmptySet DEF IsSnapshot, NothingHeld

LEMMA TypeStep ==
  ASSUME TypeOK, [Next]_vars
  PROVE  TypeOK'
<1> USE DEF TypeOK
<1>1. CASE Load
  BY <1>1 DEF Load, Phases
<1>2. CASE WritePoll
  <2>1. cycle' = cycle /\ phase' = "post" /\ held' = NothingHeld /\ probed' = {}
        /\ marking' = marking /\ alerted' = alerted
    BY <1>2 DEF WritePoll
  <2>2. /\ IsSnapshot(sig')
        /\ pend' \subseteq PendingRows /\ IsFiniteSet(pend')
        /\ polls' \in Seq(PollRows)
        /\ sales' \subseteq SaleRows /\ IsFiniteSet(sales')
        /\ \A s \in sales' : s.poll \in DOMAIN polls'
        /\ dbCycle' = cycle
    BY <1>2, WritePollTyped
  <2> QED BY <2>1, <2>2, EmptyTyped DEF Phases
<1>3. CASE OtherVariantWrites
  BY <1>3 DEF OtherVariantWrites
<1>4. ASSUME NEW s \in Sellers, SkipBan(s)
      PROVE  TypeOK'
  BY <1>4 DEF SkipBan, BanCheckOf
<1>5. ASSUME NEW s \in Sellers, ClearBan(s)
      PROVE  TypeOK'
  BY <1>5 DEF ClearBan, BanCheckOf
<1>6. ASSUME NEW s \in Sellers, ConfirmBan(s)
      PROVE  TypeOK'
  <2>1. PICK ids \in VanishPolls(s) : /\ sales' = Reverting(BannedSales(s, ids))
                                      /\ polls' = PollsWithoutSales(BannedSales(s, ids))
    BY <1>6 DEF ConfirmBan
  <2>2. BannedSales(s, ids) \in SUBSET sales
    BY DEF BannedSales, ActiveSales
  <2>3. /\ polls' \in Seq(PollRows)
        /\ sales' \subseteq SaleRows /\ IsFiniteSet(sales')
        /\ \A r \in sales' : r.poll \in DOMAIN polls'
    BY <2>1, <2>2, LoweredPollsTyped, RevertStep
  <2>4. pend' \subseteq pend
    BY <1>6 DEF ConfirmBan
  <2>5. pend' \subseteq PendingRows /\ IsFiniteSet(pend')
    BY <2>4, SubsetFinite
  <2> QED BY <1>6, <2>3, <2>5 DEF ConfirmBan, BanCheckOf
<1>7. CASE MarkBan
  BY <1>7 DEF MarkBan
<1>8. CASE EndCycle
  <2>1. CASE RevertAnomalyDay(Day(LastPollAt))
    <3>1. SalesOn(ActiveSales, Day(LastPollAt)) \in SUBSET sales
      BY DEF SalesOn, ActiveSales
    <3>2. /\ sales' = Reverting(SalesOn(ActiveSales, Day(LastPollAt)))
          /\ polls' = RebuiltPolls(Reverting(SalesOn(ActiveSales, Day(LastPollAt))))
      BY <2>1 DEF RevertAnomalyDay
    <3>3. SalesFit(sales, Len(polls))
      BY DEF SalesFit
    <3>4. IsFiniteSet(Reverting(SalesOn(ActiveSales, Day(LastPollAt))))
      BY <3>1, <3>3, RevertingFits DEF SalesFit
    <3>5. polls' \in [DOMAIN polls -> PollRows]
      BY <3>2, <3>4, RebuiltPollsTyped
    <3>6. /\ polls' \in Seq(PollRows)
          /\ sales' \subseteq SaleRows /\ IsFiniteSet(sales')
          /\ \A r \in sales' : r.poll \in DOMAIN polls'
      BY <3>1, <3>2, <3>5, RevertStep
    <3> QED BY <1>8, <3>6 DEF EndCycle, Phases
  <2>2. CASE UNCHANGED <<sales, polls>>
    BY <1>8, <2>2 DEF EndCycle, Phases
  <2> QED BY <1>8, <2>1, <2>2 DEF EndCycle
<1>9. CASE AbortCycle
  BY <1>9, EmptyTyped DEF AbortCycle, Phases
<1>10. CASE Restart
  BY <1>10, EmptyTyped DEF Restart, LatestCycleNumber, Phases
<1>11. CASE AdminClear
  BY <1>11, EmptyTyped DEF AdminClear
<1>12. CASE UNCHANGED vars
  BY <1>12 DEF vars
<1> QED BY <1>1, <1>2, <1>3, <1>4, <1>5, <1>6, <1>7, <1>8, <1>9, <1>10, <1>11, <1>12 DEF Next

LEMMA InitTyped ==
  ASSUME Init
  PROVE  TypeOK
<1>1. IsSnapshot(sig) /\ IsSnapshot(held.sig)
  BY EmptyTyped DEF Init
<1>2. IsFiniteSet(pend) /\ IsFiniteSet(held.pend) /\ IsFiniteSet(sales)
  BY EmptyTyped DEF Init
<1>3. pend = {} /\ held.pend = {} /\ sales = {}
  BY EmptyTyped DEF Init
<1> QED BY <1>1, <1>2, <1>3, EmptyTyped DEF Init, TypeOK, Phases

\* Every variable keeps its type: the tables stay finite, their counters stay
\* numbers, and no sale refers to a poll that is not there.
THEOREM TypeCorrect == Spec => []TypeOK
<1>1. Init => TypeOK
  BY InitTyped
<1>2. TypeOK /\ [Next]_vars => TypeOK'
  BY TypeStep
<1> QED BY <1>1, <1>2, PTL DEF Spec

-----------------------------------------------------------------------------
(* Pendings.                                                               *)

\* A poll leaves pendings that fit the ladder it stores, if those it started
\* from fit the ladder it started from: what is still pending was not listed
\* before and is not listed now, what vanished was listed before.
LEMMA NewPendingsFit ==
  ASSUME NEW x, NEW kept, PendingsFit(x.prev, x.pend)
  PROVE  PendingsFit(x.curr, NewPendings(x, kept))
<1>1. \A p \in StillPending(x) : /\ p \in x.pend
                                 /\ p.key \notin DOMAIN x.prev
                                 /\ p.key \notin DOMAIN x.curr
  BY DEF PendingsFit, StillPending, Reappeared
<1>2. \A p \in VanishPendings(x) : /\ p.key \in DOMAIN x.prev
                                   /\ p.key \notin DOMAIN x.curr
  BY DEF VanishPendings, NewPendingRow, InstantVanishes, OnlineVanishes,
         ConsideredVanishes, Vanished
<1>3. \A p, q \in VanishPendings(x) : p.key = q.key => p = q
  <2>1. \A k \in InstantVanishes(x) : x.prev[k].instant
    BY DEF InstantVanishes
  <2>2. \A k \in OnlineVanishes(x) : ~x.prev[k].instant
    BY DEF OnlineVanishes
  <2> QED BY <2>1, <2>2 DEF VanishPendings, NewPendingRow
<1>4. \A p, q \in StillPending(x) : p.key = q.key => p = q
  BY <1>1 DEF PendingsFit
<1>5. \A p \in NewPendings(x, kept) : p \in StillPending(x) \/ p \in VanishPendings(x)
  BY DEF NewPendings
<1> QED BY <1>1, <1>2, <1>3, <1>4, <1>5 DEF PendingsFit

\* Fewer pendings fit as well, and none fits everything.
LEMMA FewerPendingsFit ==
  ASSUME NEW snap, NEW P, NEW Q \in SUBSET P, PendingsFit(snap, P)
  PROVE  PendingsFit(snap, Q)
BY DEF PendingsFit

LEMMA NoPendingsFit ==
  ASSUME NEW snap
  PROVE  PendingsFit(snap, {})
BY DEF PendingsFit

\* Storing a poll leaves no pending on the ladder it would be resolved against and
\* no pair with two, the other steps drop or copy pendings.
LEMMA PendingsStep ==
  ASSUME PendingUnlistedAndUnique, [Next]_vars
  PROVE  PendingUnlistedAndUnique'
<1> USE DEF PendingUnlistedAndUnique
<1>1. CASE Load
  BY <1>1 DEF Load
<1>2. CASE WritePoll
  <2>1. PICK x, kept, preview : /\ x.prev = held.sig /\ x.pend = held.pend
                                /\ WritePollResult(x, kept, preview)
    BY <1>2, WritePollObserves
  <2>2. sig' = x.curr /\ pend' = NewPendings(x, kept)
    BY <2>1 DEF WritePollResult
  <2>3. held' = NothingHeld
    BY <1>2 DEF WritePoll
  <2> QED BY <2>1, <2>2, <2>3, NewPendingsFit, NoPendingsFit DEF NothingHeld
<1>3. CASE OtherVariantWrites
  BY <1>3 DEF OtherVariantWrites
<1>4. ASSUME NEW s \in Sellers, SkipBan(s) \/ ClearBan(s) \/ ConfirmBan(s)
      PROVE  PendingUnlistedAndUnique'
  <2>1. pend' \in SUBSET pend /\ sig' = sig /\ held' = held
    BY <1>4 DEF SkipBan, ClearBan, ConfirmBan, BanCheckOf
  <2> QED BY <2>1, FewerPendingsFit
<1>5. CASE MarkBan
  BY <1>5 DEF MarkBan
<1>6. CASE EndCycle
  BY <1>6 DEF EndCycle
<1>7. CASE AbortCycle
  BY <1>7, NoPendingsFit DEF AbortCycle, NothingHeld
<1>8. CASE Restart
  BY <1>8, NoPendingsFit DEF Restart, NothingHeld
<1>9. CASE AdminClear
  BY <1>9, NoPendingsFit DEF AdminClear
<1>10. CASE UNCHANGED vars
  BY <1>10 DEF vars
<1> QED BY <1>1, <1>2, <1>3, <1>4, <1>5, <1>6, <1>7, <1>8, <1>9, <1>10 DEF Next

\* No open pending is on the ladder it would be resolved against, and no pair
\* has two, in the tables and in the poller's copy (write_poll_result, run_cycle).
THEOREM PendingsSafe == Spec => []PendingUnlistedAndUnique
<1>1. Init => PendingUnlistedAndUnique
  BY NoPendingsFit DEF Init, NothingHeld, PendingUnlistedAndUnique
<1>2. PendingUnlistedAndUnique /\ [Next]_vars => PendingUnlistedAndUnique'
  BY PendingsStep
<1> QED BY <1>1, <1>2, PTL DEF Spec

-----------------------------------------------------------------------------
(* Sales rows.                                                             *)

\* Reverting only flips the flag: every row comes from one sale of before.
LEMMA RevertingOrigin ==
  ASSUME NEW S \in SUBSET sales, sales \subseteq SaleRows, NEW r \in Reverting(S)
  PROVE  \E s \in sales :
           /\ s \in S => r = [s EXCEPT !.reverted = TRUE]
           /\ s \notin S => r = s
           /\ r.rule = s.rule /\ r.fp = s.fp /\ r.seller = s.seller
           /\ r.buyer = s.buyer /\ r.poll = s.poll
<1>1. CASE r \in sales \ S
  BY <1>1
<1>2. CASE r \in {[s EXCEPT !.reverted = TRUE] : s \in S}
  <2>1. PICK s \in S : r = [s EXCEPT !.reverted = TRUE]
    BY <1>2
  <2>2. s \in SaleRows
    OBVIOUS
  <2>3. /\ r.rule = s.rule /\ r.fp = s.fp /\ r.seller = s.seller
        /\ r.buyer = s.buyer /\ r.poll = s.poll
    BY <2>1, <2>2 DEF SaleRows
  <2> QED BY <2>1, <2>3
<1> QED BY <1>1, <1>2 DEF Reverting

LEMMA RevertingKeepsUnique ==
  ASSUME NEW S \in SUBSET sales, sales \subseteq SaleRows, OneSalePerDeparture
  PROVE  \A r, q \in Reverting(S) : KeyOf(r) = KeyOf(q) /\ r.poll = q.poll => r = q
<1> SUFFICES ASSUME NEW r \in Reverting(S), NEW q \in Reverting(S),
                    KeyOf(r) = KeyOf(q), r.poll = q.poll
             PROVE  r = q
  OBVIOUS
<1>1. PICK s \in sales : /\ s \in S => r = [s EXCEPT !.reverted = TRUE]
                         /\ s \notin S => r = s
                         /\ r.fp = s.fp /\ r.seller = s.seller /\ r.poll = s.poll
  BY RevertingOrigin
<1>2. PICK t \in sales : /\ t \in S => q = [t EXCEPT !.reverted = TRUE]
                         /\ t \notin S => q = t
                         /\ q.fp = t.fp /\ q.seller = t.seller /\ q.poll = t.poll
  BY RevertingOrigin
<1>3. s = t
  BY <1>1, <1>2 DEF OneSalePerDeparture, KeyOf
<1> QED BY <1>1, <1>2, <1>3

\* The three ways a poll comes to credit a sale are told apart by where the key
\* was listed, and fix the rule.
LEMMA EventOrigin ==
  ASSUME NEW x, IsObservation(x), PendingsFit(x.prev, x.pend), NEW e \in VanishSaleEvents(x)
  PROVE  /\ e.key \in Keys /\ e.rule \in {Instant, Online}
         /\ \/ /\ e.key \notin DOMAIN x.prev /\ e.key \notin DOMAIN x.curr
               /\ \E p \in x.pend : p.key = e.key /\ p.kind = e.rule
            \/ /\ e.key \in DOMAIN x.prev /\ e.key \notin DOMAIN x.curr
               /\ ~IsTransfer(x, e.key[1])
               /\ e.rule = IF x.prev[e.key].instant THEN Instant ELSE Online
            \/ e.key \in DOMAIN x.prev /\ e.key \in DOMAIN x.curr /\ e.rule = Instant
<1>1. e.key \in Keys /\ e.rule \in {Instant, Online}
  BY VanishSaleEventsTyped DEF SaleEvents
<1>2. ASSUME NEW p \in CreditedPendings(x), e.key = p.key, e.rule = p.kind
      PROVE  /\ e.key \notin DOMAIN x.prev /\ e.key \notin DOMAIN x.curr
             /\ \E q \in x.pend : q.key = e.key /\ q.kind = e.rule
  BY <1>2 DEF CreditedPendings, Reappeared, PendingsFit
<1>3. ASSUME NEW p \in CountedAtOnce(x), e.key = p.key, e.rule = p.kind
      PROVE  /\ e.key \in DOMAIN x.prev /\ e.key \notin DOMAIN x.curr
             /\ ~IsTransfer(x, e.key[1])
             /\ e.rule = IF x.prev[e.key].instant THEN Instant ELSE Online
  <2>1. p \in VanishPendings(x)
    BY DEF CountedAtOnce
  <2>2. \/ p.key \in InstantVanishes(x) /\ p.kind = Instant
        \/ p.key \in OnlineVanishes(x) /\ p.kind = Online
    BY <2>1 DEF VanishPendings, NewPendingRow
  <2>3. \A k \in ConsideredVanishes(x) :
          k \in DOMAIN x.prev /\ k \notin DOMAIN x.curr /\ ~IsTransfer(x, k[1])
    BY DEF ConsideredVanishes, Vanished
  <2>4. /\ \A k \in InstantVanishes(x) : k \in ConsideredVanishes(x) /\ x.prev[k].instant
        /\ \A k \in OnlineVanishes(x) : k \in ConsideredVanishes(x) /\ ~x.prev[k].instant
    BY DEF InstantVanishes, OnlineVanishes
  <2> QED BY <1>3, <2>2, <2>3, <2>4
<1>4. ASSUME NEW k \in CountDecreases(x), e.key = k, e.rule = Instant
      PROVE  e.key \in DOMAIN x.prev /\ e.key \in DOMAIN x.curr /\ e.rule = Instant
  BY <1>4 DEF CountDecreases, StillListed
<1>5. \/ \E p \in CreditedPendings(x) : e.key = p.key /\ e.rule = p.kind
      \/ \E p \in CountedAtOnce(x) : e.key = p.key /\ e.rule = p.kind
      \/ \E k \in CountDecreases(x) : e.key = k /\ e.rule = Instant
  BY DEF VanishSaleEvents, SaleEvent
<1> QED BY <1>1, <1>2, <1>3, <1>4, <1>5

\* No two rows a poll enters are about the same key.
LEMMA NewSalesUnique ==
  ASSUME NEW x, NEW kept \in CreditedChoices(x), IsObservation(x), PendingsFit(x.prev, x.pend)
  PROVE  \A r, q \in NewSales(x, kept) : KeyOf(r) = KeyOf(q) => r = q
<1> DEFINE poll == Len(polls) + 1
           Sold(r, e) == r = [rule |-> e.rule, fp |-> e.key[1], seller |-> e.key[2],
                              buyer |-> NoSeller, poll |-> poll, reverted |-> FALSE]
           Moved(r, t) == r = [rule |-> Transfer, fp |-> t.fp, seller |-> t.seller,
                               buyer |-> t.buyer, poll |-> poll, reverted |-> FALSE]
<1>1. \A r \in NewSales(x, kept) : \/ \E e \in VanishSaleEvents(x) : Sold(r, e)
                                   \/ \E t \in Transfers(x) : Moved(r, t)
  BY CreditedAreSaleEvents DEF NewSales
<1>2. ASSUME NEW e \in VanishSaleEvents(x), NEW f \in VanishSaleEvents(x), e.key = f.key
      PROVE  e.rule = f.rule
  <2>1. /\ \/ /\ e.key \notin DOMAIN x.prev
              /\ \E p \in x.pend : p.key = e.key /\ p.kind = e.rule
           \/ /\ e.key \in DOMAIN x.prev /\ e.key \notin DOMAIN x.curr
              /\ e.rule = IF x.prev[e.key].instant THEN Instant ELSE Online
           \/ e.key \in DOMAIN x.prev /\ e.key \in DOMAIN x.curr /\ e.rule = Instant
        /\ \/ /\ f.key \notin DOMAIN x.prev
              /\ \E p \in x.pend : p.key = f.key /\ p.kind = f.rule
           \/ /\ f.key \in DOMAIN x.prev /\ f.key \notin DOMAIN x.curr
              /\ f.rule = IF x.prev[f.key].instant THEN Instant ELSE Online
           \/ f.key \in DOMAIN x.prev /\ f.key \in DOMAIN x.curr /\ f.rule = Instant
    BY EventOrigin
  <2> QED BY <1>2, <2>1 DEF PendingsFit
<1>3. ASSUME NEW t \in Transfers(x)
      PROVE  /\ <<t.fp, t.seller>> \in DOMAIN x.prev
             /\ <<t.fp, t.seller>> \notin DOMAIN x.curr
             /\ IsTransfer(x, t.fp)
  BY DEF Transfers, SellersOf, IsTransfer
<1>4. ASSUME NEW e \in VanishSaleEvents(x), NEW t \in Transfers(x)
      PROVE  <<e.key[1], e.key[2]>> # <<t.fp, t.seller>>
  <2> SUFFICES ASSUME <<e.key[1], e.key[2]>> = <<t.fp, t.seller>>
               PROVE  FALSE
    OBVIOUS
  <2>1. e.key \in Keys
    BY EventOrigin
  <2>2. e.key = <<t.fp, t.seller>> /\ e.key[1] = t.fp
    BY <2>1 DEF Keys
  <2>3. \/ e.key \notin DOMAIN x.prev
        \/ e.key \notin DOMAIN x.curr /\ ~IsTransfer(x, e.key[1])
        \/ e.key \in DOMAIN x.curr
    BY EventOrigin
  <2> QED BY <1>3, <2>2, <2>3
<1>5. ASSUME NEW t \in Transfers(x), NEW u \in Transfers(x), t.fp = u.fp, t.seller = u.seller
      PROVE  t.buyer = u.buyer
  BY <1>5 DEF Transfers
<1>6. \A e \in VanishSaleEvents(x) : e.key = <<e.key[1], e.key[2]>>
  BY EventOrigin DEF Keys
<1>7. \A r, e : Sold(r, e) => KeyOf(r) = <<e.key[1], e.key[2]>>
  BY DEF KeyOf
<1>8. \A r, t : Moved(r, t) => KeyOf(r) = <<t.fp, t.seller>>
  BY DEF KeyOf
<1> SUFFICES ASSUME NEW r \in NewSales(x, kept), NEW q \in NewSales(x, kept),
                    KeyOf(r) = KeyOf(q)
             PROVE  r = q
  OBVIOUS
<1>9. CASE /\ \E e \in VanishSaleEvents(x) : Sold(r, e)
           /\ \E f \in VanishSaleEvents(x) : Sold(q, f)
  <2>1. PICK e \in VanishSaleEvents(x) : Sold(r, e)
    BY <1>9
  <2>2. PICK f \in VanishSaleEvents(x) : Sold(q, f)
    BY <1>9
  <2>3. e.key = f.key
    BY <1>6, <1>7, <2>1, <2>2
  <2> QED BY <1>2, <2>1, <2>2, <2>3
<1>10. CASE /\ \E t \in Transfers(x) : Moved(r, t)
            /\ \E u \in Transfers(x) : Moved(q, u)
  <2>1. PICK t \in Transfers(x) : Moved(r, t)
    BY <1>10
  <2>2. PICK u \in Transfers(x) : Moved(q, u)
    BY <1>10
  <2>3. t.fp = u.fp /\ t.seller = u.seller
    BY <1>8, <2>1, <2>2
  <2> QED BY <1>5, <2>1, <2>2, <2>3
<1> HIDE DEF Sold, Moved
<1> QED BY <1>1, <1>4, <1>7, <1>8, <1>9, <1>10

LEMMA OneSaleStep ==
  ASSUME TypeOK, PendingUnlistedAndUnique, OneSalePerDeparture, [Next]_vars
  PROVE  OneSalePerDeparture'
<1>1. sales \subseteq SaleRows
  BY DEF TypeOK
<1>2. ASSUME NEW S \in SUBSET sales, sales' = Reverting(S)
      PROVE  OneSalePerDeparture'
  BY <1>1, <1>2, RevertingKeepsUnique DEF OneSalePerDeparture, KeyOf
<1>3. ASSUME sales' = sales
      PROVE  OneSalePerDeparture'
  BY <1>3 DEF OneSalePerDeparture, KeyOf
<1>4. CASE WritePoll
  <2>1. PICK x, kept, preview :
          /\ x.prev = held.sig /\ x.pend = held.pend
          /\ x.cycle = cycle /\ x.curr \in Snapshots
          /\ \E gap \in Gaps : x.at = LastPollAt + gap
          /\ kept \in CreditedChoices(x)
          /\ WritePollResult(x, kept, preview)
    BY <1>4, WritePollObserves
  <2> DEFINE undone == PingPongReverts(x) \cup LateRelistReverts(x, preview)
                         \cup RelistReverts(x)
  <2>2. IsObservation(x) /\ PendingsFit(x.prev, x.pend)
    BY <2>1, HeldObserved DEF PendingUnlistedAndUnique
  <2>3. undone \in SUBSET sales
    BY RevertsAreSales, ActiveAreSales
  <2>4. sales' = Reverting(undone) \cup NewSales(x, kept)
    BY <2>1 DEF WritePollResult
  <2> HIDE DEF undone
  <2>5. \A r \in Reverting(undone) : r.poll \in 1..Len(polls)
    <3> SUFFICES ASSUME NEW r \in Reverting(undone)
                 PROVE  r.poll \in 1..Len(polls)
      OBVIOUS
    <3>1. PICK s \in sales : r.poll = s.poll
      BY <1>1, <2>3, RevertingOrigin
    <3> QED BY <3>1 DEF TypeOK
  <2>6. \A r \in NewSales(x, kept) : r.poll = Len(polls) + 1
    BY <2>1, <2>2, NewSalesTyped DEF TypeOK
  <2>7. \A r, q \in Reverting(undone) : KeyOf(r) = KeyOf(q) /\ r.poll = q.poll => r = q
    BY <1>1, <2>3, RevertingKeepsUnique
  <2>8. \A r, q \in NewSales(x, kept) : KeyOf(r) = KeyOf(q) => r = q
    BY <2>1, <2>2, NewSalesUnique
  <2>9. Len(polls) \in Nat
    BY DEF TypeOK
  <2>10. \A r, q \in sales' : KeyOf(r) = KeyOf(q) /\ r.poll = q.poll => r = q
    BY <2>4, <2>5, <2>6, <2>7, <2>8, <2>9
  <2> QED BY <2>10 DEF OneSalePerDeparture, KeyOf
<1>5. ASSUME NEW s \in Sellers, SkipBan(s) \/ ClearBan(s)
      PROVE  OneSalePerDeparture'
  BY <1>3, <1>5 DEF SkipBan, ClearBan
<1>6. ASSUME NEW s \in Sellers, ConfirmBan(s)
      PROVE  OneSalePerDeparture'
  <2>1. PICK ids \in VanishPolls(s) : sales' = Reverting(BannedSales(s, ids))
    BY <1>6 DEF ConfirmBan
  <2>2. BannedSales(s, ids) \in SUBSET sales
    BY DEF BannedSales, ActiveSales
  <2> QED BY <1>2, <2>1, <2>2
<1>7. CASE EndCycle
  <2>1. SalesOn(ActiveSales, Day(LastPollAt)) \in SUBSET sales
    BY DEF SalesOn, ActiveSales
  <2> QED BY <1>2, <1>3, <1>7, <2>1 DEF EndCycle, RevertAnomalyDay
<1>8. CASE AdminClear
  BY <1>8 DEF AdminClear, OneSalePerDeparture
<1>9. CASE Load \/ OtherVariantWrites \/ MarkBan \/ AbortCycle \/ Restart
  BY <1>3, <1>9 DEF Load, OtherVariantWrites, MarkBan, AbortCycle, Restart
<1>10. CASE UNCHANGED vars
  BY <1>3, <1>10 DEF vars
<1> QED BY <1>4, <1>5, <1>6, <1>7, <1>8, <1>9, <1>10 DEF Next

\* No poll sells a pair twice, under one rule or under two: a key is credited
\* from a pending, a departure, a smaller stack or a transfer, and these exclude
\* each other as long as the pendings fit the ladder.
THEOREM OneSaleSafe == Spec => []OneSalePerDeparture
<1>1. Init => OneSalePerDeparture
  BY DEF Init, OneSalePerDeparture
<1>2. TypeOK /\ PendingUnlistedAndUnique /\ OneSalePerDeparture /\ [Next]_vars
        => OneSalePerDeparture'
  BY OneSaleStep
<1> QED BY <1>1, <1>2, TypeCorrect, PendingsSafe, PTL DEF Spec

-----------------------------------------------------------------------------
(* Transfers between two sellers.                                          *)

\* What stays active after a revert was active before and is not in the set.
LEMMA RevertingLeaves ==
  ASSUME NEW S \in SUBSET sales, sales \subseteq SaleRows,
         NEW r \in Reverting(S), Active(r)
  PROVE  r \in ActiveSales /\ r \notin S
<1>1. ASSUME NEW s \in S, r = [s EXCEPT !.reverted = TRUE]
      PROVE  FALSE
  <2>1. s \in SaleRows
    OBVIOUS
  <2>2. r.reverted = TRUE
    BY <1>1, <2>1 DEF SaleRows
  <2> QED BY <2>2 DEF Active
<1>2. r \in sales \ S
  BY <1>1 DEF Reverting
<1> QED BY <1>2 DEF ActiveSales

\* A transfer row a poll enters is of a pair of sellers that had none counted.
LEMMA NewTransfers ==
  ASSUME NEW x, NEW kept \in CreditedChoices(x), IsObservation(x),
         NEW r \in NewSales(x, kept), r.rule = Transfer
  PROVE  r.poll = Len(polls) + 1 /\ TransfersBetween(r.seller, r.buyer) = {}
<1> DEFINE poll == Len(polls) + 1
<1>1. ASSUME NEW e \in kept, r.rule = e.rule
      PROVE  FALSE
  <2>1. e \in SaleEvents
    BY CreditedAreSaleEvents, VanishSaleEventsTyped
  <2>2. e.rule \in {Instant, Online}
    BY <2>1 DEF SaleEvents
  <2> QED BY <1>1, <2>2 DEF Instant, Online, Transfer
<1>2. PICK t \in Transfers(x) \ PingPong(x) :
        r = [rule |-> Transfer, fp |-> t.fp, seller |-> t.seller, buyer |-> t.buyer,
             poll |-> poll, reverted |-> FALSE]
  <2>1. ASSUME NEW e \in kept,
               r = [rule |-> e.rule, fp |-> e.key[1], seller |-> e.key[2],
                    buyer |-> NoSeller, poll |-> poll, reverted |-> FALSE]
        PROVE  FALSE
    BY <1>1, <2>1
  <2> HIDE DEF poll
  <2> QED BY <2>1 DEF NewSales, poll
<1>3. r.poll = poll /\ r.seller = t.seller /\ r.buyer = t.buyer
  BY <1>2
<1>4. TransfersBetween(t.seller, t.buyer) = {}
  BY DEF PingPong
<1> QED BY <1>3, <1>4

LEMMA SettleStep ==
  ASSUME TypeOK, PingPongPairsSettle, [Next]_vars
  PROVE  PingPongPairsSettle'
<1>1. sales \subseteq SaleRows
  BY DEF TypeOK
<1>2. ASSUME NEW S \in SUBSET sales, sales' = Reverting(S)
      PROVE  PingPongPairsSettle'
  <2>1. ActiveSales' \subseteq ActiveSales
    BY <1>1, <1>2, RevertingLeaves DEF ActiveSales, Active
  <2> QED BY <2>1 DEF PingPongPairsSettle
<1>3. ASSUME sales' = sales
      PROVE  PingPongPairsSettle'
  BY <1>3 DEF PingPongPairsSettle, ActiveSales, Active
<1>4. CASE WritePoll
  <2>1. PICK x, kept, preview :
          /\ x.prev = held.sig /\ x.pend = held.pend
          /\ x.cycle = cycle /\ x.curr \in Snapshots
          /\ \E gap \in Gaps : x.at = LastPollAt + gap
          /\ kept \in CreditedChoices(x)
          /\ WritePollResult(x, kept, preview)
    BY <1>4, WritePollObserves
  <2> DEFINE undone == PingPongReverts(x) \cup LateRelistReverts(x, preview)
                         \cup RelistReverts(x)
  <2>2. IsObservation(x)
    BY <2>1, HeldObserved
  <2>3. undone \in SUBSET sales
    BY RevertsAreSales, ActiveAreSales
  <2>4. sales' = Reverting(undone) \cup NewSales(x, kept)
    BY <2>1 DEF WritePollResult
  <2> HIDE DEF undone
  <2>5. ASSUME NEW r \in sales', Active(r), r.rule = Transfer
        PROVE  \/ r \in ActiveSales
               \/ r.poll = Len(polls) + 1 /\ TransfersBetween(r.seller, r.buyer) = {}
    <3>1. CASE r \in Reverting(undone)
      BY <1>1, <2>3, <2>5, <3>1, RevertingLeaves
    <3>2. CASE r \in NewSales(x, kept)
      BY <2>1, <2>2, <2>5, <3>2, NewTransfers
    <3> QED BY <2>4, <3>1, <3>2
  <2>6. SUFFICES ASSUME NEW s \in sales', NEW t \in sales', Active(s), Active(t),
                        s.rule = Transfer, t.rule = Transfer,
                        {s.seller, s.buyer} = {t.seller, t.buyer}
                 PROVE  s.poll = t.poll
    BY DEF PingPongPairsSettle, ActiveSales, Active
  <2>7. CASE s \in ActiveSales /\ t \in ActiveSales
    BY <2>6, <2>7 DEF PingPongPairsSettle
  <2>8. ASSUME NEW r \in ActiveSales, NEW q, r.rule = Transfer,
               {r.seller, r.buyer} = {q.seller, q.buyer}
        PROVE  TransfersBetween(q.seller, q.buyer) # {}
    BY <2>8 DEF TransfersBetween
  <2> QED BY <2>5, <2>6, <2>7, <2>8
<1>5. ASSUME NEW s \in Sellers, SkipBan(s) \/ ClearBan(s)
      PROVE  PingPongPairsSettle'
  BY <1>3, <1>5 DEF SkipBan, ClearBan
<1>6. ASSUME NEW s \in Sellers, ConfirmBan(s)
      PROVE  PingPongPairsSettle'
  <2>1. PICK ids \in VanishPolls(s) : sales' = Reverting(BannedSales(s, ids))
    BY <1>6 DEF ConfirmBan
  <2>2. BannedSales(s, ids) \in SUBSET sales
    BY DEF BannedSales, ActiveSales
  <2> QED BY <1>2, <2>1, <2>2
<1>7. CASE EndCycle
  <2>1. SalesOn(ActiveSales, Day(LastPollAt)) \in SUBSET sales
    BY DEF SalesOn, ActiveSales
  <2> QED BY <1>2, <1>3, <1>7, <2>1 DEF EndCycle, RevertAnomalyDay
<1>8. CASE AdminClear
  BY <1>8 DEF AdminClear, PingPongPairsSettle, ActiveSales
<1>9. CASE Load \/ OtherVariantWrites \/ MarkBan \/ AbortCycle \/ Restart
  BY <1>3, <1>9 DEF Load, OtherVariantWrites, MarkBan, AbortCycle, Restart
<1>10. CASE UNCHANGED vars
  BY <1>3, <1>10 DEF vars
<1> QED BY <1>4, <1>5, <1>6, <1>7, <1>8, <1>9, <1>10 DEF Next

\* The transfers that still count between two sellers all come from one poll: a
\* poll that sees them trade again, in either direction, takes the earlier ones
\* back and enters none, whatever was reverted or credited in between.
THEOREM PingPongSafe == Spec => []PingPongPairsSettle
<1>1. Init => PingPongPairsSettle
  BY DEF Init, PingPongPairsSettle, ActiveSales
<1>2. TypeOK /\ PingPongPairsSettle /\ [Next]_vars => PingPongPairsSettle'
  BY SettleStep
<1> QED BY <1>1, <1>2, TypeCorrect, PTL DEF Spec

-----------------------------------------------------------------------------
(* A pair that stays listed reverts nothing.                               *)

\* What the poller holds is what is stored, unless an admin emptied the tables
\* in the meantime.
HeldIsStored == phase = "loaded" => held.sig = sig \/ sig = <<>>

LEMMA HeldStep == HeldIsStored /\ [Next]_vars => HeldIsStored'
<1> SUFFICES ASSUME HeldIsStored, [Next]_vars
             PROVE  HeldIsStored'
  OBVIOUS
<1> USE DEF HeldIsStored
<1>1. CASE Load
  BY <1>1 DEF Load
<1>2. CASE WritePoll
  BY <1>2 DEF WritePoll
<1>3. ASSUME NEW s \in Sellers, SkipBan(s) \/ ClearBan(s) \/ ConfirmBan(s)
      PROVE  HeldIsStored'
  BY <1>3 DEF SkipBan, ClearBan, ConfirmBan, BanCheckOf
<1>4. CASE AdminClear
  BY <1>4 DEF AdminClear
<1>5. CASE OtherVariantWrites \/ MarkBan \/ EndCycle \/ AbortCycle \/ Restart
  BY <1>5 DEF OtherVariantWrites, MarkBan, EndCycle, AbortCycle, Restart
<1>6. CASE UNCHANGED vars
  BY <1>6 DEF vars
<1> QED BY <1>1, <1>2, <1>3, <1>4, <1>5, <1>6 DEF Next

\* Only a relist or a late relist reverts a sale that is no transfer, and both
\* are of pairs the stored ladder did not have.
LEMMA RevertedWereAway ==
  ASSUME NEW x, NEW preview, NEW kept, PendingsFit(x.prev, x.pend),
         x.prev = sig \/ sig = <<>>, WritePollResult(x, kept, preview)
  PROVE  \A s \in RevertedBy(sales, sales') : s.rule # Transfer => KeyOf(s) \notin DOMAIN sig
<1>1. SUFFICES ASSUME NEW s \in RevertedBy(sales, sales'), s.rule # Transfer
               PROVE  KeyOf(s) \notin DOMAIN sig
  OBVIOUS
<1>2. s \in PingPongReverts(x) \cup LateRelistReverts(x, preview) \cup RelistReverts(x)
  BY DEF WritePollResult, RevertedBy, Reverting
<1>3. s \notin PingPongReverts(x)
  BY <1>1 DEF PingPongReverts, TransfersBetween
<1>4. \A rule, key, since : \A r \in LatestSale(rule, key, since) : KeyOf(r) = key
  BY DEF LatestSale
<1>5. CASE s \in LateRelistReverts(x, preview)
  <2>1. PICK k \in LateRelistKeys(x, preview) : s \in LateRelistRevert(x, k)
    BY <1>5 DEF LateRelistReverts
  <2>2. KeyOf(s) = k
    BY <1>4, <2>1 DEF LateRelistRevert
  <2> QED BY <2>1, <2>2 DEF LateRelistKeys
<1>6. CASE s \in RelistReverts(x)
  <2>1. PICK p \in Relisted(x) : s \in LatestSale(p.kind, p.key, 0)
    BY <1>6 DEF RelistReverts
  <2>2. KeyOf(s) = p.key /\ p \in x.pend
    BY <1>4, <2>1 DEF Relisted, Reappeared
  <2>3. p.key \notin DOMAIN x.prev
    BY <2>2 DEF PendingsFit
  <2> QED BY <2>2, <2>3
<1> QED BY <1>2, <1>3, <1>5, <1>6

\* A poll takes back no sale of a pair that was listed when the poll began.
THEOREM StillListedSafe == Spec => StillListedRevertsNothing
<1> DEFINE Quiet == PollStored =>
             \A s \in RevertedBy(sales, sales') :
               s.rule # Transfer => KeyOf(s) \notin DOMAIN sig
<1>1. Init => HeldIsStored
  BY DEF Init, HeldIsStored
<1>2. PendingUnlistedAndUnique /\ HeldIsStored /\ [Next]_vars => [Quiet]_vars
  <2> SUFFICES ASSUME PendingUnlistedAndUnique, HeldIsStored, Next, PollStored
               PROVE  Quiet
    BY DEF PollStored
  <2>1. WritePoll
    BY DEF Next, PollStored, Load, OtherVariantWrites, SkipBan, ClearBan, ConfirmBan,
           BanCheckOf, MarkBan, EndCycle, AbortCycle, Restart, AdminClear
  <2>2. PICK x, kept, preview : /\ x.prev = held.sig /\ x.pend = held.pend
                                /\ WritePollResult(x, kept, preview)
    BY <2>1, WritePollObserves
  <2>3. PendingsFit(x.prev, x.pend) /\ (x.prev = sig \/ sig = <<>>)
    BY <2>2 DEF PendingUnlistedAndUnique, HeldIsStored, PollStored
  <2> QED BY <2>2, <2>3, RevertedWereAway
<1> HIDE DEF Quiet
<1>3. Spec => [][Quiet]_vars
  BY <1>1, <1>2, HeldStep, PendingsSafe, PTL DEF Spec
<1> QED BY <1>3, PTL DEF StillListedRevertsNothing, Quiet

-----------------------------------------------------------------------------
(* Cycle numbers.                                                          *)

\* The counter in memory is never behind the stored polls, and is ahead of this
\* variant's while a poll is under way.
CycleInv ==
  /\ dbCycle <= cycle
  /\ \A i \in DOMAIN polls : polls[i].cycle <= dbCycle
  /\ NoPollOverwritten

LEMMA CyclesKept ==
  ASSUME polls \in Seq(PollRows), NEW S
  PROVE  /\ DOMAIN PollsWithoutTransfers(S) = DOMAIN polls
         /\ DOMAIN PollsWithoutSales(S) = DOMAIN polls
         /\ DOMAIN RebuiltPolls(S) = DOMAIN polls
         /\ \A i \in DOMAIN polls : /\ PollsWithoutTransfers(S)[i].cycle = polls[i].cycle
                                    /\ PollsWithoutSales(S)[i].cycle = polls[i].cycle
                                    /\ RebuiltPolls(S)[i].cycle = polls[i].cycle
<1>1. \A i \in DOMAIN polls : polls[i] \in PollRows
  OBVIOUS
<1>2. /\ DOMAIN PollsWithoutTransfers(S) = DOMAIN polls
      /\ \A i \in DOMAIN polls : PollsWithoutTransfers(S)[i].cycle = polls[i].cycle
  BY <1>1 DEF PollsWithoutTransfers, PollRows
<1>3. /\ DOMAIN PollsWithoutSales(S) = DOMAIN polls
      /\ \A i \in DOMAIN polls : PollsWithoutSales(S)[i].cycle = polls[i].cycle
  BY <1>1 DEF PollsWithoutSales, PollRows
<1>4. /\ DOMAIN RebuiltPolls(S) = DOMAIN polls
      /\ \A i \in DOMAIN polls : RebuiltPolls(S)[i].cycle = polls[i].cycle
  BY <1>1 DEF RebuiltPolls, PollRows
<1> QED BY <1>2, <1>3, <1>4

LEMMA CycleStep ==
  ASSUME TypeOK, CycleInv, [Next]_vars
  PROVE  CycleInv'
<1> USE DEF CycleInv, NoPollOverwritten
<1>1. cycle \in Nat /\ dbCycle \in Nat /\ \A i \in DOMAIN polls : polls[i].cycle \in Nat
  <2>1. \A i \in DOMAIN polls : polls[i] \in PollRows
    BY DEF TypeOK
  <2> QED BY <2>1 DEF TypeOK, PollRows
<1>2. ASSUME UNCHANGED <<cycle, dbCycle>>, phase' # "loaded",
             DOMAIN polls' = DOMAIN polls,
             \A i \in DOMAIN polls : polls'[i].cycle = polls[i].cycle
      PROVE  CycleInv'
  BY <1>2
<1>3. CASE Load
  BY <1>1, <1>3 DEF Load
<1>4. CASE WritePoll
  <2>1. PICK x, kept, preview : x.cycle = cycle /\ WritePollResult(x, kept, preview)
    BY <1>4, WritePollObserves
  <2> DEFINE lowered == PollsWithoutTransfers(PingPongReverts(x))
             row == NewPollRow(x, kept, LateRelistReverts(x, preview))
  <2>2. polls' = Append(lowered, row) /\ dbCycle' = cycle
    BY <2>1 DEF WritePollResult
  <2>3. row.cycle = cycle
    BY <2>1 DEF NewPollRow
  <2>4. phase = "loaded" /\ phase' = "post" /\ cycle' = cycle
    BY <1>4 DEF WritePoll
  <2>5. polls \in Seq(PollRows) /\ DOMAIN polls = 1..Len(polls) /\ Len(polls) \in Nat
    BY DEF TypeOK
  <2>6. /\ DOMAIN lowered = DOMAIN polls
        /\ \A i \in DOMAIN polls : lowered[i].cycle = polls[i].cycle
    BY <2>5, CyclesKept
  <2>7. lowered = [i \in 1..Len(polls) |-> lowered[i]]
    BY <2>5 DEF PollsWithoutTransfers
  <2> HIDE DEF lowered, row
  <2>8. lowered \in Seq({lowered[i] : i \in 1..Len(polls)}) /\ Len(lowered) = Len(polls)
    BY <2>5, <2>7
  <2>9. /\ DOMAIN polls' = 1..(Len(polls) + 1)
        /\ \A i \in 1..Len(polls) : polls'[i].cycle = polls[i].cycle
        /\ polls'[Len(polls) + 1].cycle = cycle
    <3>1. /\ DOMAIN Append(lowered, row) = 1..(Len(polls) + 1)
          /\ \A i \in 1..Len(polls) : Append(lowered, row)[i] = lowered[i]
          /\ Append(lowered, row)[Len(polls) + 1] = row
      BY <2>5, <2>8
    <3> QED BY <2>2, <2>3, <2>5, <2>6, <3>1
  <2>10. \A i \in DOMAIN polls' : i \in 1..Len(polls) \/ i = Len(polls) + 1
    BY <2>5, <2>9
  <2>11. \A i \in 1..Len(polls) : polls[i].cycle \in Nat /\ polls[i].cycle < cycle
    BY <1>1, <2>4, <2>5
  <2>12. \A i \in DOMAIN polls' : polls'[i].cycle <= dbCycle'
    BY <1>1, <2>2, <2>9, <2>10, <2>11
  <2>13. ASSUME NEW i \in DOMAIN polls', NEW j \in DOMAIN polls', i < j
         PROVE  polls'[i].cycle < polls'[j].cycle
    <3>1. i \in 1..Len(polls)
      BY <2>5, <2>9, <2>13
    <3>2. CASE j \in 1..Len(polls)
      <4>1. polls[i].cycle < polls[j].cycle
        BY <2>5, <2>13, <3>1, <3>2
      <4> QED BY <2>9, <3>1, <3>2, <4>1
    <3>3. CASE j = Len(polls) + 1
      BY <2>9, <2>11, <3>1, <3>3
    <3> QED BY <2>10, <3>2, <3>3
  <2>14. dbCycle' <= cycle' /\ phase' # "loaded"
    BY <1>1, <2>2, <2>4
  <2> QED BY <2>12, <2>13, <2>14
<1>5. CASE OtherVariantWrites
  BY <1>1, <1>5 DEF OtherVariantWrites
<1>6. ASSUME NEW s \in Sellers, SkipBan(s) \/ ClearBan(s)
      PROVE  CycleInv'
  BY <1>6 DEF SkipBan, ClearBan, BanCheckOf
<1>7. ASSUME NEW s \in Sellers, ConfirmBan(s)
      PROVE  CycleInv'
  <2>1. PICK ids \in VanishPolls(s) : polls' = PollsWithoutSales(BannedSales(s, ids))
    BY <1>7 DEF ConfirmBan
  <2>2. UNCHANGED <<cycle, dbCycle, phase>> /\ phase = "post"
    BY <1>7 DEF ConfirmBan, BanCheckOf
  <2> QED BY <1>2, <2>1, <2>2, CyclesKept DEF TypeOK
<1>8. CASE EndCycle
  <2>1. UNCHANGED <<cycle, dbCycle>> /\ phase' = "idle"
    BY <1>8 DEF EndCycle
  <2>2. CASE RevertAnomalyDay(Day(LastPollAt))
    BY <1>2, <2>1, <2>2, CyclesKept DEF RevertAnomalyDay, TypeOK
  <2>3. CASE UNCHANGED <<sales, polls>>
    BY <1>2, <2>1, <2>3
  <2> QED BY <1>8, <2>2, <2>3 DEF EndCycle
<1>9. CASE MarkBan \/ AbortCycle
  BY <1>9 DEF MarkBan, AbortCycle
<1>10. CASE Restart
  BY <1>1, <1>10 DEF Restart, LatestCycleNumber
<1>11. CASE AdminClear
  BY <1>1, <1>11 DEF AdminClear
<1>12. CASE UNCHANGED vars
  BY <1>12 DEF vars
<1> QED BY <1>3, <1>4, <1>5, <1>6, <1>7, <1>8, <1>9, <1>10, <1>11, <1>12 DEF Next

\* Storing a poll never replaces another: cycle numbers grow through failures,
\* restarts and clears of the market data.
THEOREM PollsSafe == Spec => []NoPollOverwritten
<1>1. Init => CycleInv
  BY DEF Init, CycleInv, NoPollOverwritten
<1>2. TypeOK /\ CycleInv /\ [Next]_vars => CycleInv'
  BY CycleStep
<1>3. CycleInv => NoPollOverwritten
  BY DEF CycleInv
<1> QED BY <1>1, <1>2, <1>3, TypeCorrect, PTL DEF Spec

-----------------------------------------------------------------------------
(* The pendings and the sales they stand for.                              *)

\* The end of a cycle at which the anomaly-day check reverts something.
AnomalyDayReverted == phase = "post" /\ phase' = "idle" /\ sales' # sales

\* A pending is stored with a poll.  What the poller holds was all removed in
\* earlier cycles and is still stored, unless the sales were cleared with it.
MatchInv ==
  /\ pend # {} => polls # <<>>
  /\ phase = "loaded" =>
       /\ \A p \in held.pend : p.removed < cycle
       /\ held.pend = pend \/ sales = {}
  /\ PendingsMatchSales

\* A pending that a poll stores is one of this cycle, from a listing that left, or
\* an earlier one whose grace goes on.
LEMMA NewPendingOrigin ==
  ASSUME NEW x, IsObservation(x), PendingsFit(x.prev, x.pend), NEW kept,
         \A q \in x.pend : q.removed < x.cycle, NEW p \in NewPendings(x, kept)
  PROVE  /\ p.key \notin DOMAIN x.curr
         /\ x.cycle - p.removed \in 0..p.grace
         /\ \/ /\ p \in VanishPendings(x) /\ p.removed = x.cycle /\ p.key \in DOMAIN x.prev
               /\ ~IsTransfer(x, p.key[1])
               /\ ~(p.key \in KeysOf(VanishSaleEvents(x) \ kept) \ KeysOf(kept))
            \/ /\ p \in x.pend /\ p.key \notin DOMAIN x.prev /\ ~p.counted
               /\ p \notin CreditedPendings(x)
<1>1. CASE p \in StillPending(x)
  <2>1. p \in x.pend /\ p.key \notin DOMAIN x.curr /\ p.key \notin DOMAIN x.prev
    BY <1>1 DEF StillPending, Reappeared, PendingsFit
  <2>2. p.removed \in Nat /\ p.grace \in Nat /\ x.cycle \in Nat /\ p.removed < x.cycle
    BY <2>1 DEF IsObservation, PendingRows
  <2>3. WithinGrace(x, p)
    BY <1>1, <2>2 DEF StillPending
  <2>4. ~p.counted /\ x.cycle - p.removed \in 0..p.grace
    BY <2>2, <2>3 DEF WithinGrace, PollsAbsent
  <2> QED BY <1>1, <2>1, <2>4 DEF CreditedPendings
<1>2. CASE p \in VanishPendings(x)
  <2>1. PICK k \in ConsideredVanishes(x) : p.key = k /\ p.removed = x.cycle
    BY <1>2 DEF VanishPendings, NewPendingRow, InstantVanishes, OnlineVanishes
  <2>2. k \in DOMAIN x.prev /\ k \notin DOMAIN x.curr /\ ~IsTransfer(x, k[1])
    BY DEF ConsideredVanishes, Vanished
  <2>3. p.grace \in Nat /\ x.cycle \in Nat
    BY <1>2, VanishPendingsTyped DEF PendingRows, IsObservation
  <2>4. ~(p.key \in KeysOf(VanishSaleEvents(x) \ kept) \ KeysOf(kept))
    BY <2>1 DEF NewPendings
  <2> QED BY <1>2, <2>1, <2>2, <2>3, <2>4
<1> QED BY <1>1, <1>2 DEF NewPendings

\* The removal of a listing claims a sale of its own at most, and only at once.
LEMMA VanishedKeyEvents ==
  ASSUME NEW x, IsObservation(x), PendingsFit(x.prev, x.pend),
         NEW p \in VanishPendings(x), NEW e \in VanishSaleEvents(x), e.key = p.key
  PROVE  p.counted /\ e.rule = p.kind
<1>1. \A q \in VanishPendings(x) : q.key \in DOMAIN x.prev /\ q.key \notin DOMAIN x.curr
  BY DEF VanishPendings, NewPendingRow, InstantVanishes, OnlineVanishes,
         ConsideredVanishes, Vanished
<1>2. \A q \in CreditedPendings(x) : q.key \notin DOMAIN x.prev
  BY DEF CreditedPendings, PendingsFit
<1>3. \A k \in CountDecreases(x) : k \in DOMAIN x.curr
  BY DEF CountDecreases, StillListed
<1>4. \/ \E q \in CreditedPendings(x) : e.key = q.key
      \/ \E q \in CountedAtOnce(x) : e.key = q.key /\ e.rule = q.kind
      \/ \E k \in CountDecreases(x) : e.key = k
  BY DEF VanishSaleEvents, SaleEvent
<1>5. PICK q \in CountedAtOnce(x) : e.key = q.key /\ e.rule = q.kind
  BY <1>1, <1>2, <1>3, <1>4
<1>6. \A r, s \in VanishPendings(x) : r.key = s.key => r = s
  <2>1. \A k \in InstantVanishes(x) : x.prev[k].instant
    BY DEF InstantVanishes
  <2>2. \A k \in OnlineVanishes(x) : ~x.prev[k].instant
    BY DEF OnlineVanishes
  <2> QED BY <2>1, <2>2 DEF VanishPendings, NewPendingRow
<1> QED BY <1>5, <1>6 DEF CountedAtOnce

\* A pending counted by this poll has its row among the poll's, with its rule.
LEMMA CountedHasRow ==
  ASSUME NEW x, IsObservation(x), PendingsFit(x.prev, x.pend), NEW kept \in CreditedChoices(x),
         NEW p \in VanishPendings(x), p.counted,
         ~(p.key \in KeysOf(VanishSaleEvents(x) \ kept) \ KeysOf(kept))
  PROVE  \E s \in NewSales(x, kept) : Active(s) /\ s.rule = p.kind /\ KeyOf(s) = p.key
<1>1. SaleEvent(p.kind, p.key, 3, 1) \in VanishSaleEvents(x)
  BY DEF VanishSaleEvents, CountedAtOnce
<1>2. SaleEvent(p.kind, p.key, 3, 1).key = p.key
  BY DEF SaleEvent
<1>3. PICK e \in kept : e.key = p.key
  BY <1>1, <1>2 DEF KeysOf
<1>4. e \in VanishSaleEvents(x)
  BY CreditedAreSaleEvents
<1>5. e.rule = p.kind /\ e.key \in Keys
  BY <1>3, <1>4, VanishedKeyEvents, EventOrigin
<1> DEFINE row == [rule |-> e.rule, fp |-> e.key[1], seller |-> e.key[2], buyer |-> NoSeller,
                   poll |-> Len(polls) + 1, reverted |-> FALSE]
<1>6. row \in NewSales(x, kept)
  BY DEF NewSales
<1>7. Active(row) /\ row.rule = p.kind /\ KeyOf(row) = p.key
  BY <1>3, <1>5 DEF Active, KeyOf, Keys
<1> QED BY <1>6, <1>7

\* No row of the poll is of a pair whose credit it defers or goes on deferring.
LEMMA DeferredHasNoRow ==
  ASSUME NEW x, IsObservation(x), PendingsFit(x.prev, x.pend), NEW kept \in CreditedChoices(x),
         NEW p, p.key \notin DOMAIN x.curr, p.key \in Keys, ~p.counted,
         \/ p \in VanishPendings(x) /\ ~IsTransfer(x, p.key[1])
         \/ p \in x.pend /\ p.key \notin DOMAIN x.prev /\ p \notin CreditedPendings(x)
  PROVE  \A s \in NewSales(x, kept) : KeyOf(s) # p.key
<1> SUFFICES ASSUME NEW s \in NewSales(x, kept), KeyOf(s) = p.key
             PROVE  FALSE
  OBVIOUS
<1>1. ASSUME NEW t \in Transfers(x), s.fp = t.fp, s.seller = t.seller
      PROVE  FALSE
  <2>1. p.key \in DOMAIN x.prev /\ IsTransfer(x, t.fp) /\ p.key[1] = t.fp
    BY <1>1 DEF Transfers, SellersOf, IsTransfer, KeyOf
  <2> QED BY <2>1
<1>2. ASSUME NEW e \in VanishSaleEvents(x), s.fp = e.key[1], s.seller = e.key[2]
      PROVE  FALSE
  <2>1. e.key \in Keys
    BY EventOrigin
  <2>2. e.key = p.key
    BY <1>2, <2>1 DEF KeyOf, Keys
  <2>3. p \notin VanishPendings(x)
    BY <2>2, VanishedKeyEvents
  <2>4. p \in x.pend /\ p.key \notin DOMAIN x.prev /\ p \notin CreditedPendings(x)
    BY <2>3
  <2>5. \A q \in CountedAtOnce(x) : q.key \in DOMAIN x.prev
    BY DEF CountedAtOnce, VanishPendings, NewPendingRow, InstantVanishes, OnlineVanishes,
           ConsideredVanishes, Vanished
  <2>6. \A k \in CountDecreases(x) : k \in DOMAIN x.curr
    BY DEF CountDecreases, StillListed
  <2>7. \A q \in CreditedPendings(x) : q.key # p.key
    BY <2>4 DEF CreditedPendings, PendingsFit
  <2>8. \/ \E q \in CreditedPendings(x) : e.key = q.key
        \/ \E q \in CountedAtOnce(x) : e.key = q.key
        \/ \E k \in CountDecreases(x) : e.key = k
    BY DEF VanishSaleEvents, SaleEvent
  <2> QED BY <2>2, <2>4, <2>5, <2>6, <2>7, <2>8
<1>3. \/ \E t \in Transfers(x) : s.fp = t.fp /\ s.seller = t.seller
      \/ \E e \in VanishSaleEvents(x) : s.fp = e.key[1] /\ s.seller = e.key[2]
  BY CreditedAreSaleEvents DEF NewSales
<1> QED BY <1>1, <1>2, <1>3

\* Poll sequences with the same positions are equally long.
LEMMA EquallyLong ==
  ASSUME NEW P, NEW Q, NEW T, P \in Seq(T), Q \in Seq(T), DOMAIN P = DOMAIN Q
  PROVE  Len(P) = Len(Q)
<1>1. Len(P) \in Nat /\ Len(Q) \in Nat /\ 1..Len(P) = 1..Len(Q)
  OBVIOUS
<1>2. \A m, n \in Nat : 1..m = 1..n => m <= n
  <2> SUFFICES ASSUME NEW m \in Nat, NEW n \in Nat, 1..m = 1..n, ~(m <= n)
               PROVE  FALSE
    OBVIOUS
  <2>1. m \in 1..m /\ m \notin 1..n
    OBVIOUS
  <2> QED BY <2>1
<1>3. Len(P) <= Len(Q) /\ Len(Q) <= Len(P)
  BY <1>1, <1>2
<1> QED BY <1>1, <1>3

\* Fewer pendings and fewer counted sales, but not those that back a pending.
LEMMA MatchKept ==
  ASSUME TypeOK, TypeOK', PendingsMatchSales, pend # {} => polls # <<>>, pend' \subseteq pend,
         DOMAIN polls' = DOMAIN polls, \A i \in DOMAIN polls : polls'[i].cycle = polls[i].cycle,
         ActiveSales' \subseteq ActiveSales,
         \A p \in pend', s \in ActiveSales : KeyOf(s) = p.key /\ s.rule = p.kind => s \in ActiveSales'
  PROVE  PendingsMatchSales' /\ (pend' # {} => polls' # <<>>)
<1>1. \A s \in ActiveSales : s.poll \in DOMAIN polls /\ polls'[s.poll].cycle = polls[s.poll].cycle
  BY DEF TypeOK, ActiveSales
<1>2. polls \in Seq(PollRows) /\ polls' \in Seq(PollRows)
  BY DEF TypeOK
<1>3. Len(polls') = Len(polls) /\ (polls # <<>> => Len(polls) \in DOMAIN polls)
  BY <1>2, EquallyLong
<1>4. pend' # {} => polls' # <<>>
  BY <1>2, <1>3
<1>5. CountedBacked'
  <2> SUFFICES ASSUME NEW p \in pend', p.counted
               PROVE  \E s \in ActiveSales' : /\ s.rule = p.kind /\ KeyOf(s) = p.key
                                              /\ polls'[s.poll].cycle = p.removed
    BY DEF CountedBacked, KeyOf
  <2>1. PICK s \in ActiveSales : /\ s.rule = p.kind /\ KeyOf(s) = p.key
                                 /\ polls[s.poll].cycle = p.removed
    BY DEF PendingsMatchSales, CountedBacked
  <2> QED BY <1>1, <2>1
<1>6. DeferredUnsold'
  BY <1>1 DEF PendingsMatchSales, DeferredUnsold, KeyOf
<1>7. WithinItsWindow'
  BY <1>3 DEF PendingsMatchSales, WithinItsWindow
<1> QED BY <1>4, <1>5, <1>6, <1>7 DEF PendingsMatchSales

\* Where a stored poll stands, and the cycles of the polls before it.
LEMMA PollStoredAt ==
  ASSUME TypeOK, NEW x, NEW kept, NEW preview, WritePollResult(x, kept, preview)
  PROVE  /\ Len(polls) \in Nat /\ DOMAIN polls = 1..Len(polls)
         /\ Len(polls') = Len(polls) + 1
         /\ \A i \in 1..Len(polls) : polls'[i].cycle = polls[i].cycle
         /\ polls'[Len(polls) + 1].cycle = x.cycle
<1> DEFINE lowered == PollsWithoutTransfers(PingPongReverts(x))
           row == NewPollRow(x, kept, LateRelistReverts(x, preview))
<1>1. polls' = Append(lowered, row) /\ row.cycle = x.cycle
  BY DEF WritePollResult, NewPollRow
<1>2. polls \in Seq(PollRows) /\ DOMAIN polls = 1..Len(polls) /\ Len(polls) \in Nat
  BY DEF TypeOK
<1>3. /\ DOMAIN lowered = DOMAIN polls
      /\ \A i \in DOMAIN polls : lowered[i].cycle = polls[i].cycle
  BY <1>2, CyclesKept
<1>4. lowered = [i \in 1..Len(polls) |-> lowered[i]]
  BY <1>2 DEF PollsWithoutTransfers
<1> HIDE DEF lowered, row
<1>5. lowered \in Seq({lowered[i] : i \in 1..Len(polls)}) /\ Len(lowered) = Len(polls)
  BY <1>2, <1>4
<1>6. /\ Len(Append(lowered, row)) = Len(polls) + 1
      /\ \A i \in 1..Len(polls) : Append(lowered, row)[i] = lowered[i]
      /\ Append(lowered, row)[Len(polls) + 1] = row
  BY <1>2, <1>5
<1> QED BY <1>1, <1>2, <1>3, <1>6

LEMMA WritePollMatches ==
  ASSUME TypeOK, PendingUnlistedAndUnique, CycleInv, MatchInv, WritePoll
  PROVE  PendingsMatchSales'
<1>1. PICK x, kept, preview :
        /\ x.prev = held.sig /\ x.pend = held.pend
        /\ x.cycle = cycle /\ x.curr \in Snapshots
        /\ \E gap \in Gaps : x.at = LastPollAt + gap
        /\ kept \in CreditedChoices(x)
        /\ WritePollResult(x, kept, preview)
  BY WritePollObserves
<1> DEFINE undone == PingPongReverts(x) \cup LateRelistReverts(x, preview)
                       \cup RelistReverts(x)
           last == Len(polls) + 1
<1>2. IsObservation(x) /\ PendingsFit(x.prev, x.pend)
  BY <1>1, HeldObserved DEF PendingUnlistedAndUnique
<1>3. phase = "loaded"
  BY DEF WritePoll
<1>4. /\ \A q \in x.pend : q.removed < x.cycle
      /\ x.pend = pend \/ sales = {}
  BY <1>1, <1>3 DEF MatchInv
<1>5. sales \subseteq SaleRows /\ undone \in SUBSET sales
  BY RevertsAreSales, ActiveAreSales DEF TypeOK
<1>6. sales' = Reverting(undone) \cup NewSales(x, kept) /\ pend' = NewPendings(x, kept)
  BY <1>1 DEF WritePollResult
<1> HIDE DEF undone
<1>7. /\ Len(polls) \in Nat /\ DOMAIN polls = 1..Len(polls) /\ Len(polls') = last
      /\ \A i \in 1..Len(polls) : polls'[i].cycle = polls[i].cycle
      /\ polls'[last].cycle = x.cycle
  BY <1>1, PollStoredAt
<1>8. \A s \in NewSales(x, kept) : s.poll = last
  BY <1>1, <1>2, NewSalesTyped DEF TypeOK
<1>9. \A s \in ActiveSales' :
        \/ s \in NewSales(x, kept)
        \/ /\ s \in ActiveSales /\ s \in sales
           /\ polls'[s.poll].cycle = polls[s.poll].cycle /\ polls[s.poll].cycle < x.cycle
  <2> SUFFICES ASSUME NEW s \in ActiveSales', s \notin NewSales(x, kept)
               PROVE  /\ s \in ActiveSales /\ s \in sales
                      /\ polls'[s.poll].cycle = polls[s.poll].cycle
                      /\ polls[s.poll].cycle < x.cycle
    OBVIOUS
  <2>1. s \in Reverting(undone) /\ Active(s)
    BY <1>6 DEF ActiveSales, Active
  <2>2. s \in ActiveSales /\ s \in sales
    BY <1>5, <2>1, RevertingLeaves DEF ActiveSales
  <2>3. s.poll \in DOMAIN polls
    BY <2>2 DEF TypeOK
  <2> QED BY <1>1, <1>3, <1>7, <2>2, <2>3 DEF CycleInv, NoPollOverwritten
<1>10. \A p \in pend' : p \in PendingRows
  BY <1>2, <1>6, NewPendingsTyped
<1>11. CountedBacked'
  <2> SUFFICES ASSUME NEW p \in pend', p.counted
               PROVE  \E s \in ActiveSales' : /\ s.rule = p.kind /\ KeyOf(s) = p.key
                                              /\ polls'[s.poll].cycle = p.removed
    BY DEF CountedBacked, KeyOf
  <2>1. /\ p \in VanishPendings(x) /\ p.removed = x.cycle
        /\ ~(p.key \in KeysOf(VanishSaleEvents(x) \ kept) \ KeysOf(kept))
    BY <1>2, <1>4, <1>6, NewPendingOrigin
  <2>2. PICK s \in NewSales(x, kept) : Active(s) /\ s.rule = p.kind /\ KeyOf(s) = p.key
    BY <1>1, <1>2, <2>1, CountedHasRow
  <2>3. s \in ActiveSales'
    BY <1>6, <2>2 DEF ActiveSales, Active
  <2> QED BY <1>7, <1>8, <2>1, <2>2, <2>3
<1>12. DeferredUnsold'
  <2> SUFFICES ASSUME NEW p \in pend', ~p.counted, NEW s \in ActiveSales',
                      KeyOf(s) = p.key, polls'[s.poll].cycle >= p.removed
               PROVE  FALSE
    BY DEF DeferredUnsold, KeyOf
  <2>1. /\ p.key \notin DOMAIN x.curr /\ p.key \in Keys
        /\ \/ /\ p \in VanishPendings(x) /\ p.removed = x.cycle
              /\ ~IsTransfer(x, p.key[1])
           \/ p \in x.pend /\ p.key \notin DOMAIN x.prev /\ p \notin CreditedPendings(x)
    BY <1>2, <1>4, <1>6, <1>10, NewPendingOrigin DEF PendingRows
  <2>2. s \notin NewSales(x, kept)
    BY <1>1, <1>2, <2>1, DeferredHasNoRow
  <2>3. /\ s \in ActiveSales /\ s \in sales
        /\ polls[s.poll].cycle >= p.removed /\ polls[s.poll].cycle < x.cycle
    BY <1>9, <2>2
  <2>4. polls[s.poll].cycle \in Nat /\ x.cycle \in Nat
    <3>1. polls[s.poll] \in PollRows
      BY <2>3 DEF TypeOK
    <3> QED BY <1>1, <3>1 DEF PollRows, TypeOK
  <2>5. p \in x.pend
    BY <2>1, <2>3, <2>4
  <2>6. p \in pend
    BY <1>4, <2>3, <2>5
  <2> QED BY <2>3, <2>6 DEF MatchInv, PendingsMatchSales, DeferredUnsold
<1>13. WithinItsWindow'
  BY <1>2, <1>4, <1>6, <1>7, NewPendingOrigin DEF WithinItsWindow
<1> QED BY <1>11, <1>12, <1>13 DEF PendingsMatchSales

LEMMA MatchStep ==
  ASSUME TypeOK, TypeOK', PendingUnlistedAndUnique, CycleInv, MatchInv,
         [~AnomalyDayReverted]_vars, [Next]_vars
  PROVE  MatchInv'
<1>1. cycle \in Nat /\ dbCycle \in Nat /\ dbCycle <= cycle
  BY DEF TypeOK, CycleInv
<1>2. ASSUME UNCHANGED <<pend, polls, sales>>
      PROVE  PendingsMatchSales' /\ (pend' # {} => polls' # <<>>)
  BY <1>2 DEF MatchInv, PendingsMatchSales, CountedBacked, DeferredUnsold, WithinItsWindow,
              ActiveSales, Active, KeyOf
<1>3. ASSUME pend' = {}
      PROVE  PendingsMatchSales' /\ (pend' # {} => polls' # <<>>)
  BY <1>3 DEF PendingsMatchSales, CountedBacked, DeferredUnsold, WithinItsWindow
<1>4. CASE Load
  <2>1. \A p \in pend : p.removed <= dbCycle
    <3> SUFFICES ASSUME NEW p \in pend
                 PROVE  p.removed <= dbCycle
      OBVIOUS
    <3>1. polls \in Seq(PollRows) /\ polls # <<>>
      BY DEF MatchInv, TypeOK
    <3>2. Len(polls) \in DOMAIN polls /\ polls[Len(polls)] \in PollRows
      BY <3>1
    <3>3. polls[Len(polls)].cycle \in Nat /\ polls[Len(polls)].cycle <= dbCycle
      BY <3>2 DEF CycleInv, PollRows
    <3>4. p.removed \in Nat /\ p.grace \in Nat
      BY DEF TypeOK, PendingRows
    <3>5. polls[Len(polls)].cycle - p.removed \in 0..p.grace
      BY DEF MatchInv, PendingsMatchSales, WithinItsWindow
    <3> QED BY <1>1, <3>3, <3>4, <3>5
  <2>2. held'.pend = pend /\ cycle' = cycle + 1 /\ UNCHANGED <<pend, polls, sales>>
    BY <1>4 DEF Load
  <2>3. \A p \in pend : p.removed \in Nat
    BY DEF TypeOK, PendingRows
  <2> QED BY <1>1, <1>2, <2>1, <2>2, <2>3 DEF MatchInv
<1>5. CASE WritePoll
  <2>1. phase' = "post"
    BY <1>5 DEF WritePoll
  <2>2. PICK x, kept, preview : WritePollResult(x, kept, preview)
    BY <1>5, WritePollObserves
  <2>3. Len(polls') = Len(polls) + 1 /\ Len(polls) \in Nat
    BY <2>2, PollStoredAt
  <2>4. polls' # <<>>
    BY <2>3
  <2> QED BY <1>5, <2>1, <2>4, WritePollMatches DEF MatchInv
<1>6. CASE OtherVariantWrites \/ MarkBan
  BY <1>2, <1>6 DEF MatchInv, OtherVariantWrites, MarkBan
<1>7. ASSUME NEW s \in Sellers, SkipBan(s) \/ ClearBan(s)
      PROVE  MatchInv'
  BY <1>2, <1>7 DEF MatchInv, SkipBan, ClearBan, BanCheckOf
<1>8. ASSUME NEW s \in Sellers, ConfirmBan(s)
      PROVE  MatchInv'
  <2>1. PICK ids \in VanishPolls(s) : /\ sales' = Reverting(BannedSales(s, ids))
                                      /\ polls' = PollsWithoutSales(BannedSales(s, ids))
    BY <1>8 DEF ConfirmBan
  <2>2. BannedSales(s, ids) \in SUBSET sales /\ sales \subseteq SaleRows
    BY DEF BannedSales, ActiveSales, TypeOK
  <2>3. ActiveSales' \subseteq ActiveSales
    BY <2>1, <2>2, RevertingLeaves DEF ActiveSales, Active
  <2>4. pend' = IF VanishedKeys(s) = {} THEN pend ELSE {p \in pend : p.key[2] # s}
    BY <1>8 DEF ConfirmBan
  <2>5. \A p \in pend', r \in ActiveSales : KeyOf(r) = p.key => r \in ActiveSales'
    <3> SUFFICES ASSUME NEW p \in pend', NEW r \in ActiveSales, KeyOf(r) = p.key
                 PROVE  r \notin BannedSales(s, ids)
      BY <2>1 DEF Reverting, ActiveSales, Active
    <3>1. CASE VanishedKeys(s) = {}
      <4>1. ids = {}
        BY <3>1 DEF VanishPolls
      <4> QED BY <4>1 DEF BannedSales
    <3>2. CASE VanishedKeys(s) # {}
      <4>1. p.key[2] # s
        BY <2>4, <3>2
      <4>2. r.seller # s
        BY <4>1 DEF KeyOf
      <4> QED BY <4>2 DEF BannedSales
    <3> QED BY <3>1, <3>2
  <2>6. /\ DOMAIN polls' = DOMAIN polls
        /\ \A i \in DOMAIN polls : polls'[i].cycle = polls[i].cycle
    BY <2>1, CyclesKept DEF TypeOK
  <2>7. PendingsMatchSales' /\ (pend' # {} => polls' # <<>>)
    BY <2>3, <2>4, <2>5, <2>6, MatchKept DEF MatchInv
  <2>8. phase' # "loaded"
    BY <1>8 DEF ConfirmBan, BanCheckOf
  <2> QED BY <2>7, <2>8 DEF MatchInv
<1>9. CASE EndCycle
  <2>1. phase = "post" /\ phase' = "idle" /\ pend' = pend
    BY <1>9 DEF EndCycle
  <2>2. sales' = sales
    BY <2>1 DEF AnomalyDayReverted, vars
  <2>3. /\ DOMAIN polls' = DOMAIN polls
        /\ \A i \in DOMAIN polls : polls'[i].cycle = polls[i].cycle
    BY <1>9, CyclesKept DEF EndCycle, RevertAnomalyDay, TypeOK
  <2>4. ActiveSales' = ActiveSales
    BY <2>2 DEF ActiveSales, Active
  <2>5. PendingsMatchSales' /\ (pend' # {} => polls' # <<>>)
    BY <2>1, <2>3, <2>4, MatchKept DEF MatchInv
  <2> QED BY <2>1, <2>5 DEF MatchInv
<1>10. CASE AbortCycle
  BY <1>2, <1>10 DEF MatchInv, AbortCycle
<1>11. CASE Restart
  BY <1>2, <1>3, <1>11 DEF MatchInv, Restart
<1>12. CASE AdminClear
  BY <1>3, <1>12 DEF MatchInv, AdminClear
<1>13. CASE UNCHANGED vars
  BY <1>2, <1>13 DEF MatchInv, vars
<1> QED BY <1>4, <1>5, <1>6, <1>7, <1>8, <1>9, <1>10, <1>11, <1>12, <1>13 DEF Next

\* As long as no day is reverted as an anomaly, the pendings and the sales agree:
\* a counted pending has its sale, a deferred one has none, and neither outlives
\* its window, through bans, failures, restarts and clears at any moment.  The
\* condition is needed: the anomaly-day check leaves the pendings of the sales
\* that it reverts.
THEOREM PendingsMatch == Spec /\ [][~AnomalyDayReverted]_vars => []PendingsMatchSales
<1>1. Init => MatchInv
  BY DEF Init, MatchInv, PendingsMatchSales, CountedBacked, DeferredUnsold, WithinItsWindow
<1>2. TypeOK /\ TypeOK' /\ PendingUnlistedAndUnique /\ CycleInv /\ MatchInv
        /\ [~AnomalyDayReverted]_vars /\ [Next]_vars => MatchInv'
  BY MatchStep
<1>3. MatchInv => PendingsMatchSales
  BY DEF MatchInv
<1>4. Init => CycleInv
  BY DEF Init, CycleInv, NoPollOverwritten
<1>5. TypeOK /\ CycleInv /\ [Next]_vars => CycleInv'
  BY CycleStep
<1> QED BY <1>1, <1>2, <1>3, <1>4, <1>5, TypeCorrect, PendingsSafe, PTL DEF Spec

-----------------------------------------------------------------------------
(* The cap of rule 9, in the sales table.                                  *)

BurstOf(rows, i, s) == {r \in rows : r.poll = i /\ r.seller = s /\ r.rule # Transfer}

\* An image of a finite set is no larger.
LEMMA ImageNoLarger ==
  ASSUME NEW S, IsFiniteSet(S), NEW f, NEW T, T \subseteq {f[k] : k \in S}
  PROVE  Cardinality(T) <= Cardinality(S) /\ Cardinality(T) \in Nat /\ Cardinality(S) \in Nat
<1> DEFINE g == [k \in S |-> f[k]]
           image == {f[k] : k \in S}
<1>1. g \in Surjection(S, image)
  BY DEF Surjection
<1> HIDE DEF g
<1>2. IsFiniteSet(image) /\ Cardinality(image) <= Cardinality(S)
  BY <1>1, FS_Surjection
<1> HIDE DEF image
<1>3. Cardinality(T) <= Cardinality(image) /\ IsFiniteSet(T)
  BY <1>2, FS_Subset DEF image
<1> QED BY <1>2, <1>3, FS_CardinalityType

\* Reverting adds no row.
LEMMA RevertingKeepsBursts ==
  ASSUME NEW S \in SUBSET sales, sales \subseteq SaleRows, IsFiniteSet(sales), NEW i, NEW s
  PROVE  /\ Cardinality(BurstOf(Reverting(S), i, s)) <= Cardinality(BurstOf(sales, i, s))
         /\ Cardinality(BurstOf(Reverting(S), i, s)) \in Nat
         /\ Cardinality(BurstOf(sales, i, s)) \in Nat
<1> DEFINE before == BurstOf(sales, i, s)
           f == [r \in before |-> IF r \in S THEN [r EXCEPT !.reverted = TRUE] ELSE r]
<1>1. IsFiniteSet(before)
  BY SubsetFinite DEF BurstOf
<1>2. BurstOf(Reverting(S), i, s) \subseteq {f[r] : r \in before}
  <2> SUFFICES ASSUME NEW r \in BurstOf(Reverting(S), i, s)
               PROVE  \E q \in before : r = f[q]
    OBVIOUS
  <2>1. PICK q \in sales : /\ q \in S => r = [q EXCEPT !.reverted = TRUE]
                           /\ q \notin S => r = q
                           /\ r.rule = q.rule /\ r.seller = q.seller /\ r.poll = q.poll
    BY RevertingOrigin DEF BurstOf
  <2>2. q \in before
    BY <2>1 DEF BurstOf
  <2> QED BY <2>1, <2>2
<1> HIDE DEF f, before
<1>3. /\ Cardinality(BurstOf(Reverting(S), i, s)) <= Cardinality(before)
      /\ Cardinality(BurstOf(Reverting(S), i, s)) \in Nat /\ Cardinality(before) \in Nat
  BY <1>1, <1>2, ImageNoLarger
<1> QED BY <1>3 DEF before

\* What a poll enters is capped, because what it credits is.
LEMMA NewSalesCapped ==
  ASSUME NEW x, IsObservation(x), NEW kept \in CreditedChoices(x), MaxSalesPerSeller > 0,
         NEW i, NEW s \in Sellers
  PROVE  Cardinality(BurstOf(NewSales(x, kept), i, s)) <= MaxSalesPerSeller
<1> DEFINE mine == OfSeller(kept, s)
           sale == [e \in mine |->
                      [rule |-> e.rule, fp |-> e.key[1], seller |-> e.key[2], buyer |-> NoSeller,
                       poll |-> Len(polls) + 1, reverted |-> FALSE]]
<1>1. IsFiniteSet(kept) /\ IsFiniteSet(VanishSaleEvents(x)) /\ MaxSalesPerSeller \in Nat
  BY VanishSaleEventsTyped, CreditedAreSaleEvents, SaleEventsFinite, SubsetFinite,
     EngineAssumption DEF EngineAssumption
<1>2. IsFiniteSet(mine)
  BY <1>1, SubsetFinite DEF OfSeller
<1>3. Cardinality(mine) <= MaxSalesPerSeller
  <2>1. CASE kept = {}
    <3>1. mine = {}
      BY <2>1 DEF OfSeller
    <3> QED BY <1>1, <3>1, FS_EmptySet
  <2>2. CASE IsFirstPerSeller(kept, VanishSaleEvents(x))
    <3> DEFINE n == Cardinality(OfSeller(VanishSaleEvents(x), s))
    <3>1. n \in Nat
      BY <1>1, SubsetFinite DEF OfSeller
    <3>2. Cardinality(mine) = IF n < MaxSalesPerSeller THEN n ELSE MaxSalesPerSeller
      BY <2>2 DEF IsFirstPerSeller
    <3> HIDE DEF n, mine
    <3> QED BY <1>1, <3>1, <3>2
  <2> QED BY <1>1, <2>1, <2>2 DEF CreditedChoices
<1>4. BurstOf(NewSales(x, kept), i, s) \subseteq {sale[e] : e \in mine}
  BY DEF BurstOf, NewSales, OfSeller
<1> HIDE DEF sale, mine
<1>5. /\ Cardinality(BurstOf(NewSales(x, kept), i, s)) <= Cardinality(mine)
      /\ Cardinality(BurstOf(NewSales(x, kept), i, s)) \in Nat /\ Cardinality(mine) \in Nat
  BY <1>2, <1>4, ImageNoLarger
<1> QED BY <1>1, <1>3, <1>5

Capped ==
  MaxSalesPerSeller > 0 =>
    \A i \in DOMAIN polls, s \in Sellers : Cardinality(BurstOf(sales, i, s)) <= MaxSalesPerSeller

LEMMA CappedStep ==
  ASSUME TypeOK, Capped, [Next]_vars
  PROVE  Capped'
<1> SUFFICES ASSUME MaxSalesPerSeller > 0
             PROVE  \A i \in DOMAIN polls', s \in Sellers :
                      Cardinality(BurstOf(sales', i, s)) <= MaxSalesPerSeller
  BY DEF Capped, BurstOf
<1>1. /\ sales \subseteq SaleRows /\ IsFiniteSet(sales) /\ MaxSalesPerSeller \in Nat
      /\ polls \in Seq(PollRows) /\ DOMAIN polls = 1..Len(polls) /\ Len(polls) \in Nat
      /\ \A i \in DOMAIN polls, s \in Sellers : Cardinality(BurstOf(sales, i, s)) <= MaxSalesPerSeller
  BY EngineAssumption DEF TypeOK, Capped, EngineAssumption
<1>2. ASSUME NEW S \in SUBSET sales, sales' = Reverting(S), DOMAIN polls' = DOMAIN polls,
             NEW i \in DOMAIN polls', NEW s \in Sellers
      PROVE  Cardinality(BurstOf(sales', i, s)) <= MaxSalesPerSeller
  BY <1>1, <1>2, RevertingKeepsBursts
<1>3. CASE WritePoll
  <2>1. PICK x, kept, preview :
          /\ x.prev = held.sig /\ x.pend = held.pend
          /\ x.cycle = cycle /\ x.curr \in Snapshots
          /\ \E gap \in Gaps : x.at = LastPollAt + gap
          /\ kept \in CreditedChoices(x)
          /\ WritePollResult(x, kept, preview)
    BY <1>3, WritePollObserves
  <2> DEFINE undone == PingPongReverts(x) \cup LateRelistReverts(x, preview)
                         \cup RelistReverts(x)
             lowered == PollsWithoutTransfers(PingPongReverts(x))
  <2>2. IsObservation(x)
    BY <2>1, HeldObserved
  <2>3. undone \in SUBSET sales
    BY RevertsAreSales, ActiveAreSales
  <2>4. sales' = Reverting(undone) \cup NewSales(x, kept)
    BY <2>1 DEF WritePollResult
  <2> HIDE DEF undone
  <2>5. \A r \in Reverting(undone) : r.poll \in 1..Len(polls)
    <3> SUFFICES ASSUME NEW r \in Reverting(undone)
                 PROVE  r.poll \in 1..Len(polls)
      OBVIOUS
    <3>1. PICK s \in sales : r.poll = s.poll
      BY <1>1, <2>3, RevertingOrigin
    <3> QED BY <3>1 DEF TypeOK
  <2>6. \A r \in NewSales(x, kept) : r.poll = Len(polls) + 1
    BY <2>1, <2>2, NewSalesTyped DEF TypeOK
  <2> SUFFICES ASSUME NEW i \in DOMAIN polls', NEW s \in Sellers
               PROVE  Cardinality(BurstOf(sales', i, s)) <= MaxSalesPerSeller
    OBVIOUS
  <2>7. CASE i = Len(polls) + 1
    <3>1. BurstOf(sales', i, s) = BurstOf(NewSales(x, kept), i, s)
      BY <1>1, <2>4, <2>5, <2>7 DEF BurstOf
    <3> QED BY <2>1, <2>2, <3>1, NewSalesCapped
  <2>8. CASE i \in DOMAIN polls
    <3>1. BurstOf(sales', i, s) = BurstOf(Reverting(undone), i, s)
      BY <1>1, <2>4, <2>6, <2>8 DEF BurstOf
    <3> QED BY <1>1, <2>3, <2>8, <3>1, RevertingKeepsBursts
  <2>9. i \in 1..(Len(polls) + 1)
    <3>1. polls' = Append(lowered, NewPollRow(x, kept, LateRelistReverts(x, preview)))
      BY <2>1 DEF WritePollResult
    <3>2. lowered \in [DOMAIN polls -> PollRows]
      BY <1>1, RevertsAreSales, ActiveAreSales, LoweredPollsTyped DEF TypeOK
    <3> HIDE DEF lowered
    <3>3. lowered \in Seq(PollRows) /\ Len(lowered) = Len(polls)
      BY <1>1, <3>2
    <3> QED BY <1>1, <3>1, <3>3
  <2> QED BY <1>1, <2>7, <2>8, <2>9
<1>4. ASSUME NEW s \in Sellers, ConfirmBan(s)
      PROVE  \A i \in DOMAIN polls', q \in Sellers :
               Cardinality(BurstOf(sales', i, q)) <= MaxSalesPerSeller
  <2>1. PICK ids \in VanishPolls(s) : /\ sales' = Reverting(BannedSales(s, ids))
                                      /\ polls' = PollsWithoutSales(BannedSales(s, ids))
    BY <1>4 DEF ConfirmBan
  <2>2. BannedSales(s, ids) \in SUBSET sales
    BY DEF BannedSales, ActiveSales
  <2>3. DOMAIN polls' = DOMAIN polls
    BY <2>1 DEF PollsWithoutSales
  <2> QED BY <1>2, <2>1, <2>2, <2>3
<1>5. CASE EndCycle /\ ~UNCHANGED <<sales, polls>>
  <2>1. /\ sales' = Reverting(SalesOn(ActiveSales, Day(LastPollAt)))
        /\ polls' = RebuiltPolls(Reverting(SalesOn(ActiveSales, Day(LastPollAt))))
    BY <1>5 DEF EndCycle, RevertAnomalyDay
  <2>2. SalesOn(ActiveSales, Day(LastPollAt)) \in SUBSET sales
    BY DEF SalesOn, ActiveSales
  <2>3. DOMAIN polls' = DOMAIN polls
    BY <2>1 DEF RebuiltPolls
  <2> QED BY <1>2, <2>1, <2>2, <2>3
<1>6. CASE AdminClear
  BY <1>6 DEF AdminClear
<1>7. CASE UNCHANGED <<sales, polls>>
  BY <1>1, <1>7
<1> QED BY <1>3, <1>4, <1>5, <1>6, <1>7
        DEF Next, Load, OtherVariantWrites, SkipBan, ClearBan, MarkBan, AbortCycle, Restart, vars

\* No poll has more sales of a seller than the cap, whichever of the seller's events come
\* first and whatever is reverted later.
THEOREM BurstSafe == Spec => []SellerBurstCapped
<1>1. Init => Capped
  BY DEF Init, Capped
<1>2. TypeOK /\ Capped /\ [Next]_vars => Capped'
  BY CappedStep
<1>3. Capped => SellerBurstCapped
  BY DEF Capped, SellerBurstCapped, BurstOf
<1> QED BY <1>1, <1>2, <1>3, TypeCorrect, PTL DEF Spec

-----------------------------------------------------------------------------
(* A sale needs a departure.                                               *)

\* What a poll enters is about a pair it saw leave, or lose copies, or whose removal
\* was still to be credited.
LEMMA NewSalesDeparted ==
  ASSUME NEW x, IsObservation(x), PendingsFit(x.prev, x.pend), NEW kept \in CreditedChoices(x),
         NEW s \in NewSales(x, kept)
  PROVE  /\ KeyOf(s) \in DOMAIN x.prev \/ \E p \in x.pend : p.key = KeyOf(s) /\ ~p.counted
         /\ KeyOf(s) \in DOMAIN x.curr =>
              KeyOf(s) \in DOMAIN x.prev /\ x.curr[KeyOf(s)].count < x.prev[KeyOf(s)].count
<1>1. ASSUME NEW t \in Transfers(x), s.fp = t.fp, s.seller = t.seller
      PROVE  KeyOf(s) \in DOMAIN x.prev /\ KeyOf(s) \notin DOMAIN x.curr
  BY <1>1 DEF Transfers, SellersOf, KeyOf
<1>2. ASSUME NEW e \in VanishSaleEvents(x), s.fp = e.key[1], s.seller = e.key[2]
      PROVE  /\ KeyOf(s) = e.key
             /\ e.key \in DOMAIN x.prev \/ \E p \in x.pend : p.key = e.key /\ ~p.counted
             /\ e.key \in DOMAIN x.curr =>
                  e.key \in DOMAIN x.prev /\ x.curr[e.key].count < x.prev[e.key].count
  <2>1. e.key \in Keys
    BY EventOrigin
  <2>2. KeyOf(s) = e.key
    BY <1>2, <2>1 DEF KeyOf, Keys
  <2>3. CASE \E p \in CreditedPendings(x) : e.key = p.key
    <3>1. PICK p \in x.pend : p.key = e.key /\ ~p.counted /\ p.key \notin DOMAIN x.curr
      BY <2>3 DEF CreditedPendings, Reappeared
    <3> QED BY <2>2, <3>1
  <2>4. CASE \E p \in CountedAtOnce(x) : e.key = p.key
    <3>1. \A p \in VanishPendings(x) : p.key \in InstantVanishes(x) \cup OnlineVanishes(x)
      BY DEF VanishPendings, NewPendingRow
    <3>2. e.key \in Vanished(x)
      BY <2>4, <3>1 DEF CountedAtOnce, InstantVanishes, OnlineVanishes, ConsideredVanishes
    <3> QED BY <2>2, <3>2 DEF Vanished
  <2>5. CASE e.key \in CountDecreases(x)
    <3>1. e.key \in DOMAIN x.prev /\ e.key \in DOMAIN x.curr
          /\ x.prev[e.key].count > x.curr[e.key].count
      BY <2>5 DEF CountDecreases, StillListed
    <3>2. x.prev[e.key].count \in Nat /\ x.curr[e.key].count \in Nat
      BY <3>1 DEF IsObservation, IsSnapshot, Listings
    <3> QED BY <2>2, <3>1, <3>2
  <2>6. \/ \E p \in CreditedPendings(x) : e.key = p.key
        \/ \E p \in CountedAtOnce(x) : e.key = p.key
        \/ e.key \in CountDecreases(x)
    BY DEF VanishSaleEvents, SaleEvent
  <2> QED BY <2>2, <2>3, <2>4, <2>5, <2>6
<1>3. \/ \E t \in Transfers(x) : s.fp = t.fp /\ s.seller = t.seller
      \/ \E e \in VanishSaleEvents(x) : s.fp = e.key[1] /\ s.seller = e.key[2]
  BY CreditedAreSaleEvents DEF NewSales
<1> QED BY <1>1, <1>2, <1>3

\* A poll records a sale only of a pair that left or lost copies, for every ladder the
\* poller may have read and whatever happened to the tables since.
THEOREM DepartureSafe == Spec => SaleNeedsDeparture
<1> DEFINE Departed == PollStored =>
             \A s \in NewSalesOf(sales, sales') :
               LET k == KeyOf(s)
               IN  /\ k \in DOMAIN held.sig \/ \E p \in held.pend : p.key = k /\ ~p.counted
                   /\ k \in DOMAIN sig' =>
                        k \in DOMAIN held.sig /\ sig'[k].count < held.sig[k].count
<1>1. TypeOK /\ PendingUnlistedAndUnique /\ [Next]_vars => [Departed]_vars
  <2> SUFFICES ASSUME TypeOK, PendingUnlistedAndUnique, Next, PollStored,
                      NEW s \in NewSalesOf(sales, sales')
               PROVE  LET k == KeyOf(s)
                      IN  /\ k \in DOMAIN held.sig \/ \E p \in held.pend : p.key = k /\ ~p.counted
                          /\ k \in DOMAIN sig' =>
                               k \in DOMAIN held.sig /\ sig'[k].count < held.sig[k].count
    BY DEF Departed
  <2>1. WritePoll
    BY DEF Next, PollStored, Load, OtherVariantWrites, SkipBan, ClearBan, ConfirmBan,
           BanCheckOf, MarkBan, EndCycle, AbortCycle, Restart, AdminClear
  <2>2. PICK x, kept, preview :
          /\ x.prev = held.sig /\ x.pend = held.pend
          /\ x.cycle = cycle /\ x.curr \in Snapshots
          /\ \E gap \in Gaps : x.at = LastPollAt + gap
          /\ kept \in CreditedChoices(x)
          /\ WritePollResult(x, kept, preview)
    BY <2>1, WritePollObserves
  <2> DEFINE undone == PingPongReverts(x) \cup LateRelistReverts(x, preview)
                         \cup RelistReverts(x)
  <2>3. IsObservation(x) /\ PendingsFit(x.prev, x.pend)
    BY <2>2, HeldObserved DEF PendingUnlistedAndUnique
  <2>4. undone \in SUBSET sales /\ sales \subseteq SaleRows
    BY RevertsAreSales, ActiveAreSales DEF TypeOK
  <2>5. sales' = Reverting(undone) \cup NewSales(x, kept) /\ sig' = x.curr
    BY <2>2 DEF WritePollResult
  <2> HIDE DEF undone
  <2>6. s \in NewSales(x, kept)
    <3>1. s \in sales' /\ \A t \in sales : t.poll # s.poll
      BY DEF NewSalesOf
    <3>2. \A r \in Reverting(undone) : \E t \in sales : r.poll = t.poll
      BY <2>4, RevertingOrigin
    <3> QED BY <2>5, <3>1, <3>2
  <2> QED BY <2>2, <2>3, <2>5, <2>6, NewSalesDeparted
<1> HIDE DEF Departed
<1>2. Spec => [][Departed]_vars
  BY <1>1, TypeCorrect, PendingsSafe, PTL DEF Spec
<1> QED BY <1>2, PTL DEF SaleNeedsDeparture, Departed

-----------------------------------------------------------------------------
(* A confirmed ban cleans the window.                                      *)

\* A pair that vanished in the last poll is on no ladder, so the next poll cannot see
\* it vanish again.
VanishesApart ==
  /\ \A i \in DOMAIN polls : i + 1 \in DOMAIN polls =>
       polls[i].vanished \cap polls[i + 1].vanished = {}
  /\ polls # <<>> => \A k \in polls[Len(polls)].vanished :
       k \notin DOMAIN sig /\ (phase = "loaded" => k \notin DOMAIN held.sig)

LEMMA VanishesKept ==
  ASSUME polls \in Seq(PollRows), NEW S
  PROVE  \A i \in DOMAIN polls : /\ PollsWithoutTransfers(S)[i].vanished = polls[i].vanished
                                 /\ PollsWithoutSales(S)[i].vanished = polls[i].vanished
                                 /\ RebuiltPolls(S)[i].vanished = polls[i].vanished
<1>1. \A i \in DOMAIN polls : polls[i] \in PollRows
  OBVIOUS
<1>2. \A i \in DOMAIN polls : PollsWithoutTransfers(S)[i].vanished = polls[i].vanished
  BY <1>1 DEF PollsWithoutTransfers, PollRows
<1>3. \A i \in DOMAIN polls : PollsWithoutSales(S)[i].vanished = polls[i].vanished
  BY <1>1 DEF PollsWithoutSales, PollRows
<1>4. \A i \in DOMAIN polls : RebuiltPolls(S)[i].vanished = polls[i].vanished
  BY <1>1 DEF RebuiltPolls, PollRows
<1> QED BY <1>2, <1>3, <1>4

\* Rewriting the counters of the stored polls moves none of this.
LEMMA RewritingKeepsApart ==
  ASSUME polls \in Seq(PollRows), VanishesApart, UNCHANGED sig, phase' # "loaded",
         polls' \in Seq(PollRows), DOMAIN polls' = DOMAIN polls,
         \A i \in DOMAIN polls : polls'[i].vanished = polls[i].vanished
  PROVE  VanishesApart'
<1>1. Len(polls') = Len(polls) /\ Len(polls) \in Nat /\ DOMAIN polls = 1..Len(polls)
  <2>1. DOMAIN polls = 1..Len(polls) /\ DOMAIN polls' = 1..Len(polls')
        /\ Len(polls) \in Nat /\ Len(polls') \in Nat
    OBVIOUS
  <2> QED BY <2>1
<1>2. polls' # <<>> => polls # <<>> /\ Len(polls) \in DOMAIN polls
  BY <1>1
<1>3. \A i \in DOMAIN polls' : i + 1 \in DOMAIN polls' =>
        polls'[i].vanished \cap polls'[i + 1].vanished = {}
  BY DEF VanishesApart
<1>4. polls' # <<>> => \A k \in polls'[Len(polls')].vanished : k \notin DOMAIN sig'
  BY <1>1, <1>2 DEF VanishesApart
<1> QED BY <1>3, <1>4 DEF VanishesApart

LEMMA ApartStep ==
  ASSUME TypeOK, VanishesApart, [Next]_vars
  PROVE  VanishesApart'
<1>0. /\ polls \in Seq(PollRows) /\ polls' \in Seq(PollRows)
      /\ Len(polls) \in Nat /\ DOMAIN polls = 1..Len(polls)
  BY TypeStep DEF TypeOK
<1>1. CASE Load
  BY <1>1 DEF Load, VanishesApart
<1>2. CASE WritePoll
  <2>1. PICK x, kept, preview :
          /\ x.prev = held.sig /\ x.pend = held.pend
          /\ x.cycle = cycle /\ x.curr \in Snapshots
          /\ \E gap \in Gaps : x.at = LastPollAt + gap
          /\ kept \in CreditedChoices(x)
          /\ WritePollResult(x, kept, preview)
    BY <1>2, WritePollObserves
  <2> DEFINE before == PollsWithoutTransfers(PingPongReverts(x))
             row == NewPollRow(x, kept, LateRelistReverts(x, preview))
  <2>2. phase = "loaded" /\ phase' = "post" /\ sig' = x.curr /\ polls' = Append(before, row)
    BY <1>2, <2>1 DEF WritePoll, WritePollResult
  <2>3. row.vanished \subseteq DOMAIN held.sig \ DOMAIN x.curr
    BY <2>1 DEF NewPollRow, InferenceSafeVanishes, ConsideredVanishes, Vanished
  <2>4. before \in [DOMAIN polls -> PollRows]
    BY <1>0, RevertsAreSales, ActiveAreSales, LoweredPollsTyped DEF TypeOK
  <2>5. \A i \in DOMAIN polls : before[i].vanished = polls[i].vanished
    BY <1>0, VanishesKept
  <2> HIDE DEF before, row
  <2>6. before \in Seq(PollRows) /\ Len(before) = Len(polls)
    BY <1>0, <2>4
  <2>7. /\ Len(polls') = Len(polls) + 1 /\ DOMAIN polls' = 1..(Len(polls) + 1)
        /\ polls'[Len(polls) + 1] = row
        /\ \A i \in 1..Len(polls) : polls'[i] = before[i]
    <3>1. row \in PollRows
      <4>1. polls' = Append(before, row) /\ polls' \in Seq(PollRows)
        BY <1>0, <2>2
      <4>2. Len(polls') = Len(before) + 1 /\ polls'[Len(before) + 1] = row
        BY <2>6, <4>1
      <4> QED BY <1>0, <2>6, <4>1, <4>2
    <3> QED BY <1>0, <2>2, <2>6, <3>1
  <2>8. ASSUME NEW i \in DOMAIN polls', i + 1 \in DOMAIN polls'
        PROVE  polls'[i].vanished \cap polls'[i + 1].vanished = {}
    <3>1. CASE i + 1 \in DOMAIN polls
      <4>1. i \in DOMAIN polls
        BY <1>0, <2>7, <2>8, <3>1
      <4>2. \A j \in DOMAIN polls : polls'[j] = before[j]
        BY <1>0, <2>7
      <4> QED BY <4>2, <2>5, <2>7, <3>1, <4>1 DEF VanishesApart
    <3>2. CASE i = Len(polls)
      <4>1. i \in DOMAIN polls /\ polls # <<>>
        BY <1>0, <2>7, <3>2
      <4>2. \A k \in polls[i].vanished : k \notin DOMAIN held.sig
        BY <2>2, <3>2, <4>1 DEF VanishesApart
      <4>3. polls'[i].vanished = polls[i].vanished /\ polls'[i + 1] = row
        BY <2>5, <2>7, <3>2, <4>1
      <4> QED BY <2>3, <4>2, <4>3
    <3> QED BY <1>0, <2>7, <2>8, <3>1, <3>2
  <2>9. \A k \in polls'[Len(polls')].vanished : k \notin DOMAIN sig'
    BY <2>2, <2>3, <2>7
  <2> QED BY <2>2, <2>8, <2>9 DEF VanishesApart
<1>3. ASSUME NEW s \in Sellers, ConfirmBan(s)
      PROVE  VanishesApart'
  <2>1. PICK ids \in VanishPolls(s) : polls' = PollsWithoutSales(BannedSales(s, ids))
    BY <1>3 DEF ConfirmBan
  <2>2. UNCHANGED <<sig, phase>> /\ phase = "post"
    BY <1>3 DEF ConfirmBan, BanCheckOf
  <2> QED BY <1>0, <2>1, <2>2, CyclesKept, VanishesKept, RewritingKeepsApart
<1>4. CASE EndCycle
  <2>1. UNCHANGED sig /\ phase' = "idle"
    BY <1>4 DEF EndCycle
  <2>2. CASE RevertAnomalyDay(Day(LastPollAt))
    BY <1>0, <2>1, <2>2, CyclesKept, VanishesKept, RewritingKeepsApart DEF RevertAnomalyDay
  <2>3. CASE UNCHANGED <<sales, polls>>
    BY <2>1, <2>3 DEF VanishesApart
  <2> QED BY <1>4, <2>2, <2>3 DEF EndCycle
<1>5. CASE OtherVariantWrites
  BY <1>5 DEF OtherVariantWrites, VanishesApart
<1>6. ASSUME NEW s \in Sellers, SkipBan(s) \/ ClearBan(s)
      PROVE  VanishesApart'
  BY <1>6 DEF SkipBan, ClearBan, BanCheckOf, VanishesApart
<1>7. CASE MarkBan \/ AbortCycle
  BY <1>7 DEF MarkBan, AbortCycle, VanishesApart
<1>8. CASE Restart
  BY <1>8 DEF Restart, VanishesApart
<1>9. CASE AdminClear
  BY <1>9 DEF AdminClear, VanishesApart
<1>10. CASE UNCHANGED vars
  BY <1>10 DEF vars, VanishesApart
<1> QED BY <1>1, <1>2, <1>3, <1>4, <1>5, <1>6, <1>7, <1>8, <1>9, <1>10 DEF Next

\* With a window of the last cycle and this one, a pair vanishes in one poll of it, so
\* the one row kept of it names the only poll to clean.
LEMMA WindowVanishOnce ==
  ASSUME TypeOK, NoPollOverwritten, VanishesApart, BanLookback = 1,
         NEW i \in BanWindow, NEW j \in BanWindow, NEW k,
         k \in polls[i].vanished, k \in polls[j].vanished
  PROVE  i = j
<1>1. /\ DOMAIN polls = 1..Len(polls) /\ Len(polls) \in Nat /\ cycle \in Nat
      /\ \A n \in DOMAIN polls : polls[n].cycle \in Nat
  <2>1. polls \in Seq(PollRows) /\ cycle \in Nat
    BY DEF TypeOK
  <2>2. \A n \in DOMAIN polls : polls[n] \in PollRows
    BY <2>1
  <2>3. \A n \in DOMAIN polls : polls[n].cycle \in Nat
    BY <2>2 DEF PollRows
  <2> QED BY <2>1, <2>3
<1>2. ASSUME NEW a \in BanWindow, NEW b \in BanWindow, a < b
      PROVE  b = a + 1
  <2>1. a \in DOMAIN polls /\ b \in DOMAIN polls
        /\ polls[a].cycle >= cycle - 1 /\ polls[b].cycle <= cycle
    BY <1>2 DEF BanWindow
  <2>2. a + 1 \in DOMAIN polls
    BY <1>1, <1>2, <2>1
  <2>3. polls[a].cycle < polls[a + 1].cycle
    BY <1>1, <2>1, <2>2 DEF NoPollOverwritten
  <2>4. a + 1 < b => polls[a + 1].cycle < polls[b].cycle
    BY <2>1, <2>2 DEF NoPollOverwritten
  <2> QED BY <1>1, <1>2, <2>1, <2>2, <2>3, <2>4
<1>3. i \in DOMAIN polls /\ j \in DOMAIN polls
  BY DEF BanWindow
<1>4. ~(i < j)
  BY <1>2, <1>3 DEF VanishesApart
<1>5. ~(j < i)
  BY <1>2, <1>3 DEF VanishesApart
<1> QED BY <1>1, <1>3, <1>4, <1>5

BanInv ==
  /\ marking # {} => phase = "post"
  /\ VanishesApart
  /\ BanRevertsVanishPolls

\* Confirming a ban cleans each poll of the window where a listing of the seller vanished.
LEMMA ConfirmCleans ==
  ASSUME TypeOK, NoPollOverwritten, VanishesApart, BanLookback = 1,
         NEW s \in Sellers, ConfirmBan(s)
  PROVE  BanRevertsVanishPolls'
<1>1. PICK ids \in VanishPolls(s) :
        /\ sales' = Reverting(BannedSales(s, ids))
        /\ polls' = PollsWithoutSales(BannedSales(s, ids))
  BY DEF ConfirmBan
<1>2. PICK f \in [VanishedKeys(s) -> BanWindow] :
        /\ ids = {f[k] : k \in VanishedKeys(s)}
        /\ \A k \in VanishedKeys(s) : k \in polls[f[k]].vanished
  BY DEF VanishPolls
<1>3. cycle' = cycle /\ marking' = {s}
      /\ pend' = IF VanishedKeys(s) = {} THEN pend ELSE {p \in pend : p.key[2] # s}
  BY DEF ConfirmBan, BanCheckOf
<1>4. /\ DOMAIN polls' = DOMAIN polls
      /\ \A i \in DOMAIN polls : /\ polls'[i].cycle = polls[i].cycle
                                 /\ polls'[i].vanished = polls[i].vanished
  BY <1>1, CyclesKept, VanishesKept DEF TypeOK
<1>5. BanWindow' = BanWindow
  BY <1>3, <1>4 DEF BanWindow
<1>6. VanishedKeys(s)' = VanishedKeys(s)
  BY <1>4, <1>5 DEF VanishedKeys, BanWindow
<1>7. ASSUME NEW r \in ActiveSales', r.seller = s, r.rule # Transfer, r.poll \in BanWindow,
             NEW k \in VanishedKeys(s), k \in polls[r.poll].vanished
      PROVE  FALSE
  <2>1. f[k] = r.poll
    <3>1. f[k] \in BanWindow /\ k \in polls[f[k]].vanished
      BY <1>2, <1>7
    <3> QED BY <1>7, <3>1, WindowVanishOnce
  <2>2. r.poll \in ids
    BY <1>2, <1>7, <2>1
  <2>3. r \in Reverting(BannedSales(s, ids)) /\ ~r.reverted
    BY <1>1, <1>7 DEF ActiveSales, Active
  <2>4. sales \subseteq SaleRows /\ BannedSales(s, ids) \subseteq sales
    BY DEF TypeOK, BannedSales, ActiveSales
  <2>5. r \in sales /\ r \notin BannedSales(s, ids)
    BY <2>3, <2>4 DEF Reverting, SaleRows
  <2> QED BY <1>7, <2>2, <2>3, <2>5 DEF BannedSales, ActiveSales, Active
<1>8. \A r \in ActiveSales' :
        r.seller = s /\ r.rule # Transfer /\ r.poll \in BanWindow =>
          \A k \in VanishedKeys(s) : k \notin polls'[r.poll].vanished
  BY <1>4, <1>7 DEF BanWindow
<1>9. VanishedKeys(s) # {} => \A p \in pend' : p.key[2] # s
  BY <1>3
<1> QED BY <1>3, <1>5, <1>6, <1>8, <1>9 DEF BanRevertsVanishPolls

\* Between confirming a ban and marking its seller, with a look-back of one cycle (the
\* default), no sale of the seller counts in a poll of the window where one of its listings
\* vanished, and none of its removals is still to be credited.
THEOREM BanSafe ==
  ASSUME BanLookback = 1
  PROVE  Spec => []BanRevertsVanishPolls
<1>1. Init => BanInv
  BY DEF Init, BanInv, VanishesApart, BanRevertsVanishPolls
<1>2. TypeOK /\ NoPollOverwritten /\ BanInv /\ [Next]_vars => BanInv'
  <2> SUFFICES ASSUME TypeOK, NoPollOverwritten, BanInv, [Next]_vars
               PROVE  BanInv'
    OBVIOUS
  <2>1. VanishesApart'
    BY ApartStep DEF BanInv
  <2>2. ASSUME NEW s \in Sellers, ConfirmBan(s)
        PROVE  BanRevertsVanishPolls' /\ phase' = "post"
    BY <2>2, ConfirmCleans DEF BanInv, ConfirmBan, BanCheckOf
  <2>3. CASE marking' = {}
    BY <2>1, <2>3 DEF BanInv, BanRevertsVanishPolls
  <2>4. CASE marking' # {} /\ ~\E s \in Sellers : ConfirmBan(s)
    <3>1. UNCHANGED vars
      BY <2>4, PipelineAssumption
         DEF Next, Load, WritePoll, OtherVariantWrites, SkipBan, ClearBan, BanCheckOf, MarkBan,
             EndCycle, BanChecksDone, AbortCycle, Restart, AdminClear, BanInv, PipelineAssumption
    <3>2. UNCHANGED <<cycle, phase, pend, sales, polls, marking>>
      BY <3>1 DEF vars
    <3> QED BY <2>1, <3>2 DEF BanInv, BanRevertsVanishPolls, ActiveSales, BanWindow, VanishedKeys
  <2> QED BY <2>1, <2>2, <2>3, <2>4 DEF BanInv
<1>3. BanInv => BanRevertsVanishPolls
  BY DEF BanInv
<1> QED BY <1>1, <1>2, <1>3, TypeCorrect, PollsSafe, PTL DEF Spec

-----------------------------------------------------------------------------
(* Sums.                                                                   *)

\* Induction over a set of numbers: the first number outside would follow one inside.
LEMMA SetInduction ==
  ASSUME NEW S, 0 \in S, \A n \in Nat : n \in S => n + 1 \in S
  PROVE  \A n \in Nat : n \in S
<1> DEFINE Bad == Nat \ S
<1> SUFFICES ASSUME Bad # {} PROVE FALSE
  OBVIOUS
<1>1. PICK n \in Bad : \A m \in Bad : ~(<<m, n>> \in OpToRel(<, Nat))
  <2>1. IsWellFoundedOn(OpToRel(<, Nat), Nat)
    BY NatLessThanWellFounded
  <2>2. Bad \subseteq Nat
    OBVIOUS
  <2> HIDE DEF Bad
  <2> QED BY <2>1, <2>2, WFMin
<1>2. n \in Nat /\ n # 0 /\ n - 1 \in Nat
  OBVIOUS
<1>3. n - 1 \in S
  <2>1. n - 1 \in Bad => <<n - 1, n>> \in OpToRel(<, Nat)
    BY <1>2 DEF OpToRel
  <2> QED BY <1>1, <1>2, <2>1
<1> QED BY <1>2, <1>3

\* Sets without a common element have as many elements as they have together.
LEMMA DisjointUnion ==
  ASSUME NEW S, NEW T, IsFiniteSet(S), IsFiniteSet(T), S \cap T = {}
  PROVE  /\ IsFiniteSet(S \cup T)
         /\ Cardinality(S \cup T) = Cardinality(S) + Cardinality(T)
<1>1. Cardinality(S) \in Nat /\ Cardinality(T) \in Nat
  BY FS_CardinalityType
<1>2. Cardinality(S \cap T) = 0
  BY FS_EmptySet
<1>3. /\ IsFiniteSet(S \cup T)
      /\ Cardinality(S \cup T) = Cardinality(S) + (Cardinality(T) - Cardinality(S \cap T))
  BY FS_Union, Zenon
<1> QED BY <1>1, <1>2, <1>3

\* The sums of the first n numbers.
IsSums(s, c, n) ==
  s = [i \in 0 .. n |-> IF i = 0 THEN 0 ELSE s[i - 1] + c[i]]

\* The recursive function in TotalOf exists, whatever is summed.
LEMMA SumsExist ==
  ASSUME NEW c, NEW n \in Nat
  PROVE  \E s : IsSums(s, c, n)
<1> DEFINE S == {k \in Nat : \E s : IsSums(s, c, k)}
<1>1. 0 \in S
  <2> DEFINE z == [i \in 0 .. 0 |-> 0]
  <2>1. IsSums(z, c, 0)
    BY DEF IsSums
  <2> QED BY <2>1
<1>2. ASSUME NEW k \in Nat, k \in S
      PROVE  k + 1 \in S
  <2>1. PICK s : IsSums(s, c, k)
    BY <1>2
  <2> DEFINE z == [i \in 0 .. (k + 1) |-> IF i = k + 1 THEN s[k] + c[k + 1] ELSE s[i]]
  <2>2. \A i \in 0 .. (k + 1) : z[i] = IF i = 0 THEN 0 ELSE z[i - 1] + c[i]
    <3> SUFFICES ASSUME NEW i \in 0 .. (k + 1) PROVE z[i] = IF i = 0 THEN 0 ELSE z[i - 1] + c[i]
      OBVIOUS
    <3>1. CASE i = k + 1
      BY <3>1
    <3>2. CASE i # k + 1
      <4>1. i \in 0 .. k
        BY <3>2
      <4>2. s[i] = IF i = 0 THEN 0 ELSE s[i - 1] + c[i]
        BY <2>1, <4>1 DEF IsSums
      <4>3. i # 0 => i - 1 \in 0 .. (k + 1) /\ i - 1 # k + 1
        BY <4>1
      <4> QED BY <4>1, <4>2, <4>3
    <3> QED BY <3>1, <3>2
  <2>3. IsSums(z, c, k + 1)
    <3> DEFINE y == [i \in 0 .. (k + 1) |-> IF i = 0 THEN 0 ELSE z[i - 1] + c[i]]
    <3>1. DOMAIN z = 0 .. (k + 1) /\ z = [i \in 0 .. (k + 1) |-> z[i]]
      OBVIOUS
    <3> HIDE DEF z
    <3>2. z = y
      BY <2>2, <3>1
    <3> QED BY <3>2 DEF IsSums
  <2> HIDE DEF z
  <2> QED BY <2>3
<1> HIDE DEF S
<1>3. n \in S
  BY <1>1, <1>2, SetInduction
<1> QED BY <1>3 DEF S

\* What TotalOf adds up, number by number.
LEMMA TotalIsSum ==
  ASSUME NEW c \in Seq(Int)
  PROVE  \E s \in [0 .. Len(c) -> Int] :
           /\ s[0] = 0 /\ \A i \in 1 .. Len(c) : s[i] = s[i - 1] + c[i]
           /\ TotalOf(c) = s[Len(c)]
<1> DEFINE n == Len(c)
           s == CHOOSE s : IsSums(s, c, n)
<1>1. n \in Nat
  OBVIOUS
<1>2. IsSums(s, c, n)
  BY <1>1, SumsExist
<1>3. TotalOf(c) = s[n]
  BY DEF TotalOf, IsSums
<1> HIDE DEF s
<1>4. DOMAIN s = 0 .. n /\ s = [i \in 0 .. n |-> s[i]]
  BY <1>2 DEF IsSums
<1>5. s[0] = 0 /\ \A i \in 1 .. n : s[i] = s[i - 1] + c[i]
  <2>1. \A i \in 0 .. n : s[i] = IF i = 0 THEN 0 ELSE s[i - 1] + c[i]
    BY <1>2 DEF IsSums
  <2> QED BY <1>1, <2>1
<1>6. \A i \in 0 .. n : s[i] \in Int
  <2> DEFINE S == {k \in Nat : k <= n => s[k] \in Int}
  <2>1. 0 \in S
    BY <1>5
  <2>2. ASSUME NEW k \in Nat, k \in S
        PROVE  k + 1 \in S
    <3>1. CASE k + 1 <= n
      <4>1. k + 1 \in 1 .. n /\ s[k + 1] = s[k] + c[k + 1]
        BY <1>1, <1>5, <3>1
      <4>2. c[k + 1] \in Int /\ s[k] \in Int
        BY <1>1, <2>2, <3>1
      <4> QED BY <3>1, <4>1, <4>2
    <3> QED BY <1>1, <3>1
  <2> HIDE DEF S
  <2>3. \A k \in Nat : k \in S
    BY <2>1, <2>2, SetInduction
  <2> QED BY <1>1, <2>3 DEF S
<1>7. s \in [0 .. n -> Int]
  BY <1>4, <1>6
<1> QED BY <1>3, <1>5, <1>7

\* A total falls by no more than its numbers do.
LEMMA TotalBounded ==
  ASSUME NEW c \in Seq(Int), NEW d \in Seq(Int), Len(c) = Len(d), NEW m \in [Nat -> Nat],
         \A i \in 1 .. Len(c) : c[i] - d[i] <= m[i] - m[i - 1]
  PROVE  TotalOf(c) - TotalOf(d) <= m[Len(c)]
<1>1. PICK n \in Nat : n = Len(c)
  OBVIOUS
<1>2. PICK a \in [0 .. n -> Int] : /\ a[0] = 0 /\ \A i \in 1 .. n : a[i] = a[i - 1] + c[i]
                                   /\ TotalOf(c) = a[n]
  BY <1>1, TotalIsSum
<1>3. PICK b \in [0 .. n -> Int] : /\ b[0] = 0 /\ \A i \in 1 .. n : b[i] = b[i - 1] + d[i]
                                   /\ TotalOf(d) = b[n]
  BY <1>1, TotalIsSum
<1>4. \A i \in 1 .. n : c[i] \in Int /\ d[i] \in Int
  BY <1>1
<1>8. \A i \in Nat : m[i] \in Int
  OBVIOUS
<1> DEFINE I == {k \in Nat : k <= n => a[k] - b[k] <= m[k]}
<1>5. 0 \in I
  BY <1>2, <1>3
<1>6. ASSUME NEW k \in Nat, k \in I
      PROVE  k + 1 \in I
  <2> SUFFICES ASSUME k + 1 <= n
               PROVE  a[k + 1] - b[k + 1] <= m[k + 1]
    OBVIOUS
  <2>1. k \in 0 .. n /\ k + 1 \in 1 .. n /\ (k + 1) - 1 = k /\ k + 1 \in Nat
    OBVIOUS
  <2>2. a[k + 1] = a[k] + c[k + 1] /\ b[k + 1] = b[k] + d[k + 1]
    BY <1>2, <1>3, <2>1
  <2>3. c[k + 1] - d[k + 1] <= m[k + 1] - m[k] /\ a[k] - b[k] <= m[k]
    BY <1>1, <1>6, <2>1
  <2>4. a[k] \in Int /\ b[k] \in Int
    BY <1>2, <1>3, <2>1
  <2>5. c[k + 1] \in Int /\ d[k + 1] \in Int
    BY <1>4, <2>1
  <2>6. m[k] \in Int /\ m[k + 1] \in Int
    <3> HIDE DEF I
    <3>1. k \in Nat /\ k + 1 \in Nat
      OBVIOUS
    <3> QED BY <1>8, <3>1, Zenon
  <2>7. PICK ak \in Int, bk \in Int, ck \in Int, dk \in Int, mk \in Int, ml \in Int :
          ak = a[k] /\ bk = b[k] /\ ck = c[k + 1] /\ dk = d[k + 1] /\ mk = m[k] /\ ml = m[k + 1]
    BY <2>4, <2>5, <2>6
  <2>8. (ak + ck) - (bk + dk) <= ml
    <3>1. ck - dk <= ml - mk /\ ak - bk <= mk
      BY <2>3, <2>7
    <3> QED BY <3>1
  <2> HIDE DEF I
  <2> QED BY <2>2, <2>7, <2>8
<1>7. n \in I
  <2> HIDE DEF I
  <2> QED BY <1>5, <1>6, SetInduction
<1> QED BY <1>1, <1>2, <1>3, <1>7

\* A sequence of counters that falls by no more than rows were taken in each place falls by no
\* more than the rows taken.
LEMMA TotalFalls ==
  ASSUME NEW c \in Seq(Int), NEW d \in Seq(Int), Len(c) = Len(d), NEW S, IsFiniteSet(S),
         \A i \in 1 .. Len(c) : c[i] - d[i] <= Cardinality({r \in S : r.poll = i})
  PROVE  TotalOf(c) - TotalOf(d) <= Cardinality(S)
<1> DEFINE upTo(k) == {r \in S : r.poll \in 1 .. k}
           here(k) == {r \in S : r.poll = k}
<1>1. \A T : T \subseteq S => IsFiniteSet(T) /\ Cardinality(T) \in Nat /\ Cardinality(T) <= Cardinality(S)
  BY FS_Subset, FS_CardinalityType
<1>2. \A k : /\ Cardinality(upTo(k)) \in Nat /\ Cardinality(here(k)) \in Nat
             /\ IsFiniteSet(upTo(k)) /\ IsFiniteSet(here(k)) /\ Cardinality(upTo(k)) <= Cardinality(S)
  BY <1>1
<1>3. \A k \in Nat : upTo(k + 1) = upTo(k) \cup here(k + 1) /\ upTo(k) \cap here(k + 1) = {}
  <2> SUFFICES ASSUME NEW k \in Nat
               PROVE  upTo(k + 1) = upTo(k) \cup here(k + 1) /\ upTo(k) \cap here(k + 1) = {}
    OBVIOUS
  <2>1. \A m : (m \in 1 .. (k + 1) <=> m \in 1 .. k \/ m = k + 1) /\ ~(m \in 1 .. k /\ m = k + 1)
    OBVIOUS
  <2> QED BY <2>1, Zenon
<1>4. upTo(0) = {}
  OBVIOUS
<1>5. \A i \in 1 .. Len(c) : c[i] - d[i] <= Cardinality(here(i))
  OBVIOUS
<1> HIDE DEF upTo, here
<1>6. \A k \in Nat : Cardinality(upTo(k + 1)) = Cardinality(upTo(k)) + Cardinality(here(k + 1))
  <2> SUFFICES ASSUME NEW k \in Nat
               PROVE  Cardinality(upTo(k + 1)) = Cardinality(upTo(k)) + Cardinality(here(k + 1))
    OBVIOUS
  <2>1. PICK U, H : U = upTo(k) /\ H = here(k + 1)
    OBVIOUS
  <2>2. /\ IsFiniteSet(U) /\ IsFiniteSet(H)
        /\ upTo(k + 1) = U \cup H /\ U \cap H = {}
    BY <1>2, <1>3, <2>1
  <2>3. Cardinality(U \cup H) = Cardinality(U) + Cardinality(H)
    BY <2>2, DisjointUnion
  <2> QED BY <2>1, <2>2, <2>3
<1> DEFINE m == [k \in Nat |-> Cardinality(upTo(k))]
<1>7. m \in [Nat -> Nat]
  BY <1>2
<1>8. \A i \in 1 .. Len(c) : c[i] - d[i] <= m[i] - m[i - 1]
  <2> SUFFICES ASSUME NEW i \in 1 .. Len(c)
               PROVE  c[i] - d[i] <= m[i] - m[i - 1]
    OBVIOUS
  <2>1. i \in Nat /\ i - 1 \in Nat /\ (i - 1) + 1 = i
    OBVIOUS
  <2>2. m[i] = m[i - 1] + Cardinality(here(i))
    BY <1>6, <2>1
  <2>3. m[i] \in Nat /\ m[i - 1] \in Nat /\ Cardinality(here(i)) \in Nat
    BY <1>2, <2>1
  <2>4. m[i] - m[i - 1] = Cardinality(here(i))
    <3> HIDE DEF m
    <3> QED BY <2>2, <2>3
  <2> HIDE DEF m
  <2> QED BY <1>5, <2>4
<1>9. Len(c) \in Nat /\ m[Len(c)] = Cardinality(upTo(Len(c)))
  OBVIOUS
<1> HIDE DEF m
<1>10. TotalOf(c) - TotalOf(d) <= m[Len(c)]
  BY <1>7, <1>8, TotalBounded
<1>11. TotalOf(c) \in Int /\ TotalOf(d) \in Int
  <2>1. \A e \in Seq(Int) : TotalOf(e) \in Int
    <3> SUFFICES ASSUME NEW e \in Seq(Int) PROVE TotalOf(e) \in Int
      OBVIOUS
    <3>1. Len(e) \in 0 .. Len(e)
      OBVIOUS
    <3>2. PICK s \in [0 .. Len(e) -> Int] : TotalOf(e) = s[Len(e)]
      BY TotalIsSum
    <3> QED BY <3>1, <3>2
  <2> QED BY <2>1
<1>12. Cardinality(upTo(Len(c))) <= Cardinality(S) /\ Cardinality(S) \in Nat /\ m[Len(c)] \in Nat
  BY <1>1, <1>2, <1>7, <1>9
<1> QED BY <1>9, <1>10, <1>11, <1>12

\* A number more is added.
LEMMA TotalAppended ==
  ASSUME NEW c \in Seq(Int), NEW v \in Int
  PROVE  TotalOf(Append(c, v)) = TotalOf(c) + v /\ TotalOf(c) \in Int
<1>1. PICK n \in Nat : n = Len(c)
  OBVIOUS
<1>2. PICK d \in Seq(Int) : /\ d = Append(c, v) /\ Len(d) = n + 1 /\ d[n + 1] = v
                            /\ \A i \in 1 .. n : d[i] = c[i]
  <2>1. Append(c, v) \in Seq(Int)
    OBVIOUS
  <2>2. Len(Append(c, v)) = n + 1 /\ Append(c, v)[n + 1] = v
    BY <1>1
  <2>3. \A i \in 1 .. n : Append(c, v)[i] = c[i]
    BY <1>1
  <2> QED BY <2>1, <2>2, <2>3
<1>3. PICK a \in [0 .. n -> Int] : /\ a[0] = 0 /\ \A i \in 1 .. n : a[i] = a[i - 1] + c[i]
                                   /\ TotalOf(c) = a[n]
  BY <1>1, TotalIsSum
<1>4. PICK b \in [0 .. (n + 1) -> Int] :
        /\ b[0] = 0 /\ \A i \in 1 .. (n + 1) : b[i] = b[i - 1] + d[i]
        /\ TotalOf(d) = b[n + 1]
  BY <1>2, TotalIsSum
<1> DEFINE I == {k \in Nat : k <= n => a[k] = b[k]}
<1>5. 0 \in I
  BY <1>3, <1>4
<1>6. ASSUME NEW k \in Nat, k \in I
      PROVE  k + 1 \in I
  <2> SUFFICES ASSUME k + 1 <= n
               PROVE  a[k + 1] = b[k + 1]
    OBVIOUS
  <2>1. k + 1 \in 1 .. n /\ k + 1 \in 1 .. (n + 1) /\ (k + 1) - 1 = k
    OBVIOUS
  <2>2. a[k + 1] = a[k] + c[k + 1] /\ b[k + 1] = b[k] + d[k + 1] /\ d[k + 1] = c[k + 1]
    BY <1>2, <1>3, <1>4, <2>1
  <2> QED BY <1>6, <2>2
<1>7. n \in I
  <2> HIDE DEF I
  <2> QED BY <1>5, <1>6, SetInduction
<1>8. b[n + 1] = b[n] + v
  BY <1>2, <1>4
<1> QED BY <1>2, <1>3, <1>4, <1>7, <1>8

-----------------------------------------------------------------------------
(* The counters and the sales they count.                                  *)

\* A set of numbers has a least one.
LEMMA LeastNumber ==
  ASSUME NEW T \in SUBSET Nat, T # {}
  PROVE  \E n \in T : \A m \in T : n <= m
<1>1. PICK n \in T : \A m \in T : ~(<<m, n>> \in OpToRel(<, Nat))
  BY NatLessThanWellFounded, WFMin
<1>2. ASSUME NEW m \in T, m < n
      PROVE  FALSE
  <2>1. <<m, n>> \in OpToRel(<, Nat)
    BY <1>2 DEF OpToRel
  <2> QED BY <1>1, <2>1
<1> QED BY <1>2

\* The counters of a table of polls.
LEMMA CountsTyped ==
  ASSUME NEW rows \in Seq(PollRows)
  PROVE  /\ CountsIn(rows) \in Seq(Int) /\ Len(CountsIn(rows)) = Len(rows)
         /\ \A i \in 1 .. Len(rows) :
              /\ CountsIn(rows)[i] = (rows[i].xfer + rows[i].inst) + rows[i].online
              /\ rows[i].xfer \in Nat /\ rows[i].inst \in Int /\ rows[i].online \in Int
<1>1. Len(rows) \in Nat /\ DOMAIN rows = 1 .. Len(rows)
  OBVIOUS
<1>2. \A i \in 1 .. Len(rows) : rows[i].xfer \in Nat /\ rows[i].inst \in Int /\ rows[i].online \in Int
  <2>1. \A i \in 1 .. Len(rows) : rows[i] \in PollRows
    OBVIOUS
  <2> QED BY <2>1 DEF PollRows
<1>3. CountsIn(rows) = [i \in 1 .. Len(rows) |-> (rows[i].xfer + rows[i].inst) + rows[i].online]
  BY <1>1 DEF CountsIn
<1> QED BY <1>1, <1>2, <1>3

\* A counter that stops at zero falls by no more than one that does not.
LEMMA AtLeastZeroFalls ==
  ASSUME NEW n \in Int, NEW m \in Nat
  PROVE  AtLeastZero(n - m) \in Int /\ AtLeastZero(n - m) >= n - m
BY DEF AtLeastZero

\* Taking transfers back lowers the counters by no more than the rows.
LEMMA TransfersLower ==
  ASSUME TypeOK, NEW S \in SUBSET sales
  PROVE  /\ PollsWithoutTransfers(S) \in Seq(PollRows)
         /\ TotalOf(CountsIn(polls)) - TotalOf(CountsIn(PollsWithoutTransfers(S))) <= Cardinality(S)
<1> DEFINE lowered == PollsWithoutTransfers(S)
<1>1. /\ polls \in Seq(PollRows) /\ IsFiniteSet(sales) /\ IsFiniteSet(S)
  BY SubsetFinite DEF TypeOK
<1>2. /\ lowered \in Seq(PollRows) /\ Len(lowered) = Len(polls) /\ DOMAIN polls = 1 .. Len(polls)
  BY <1>1, LoweredPollsTyped
<1>3. ASSUME NEW i \in 1 .. Len(polls)
      PROVE  CountsIn(polls)[i] - CountsIn(lowered)[i] <= Cardinality({s \in S : s.poll = i})
  <2> DEFINE gone == Cardinality({s \in S : s.poll = i})
  <2>1. gone \in Nat
    BY <1>1, SubsetFinite
  <2>2. polls[i] \in PollRows /\ lowered[i] = [polls[i] EXCEPT !.xfer = AtLeastZero(@ - gone)]
    BY <1>1, <1>2 DEF PollsWithoutTransfers
  <2> HIDE DEF gone
  <2>3. /\ lowered[i].inst = polls[i].inst /\ lowered[i].online = polls[i].online
        /\ lowered[i].xfer = AtLeastZero(polls[i].xfer - gone)
    BY <2>2 DEF PollRows
  <2> HIDE DEF lowered
  <2>7. /\ CountsIn(polls)[i] = (polls[i].xfer + polls[i].inst) + polls[i].online
        /\ polls[i].xfer \in Nat /\ polls[i].inst \in Int /\ polls[i].online \in Int
    BY <1>1, CountsTyped
  <2>8. /\ CountsIn(lowered)[i] = (lowered[i].xfer + lowered[i].inst) + lowered[i].online
        /\ lowered[i].xfer \in Nat
    BY <1>2, CountsTyped
  <2>4. PICK x \in Nat, m \in Int, o \in Int, y \in Nat :
          /\ x = polls[i].xfer /\ m = polls[i].inst /\ o = polls[i].online
          /\ y = lowered[i].xfer
          /\ CountsIn(polls)[i] = (x + m) + o /\ CountsIn(lowered)[i] = (y + m) + o
    BY <2>3, <2>7, <2>8
  <2>5. y >= x - gone
    BY <2>1, <2>3, <2>4, AtLeastZeroFalls
  <2>6. ((x + m) + o) - ((y + m) + o) <= gone
    BY <2>1, <2>5
  <2> QED BY <2>4, <2>6 DEF gone
<1> HIDE DEF lowered
<1>4. /\ CountsIn(polls) \in Seq(Int) /\ CountsIn(lowered) \in Seq(Int)
      /\ Len(CountsIn(polls)) = Len(polls) /\ Len(CountsIn(lowered)) = Len(polls)
  BY <1>1, <1>2, CountsTyped
<1>5. TotalOf(CountsIn(polls)) - TotalOf(CountsIn(lowered)) <= Cardinality(S)
  BY <1>1, <1>3, <1>4, TotalFalls
<1> QED BY <1>2, <1>5 DEF lowered

\* The same for the sales of a banned seller, in two counters.
LEMMA SalesLower ==
  ASSUME TypeOK, NEW S \in SUBSET sales
  PROVE  /\ PollsWithoutSales(S) \in Seq(PollRows)
         /\ TotalOf(CountsIn(polls)) - TotalOf(CountsIn(PollsWithoutSales(S))) <= Cardinality(S)
<1> DEFINE lowered == PollsWithoutSales(S)
<1>1. /\ polls \in Seq(PollRows) /\ IsFiniteSet(sales) /\ IsFiniteSet(S)
  BY SubsetFinite DEF TypeOK
<1>2. /\ lowered \in Seq(PollRows) /\ Len(lowered) = Len(polls) /\ DOMAIN polls = 1 .. Len(polls)
  BY <1>1, LoweredPollsTyped
<1>3. ASSUME NEW i \in 1 .. Len(polls)
      PROVE  CountsIn(polls)[i] - CountsIn(lowered)[i] <= Cardinality({s \in S : s.poll = i})
  <2> DEFINE here == {s \in S : s.poll = i}
             bought == {s \in OfRule(S, Instant) : s.poll = i}
             accepted == {s \in OfRule(S, Online) : s.poll = i}
             less(n, k) == IF k = 0 THEN n ELSE AtLeastZero(n - k)
  <2>1. /\ bought \subseteq S /\ accepted \subseteq S /\ here \subseteq S
        /\ bought \cap accepted = {} /\ bought \cup accepted \subseteq here
    BY DEF OfRule, Instant, Online
  <2>2. polls[i] \in PollRows
        /\ lowered[i] = [polls[i] EXCEPT !.inst = less(polls[i].inst, Cardinality(bought)),
                                         !.online = less(polls[i].online, Cardinality(accepted))]
    <3>1. polls[i] \in PollRows /\ i \in DOMAIN polls
      BY <1>1, <1>2
    <3>2. lowered[i] = [polls[i] EXCEPT !.inst = less(polls[i].inst, Cardinality(bought)),
                                        !.online = less(polls[i].online, Cardinality(accepted))]
      BY <3>1 DEF PollsWithoutSales
    <3> QED BY <3>1, <3>2
  <2> HIDE DEF here, bought, accepted
  <2>3. /\ Cardinality(bought) \in Nat /\ Cardinality(accepted) \in Nat /\ Cardinality(here) \in Nat
        /\ Cardinality(bought) + Cardinality(accepted) <= Cardinality(here)
    <3>1. IsFiniteSet(bought) /\ IsFiniteSet(accepted) /\ IsFiniteSet(here)
      BY <1>1, <2>1, SubsetFinite
    <3>2. Cardinality(bought \cup accepted) = Cardinality(bought) + Cardinality(accepted)
      BY <2>1, <3>1, DisjointUnion
    <3>3. Cardinality(bought \cup accepted) <= Cardinality(here)
      BY <2>1, <3>1, FS_Subset
    <3> QED BY <3>1, <3>2, <3>3, FS_CardinalityType
  <2>4. PICK b \in Nat, a \in Nat, h \in Nat :
          b = Cardinality(bought) /\ a = Cardinality(accepted) /\ h = Cardinality(here) /\ b + a <= h
    BY <2>3
  <2>5. /\ lowered[i].xfer = polls[i].xfer
        /\ lowered[i].inst = less(polls[i].inst, b) /\ lowered[i].online = less(polls[i].online, a)
    BY <2>2, <2>4 DEF PollRows
  <2> HIDE DEF lowered
  <2>6. \A n \in Int, k \in Nat : less(n, k) \in Int /\ less(n, k) >= n - k
    BY AtLeastZeroFalls
  <2> HIDE DEF less
  <2>10. /\ CountsIn(polls)[i] = (polls[i].xfer + polls[i].inst) + polls[i].online
         /\ polls[i].xfer \in Nat /\ polls[i].inst \in Int /\ polls[i].online \in Int
    BY <1>1, CountsTyped
  <2>11. /\ CountsIn(lowered)[i] = (lowered[i].xfer + lowered[i].inst) + lowered[i].online
         /\ lowered[i].inst \in Int /\ lowered[i].online \in Int
    BY <1>2, CountsTyped
  <2>7. PICK x \in Nat, m \in Int, o \in Int, y \in Int, z \in Int :
          /\ x = polls[i].xfer /\ m = polls[i].inst /\ o = polls[i].online
          /\ y = lowered[i].inst /\ z = lowered[i].online
          /\ CountsIn(polls)[i] = (x + m) + o /\ CountsIn(lowered)[i] = (x + y) + z
    BY <2>5, <2>10, <2>11
  <2>8. y >= m - b /\ z >= o - a
    BY <2>5, <2>6, <2>7
  <2>9. ((x + m) + o) - ((x + y) + z) <= h
    BY <2>4, <2>8
  <2> QED BY <2>4, <2>7, <2>9 DEF here
<1> HIDE DEF lowered
<1>4. /\ CountsIn(polls) \in Seq(Int) /\ CountsIn(lowered) \in Seq(Int)
      /\ Len(CountsIn(polls)) = Len(polls) /\ Len(CountsIn(lowered)) = Len(polls)
  BY <1>1, <1>2, CountsTyped
<1>5. TotalOf(CountsIn(polls)) - TotalOf(CountsIn(lowered)) <= Cardinality(S)
  BY <1>1, <1>3, <1>4, TotalFalls
<1> QED BY <1>2, <1>5 DEF lowered

\* What counts after rows were reverted and others entered.
LEMMA ActiveAfter ==
  ASSUME TypeOK, NEW S \in SUBSET ActiveSales, NEW N, IsFiniteSet(N)
  PROVE  LET after == {s \in Reverting(S) \cup N : Active(s)}
         IN  /\ IsFiniteSet(after) /\ Cardinality(S) \in Nat
             /\ Cardinality(after) <= (Cardinality(ActiveSales) - Cardinality(S)) + Cardinality(N)
<1> DEFINE after == {s \in Reverting(S) \cup N : Active(s)}
           left == ActiveSales \ S
<1>1. /\ S \subseteq sales /\ sales \subseteq SaleRows /\ IsFiniteSet(sales) /\ ActiveSales \subseteq sales
  BY ActiveAreSales DEF TypeOK
<1>2. after \subseteq left \cup N
  BY <1>1, RevertingLeaves
<1>3. IsFiniteSet(ActiveSales) /\ IsFiniteSet(left) /\ IsFiniteSet(S)
  BY <1>1, SubsetFinite
<1>4. Cardinality(ActiveSales) = Cardinality(S) + Cardinality(left)
  <2>1. ActiveSales = S \cup left /\ S \cap left = {}
    OBVIOUS
  <2> HIDE DEF left
  <2> QED BY <1>3, <2>1, DisjointUnion
<1> HIDE DEF after, left
<1>5. /\ Cardinality(left) \in Nat /\ Cardinality(N) \in Nat /\ Cardinality(S) \in Nat
      /\ Cardinality(left \cap N) \in Nat /\ IsFiniteSet(left \cup N)
  BY <1>3, SubsetFinite, FS_CardinalityType, FS_Union
<1>6. Cardinality(left \cup N) <= Cardinality(left) + Cardinality(N)
  <2>1. Cardinality(left \cup N) = Cardinality(left) + (Cardinality(N) - Cardinality(left \cap N))
    BY <1>3, FS_Union, Zenon
  <2> QED BY <1>5, <2>1
<1>7. IsFiniteSet(after) /\ Cardinality(after) \in Nat /\ Cardinality(after) <= Cardinality(left \cup N)
  BY <1>2, <1>5, FS_Subset, FS_CardinalityType
<1>8. Cardinality(left \cup N) \in Nat /\ Cardinality(ActiveSales) \in Nat
  BY <1>3, <1>5, FS_CardinalityType
<1> QED BY <1>4, <1>5, <1>6, <1>7, <1>8 DEF after

\* The counters of one more poll.
LEMMA CountsAppended ==
  ASSUME NEW rows \in Seq(PollRows), NEW row \in PollRows
  PROVE  CountsIn(Append(rows, row)) = Append(CountsIn(rows), (row.xfer + row.inst) + row.online)
<1> DEFINE v == (row.xfer + row.inst) + row.online
           left == CountsIn(Append(rows, row))
           right == Append(CountsIn(rows), v)
<1>1. v \in Int
  BY DEF PollRows
<1>2. PICK n \in Nat : n = Len(rows)
  OBVIOUS
<1>3. /\ Append(rows, row) \in Seq(PollRows) /\ Len(Append(rows, row)) = n + 1
      /\ Append(rows, row)[n + 1] = row /\ \A i \in 1 .. n : Append(rows, row)[i] = rows[i]
  BY <1>2
<1>4. /\ left \in Seq(Int) /\ Len(left) = n + 1
      /\ \A i \in 1 .. (n + 1) : left[i] =
           (Append(rows, row)[i].xfer + Append(rows, row)[i].inst) + Append(rows, row)[i].online
  BY <1>3, CountsTyped
<1>5. /\ CountsIn(rows) \in Seq(Int) /\ Len(CountsIn(rows)) = n
      /\ \A i \in 1 .. n : CountsIn(rows)[i] = (rows[i].xfer + rows[i].inst) + rows[i].online
  BY <1>2, CountsTyped
<1> HIDE DEF v, left
<1>6. /\ right \in Seq(Int) /\ Len(right) = n + 1 /\ right[n + 1] = v
      /\ \A i \in 1 .. n : right[i] = CountsIn(rows)[i]
  BY <1>1, <1>5
<1> HIDE DEF right
<1>7. \A i \in 1 .. (n + 1) : left[i] = right[i]
  <2> SUFFICES ASSUME NEW i \in 1 .. (n + 1) PROVE left[i] = right[i]
    OBVIOUS
  <2>1. CASE i = n + 1
    BY <1>3, <1>4, <1>6, <2>1 DEF v
  <2>2. CASE i # n + 1
    <3>1. i \in 1 .. n
      BY <2>2
    <3> QED BY <1>3, <1>4, <1>5, <1>6, <3>1
  <2> QED BY <2>1, <2>2
<1>8. left = right
  BY <1>4, <1>6, <1>7
<1> QED BY <1>8 DEF left, right, v

\* A poll enters no more rows than it credits sales and counts transfers.
LEMMA NewSalesBounded ==
  ASSUME NEW x, NEW kept \in CreditedChoices(x), IsObservation(x), polls \in Seq(PollRows)
  PROVE  /\ IsFiniteSet(kept) /\ IsFiniteSet(Transfers(x) \ PingPong(x))
         /\ Cardinality(NewSales(x, kept)) \in Nat
         /\ Cardinality(NewSales(x, kept))
              <= Cardinality(kept) + Cardinality(Transfers(x) \ PingPong(x))
<1> DEFINE bought == Transfers(x) \ PingPong(x)
           sale == [e \in kept |->
                      [rule |-> e.rule, fp |-> e.key[1], seller |-> e.key[2], buyer |-> NoSeller,
                       poll |-> Len(polls) + 1, reverted |-> FALSE]]
           transfer == [t \in bought |->
                          [rule |-> Transfer, fp |-> t.fp, seller |-> t.seller, buyer |-> t.buyer,
                           poll |-> Len(polls) + 1, reverted |-> FALSE]]
           sold == {sale[e] : e \in kept}
           moved == {transfer[t] : t \in bought}
<1>1. IsFiniteSet(kept) /\ IsFiniteSet(bought)
  BY VanishSaleEventsTyped, CreditedAreSaleEvents, SaleEventsFinite, TransfersFinite, SubsetFinite
<1>2. NewSales(x, kept) = sold \cup moved
  BY DEF NewSales
<1> HIDE DEF bought, sale, transfer
<1>3. /\ Cardinality(sold) <= Cardinality(kept) /\ Cardinality(sold) \in Nat
      /\ Cardinality(moved) <= Cardinality(bought) /\ Cardinality(moved) \in Nat
      /\ Cardinality(kept) \in Nat /\ Cardinality(bought) \in Nat
  BY <1>1, ImageNoLarger
<1>4. IsFiniteSet(sold) /\ IsFiniteSet(moved)
  BY <1>1, ImageFinite
<1> HIDE DEF sold, moved
<1>5. IsFiniteSet(sold \cup moved) /\ Cardinality(sold \cap moved) \in Nat
  BY <1>4, FS_Union, SubsetFinite
<1>6. Cardinality(sold \cup moved) = Cardinality(sold) + (Cardinality(moved) - Cardinality(sold \cap moved))
  BY <1>4, FS_Union, Zenon
<1>7. Cardinality(sold \cup moved) \in Nat
  BY <1>5, FS_CardinalityType
<1> QED BY <1>1, <1>2, <1>3, <1>5, <1>6, <1>7 DEF bought

\* A set of rows of the two sale rules, split by the rule.
LEMMA SplitByRule ==
  ASSUME NEW S, IsFiniteSet(S), \A s \in S : s.rule \in {Instant, Online}
  PROVE  /\ Cardinality(OfRule(S, Instant)) \in Nat /\ Cardinality(OfRule(S, Online)) \in Nat
         /\ Cardinality(S) = Cardinality(OfRule(S, Instant)) + Cardinality(OfRule(S, Online))
<1> DEFINE bought == OfRule(S, Instant)
           accepted == OfRule(S, Online)
<1>1. bought \subseteq S /\ accepted \subseteq S
      /\ S = bought \cup accepted /\ bought \cap accepted = {}
  BY DEF OfRule, Instant, Online
<1>2. IsFiniteSet(bought) /\ IsFiniteSet(accepted)
      /\ Cardinality(bought) \in Nat /\ Cardinality(accepted) \in Nat
  BY <1>1, SubsetFinite
<1> HIDE DEF bought, accepted
<1>3. Cardinality(S) = Cardinality(bought) + Cardinality(accepted)
  BY <1>1, <1>2, DisjointUnion
<1> QED BY <1>2, <1>3 DEF bought, accepted

CountedRelisted(x) == {p \in Relisted(x) : p.counted}

\* What a reconciled counter keeps of the credits.
LEMMA ReconciledAtLeast ==
  ASSUME NEW x, NEW kept, NEW rule, Cardinality(OfRule(kept, rule)) \in Nat,
         Cardinality({p \in Relisted(x) : p.kind = rule /\ p.counted}) \in Nat
  PROVE  /\ ReconciledCount(x, kept, rule) \in Int
         /\ ReconciledCount(x, kept, rule)
              >= Cardinality(OfRule(kept, rule))
                   - Cardinality({p \in Relisted(x) : p.kind = rule /\ p.counted})
BY DEF ReconciledCount

\* The counters of a new poll hold what it credits less what it takes back.
LEMMA NewRowCounts ==
  ASSUME NEW x, NEW kept \in CreditedChoices(x), NEW late \in SUBSET sales,
         IsObservation(x), IsFiniteSet(sales), \A s \in late : s.rule \in {Instant, Online}
  PROVE  LET row == NewPollRow(x, kept, late)
             bought == Transfers(x) \ PingPong(x)
         IN  /\ row \in PollRows
             /\ Cardinality(kept) \in Nat /\ Cardinality(bought) \in Nat
             /\ Cardinality(CountedRelisted(x)) \in Nat /\ IsFiniteSet(CountedRelisted(x))
             /\ Cardinality(late) \in Nat
             /\ (row.xfer + row.inst) + row.online
                  >= ((Cardinality(kept) + Cardinality(bought)) - Cardinality(CountedRelisted(x)))
                        - Cardinality(late)
<1> DEFINE row == NewPollRow(x, kept, late)
           bought == Transfers(x) \ PingPong(x)
           undone(rule) == {p \in Relisted(x) : p.kind = rule /\ p.counted}
           counted == CountedRelisted(x)
<1>1. row \in PollRows
  BY NewPollRowTyped
<1>2. kept \subseteq SaleEvents /\ IsFiniteSet(kept) /\ IsFiniteSet(late)
  BY VanishSaleEventsTyped, CreditedAreSaleEvents, SaleEventsFinite, SubsetFinite
<1>3. /\ Cardinality(OfRule(kept, Instant)) \in Nat /\ Cardinality(OfRule(kept, Online)) \in Nat
      /\ Cardinality(kept) = Cardinality(OfRule(kept, Instant)) + Cardinality(OfRule(kept, Online))
  <2>1. \A e \in kept : e.rule \in {Instant, Online}
    BY <1>2 DEF SaleEvents
  <2> QED BY <1>2, <2>1, SplitByRule
<1>4. /\ Cardinality(OfRule(late, Instant)) \in Nat /\ Cardinality(OfRule(late, Online)) \in Nat
      /\ Cardinality(late) = Cardinality(OfRule(late, Instant)) + Cardinality(OfRule(late, Online))
  BY <1>2, SplitByRule
<1>5. /\ IsFiniteSet(counted)
      /\ Cardinality(undone(Instant)) \in Nat /\ Cardinality(undone(Online)) \in Nat
      /\ Cardinality(counted) = Cardinality(undone(Instant)) + Cardinality(undone(Online))
  <2>1. counted \subseteq x.pend /\ IsFiniteSet(x.pend) /\ x.pend \subseteq PendingRows
    BY DEF CountedRelisted, Relisted, Reappeared, IsObservation
  <2>2. IsFiniteSet(undone(Instant)) /\ IsFiniteSet(undone(Online)) /\ IsFiniteSet(counted)
    <3>1. undone(Instant) \subseteq counted /\ undone(Online) \subseteq counted
      BY DEF CountedRelisted
    <3>2. IsFiniteSet(counted)
      BY <2>1, SubsetFinite
    <3> QED BY <3>1, <3>2, SubsetFinite
  <2>3. counted = undone(Instant) \cup undone(Online)
    <3>1. \A p \in counted : p.kind \in {Instant, Online}
      BY <2>1 DEF PendingRows
    <3> QED BY <3>1 DEF CountedRelisted
  <2>4. undone(Instant) \cap undone(Online) = {}
    BY DEF Instant, Online
  <2> HIDE DEF counted, undone
  <2>5. Cardinality(counted) = Cardinality(undone(Instant)) + Cardinality(undone(Online))
    BY <2>2, <2>3, <2>4, DisjointUnion
  <2> QED BY <2>2, <2>5, FS_CardinalityType
<1>6. /\ row.xfer \in Nat /\ Cardinality(bought) \in Nat
      /\ row.xfer >= Cardinality(bought)
  <2> DEFINE pair == [t \in PingPong(x) |-> <<t.seller, t.buyer>>]
             pairs == PingPongPairs(x)
             all == Transfers(x)
             back == PingPong(x)
  <2>1. back \subseteq all /\ all = back \cup bought /\ back \cap bought = {}
    BY DEF PingPong
  <2>2. IsFiniteSet(all) /\ IsFiniteSet(back) /\ IsFiniteSet(bought)
    BY <2>1, TransfersFinite, SubsetFinite
  <2>3. pairs \subseteq {pair[t] : t \in back}
    BY DEF PingPongPairs
  <2>4. row.xfer = AtLeastZero(Cardinality(all) - Cardinality(pairs))
    BY DEF NewPollRow
  <2> HIDE DEF pair, pairs, all, back, bought, row
  <2>5. /\ Cardinality(pairs) <= Cardinality(back) /\ Cardinality(pairs) \in Nat
        /\ Cardinality(back) \in Nat
    BY <2>2, <2>3, ImageNoLarger
  <2>6. Cardinality(all) = Cardinality(back) + Cardinality(bought) /\ Cardinality(bought) \in Nat
    BY <2>1, <2>2, DisjointUnion, FS_CardinalityType
  <2> QED BY <2>4, <2>5, <2>6 DEF AtLeastZero
<1>7. /\ ReconciledCount(x, kept, Instant) \in Int /\ ReconciledCount(x, kept, Online) \in Int
      /\ ReconciledCount(x, kept, Instant)
           >= Cardinality(OfRule(kept, Instant)) - Cardinality(undone(Instant))
      /\ ReconciledCount(x, kept, Online)
           >= Cardinality(OfRule(kept, Online)) - Cardinality(undone(Online))
  BY <1>3, <1>5, ReconciledAtLeast
<1>8. /\ row.inst = ReconciledCount(x, kept, Instant) - Cardinality(OfRule(late, Instant))
      /\ row.online = ReconciledCount(x, kept, Online) - Cardinality(OfRule(late, Online))
  BY DEF NewPollRow
<1> HIDE DEF row, bought, undone, counted
<1>9. PICK ki \in Nat, ko \in Nat, li \in Nat, lo \in Nat, ui \in Nat, uo \in Nat,
           ri \in Int, ro \in Int, f \in Nat, b \in Nat :
        /\ ki = Cardinality(OfRule(kept, Instant)) /\ ko = Cardinality(OfRule(kept, Online))
        /\ li = Cardinality(OfRule(late, Instant)) /\ lo = Cardinality(OfRule(late, Online))
        /\ ui = Cardinality(undone(Instant)) /\ uo = Cardinality(undone(Online))
        /\ ri = ReconciledCount(x, kept, Instant) /\ ro = ReconciledCount(x, kept, Online)
        /\ f = row.xfer /\ b = Cardinality(bought)
  BY <1>3, <1>4, <1>5, <1>6, <1>7
<1>10. /\ Cardinality(kept) = ki + ko /\ Cardinality(late) = li + lo
       /\ Cardinality(counted) = ui + uo /\ f >= b /\ ri >= ki - ui /\ ro >= ko - uo
       /\ row.inst = ri - li /\ row.online = ro - lo
  BY <1>3, <1>4, <1>5, <1>6, <1>7, <1>8, <1>9
<1>11. (f + (ri - li)) + (ro - lo) >= (((ki + ko) + b) - (ui + uo)) - (li + lo)
  BY <1>10
<1> QED BY <1>1, <1>5, <1>9, <1>10, <1>11 DEF row, bought, counted

\* The row that a relist of a counted pending takes back is there.
LEMMA LatestSaleFound ==
  ASSUME TypeOK, NEW rule, NEW key,
         \E s \in ActiveSales : s.rule = rule /\ KeyOf(s) = key
  PROVE  LatestSale(rule, key, 0) # {}
<1> DEFINE found == {s \in ActiveSales : /\ s.rule = rule /\ KeyOf(s) = key
                                         /\ OccurredAt(s) >= 0}
           age(s) == Len(polls) - s.poll
           ages == {n \in Nat : \E s \in found : n = age(s)}
<1>1. polls \in Seq(PollRows) /\ Len(polls) \in Nat /\ DOMAIN polls = 1 .. Len(polls)
  BY DEF TypeOK
<1>2. \A s \in ActiveSales : s.poll \in 1 .. Len(polls) /\ OccurredAt(s) \in Nat
  <2> SUFFICES ASSUME NEW s \in ActiveSales
               PROVE  s.poll \in 1 .. Len(polls) /\ OccurredAt(s) \in Nat
    OBVIOUS
  <2>1. s.poll \in 1 .. Len(polls)
    BY <1>1 DEF TypeOK, ActiveSales
  <2>2. polls[s.poll] \in PollRows
    BY <1>1, <2>1
  <2> QED BY <2>1, <2>2 DEF OccurredAt, PollRows
<1>3. PICK s \in found : TRUE
  BY <1>2
<1>4. \A r \in found : r.poll \in 1 .. Len(polls) /\ age(r) \in ages
  BY <1>1, <1>2
<1>5. PICK n \in ages : \A m \in ages : n <= m
  BY <1>3, <1>4, LeastNumber
<1>6. PICK r \in found : n = age(r)
  OBVIOUS
<1> HIDE DEF ages
<1>7. \A t \in found : t.poll <= r.poll
  BY <1>1, <1>4, <1>5, <1>6
<1>8. r \in LatestSale(rule, key, 0)
  BY <1>6, <1>7 DEF LatestSale
<1> QED BY <1>8

\* Relisting the counted pendings reverts at least one sale for each.
LEMMA RelistsRevert ==
  ASSUME TypeOK, CountedBacked, NEW x, x.pend = pend, NEW snap, PendingsFit(snap, pend)
  PROVE  /\ IsFiniteSet(RelistReverts(x))
         /\ Cardinality(CountedRelisted(x)) <= Cardinality(RelistReverts(x))
<1> DEFINE row == [p \in CountedRelisted(x) |-> CHOOSE s : s \in LatestSale(p.kind, p.key, 0)]
<1>1. IsFiniteSet(RelistReverts(x))
  BY RevertsAreSales, ActiveAreSales, SubsetFinite DEF TypeOK
<1>2. \A p \in CountedRelisted(x) : p \in pend /\ p.counted /\ p \in Relisted(x)
  BY DEF CountedRelisted, Relisted, Reappeared
<1>3. \A p \in CountedRelisted(x) : row[p] \in LatestSale(p.kind, p.key, 0)
  BY <1>2, LatestSaleFound DEF CountedBacked
<1>4. \A p \in CountedRelisted(x) : row[p] \in RelistReverts(x) /\ KeyOf(row[p]) = p.key
  <2> SUFFICES ASSUME NEW p \in CountedRelisted(x)
               PROVE  row[p] \in RelistReverts(x) /\ KeyOf(row[p]) = p.key
    OBVIOUS
  <2>1. p \in Relisted(x) /\ row[p] \in LatestSale(p.kind, p.key, 0)
    BY <1>2, <1>3
  <2> HIDE DEF row
  <2>2. row[p] \in RelistReverts(x)
    BY <2>1 DEF RelistReverts
  <2>3. KeyOf(row[p]) = p.key
    BY <2>1 DEF LatestSale
  <2> QED BY <2>2, <2>3
<1>5. row \in [CountedRelisted(x) -> RelistReverts(x)]
  BY <1>4
<1> HIDE DEF row
<1>6. \A p, q \in CountedRelisted(x) : row[p] = row[q] => p = q
  BY <1>2, <1>4 DEF PendingsFit
<1>7. row \in Injection(CountedRelisted(x), RelistReverts(x))
  BY <1>5, <1>6 DEF Injection, IsInjective
<1> QED BY <1>1, <1>7, FS_Injection

\* Which rows the three kinds of revert pick: no row is picked by two of them.
LEMMA RevertedSales ==
  ASSUME TypeOK, NEW x, x.pend \subseteq PendingRows, NEW preview
  PROVE  /\ \A s \in PingPongReverts(x) : s.rule = Transfer
         /\ \A s \in LateRelistReverts(x, preview) :
              s.rule \in {Instant, Online} /\ KeyOf(s) \notin {p.key : p \in Relisted(x)}
         /\ \A s \in RelistReverts(x) :
              s.rule \in {Instant, Online} /\ KeyOf(s) \in {p.key : p \in Relisted(x)}
<1>1. \A s \in PingPongReverts(x) : s.rule = Transfer
  BY DEF PingPongReverts, TransfersBetween
<1>2. \A rule, key, since : \A s \in LatestSale(rule, key, since) : s.rule = rule /\ KeyOf(s) = key
  BY DEF LatestSale
<1>3. \A key : \A s \in LateRelistRevert(x, key) : s.rule \in {Instant, Online} /\ KeyOf(s) = key
  BY <1>2 DEF LateRelistRevert
<1>4. \A s \in LateRelistReverts(x, preview) :
        s.rule \in {Instant, Online} /\ KeyOf(s) \notin {p.key : p \in Relisted(x)}
  <2> SUFFICES ASSUME NEW s \in LateRelistReverts(x, preview)
               PROVE  s.rule \in {Instant, Online} /\ KeyOf(s) \notin {p.key : p \in Relisted(x)}
    OBVIOUS
  <2>1. PICK k \in LateRelistKeys(x, preview) : s \in LateRelistRevert(x, k)
    BY DEF LateRelistReverts
  <2>2. k \notin {p.key : p \in Relisted(x)}
    BY <2>1 DEF LateRelistKeys
  <2> QED BY <1>3, <2>1, <2>2
<1>5. \A s \in RelistReverts(x) :
        s.rule \in {Instant, Online} /\ KeyOf(s) \in {p.key : p \in Relisted(x)}
  <2> SUFFICES ASSUME NEW s \in RelistReverts(x)
               PROVE  s.rule \in {Instant, Online} /\ KeyOf(s) \in {p.key : p \in Relisted(x)}
    OBVIOUS
  <2>1. PICK p \in Relisted(x) : s \in LatestSale(p.kind, p.key, 0)
    BY DEF RelistReverts
  <2>2. p.kind \in {Instant, Online}
    BY <2>1 DEF Relisted, Reappeared, PendingRows
  <2> QED BY <1>2, <2>1, <2>2
<1> QED BY <1>1, <1>4, <1>5

\* The rows that a poll reverts are at least as many as its three kinds of revert.
LEMMA RevertsCounted ==
  ASSUME TypeOK, NEW x, x.pend \subseteq PendingRows, NEW preview
  PROVE  LET moved == PingPongReverts(x)
             late == LateRelistReverts(x, preview)
             back == RelistReverts(x)
         IN  /\ Cardinality(moved) \in Nat /\ Cardinality(late) \in Nat /\ Cardinality(back) \in Nat
             /\ Cardinality(moved \cup late \cup back)
                  = (Cardinality(moved) + Cardinality(late)) + Cardinality(back)
<1> DEFINE moved == PingPongReverts(x)
           late == LateRelistReverts(x, preview)
           back == RelistReverts(x)
<1>1. IsFiniteSet(moved) /\ IsFiniteSet(late) /\ IsFiniteSet(back)
  BY RevertsAreSales, ActiveAreSales, SubsetFinite DEF TypeOK
<1>2. Transfer # Instant /\ Transfer # Online
  BY DEF Transfer, Instant, Online
<1>3. moved \cap late = {} /\ (moved \cup late) \cap back = {}
  BY <1>2, RevertedSales
<1> HIDE DEF moved, late, back
<1>4. /\ IsFiniteSet(moved \cup late)
      /\ Cardinality(moved \cup late) = Cardinality(moved) + Cardinality(late)
  BY <1>1, <1>3, DisjointUnion
<1>5. Cardinality((moved \cup late) \cup back) = Cardinality(moved \cup late) + Cardinality(back)
  BY <1>1, <1>3, <1>4, DisjointUnion
<1> QED BY <1>1, <1>4, <1>5, FS_CardinalityType DEF moved, late, back

\* What the poller holds is what is stored, if nobody clears the tables meanwhile.
HeldPend == phase = "loaded" => held.pend = pend

\* Reading is the only step that makes the copy, and until it is stored nothing else
\* moves the pendings.
LEMMA HeldPendStep ==
  ASSUME "loaded" \notin ClearPhases, HeldPend, [Next]_vars
  PROVE  HeldPend'
<1> USE DEF HeldPend
<1>1. CASE Load
  BY <1>1 DEF Load
<1>2. CASE WritePoll
  BY <1>2 DEF WritePoll
<1>3. ASSUME NEW s \in Sellers, SkipBan(s) \/ ClearBan(s) \/ ConfirmBan(s)
      PROVE  HeldPend'
  BY <1>3 DEF SkipBan, ClearBan, ConfirmBan, BanCheckOf
<1>4. CASE AdminClear
  BY <1>4 DEF AdminClear
<1>5. CASE OtherVariantWrites \/ MarkBan \/ EndCycle \/ AbortCycle \/ Restart
  BY <1>5 DEF OtherVariantWrites, MarkBan, EndCycle, AbortCycle, Restart
<1>6. CASE UNCHANGED vars
  BY <1>6 DEF vars
<1> QED BY <1>1, <1>2, <1>3, <1>4, <1>5, <1>6 DEF Next

\* The poll's new row makes up for what it enters and for what the relists take off the
\* counters; each row reverted besides lowers a counter by one at most.
LEMMA WritePollCovers ==
  ASSUME TypeOK, PendingUnlistedAndUnique, CountedBacked, held.pend = pend,
         CountersCoverSales, WritePoll
  PROVE  CountersCoverSales'
<1>1. PICK x, kept, preview :
        /\ x.prev = held.sig /\ x.pend = held.pend
        /\ x.cycle = cycle /\ x.curr \in Snapshots
        /\ \E gap \in Gaps : x.at = LastPollAt + gap
        /\ kept \in CreditedChoices(x)
        /\ WritePollResult(x, kept, preview)
  BY WritePollObserves
<1> DEFINE moved == PingPongReverts(x)
           late == LateRelistReverts(x, preview)
           back == RelistReverts(x)
           undone == moved \cup late \cup back
           lowered == PollsWithoutTransfers(moved)
           row == NewPollRow(x, kept, late)
           bought == Transfers(x) \ PingPong(x)
           new == NewSales(x, kept)
           counted == CountedRelisted(x)
<1>2. IsObservation(x)
  BY <1>1, HeldObserved
<1>3. polls \in Seq(PollRows) /\ IsFiniteSet(sales)
  BY DEF TypeOK
<1>4. /\ moved \subseteq ActiveSales /\ late \subseteq ActiveSales /\ undone \subseteq ActiveSales
      /\ moved \in SUBSET sales /\ late \in SUBSET sales
  BY RevertsAreSales, ActiveAreSales
<1>5. x.pend \subseteq PendingRows /\ x.pend = pend /\ PendingsFit(sig, pend)
  BY <1>1 DEF TypeOK, PendingUnlistedAndUnique
<1>6. sales' = Reverting(undone) \cup new /\ polls' = Append(lowered, row)
  BY <1>1 DEF WritePollResult
<1>7. /\ Cardinality(moved) \in Nat /\ Cardinality(late) \in Nat /\ Cardinality(back) \in Nat
      /\ Cardinality(undone) = (Cardinality(moved) + Cardinality(late)) + Cardinality(back)
  BY <1>5, RevertsCounted
<1>8. Cardinality(counted) <= Cardinality(back)
  BY <1>5, RelistsRevert
<1>9. \A s \in late : s.rule \in {Instant, Online}
  BY <1>5, RevertedSales
<1>10. /\ row \in PollRows
       /\ Cardinality(kept) \in Nat /\ Cardinality(bought) \in Nat /\ Cardinality(counted) \in Nat
       /\ (row.xfer + row.inst) + row.online
            >= ((Cardinality(kept) + Cardinality(bought)) - Cardinality(counted)) - Cardinality(late)
  BY <1>1, <1>2, <1>3, <1>4, <1>9, NewRowCounts
<1>11. /\ Cardinality(new) \in Nat /\ IsFiniteSet(new)
       /\ Cardinality(new) <= Cardinality(kept) + Cardinality(bought)
  BY <1>1, <1>2, <1>3, NewSalesBounded, NewSalesTyped
<1>12. /\ lowered \in Seq(PollRows)
       /\ TotalOf(CountsIn(polls)) - TotalOf(CountsIn(lowered)) <= Cardinality(moved)
  BY <1>4, TransfersLower
<1>13. /\ IsFiniteSet(ActiveSales) /\ Cardinality(ActiveSales) \in Nat
       /\ Cardinality({s \in Reverting(undone) \cup new : Active(s)}) \in Nat
       /\ Cardinality({s \in Reverting(undone) \cup new : Active(s)})
            <= (Cardinality(ActiveSales) - Cardinality(undone)) + Cardinality(new)
  <2>1. IsFiniteSet(ActiveSales)
    BY <1>3, ActiveAreSales, SubsetFinite
  <2> HIDE DEF undone, new
  <2>2. /\ IsFiniteSet({s \in Reverting(undone) \cup new : Active(s)})
        /\ Cardinality({s \in Reverting(undone) \cup new : Active(s)})
             <= (Cardinality(ActiveSales) - Cardinality(undone)) + Cardinality(new)
    BY <1>4, <1>11, ActiveAfter
  <2> QED BY <2>1, <2>2, FS_CardinalityType
<1> HIDE DEF moved, late, back, undone, lowered, row, bought, new, counted
<1>14. ActiveSales' = {s \in Reverting(undone) \cup new : Active(s)}
  BY <1>6 DEF ActiveSales, Active
<1>15. TotalOf(CountsIn(polls')) = TotalOf(CountsIn(lowered)) + ((row.xfer + row.inst) + row.online)
       /\ TotalOf(CountsIn(lowered)) \in Int /\ TotalOf(CountsIn(polls)) \in Int
       /\ ((row.xfer + row.inst) + row.online) \in Int
  <2> DEFINE v == (row.xfer + row.inst) + row.online
  <2>1. v \in Int
    BY <1>10 DEF PollRows
  <2>2. CountsIn(Append(lowered, row)) = Append(CountsIn(lowered), v)
    BY <1>10, <1>12, CountsAppended
  <2>3. CountsIn(lowered) \in Seq(Int) /\ CountsIn(polls) \in Seq(Int)
    BY <1>3, <1>12, CountsTyped
  <2> HIDE DEF v
  <2>4. TotalOf(Append(CountsIn(lowered), v)) = TotalOf(CountsIn(lowered)) + v
        /\ TotalOf(CountsIn(lowered)) \in Int
    BY <2>1, <2>3, TotalAppended
  <2>5. TotalOf(CountsIn(polls)) \in Int
    BY <2>3, TotalAppended
  <2> QED BY <1>6, <2>1, <2>2, <2>4, <2>5 DEF v
<1>16. TotalOf(CountsIn(polls)) >= Cardinality(ActiveSales)
  BY DEF CountersCoverSales, CounterTotal
<1>17. PICK m \in Nat, l \in Nat, b \in Nat, k \in Nat, t \in Nat, c \in Nat, n \in Nat,
            a \in Nat, z \in Nat, old \in Int, low \in Int, v \in Int :
         /\ m = Cardinality(moved) /\ l = Cardinality(late) /\ b = Cardinality(back)
         /\ k = Cardinality(kept) /\ t = Cardinality(bought) /\ c = Cardinality(counted)
         /\ n = Cardinality(new) /\ a = Cardinality(ActiveSales)
         /\ z = Cardinality({s \in Reverting(undone) \cup new : Active(s)})
         /\ old = TotalOf(CountsIn(polls)) /\ low = TotalOf(CountsIn(lowered))
         /\ v = (row.xfer + row.inst) + row.online
  BY <1>7, <1>10, <1>11, <1>13, <1>15
<1>18. /\ old >= a /\ old - low <= m /\ c <= b /\ n <= k + t
       /\ v >= ((k + t) - c) - l /\ z <= (a - ((m + l) + b)) + n
  BY <1>7, <1>8, <1>10, <1>11, <1>12, <1>13, <1>16, <1>17
<1>19. low + v >= z
  BY <1>18
<1>20. TotalOf(CountsIn(polls')) >= Cardinality(ActiveSales')
  BY <1>14, <1>15, <1>17, <1>19
<1> QED BY <1>20 DEF CountersCoverSales, CounterTotal

\* A confirmed ban lowers a counter for a row that it reverts, and for nothing else.
LEMMA BanCovers ==
  ASSUME TypeOK, CountersCoverSales, NEW s \in Sellers, ConfirmBan(s)
  PROVE  CountersCoverSales'
<1>1. PICK ids \in VanishPolls(s) : /\ sales' = Reverting(BannedSales(s, ids))
                                    /\ polls' = PollsWithoutSales(BannedSales(s, ids))
  BY DEF ConfirmBan
<1> DEFINE S == BannedSales(s, ids)
           after == {r \in Reverting(S) \cup {} : Active(r)}
<1>2. S \in SUBSET ActiveSales /\ S \in SUBSET sales /\ IsFiniteSet(S)
  BY ActiveAreSales, SubsetFinite DEF BannedSales, TypeOK
<1>3. sales' = Reverting(S) /\ polls' = PollsWithoutSales(S)
  BY <1>1
<1> HIDE DEF S
<1>4. /\ polls' \in Seq(PollRows)
      /\ TotalOf(CountsIn(polls)) - TotalOf(CountsIn(polls')) <= Cardinality(S)
  BY <1>2, <1>3, SalesLower
<1>5. IsFiniteSet({}) /\ Cardinality({}) = 0
  BY FS_EmptySet
<1>6. /\ IsFiniteSet(after) /\ Cardinality(S) \in Nat
      /\ Cardinality(after) <= (Cardinality(ActiveSales) - Cardinality(S)) + Cardinality({})
  BY <1>2, <1>5, ActiveAfter
<1>7. ActiveSales' = after
  BY <1>3 DEF ActiveSales, Active
<1> HIDE DEF after
<1>8. Cardinality(after) \in Nat /\ Cardinality(ActiveSales) \in Nat
  BY <1>6, ActiveAreSales, SubsetFinite, FS_CardinalityType DEF TypeOK
<1>9. TotalOf(CountsIn(polls)) \in Int /\ TotalOf(CountsIn(polls')) \in Int
  <2>1. CountsIn(polls) \in Seq(Int) /\ CountsIn(polls') \in Seq(Int)
    BY <1>4, CountsTyped DEF TypeOK
  <2> QED BY <2>1, TotalAppended
<1>10. TotalOf(CountsIn(polls)) >= Cardinality(ActiveSales)
  BY DEF CountersCoverSales, CounterTotal
<1>11. TotalOf(CountsIn(polls')) >= Cardinality(after)
  BY <1>4, <1>5, <1>6, <1>8, <1>9, <1>10
<1> QED BY <1>7, <1>11 DEF CountersCoverSales, CounterTotal

\* Nothing sold is nothing counted.
LEMMA EmptyCovers == Cardinality({}) = 0 /\ TotalOf(CountsIn(<<>>)) = 0
<1>1. CountsIn(<<>>) \in Seq(Int) /\ Len(CountsIn(<<>>)) = 0
  BY EmptyTyped, CountsTyped
<1>2. PICK s \in [0 .. 0 -> Int] : s[0] = 0 /\ TotalOf(CountsIn(<<>>)) = s[0]
  BY <1>1, TotalIsSum
<1> QED BY <1>2, FS_EmptySet

\* The counters and the sales move together or not at all.
LEMMA CoverStep ==
  ASSUME TypeOK, PendingUnlistedAndUnique, MatchInv, HeldPend, CountersCoverSales,
         [~AnomalyDayReverted]_vars, [Next]_vars
  PROVE  CountersCoverSales'
<1>1. ASSUME UNCHANGED <<sales, polls>>
      PROVE  CountersCoverSales'
  BY <1>1 DEF CountersCoverSales, CounterTotal, ActiveSales, Active
<1>2. CASE WritePoll
  BY <1>2, WritePollCovers DEF MatchInv, PendingsMatchSales, HeldPend, WritePoll
<1>3. ASSUME NEW s \in Sellers, ConfirmBan(s)
      PROVE  CountersCoverSales'
  BY <1>3, BanCovers
<1>4. CASE EndCycle
  <2>1. phase = "post" /\ phase' = "idle"
    BY <1>4 DEF EndCycle
  <2>2. sales' = sales
    BY <2>1 DEF AnomalyDayReverted, vars
  <2>3. CASE RevertAnomalyDay(Day(LastPollAt))
    <3> DEFINE S == SalesOn(ActiveSales, Day(LastPollAt))
    <3>1. sales' = Reverting(S) /\ Cardinality(S) > 0
      BY <2>3 DEF RevertAnomalyDay, IsAnomalyDay
    <3>2. S \subseteq ActiveSales
      BY DEF SalesOn
    <3> HIDE DEF S
    <3>3. S # {}
      BY <3>1, FS_EmptySet
    <3>4. PICK s \in S : s \in sales /\ Active(s)
      BY <3>2, <3>3 DEF ActiveSales
    <3>5. S \in SUBSET sales /\ sales \subseteq SaleRows /\ s \in Reverting(S)
      BY <2>2, <3>1, <3>2, <3>4, ActiveAreSales DEF TypeOK
    <3> QED BY <3>4, <3>5, RevertingLeaves
  <2>4. CASE UNCHANGED <<sales, polls>>
    BY <1>1, <2>4
  <2> QED BY <1>4, <2>3, <2>4 DEF EndCycle
<1>5. CASE AdminClear
  <2>1. sales' = {} /\ polls' = <<>>
    BY <1>5 DEF AdminClear
  <2>2. ActiveSales' = {}
    BY <2>1 DEF ActiveSales
  <2> QED BY <2>1, <2>2, EmptyCovers DEF CountersCoverSales, CounterTotal
<1>6. CASE Load \/ OtherVariantWrites \/ MarkBan \/ AbortCycle \/ Restart
  BY <1>1, <1>6 DEF Load, OtherVariantWrites, MarkBan, AbortCycle, Restart
<1>7. ASSUME NEW s \in Sellers, SkipBan(s) \/ ClearBan(s)
      PROVE  CountersCoverSales'
  BY <1>1, <1>7 DEF SkipBan, ClearBan
<1>8. CASE UNCHANGED vars
  BY <1>1, <1>8 DEF vars
<1> QED BY <1>2, <1>3, <1>4, <1>5, <1>6, <1>7, <1>8 DEF Next

\* The counters of the stored polls never fall below the sales that count: whatever a
\* poll, a relist, a traded-back transfer or a confirmed ban takes off them, it takes off
\* for a row that it reverts.  Both conditions are needed.  A clear of the market data
\* between a fetch and its poll leaves the poller with pendings whose sales are gone, and
\* the relist of one makes a counter negative; and the anomaly-day check leaves the
\* pendings of the sales that it reverts.
THEOREM CountersCovered ==
  ASSUME "loaded" \notin ClearPhases
  PROVE  Spec /\ [][~AnomalyDayReverted]_vars => []CountersCoverSales
<1>1. Init => MatchInv /\ CycleInv /\ HeldPend
  BY DEF Init, MatchInv, PendingsMatchSales, CountedBacked, DeferredUnsold, WithinItsWindow,
         CycleInv, NoPollOverwritten, HeldPend
<1>2. Init => CountersCoverSales
  BY EmptyCovers DEF Init, CountersCoverSales, CounterTotal, ActiveSales
<1>3. TypeOK /\ TypeOK' /\ PendingUnlistedAndUnique /\ CycleInv /\ MatchInv
        /\ [~AnomalyDayReverted]_vars /\ [Next]_vars => MatchInv'
  BY MatchStep
<1>4. TypeOK /\ CycleInv /\ [Next]_vars => CycleInv'
  BY CycleStep
<1>5. HeldPend /\ [Next]_vars => HeldPend'
  BY HeldPendStep
<1>6. TypeOK /\ PendingUnlistedAndUnique /\ MatchInv /\ HeldPend /\ CountersCoverSales
        /\ [~AnomalyDayReverted]_vars /\ [Next]_vars => CountersCoverSales'
  BY CoverStep
<1> QED BY <1>1, <1>2, <1>3, <1>4, <1>5, <1>6, TypeCorrect, PendingsSafe, PTL DEF Spec

-----------------------------------------------------------------------------
(* The pipeline implements the ledger.                                     *)

Entries(rows) == {EntryOf(s) : s \in rows}

LEMMA CountedAreEntries == Counted = Entries(ActiveSales) /\ Undone = Entries(sales \ ActiveSales)
BY DEF Counted, Undone, Entries

LEMMA EntriesTellRowsApart ==
  ASSUME OneSalePerDeparture, NEW s \in sales, NEW t \in sales, EntryOf(s) = EntryOf(t)
  PROVE  s = t
BY DEF OneSalePerDeparture, EntryOf, KeyOf

\* What reverting the active rows of S and entering the rows of N does to the
\* entries: those of S move from the counted to the undone ones, those of N are new.
LEMMA LedgerChange ==
  ASSUME TypeOK, OneSalePerDeparture,
         NEW S \in SUBSET ActiveSales, NEW N, sales' = Reverting(S) \cup N,
         \A n \in N : Active(n) /\ n.poll = Len(polls) + 1
  PROVE  /\ Counted' = (Counted \ Entries(S)) \cup Entries(N)
         /\ Undone' = Undone \cup Entries(S)
         /\ Entries(S) \subseteq Counted
         /\ Counted \cap Entries(N) = {}
<1> DEFINE copies == {[s EXCEPT !.reverted = TRUE] : s \in S}
<1>1. S \subseteq sales /\ sales \subseteq SaleRows /\ Len(polls) \in Nat
  BY DEF TypeOK, ActiveSales
<1>2. \A s \in S : /\ ~Active([s EXCEPT !.reverted = TRUE])
                   /\ EntryOf([s EXCEPT !.reverted = TRUE]) = EntryOf(s)
  <2> SUFFICES ASSUME NEW s \in S
               PROVE  /\ ~Active([s EXCEPT !.reverted = TRUE])
                      /\ EntryOf([s EXCEPT !.reverted = TRUE]) = EntryOf(s)
    OBVIOUS
  <2>1. s \in SaleRows
    BY <1>1
  <2>2. /\ [s EXCEPT !.reverted = TRUE].reverted = TRUE
        /\ [s EXCEPT !.reverted = TRUE].rule = s.rule
        /\ [s EXCEPT !.reverted = TRUE].fp = s.fp
        /\ [s EXCEPT !.reverted = TRUE].seller = s.seller
        /\ [s EXCEPT !.reverted = TRUE].buyer = s.buyer
        /\ [s EXCEPT !.reverted = TRUE].poll = s.poll
    BY <2>1 DEF SaleRows
  <2> QED BY <2>2 DEF Active, EntryOf
<1>3. sales' = (sales \ S) \cup copies \cup N
  BY DEF Reverting
<1>4. \A c \in copies : ~Active(c)
  BY <1>2
<1>5. Entries(copies) = Entries(S)
  BY <1>2 DEF Entries
<1> HIDE DEF copies
<1>6. ActiveSales' = (ActiveSales \ S) \cup N
  BY <1>3, <1>4 DEF ActiveSales, Active
<1>7. (sales \ ActiveSales)' = (sales \ ActiveSales) \cup copies
  BY <1>3, <1>4 DEF ActiveSales, Active
<1>8. \A s \in sales, n \in N : EntryOf(s) # EntryOf(n)
  BY <1>1 DEF TypeOK, EntryOf
<1>9. Entries(ActiveSales \ S) = Entries(ActiveSales) \ Entries(S)
  BY EntriesTellRowsApart, ActiveAreSales DEF Entries
<1>10. Counted' = (Counted \ Entries(S)) \cup Entries(N)
  BY <1>6, <1>9, CountedAreEntries DEF Counted, Entries, EntryOf
<1>11. Undone' = Undone \cup Entries(S)
  BY <1>5, <1>7, CountedAreEntries DEF Undone, Entries, EntryOf
<1>12. Entries(S) \subseteq Counted
  BY CountedAreEntries DEF Entries
<1>13. Counted \cap Entries(N) = {}
  BY <1>8, ActiveAreSales DEF Counted, Entries
<1> QED BY <1>10, <1>11, <1>12, <1>13

LEMMA SameLength ==
  ASSUME polls \in Seq(PollRows), polls' \in [DOMAIN polls -> PollRows]
  PROVE  Len(polls') = Len(polls)
OBVIOUS

LEMMA UndoStep ==
  ASSUME TypeOK, OneSalePerDeparture,
         NEW S \in SUBSET ActiveSales, sales' = Reverting(S), Len(polls') = Len(polls)
  PROVE  Ledger!Undo
<1>1. /\ Counted' = (Counted \ Entries(S)) \cup Entries({})
      /\ Undone' = Undone \cup Entries(S)
      /\ Entries(S) \subseteq Counted
  BY LedgerChange
<1>2. Entries({}) = {}
  BY DEF Entries
<1> QED BY <1>1, <1>2 DEF Ledger!Undo

LEMMA BookStep ==
  ASSUME TypeOK, OneSalePerDeparture, WritePoll
  PROVE  Ledger!Book
<1>1. PICK x, kept, preview :
        /\ x.prev = held.sig /\ x.pend = held.pend
        /\ x.cycle = cycle /\ x.curr \in Snapshots
        /\ \E gap \in Gaps : x.at = LastPollAt + gap
        /\ kept \in CreditedChoices(x)
        /\ WritePollResult(x, kept, preview)
  BY WritePollObserves
<1> DEFINE undone == PingPongReverts(x) \cup LateRelistReverts(x, preview) \cup RelistReverts(x)
<1>2. undone \in SUBSET ActiveSales
  BY RevertsAreSales
<1>3. sales' = Reverting(undone) \cup NewSales(x, kept)
  BY <1>1 DEF WritePollResult
<1>4. IsObservation(x)
  BY <1>1, HeldObserved
<1>5. \A n \in NewSales(x, kept) : Active(n) /\ n.poll = Len(polls) + 1
  BY DEF NewSales, Active
<1>6. Len(polls') = Len(polls) + 1
  <2>1. polls' = Append(PollsWithoutTransfers(PingPongReverts(x)),
                        NewPollRow(x, kept, LateRelistReverts(x, preview)))
    BY <1>1 DEF WritePollResult
  <2>2. PollsWithoutTransfers(PingPongReverts(x)) \in [DOMAIN polls -> PollRows]
    BY RevertsAreSales, ActiveAreSales, LoweredPollsTyped DEF TypeOK
  <2>3. NewPollRow(x, kept, LateRelistReverts(x, preview)) \in PollRows
    BY <1>1, <1>4, RevertsAreSales, ActiveAreSales, NewPollRowTyped DEF TypeOK
  <2>4. PollsWithoutTransfers(PingPongReverts(x)) \in Seq(PollRows)
        /\ Len(PollsWithoutTransfers(PingPongReverts(x))) = Len(polls)
    BY <2>2, <2>3, PollAppended DEF TypeOK
  <2> QED BY <2>1, <2>4
<1> HIDE DEF undone
<1>7. /\ Counted' = (Counted \ Entries(undone)) \cup Entries(NewSales(x, kept))
      /\ Undone' = Undone \cup Entries(undone)
      /\ Entries(undone) \subseteq Counted
      /\ Counted \cap Entries(NewSales(x, kept)) = {}
  BY <1>2, <1>3, <1>5, LedgerChange
<1>8. \A e \in Entries(NewSales(x, kept)) : e.poll = Len(polls) + 1
  BY <1>5 DEF Entries, EntryOf
<1> QED BY <1>6, <1>7, <1>8 DEF Ledger!Book

LEMMA LedgerStep ==
  ASSUME TypeOK, OneSalePerDeparture, [Next]_vars
  PROVE  [Ledger!Next]_(Ledger!vars)
<1>1. ASSUME UNCHANGED <<sales, polls>>
      PROVE  UNCHANGED Ledger!vars
  BY <1>1 DEF Ledger!vars, Counted, Undone, ActiveSales
<1>2. CASE WritePoll
  BY <1>2, BookStep DEF Ledger!Next
<1>3. ASSUME NEW s \in Sellers, SkipBan(s) \/ ClearBan(s)
      PROVE  UNCHANGED Ledger!vars
  BY <1>1, <1>3 DEF SkipBan, ClearBan
<1>4. ASSUME NEW s \in Sellers, ConfirmBan(s)
      PROVE  Ledger!Undo
  <2>1. PICK ids \in VanishPolls(s) : /\ sales' = Reverting(BannedSales(s, ids))
                                      /\ polls' = PollsWithoutSales(BannedSales(s, ids))
    BY <1>4 DEF ConfirmBan
  <2>2. BannedSales(s, ids) \in SUBSET ActiveSales
    BY DEF BannedSales
  <2>3. polls' \in [DOMAIN polls -> PollRows]
    BY <2>1, <2>2, ActiveAreSales, LoweredPollsTyped DEF TypeOK
  <2> QED BY <2>1, <2>2, <2>3, UndoStep, SameLength DEF TypeOK
<1>5. CASE EndCycle
  <2>1. CASE RevertAnomalyDay(Day(LastPollAt))
    <3> DEFINE gone == SalesOn(ActiveSales, Day(LastPollAt))
    <3>1. sales' = Reverting(gone) /\ polls' = RebuiltPolls(Reverting(gone))
      BY <2>1 DEF RevertAnomalyDay
    <3>2. gone \in SUBSET ActiveSales
      BY DEF SalesOn
    <3>3. SalesFit(sales, Len(polls))
      BY DEF TypeOK, SalesFit
    <3> HIDE DEF gone
    <3>4. IsFiniteSet(Reverting(gone))
      BY <3>2, <3>3, ActiveAreSales, RevertingFits DEF SalesFit
    <3>5. polls' \in [DOMAIN polls -> PollRows]
      BY <3>1, <3>4, RebuiltPollsTyped DEF TypeOK
    <3> QED BY <3>1, <3>2, <3>5, UndoStep, SameLength DEF TypeOK, Ledger!Next
  <2>2. CASE UNCHANGED <<sales, polls>>
    BY <1>1, <2>2
  <2> QED BY <1>5, <2>1, <2>2 DEF EndCycle
<1>6. CASE AdminClear
  BY <1>6 DEF AdminClear, Ledger!Next, Ledger!Clear, Counted, Undone, ActiveSales
<1>7. CASE Load \/ OtherVariantWrites \/ MarkBan \/ AbortCycle \/ Restart
  BY <1>1, <1>7 DEF Load, OtherVariantWrites, MarkBan, AbortCycle, Restart
<1>8. CASE UNCHANGED vars
  BY <1>1, <1>8 DEF vars
<1> QED BY <1>2, <1>3, <1>4, <1>5, <1>6, <1>7, <1>8 DEF Next, Ledger!Next

\* Every step of the pipeline enters, undoes or wipes sales as the ledger allows:
\* a reverted sale never counts again, and only its own poll enters a sale.
THEOREM LedgerKept == Spec => KeepsLedger
<1>1. Init => Ledger!Init
  BY DEF Init, Ledger!Init, Counted, Undone, ActiveSales
<1>2. TypeOK /\ OneSalePerDeparture /\ [Next]_vars => [Ledger!Next]_(Ledger!vars)
  BY LedgerStep
<1> QED BY <1>1, <1>2, TypeCorrect, OneSaleSafe, PTL DEF Spec, KeepsLedger, Ledger!Spec

-----------------------------------------------------------------------------
(* The pipeline and the replay script.                                     *)

ReplayInv == TypeOK /\ PendingUnlistedAndUnique /\ OneSalePerDeparture

LEMMA ReplaySteps ==
  ASSUME [ReplayNext]_allVars
  PROVE  [Next]_vars \/ ApplyReverts
BY DEF ReplayNext, PlanReverts, allVars

\* The script reverts rows that are still active and leaves every poll in place.
LEMMA ApplyRevertsSome ==
  ASSUME TypeOK, ApplyReverts
  PROVE  \E S \in SUBSET ActiveSales : /\ sales' = Reverting(S)
                                       /\ polls' \in [DOMAIN polls -> PollRows]
<1> DEFINE S == planned.rows \cap ActiveSales
<1>1. S \in SUBSET ActiveSales /\ sales' = Reverting(S)
  BY DEF ApplyReverts
<1>2. SalesFit(sales, Len(polls))
  BY DEF TypeOK, SalesFit
<1>3. polls' = polls \/ polls' = RebuiltPolls(sales')
  BY DEF ApplyReverts
<1> HIDE DEF S
<1>4. IsFiniteSet(sales')
  BY <1>1, <1>2, ActiveAreSales, RevertingFits DEF SalesFit
<1>5. polls' \in [DOMAIN polls -> PollRows]
  <2>1. polls \in [DOMAIN polls -> PollRows]
    BY DEF TypeOK
  <2>2. RebuiltPolls(sales') \in [DOMAIN polls -> PollRows]
    BY <1>4, RebuiltPollsTyped DEF TypeOK
  <2> QED BY <1>3, <2>1, <2>2
<1> QED BY <1>1, <1>5

LEMMA ApplyTyped ==
  ASSUME TypeOK, ApplyReverts
  PROVE  TypeOK'
<1>1. PICK S \in SUBSET ActiveSales : /\ sales' = Reverting(S)
                                      /\ polls' \in [DOMAIN polls -> PollRows]
  BY ApplyRevertsSome
<1>2. /\ polls' \in Seq(PollRows)
      /\ sales' \subseteq SaleRows /\ IsFiniteSet(sales')
      /\ \A s \in sales' : s.poll \in DOMAIN polls'
  BY <1>1, ActiveAreSales, RevertStep
<1>3. UNCHANGED <<cycle, dbCycle, phase, sig, pend, held, probed, marking, alerted>>
  BY DEF ApplyReverts
<1> QED BY <1>2, <1>3 DEF TypeOK

LEMMA ReplayInvStep ==
  ASSUME ReplayInv, [ReplayNext]_allVars
  PROVE  ReplayInv'
<1> USE DEF ReplayInv
<1>1. CASE [Next]_vars
  BY <1>1, TypeStep, PendingsStep, OneSaleStep
<1>2. CASE ApplyReverts
  <2>1. PendingUnlistedAndUnique'
    BY <1>2 DEF ApplyReverts, PendingUnlistedAndUnique
  <2>2. PICK S \in SUBSET ActiveSales : sales' = Reverting(S)
    BY <1>2, ApplyRevertsSome
  <2>3. sales \subseteq SaleRows /\ S \in SUBSET sales
    BY ActiveAreSales DEF TypeOK
  <2>4. OneSalePerDeparture'
    BY <2>2, <2>3, RevertingKeepsUnique DEF OneSalePerDeparture
  <2> QED BY <1>2, <2>1, <2>4, ApplyTyped
<1> QED BY <1>1, <1>2, ReplaySteps

\* Whatever rows the script has planned, and whatever the poller has written since,
\* the sales table stays a ledger: apply_reverts marks a row once and for good.
THEOREM ReplayKeepsLedger == ReplaySpec => KeepsLedger
<1>1. ReplayInit => ReplayInv /\ Ledger!Init
  <2>1. Init => Ledger!Init
    BY DEF Init, Ledger!Init, Counted, Undone, ActiveSales
  <2>2. Init => TypeOK
    BY InitTyped
  <2>3. Init => PendingUnlistedAndUnique /\ OneSalePerDeparture
    BY NoPendingsFit DEF Init, NothingHeld, PendingUnlistedAndUnique, OneSalePerDeparture
  <2> QED BY <2>1, <2>2, <2>3 DEF ReplayInit, ReplayInv
<1>2. ReplayInv /\ [ReplayNext]_allVars => ReplayInv'
  BY ReplayInvStep
<1>3. ReplayInv /\ [ReplayNext]_allVars => [Ledger!Next]_(Ledger!vars)
  <2> SUFFICES ASSUME ReplayInv, [ReplayNext]_allVars
               PROVE  [Ledger!Next]_(Ledger!vars)
    OBVIOUS
  <2>1. CASE [Next]_vars
    BY <2>1, LedgerStep DEF ReplayInv
  <2>2. CASE ApplyReverts
    <3>1. PICK S \in SUBSET ActiveSales : /\ sales' = Reverting(S)
                                          /\ polls' \in [DOMAIN polls -> PollRows]
      BY <2>2, ApplyRevertsSome DEF ReplayInv
    <3> QED BY <3>1, UndoStep, SameLength DEF ReplayInv, TypeOK, Ledger!Next
  <2> QED BY <2>1, <2>2, ReplaySteps
<1> QED BY <1>1, <1>2, <1>3, PTL DEF ReplaySpec, KeepsLedger, Ledger!Spec

-----------------------------------------------------------------------------
(* Rule 8, live and replayed.                                              *)

LadderSellers(snap) == {k[2] : k \in DOMAIN snap}

Vanishers(i) == {s.seller : s \in VanishSalesOf(i)}

\* What the engine and the script compare alike.
IsOverBar(n, before) ==
  /\ n >= MassVanishMinSellers
  /\ 100 * n >= MassVanishSharePct * (IF before = 0 THEN 1 ELSE before)

\* Every poll has a preview.  The stored ladder is that of the last poll's, unless
\* the inference state was emptied, and the poller holds what is stored.
ShownInv ==
  /\ shown \in Seq(Nat) /\ Len(shown) = Len(polls)
  /\ \/ sig = <<>> /\ pend = {}
     \/ polls # <<>> /\ Cardinality(LadderSellers(sig)) = shown[Len(polls)]
  /\ phase = "loaded" => held.sig = sig /\ held.pend = pend

NoMassVanishPolls == \A i \in DOMAIN polls : ~IsMassVanishPoll(i)

LEMMA FewerSellers ==
  ASSUME NEW S \in SUBSET Sellers, NEW T \in SUBSET S
  PROVE  /\ Cardinality(S) \in Nat /\ Cardinality(T) \in Nat
         /\ Cardinality(T) <= Cardinality(S)
<1>1. IsFiniteSet(S) /\ IsFiniteSet(T)
  BY SubsetFinite, EngineAssumption DEF EngineAssumption
<1> QED BY <1>1, FS_CardinalityType, FS_Subset

LEMMA BarIsMonotone ==
  ASSUME NEW m \in Nat, NEW n \in Nat, m <= n, NEW before \in Nat, IsOverBar(m, before)
  PROVE  IsOverBar(n, before)
<1> DEFINE bar == MassVanishSharePct * (IF before = 0 THEN 1 ELSE before)
<1>1. MassVanishMinSellers \in Nat /\ MassVanishSharePct \in Nat
  BY EngineAssumption DEF EngineAssumption
<1>2. bar \in Nat
  BY <1>1
<1>3. m >= MassVanishMinSellers /\ 100 * m >= bar
  BY DEF IsOverBar
<1> HIDE DEF bar
<1>4. n >= MassVanishMinSellers /\ 100 * n >= bar
  BY <1>1, <1>2, <1>3
<1> QED BY <1>4 DEF IsOverBar, bar

LEMMA MassVanishIsOverBar ==
  /\ \A i : IsMassVanishPoll(i) <=> IsOverBar(Cardinality(Vanishers(i)), SellersBefore(i))
  /\ \A x, events : IsMassVanish(x, events) <=>
       /\ MassVanishMinSellers > 0
       /\ IsOverBar(Cardinality(SellersIn(events)), Cardinality(LadderSellers(x.prev)))
BY DEF IsMassVanishPoll, IsMassVanish, IsOverBar, Vanishers, LadderSellers

\* Sales that are reverted make no mass vanish of a poll that was none.
LEMMA FewerVanishers ==
  ASSUME TypeOK, NEW i, ~IsMassVanishPoll(i), SellersBefore(i) \in Nat,
         VanishSalesOf(i)' \subseteq VanishSalesOf(i), SellersBefore(i)' = SellersBefore(i)
  PROVE  ~IsMassVanishPoll(i)'
<1>1. Vanishers(i) \subseteq Sellers
  BY DEF Vanishers, VanishSalesOf, ActiveSales, TypeOK, SaleRows
<1>2. Vanishers(i)' \subseteq Vanishers(i)
  BY DEF Vanishers
<1>3. /\ Cardinality(Vanishers(i)) \in Nat /\ Cardinality(Vanishers(i)') \in Nat
      /\ Cardinality(Vanishers(i)') <= Cardinality(Vanishers(i))
  BY <1>1, <1>2, FewerSellers
<1>4. ~IsOverBar(Cardinality(Vanishers(i)), SellersBefore(i))
  BY MassVanishIsOverBar
<1>5. ~IsOverBar(Cardinality(Vanishers(i)'), SellersBefore(i))
  BY <1>3, <1>4, BarIsMonotone
<1>6. IsMassVanishPoll(i)' <=> IsOverBar(Cardinality(Vanishers(i)'), SellersBefore(i)')
  BY DEF IsMassVanishPoll, IsOverBar, Vanishers
<1> QED BY <1>5, <1>6

\* An empty inference state credits nothing.
LEMMA NothingToCredit ==
  ASSUME NEW x, x.prev = <<>>, x.pend = {}
  PROVE  VanishSaleEvents(x) = {}
<1>1. DOMAIN x.prev = {}
  OBVIOUS
<1>2. VanishPendings(x) = {} /\ CountDecreases(x) = {}
  BY <1>1 DEF VanishPendings, InstantVanishes, OnlineVanishes, ConsideredVanishes, Vanished,
              CountDecreases, StillListed
<1>3. CreditedPendings(x) = {} /\ CountedAtOnce(x) = {}
  BY <1>2 DEF CreditedPendings, CountedAtOnce
<1> QED BY <1>2, <1>3 DEF VanishSaleEvents

\* What the engine credits in a poll is under the bar of the ladder before it.
LEMMA CreditedUnderBar ==
  ASSUME MassVanishMinSellers > 0, NEW x, IsObservation(x), NEW kept \in CreditedChoices(x),
         NEW before \in Nat,
         \/ x.prev = <<>> /\ x.pend = {}
         \/ Cardinality(LadderSellers(x.prev)) = before,
         NEW S \in SUBSET SellersIn(kept)
  PROVE  Cardinality(S) \in Nat /\ ~IsOverBar(Cardinality(S), before)
<1>1. SellersIn(VanishSaleEvents(x)) \subseteq Sellers
  BY VanishSaleEventsTyped DEF SellersIn, SaleEvents, Keys
<1>2. S \subseteq SellersIn(VanishSaleEvents(x))
  BY CreditedAreSaleEvents DEF SellersIn
<1>3. /\ Cardinality(S) \in Nat
      /\ Cardinality(SellersIn(VanishSaleEvents(x))) \in Nat
      /\ Cardinality(S) <= Cardinality(SellersIn(VanishSaleEvents(x)))
  BY <1>1, <1>2, FewerSellers
<1>4. MassVanishMinSellers \in Nat
  BY EngineAssumption DEF EngineAssumption
<1>5. CASE kept = {}
  <2>1. S = {}
    BY <1>5 DEF SellersIn
  <2>2. Cardinality(S) = 0
    BY <2>1, FS_EmptySet
  <2> QED BY <1>4, <2>2 DEF IsOverBar
<1>6. CASE kept # {}
  <2>1. VanishSaleEvents(x) # {} /\ ~IsMassVanish(x, VanishSaleEvents(x))
    BY <1>6, CreditedAreSaleEvents DEF CreditedChoices
  <2>2. Cardinality(LadderSellers(x.prev)) = before
    BY <2>1, NothingToCredit
  <2>3. ~IsOverBar(Cardinality(SellersIn(VanishSaleEvents(x))), before)
    BY <2>1, <2>2, MassVanishIsOverBar
  <2> QED BY <1>3, <2>3, BarIsMonotone
<1> QED BY <1>5, <1>6

\* The stored preview of a priced ladder names all its sellers.
LEMMA WholeLadderShown ==
  ASSUME ~DivineFallback, \A l \in ListingKinds : l.price # NoPrice, NEW curr \in Snapshots
  PROVE  SellersShown(curr) = {Cardinality(LadderSellers(curr))}
<1>1. \A k \in DOMAIN curr : curr[k] \in ListingKinds
  BY DEF Snapshots
<1>2. {k \in DOMAIN curr : curr[k].price # NoPrice} = DOMAIN curr
  BY <1>1
<1>3. Previews(curr) = {DOMAIN curr}
  <2>1. Previews(curr) = {S \in SUBSET DOMAIN curr : DOMAIN curr \subseteq S}
    BY <1>2 DEF Previews
  <2>2. DOMAIN curr \in Previews(curr)
    BY <2>1
  <2>3. \A S \in Previews(curr) : S = DOMAIN curr
    BY <2>1
  <2> QED BY <2>2, <2>3
<1> QED BY <1>3 DEF SellersShown, LadderSellers

\* A stored poll and its preview: the numbers of the next poll's comparison.
LEMMA PollIsShown ==
  ASSUME ~DivineFallback, \A l \in ListingKinds : l.price # NoPrice,
         TypeOK, ShownInv, WritePoll, StoresSnapshots
  PROVE  ShownInv' /\ shown' = Append(shown, shown'[Len(polls) + 1])
<1>1. PICK x, kept, preview : x.curr \in Snapshots /\ WritePollResult(x, kept, preview)
  BY WritePollObserves
<1>2. sig' = x.curr /\ Len(polls') = Len(polls) + 1 /\ Len(polls) \in Nat
  BY <1>1, PollStoredAt DEF WritePollResult
<1>3. PollStored /\ phase' # "loaded"
  BY DEF WritePoll, PollStored
<1>4. shown' = Append(shown, Cardinality(LadderSellers(sig')))
  BY <1>1, <1>2, <1>3, WholeLadderShown DEF StoresSnapshots
<1>5. LadderSellers(sig') \subseteq Sellers
  BY <1>1, <1>2, SnapshotsAreSnapshots DEF LadderSellers, IsSnapshot, Keys
<1>6. Cardinality(LadderSellers(sig')) \in Nat
  BY <1>5, FewerSellers
<1>7. /\ shown' \in Seq(Nat) /\ Len(shown') = Len(polls')
      /\ shown'[Len(polls')] = Cardinality(LadderSellers(sig'))
  BY <1>2, <1>4, <1>6 DEF ShownInv
<1>8. polls' # <<>>
  BY <1>2
<1> QED BY <1>2, <1>3, <1>4, <1>7, <1>8 DEF ShownInv, LadderSellers

LEMMA PollHonoursBar ==
  ASSUME MassVanishMinSellers > 0, ~DivineFallback, \A l \in ListingKinds : l.price # NoPrice,
         TypeOK, ShownInv, NoMassVanishPolls, WritePoll, StoresSnapshots
  PROVE  NoMassVanishPolls'
<1>1. PICK x, kept, preview :
        /\ x.prev = held.sig /\ x.pend = held.pend
        /\ x.cycle = cycle /\ x.curr \in Snapshots
        /\ \E gap \in Gaps : x.at = LastPollAt + gap
        /\ kept \in CreditedChoices(x)
        /\ WritePollResult(x, kept, preview)
  BY WritePollObserves
<1> DEFINE undone == PingPongReverts(x) \cup LateRelistReverts(x, preview)
                       \cup RelistReverts(x)
<1>2. Len(polls) \in Nat /\ DOMAIN polls = 1..Len(polls)
  BY DEF TypeOK
<1>3. PICK last \in Nat : last = Len(polls) + 1
  BY <1>2
<1>4. IsObservation(x)
  BY <1>1, HeldObserved
<1>5. sales \subseteq SaleRows /\ undone \in SUBSET sales
  BY RevertsAreSales, ActiveAreSales DEF TypeOK
<1>6. sales' = Reverting(undone) \cup NewSales(x, kept)
  BY <1>1 DEF WritePollResult
<1> HIDE DEF undone
<1>7. Len(polls') = last /\ DOMAIN polls' = 1..last
  <2>1. Len(polls') = last
    BY <1>1, <1>3, PollStoredAt
  <2>2. TypeOK'
    BY TypeStep DEF Next
  <2> QED BY <2>1, <2>2 DEF TypeOK
<1>8. \A s \in NewSales(x, kept) : s.poll = last
  BY <1>1, <1>3, <1>4, NewSalesTyped DEF TypeOK
<1>9. \A s \in ActiveSales' : s \in NewSales(x, kept) \/ (s \in ActiveSales /\ s.poll \in 1..Len(polls))
  <2> SUFFICES ASSUME NEW s \in ActiveSales', s \notin NewSales(x, kept)
               PROVE  s \in ActiveSales /\ s.poll \in 1..Len(polls)
    OBVIOUS
  <2>1. s \in Reverting(undone) /\ Active(s)
    BY <1>6 DEF ActiveSales, Active
  <2>2. s \in ActiveSales
    BY <1>5, <2>1, RevertingLeaves
  <2> QED BY <1>2, <2>2 DEF TypeOK, ActiveSales
<1>10. /\ shown \in Seq(Nat) /\ Len(shown) = Len(polls) /\ shown' \in Seq(Nat)
      /\ \A i \in 1..Len(polls) : shown'[i] = shown[i] /\ shown[i] \in Nat
  <2>1. shown \in Seq(Nat) /\ Len(shown) = Len(polls) /\ shown' \in Seq(Nat)
    BY PollIsShown DEF ShownInv
  <2>2. \A i \in 1..Len(polls) : shown[i] \in Nat
    BY <2>1
  <2>3. shown' = Append(shown, shown'[last])
    BY <1>3, PollIsShown
  <2> DEFINE n == shown'[last]
  <2> HIDE DEF n
  <2>4. \A i \in 1..Len(shown) : Append(shown, n)[i] = shown[i]
    BY <2>1
  <2> QED BY <2>1, <2>2, <2>3, <2>4 DEF n
<1>11. ASSUME NEW i \in 1..Len(polls)
       PROVE  ~IsMassVanishPoll(i)'
  <2>1. VanishSalesOf(i)' \subseteq VanishSalesOf(i)
    <3>1. \A s \in NewSales(x, kept) : s.poll # i
      BY <1>2, <1>3, <1>8
    <3> QED BY <1>9, <3>1 DEF VanishSalesOf
  <2>2. SellersBefore(i) \in Nat /\ SellersBefore(i)' = SellersBefore(i)
    BY <1>2, <1>10 DEF SellersBefore
  <2>3. ~IsMassVanishPoll(i)
    BY <1>2 DEF NoMassVanishPolls
  <2> QED BY <2>1, <2>2, <2>3, FewerVanishers
<1>12. ~IsMassVanishPoll(last)'
  <2>1. Vanishers(last)' \in SUBSET SellersIn(kept)
    <3> SUFFICES ASSUME NEW s \in VanishSalesOf(last)'
                 PROVE  s.seller \in SellersIn(kept)
      BY DEF Vanishers
    <3>1. s \in ActiveSales' /\ s.poll = last /\ s.rule # Transfer
      BY DEF VanishSalesOf
    <3>2. s \in NewSales(x, kept)
      BY <1>2, <1>3, <1>9, <3>1
    <3>3. PICK e \in kept : s.seller = e.key[2]
      BY <3>1, <3>2 DEF NewSales
    <3> QED BY <3>3 DEF SellersIn
  <2>2. PICK before : before = SellersBefore(last)'
    OBVIOUS
  <2>3. before \in Nat /\ (polls # <<>> => before = shown[Len(polls)])
    <3>1. before = IF last = 1 THEN 0 ELSE shown'[last - 1]
      BY <2>2 DEF SellersBefore
    <3>2. polls = <<>> <=> Len(polls) = 0
      BY <1>2 DEF TypeOK
    <3> QED BY <1>2, <1>3, <1>10, <3>1, <3>2
  <2>4. phase = "loaded"
    BY DEF WritePoll
  <2>5. \/ x.prev = <<>> /\ x.pend = {}
        \/ Cardinality(LadderSellers(x.prev)) = before
    BY <1>1, <2>3, <2>4 DEF ShownInv
  <2>6. ~IsOverBar(Cardinality(Vanishers(last)'), before)
    BY <1>1, <1>4, <2>1, <2>3, <2>5, CreditedUnderBar
  <2>7. IsMassVanishPoll(last)' <=> IsOverBar(Cardinality(Vanishers(last)'), SellersBefore(last)')
    BY DEF IsMassVanishPoll, IsOverBar, Vanishers
  <2> QED BY <2>2, <2>6, <2>7
<1> QED BY <1>2, <1>3, <1>7, <1>11, <1>12 DEF NoMassVanishPolls

\* The other steps store no poll: they revert sales, drop pendings or clear all.
LEMMA ShownKept ==
  ASSUME TypeOK, ShownInv, NoMassVanishPolls,
         NEW S \in SUBSET sales, sales' = Reverting(S), DOMAIN polls' = DOMAIN polls,
         Len(polls') = Len(polls), UNCHANGED shown,
         \/ UNCHANGED <<sig, pend>>
         \/ sig' = <<>> /\ pend' = {}
         \/ UNCHANGED sig /\ pend' \subseteq pend,
         phase' = "loaded" => held'.sig = sig' /\ held'.pend = pend'
  PROVE  ShownInv' /\ NoMassVanishPolls'
<1>1. polls \in Seq(PollRows) /\ sales \subseteq SaleRows
  BY DEF TypeOK
<1>2. Len(polls) \in Nat /\ DOMAIN polls = 1..Len(polls)
  BY <1>1
<1>3. polls # <<>> => polls' # <<>>
  <2>1. polls # <<>> => 1 \in DOMAIN polls
    BY <1>1
  <2>2. polls' = <<>> => DOMAIN polls' = {}
    OBVIOUS
  <2> QED BY <2>1, <2>2
<1>4. ShownInv'
  BY <1>3 DEF ShownInv, LadderSellers
<1>5. ActiveSales' \subseteq ActiveSales
  BY <1>1, RevertingLeaves DEF ActiveSales, Active
<1>6. ASSUME NEW i \in DOMAIN polls
      PROVE  ~IsMassVanishPoll(i)'
  <2>1. VanishSalesOf(i)' \subseteq VanishSalesOf(i)
    BY <1>5 DEF VanishSalesOf
  <2>2. SellersBefore(i)' = SellersBefore(i)
    BY DEF SellersBefore
  <2>3. SellersBefore(i) \in Nat
    BY <1>2 DEF SellersBefore, ShownInv
  <2> QED BY <2>1, <2>2, <2>3, FewerVanishers DEF NoMassVanishPolls
<1> QED BY <1>4, <1>6 DEF NoMassVanishPolls

LEMMA ShownStep ==
  ASSUME MassVanishMinSellers > 0, ~DivineFallback, \A l \in ListingKinds : l.price # NoPrice,
         "loaded" \notin ClearPhases,
         TypeOK, TypeOK', ShownInv, NoMassVanishPolls, [ReplayNext]_allVars
  PROVE  ShownInv' /\ NoMassVanishPolls'
<1>1. ClearPhases \subseteq {"idle"} /\ polls \in Seq(PollRows) /\ polls' \in Seq(PollRows)
  BY PipelineAssumption DEF PipelineAssumption, TypeOK
<1> DEFINE Kept == /\ \E S \in SUBSET sales : sales' = Reverting(S)
                   /\ DOMAIN polls' = DOMAIN polls
                   /\ UNCHANGED shown
                   /\ \/ UNCHANGED sig /\ pend' \subseteq pend
                      \/ sig' = <<>> /\ pend' = {}
                   /\ phase' = "loaded" => held'.sig = sig' /\ held'.pend = pend'
<1>2. ASSUME Kept
      PROVE  ShownInv' /\ NoMassVanishPolls'
  <2>1. Len(polls') = Len(polls)
    BY <1>1, <1>2, EquallyLong
  <2> QED BY <1>2, <2>1, ShownKept
<1>3. sales = Reverting({}) /\ {} \in SUBSET sales
  BY DEF Reverting
<1>4. ASSUME UNCHANGED <<vars, shown>>
      PROVE  Kept
  <2>1. phase' = "loaded" => held'.sig = sig' /\ held'.pend = pend'
    BY <1>4 DEF ShownInv, vars
  <2> QED BY <1>3, <1>4, <2>1 DEF vars
<1>5. CASE ApplyReverts
  <2>1. PICK S \in SUBSET ActiveSales : /\ sales' = Reverting(S)
                                        /\ polls' \in [DOMAIN polls -> PollRows]
    BY <1>5, ApplyRevertsSome
  <2>2. UNCHANGED <<phase, sig, pend, held, shown>>
    BY <1>5 DEF ApplyReverts
  <2>3. S \in SUBSET sales /\ DOMAIN polls' = DOMAIN polls
    BY <2>1, ActiveAreSales
  <2>4. phase' = "loaded" => held'.sig = sig' /\ held'.pend = pend'
    BY <2>2 DEF ShownInv
  <2> QED BY <1>2, <2>1, <2>2, <2>3, <2>4
<1>6. ASSUME Next, StoresSnapshots
      PROVE  ShownInv' /\ NoMassVanishPolls'
  <2>1. CASE WritePoll
    BY <1>6, <2>1, PollIsShown, PollHonoursBar
  <2>2. CASE AdminClear
    <3>1. phase = "idle" /\ phase' = "idle"
      BY <1>1, <2>2 DEF AdminClear
    <3>2. sig' = <<>> /\ pend' = {} /\ polls' = <<>>
      BY <2>2 DEF AdminClear
    <3>3. shown' = <<>>
      BY <1>6, <3>1, <3>2 DEF StoresSnapshots, PollStored
    <3>4. DOMAIN polls' = {} /\ Len(polls') = 0 /\ shown' \in Seq(Nat) /\ Len(shown') = 0
      BY <3>2, <3>3
    <3>5. ShownInv'
      BY <3>1, <3>2, <3>4 DEF ShownInv
    <3> QED BY <3>4, <3>5 DEF NoMassVanishPolls
  <2>3. ASSUME ~PollStored, DOMAIN polls' = DOMAIN polls
        PROVE  UNCHANGED shown
    <3>1. polls' = <<>> => polls = <<>>
      <4>1. polls # <<>> => 1 \in DOMAIN polls
        BY <1>1
      <4>2. polls' = <<>> => DOMAIN polls' = {}
        OBVIOUS
      <4> QED BY <2>3, <4>1, <4>2
    <3>2. polls = <<>> => shown = <<>>
      BY DEF ShownInv
    <3> QED BY <1>6, <2>3, <3>1, <3>2 DEF StoresSnapshots
  <2>4. ASSUME NEW s \in Sellers, ConfirmBan(s)
        PROVE  Kept
    <3>1. PICK ids \in VanishPolls(s) : /\ sales' = Reverting(BannedSales(s, ids))
                                        /\ polls' = PollsWithoutSales(BannedSales(s, ids))
      BY <2>4 DEF ConfirmBan
    <3>2. BannedSales(s, ids) \in SUBSET sales
      BY DEF BannedSales, ActiveSales
    <3>3. DOMAIN polls' = DOMAIN polls
      BY <1>1, <3>1, CyclesKept
    <3>4. phase = "post" /\ phase' = "post" /\ UNCHANGED sig /\ pend' \subseteq pend
      BY <2>4 DEF ConfirmBan, BanCheckOf
    <3>5. UNCHANGED shown
      BY <2>3, <3>3, <3>4 DEF PollStored
    <3> QED BY <3>1, <3>2, <3>3, <3>4, <3>5
  <2>5. ASSUME NEW s \in Sellers, SkipBan(s) \/ ClearBan(s)
        PROVE  Kept
    <3>1. phase = "post" /\ UNCHANGED <<phase, sig, pend, sales, polls>>
      BY <2>5 DEF SkipBan, ClearBan, BanCheckOf
    <3>2. UNCHANGED shown
      BY <2>3, <3>1 DEF PollStored
    <3> QED BY <1>3, <3>1, <3>2
  <2>6. CASE EndCycle
    <3>1. phase = "post" /\ phase' = "idle" /\ UNCHANGED <<sig, pend>>
      BY <2>6 DEF EndCycle
    <3>2. \E S \in SUBSET sales : sales' = Reverting(S)
      <4>1. SalesOn(ActiveSales, Day(LastPollAt)) \in SUBSET sales
        BY DEF SalesOn, ActiveSales
      <4> QED BY <1>3, <2>6, <4>1 DEF EndCycle, RevertAnomalyDay
    <3>3. DOMAIN polls' = DOMAIN polls
      BY <1>1, <2>6, CyclesKept DEF EndCycle, RevertAnomalyDay
    <3>4. UNCHANGED shown
      BY <2>3, <3>1, <3>3 DEF PollStored
    <3> QED BY <1>2, <3>1, <3>2, <3>3, <3>4
  <2>7. CASE Load
    <3>1. phase = "idle" /\ UNCHANGED <<sig, pend, sales, polls>>
          /\ held'.sig = sig /\ held'.pend = pend
      BY <2>7 DEF Load
    <3>2. UNCHANGED shown
      BY <2>3, <3>1 DEF PollStored
    <3> QED BY <1>2, <1>3, <3>1, <3>2
  <2>8. CASE OtherVariantWrites
    <3>1. UNCHANGED <<phase, sig, pend, held, sales, polls>>
      BY <2>8 DEF OtherVariantWrites
    <3>2. UNCHANGED shown
      BY <2>3, <3>1 DEF PollStored
    <3>3. phase' = "loaded" => held'.sig = sig' /\ held'.pend = pend'
      BY <3>1 DEF ShownInv
    <3> QED BY <1>2, <1>3, <3>1, <3>2, <3>3
  <2>9. CASE MarkBan \/ AbortCycle
    <3>1. phase' # "loaded" /\ ~PollStored /\ UNCHANGED <<sig, pend, sales, polls>>
      BY <2>9 DEF MarkBan, AbortCycle, PollStored
    <3>2. UNCHANGED shown
      BY <2>3, <3>1
    <3> QED BY <1>2, <1>3, <3>1, <3>2
  <2>10. CASE Restart
    <3>1. phase' = "idle" /\ UNCHANGED <<sales, polls>>
          /\ (UNCHANGED <<sig, pend>> \/ (sig' = <<>> /\ pend' = {}))
      BY <2>10 DEF Restart
    <3>2. UNCHANGED shown
      BY <2>3, <3>1 DEF PollStored
    <3> QED BY <1>2, <1>3, <3>1, <3>2
  <2> QED BY <1>2, <1>6, <2>1, <2>2, <2>4, <2>5, <2>6, <2>7, <2>8, <2>9, <2>10 DEF Next
<1> HIDE DEF Kept
<1> QED BY <1>2, <1>4, <1>5, <1>6 DEF ReplayNext, PlanReverts, allVars, replayVars

\* The two implementations of rule 8 agree for every ladder, share and number of
\* sellers: the engine lets no poll through that the script would revert as a mass
\* vanish, whatever was reverted since, as long as the rule is on, the preview shows
\* the whole ladder, and no clear falls between a fetch and its poll.
THEOREM LiveRuleAgrees ==
  ASSUME MassVanishMinSellers > 0, ~DivineFallback, \A l \in ListingKinds : l.price # NoPrice,
         "loaded" \notin ClearPhases
  PROVE  ReplaySpec => []LiveSalesAreNoMassVanish
<1>1. ReplayInit => ReplayInv
  <2>1. Init => TypeOK
    BY InitTyped
  <2>2. Init => PendingUnlistedAndUnique /\ OneSalePerDeparture
    BY NoPendingsFit DEF Init, NothingHeld, PendingUnlistedAndUnique, OneSalePerDeparture
  <2> QED BY <2>1, <2>2 DEF ReplayInit, ReplayInv
<1>2. ReplayInit => ShownInv /\ NoMassVanishPolls
  BY DEF ReplayInit, Init, ShownInv, NoMassVanishPolls
<1>3. ReplayInv /\ [ReplayNext]_allVars => ReplayInv'
  BY ReplayInvStep
<1>4. ReplayInv => TypeOK
  BY DEF ReplayInv
<1>5. TypeOK /\ TypeOK' /\ ShownInv /\ NoMassVanishPolls /\ [ReplayNext]_allVars
        => ShownInv' /\ NoMassVanishPolls'
  BY ShownStep
<1>6. NoMassVanishPolls => LiveSalesAreNoMassVanish
  BY DEF NoMassVanishPolls, LiveSalesAreNoMassVanish, MassVanishPlan
<1> QED BY <1>1, <1>2, <1>3, <1>4, <1>5, <1>6, PTL DEF ReplaySpec

-----------------------------------------------------------------------------
(* What a replay leaves.                                                   *)

Conflict(s, t) ==
  /\ s # t
  /\ \/ s.rule = Transfer /\ t.rule = Transfer /\ BetweenThem(s, t)
     \/ s.rule # Transfer /\ t.rule # Transfer /\ s.seller = t.seller /\ s.poll = t.poll

SeenBy(rows, upTo) == {s \in rows : Active(s) /\ s.poll <= upTo}

\* The plan, as old as it may be, leaves no two sales that rules 9 and 7 part.
PlanSettles ==
  script = "planned" =>
    /\ planned.upTo \in Nat /\ planned.upTo <= Len(polls)
    /\ \A s, t \in SeenBy(sales, planned.upTo) \ planned.rows : ~Conflict(s, t)

LEMMA PlanParts ==
  ASSUME TypeOK, NEW plan \in Plans, NEW s \in ActiveSales \ plan, NEW t \in ActiveSales \ plan
  PROVE  ~Conflict(s, t)
<1>1. PICK burst \in BurstPlans : MassVanishPlan \cup burst \cup PingPongPlan \subseteq plan
  BY DEF Plans, RulePlans
<1>2. ASSUME s # t, s.rule = Transfer, t.rule = Transfer, BetweenThem(s, t)
      PROVE  FALSE
  <2>1. t \in ActiveSales \ {s}
    BY <1>2
  <2>2. s \in PingPongPlan
    BY <1>2, <2>1 DEF PingPongPlan
  <2> QED BY <1>1, <2>2
<1>3. ASSUME s # t, s.rule # Transfer, t.rule # Transfer, SamePollAndSeller(s, t)
      PROVE  FALSE
  <2> DEFINE rest == {r \in ActiveSales \ MassVanishPlan : r.rule # Transfer}
             same == {r \in rest \ burst : SamePollAndSeller(s, r)}
  <2>1. s \in rest \ burst /\ t \in rest \ burst
    BY <1>1, <1>3
  <2>2. Cardinality(same) = 1
    BY <2>1 DEF BurstPlans
  <2>3. s \in same /\ t \in same
    BY <1>3, <2>1 DEF SamePollAndSeller
  <2>4. IsFiniteSet(same)
    <3>1. same \subseteq sales
      BY ActiveAreSales
    <3> HIDE DEF same
    <3> QED BY <3>1, SubsetFinite DEF TypeOK
  <2> HIDE DEF same
  <2>5. PICK r : same = {r}
    BY <2>2, <2>4, FS_Singleton
  <2> QED BY <1>3, <2>3, <2>5
<1> QED BY <1>2, <1>3 DEF Conflict, SamePollAndSeller

\* Sales are only reverted, or entered with a poll the script has not seen.
LEMMA OldSalesFewer ==
  ASSUME ClearPhases = {}, TypeOK, [Next]_vars
  PROVE  /\ Len(polls) <= Len(polls')
         /\ \A s \in ActiveSales' : s \in ActiveSales \/ s.poll = Len(polls) + 1
<1>1. sales \subseteq SaleRows /\ polls \in Seq(PollRows) /\ Len(polls) \in Nat
  BY DEF TypeOK
<1>2. TypeOK'
  BY TypeStep
<1>3. polls' \in Seq(PollRows)
  BY <1>2 DEF TypeOK
<1>4. ASSUME NEW S \in SUBSET sales, sales' = Reverting(S), DOMAIN polls' = DOMAIN polls
      PROVE  Len(polls') = Len(polls) /\ ActiveSales' \subseteq ActiveSales
  <2>1. ActiveSales' \subseteq ActiveSales
    BY <1>1, <1>4, RevertingLeaves DEF ActiveSales, Active
  <2> QED BY <1>1, <1>3, <1>4, <2>1, EquallyLong
<1>5. ASSUME UNCHANGED <<sales, polls>>
      PROVE  Len(polls') = Len(polls) /\ ActiveSales' \subseteq ActiveSales
  BY <1>5 DEF ActiveSales, Active
<1>6. CASE WritePoll
  <2>1. PICK x, kept, preview :
          /\ x.prev = held.sig /\ x.pend = held.pend
          /\ x.cycle = cycle /\ x.curr \in Snapshots
          /\ \E gap \in Gaps : x.at = LastPollAt + gap
          /\ kept \in CreditedChoices(x)
          /\ WritePollResult(x, kept, preview)
    BY <1>6, WritePollObserves
  <2> DEFINE undone == PingPongReverts(x) \cup LateRelistReverts(x, preview)
                         \cup RelistReverts(x)
  <2>2. undone \in SUBSET sales
    BY RevertsAreSales, ActiveAreSales
  <2>3. sales' = Reverting(undone) \cup NewSales(x, kept)
    BY <2>1 DEF WritePollResult
  <2> HIDE DEF undone
  <2>4. IsObservation(x)
    BY <2>1, HeldObserved
  <2>5. \A s \in NewSales(x, kept) : s.poll = Len(polls) + 1
    BY <1>1, <2>1, <2>4, NewSalesTyped
  <2>6. \A s \in ActiveSales' : s \in ActiveSales \/ s \in NewSales(x, kept)
    BY <1>1, <2>2, <2>3, RevertingLeaves DEF ActiveSales, Active
  <2>7. Len(polls') = Len(polls) + 1
    BY <2>1, PollStoredAt
  <2> QED BY <1>1, <2>5, <2>6, <2>7
<1>7. ASSUME NEW s \in Sellers, SkipBan(s) \/ ClearBan(s)
      PROVE  UNCHANGED <<sales, polls>>
  BY <1>7 DEF SkipBan, ClearBan
<1>8. ASSUME NEW s \in Sellers, ConfirmBan(s)
      PROVE  Len(polls') = Len(polls) /\ ActiveSales' \subseteq ActiveSales
  <2>1. PICK ids \in VanishPolls(s) : /\ sales' = Reverting(BannedSales(s, ids))
                                      /\ polls' = PollsWithoutSales(BannedSales(s, ids))
    BY <1>8 DEF ConfirmBan
  <2>2. BannedSales(s, ids) \in SUBSET sales
    BY DEF BannedSales, ActiveSales
  <2> QED BY <1>1, <1>4, <2>1, <2>2, CyclesKept
<1>9. CASE EndCycle
  <2>1. SalesOn(ActiveSales, Day(LastPollAt)) \in SUBSET sales
    BY DEF SalesOn, ActiveSales
  <2>2. CASE RevertAnomalyDay(Day(LastPollAt))
    <3>1. /\ sales' = Reverting(SalesOn(ActiveSales, Day(LastPollAt)))
          /\ DOMAIN polls' = DOMAIN polls
      BY <1>1, <2>2, CyclesKept DEF RevertAnomalyDay
    <3> QED BY <1>1, <1>4, <2>1, <3>1
  <2> QED BY <1>1, <1>5, <1>9, <2>2 DEF EndCycle
<1>10. CASE AdminClear
  BY <1>10 DEF AdminClear
<1>11. CASE Load \/ OtherVariantWrites \/ MarkBan \/ AbortCycle \/ Restart
  BY <1>1, <1>5, <1>11 DEF Load, OtherVariantWrites, MarkBan, AbortCycle, Restart
<1>12. CASE UNCHANGED vars
  BY <1>1, <1>5, <1>12 DEF vars
<1> QED BY <1>1, <1>5, <1>6, <1>7, <1>8, <1>9, <1>10, <1>11, <1>12 DEF Next

LEMMA PlanStep ==
  ASSUME ClearPhases = {}, TypeOK, PlanSettles, [ReplayNext]_allVars
  PROVE  PlanSettles'
<1>1. Len(polls) \in Nat /\ \A s \in sales : s.poll \in 1..Len(polls)
  BY DEF TypeOK
<1>2. CASE [Next]_vars /\ UNCHANGED <<script, planned>>
  <2> SUFFICES ASSUME script = "planned"
               PROVE  PlanSettles'
    BY <1>2 DEF PlanSettles
  <2>1. /\ planned.upTo \in Nat /\ planned.upTo <= Len(polls)
        /\ \A s, t \in SeenBy(sales, planned.upTo) \ planned.rows : ~Conflict(s, t)
    BY DEF PlanSettles
  <2>2. TypeOK'
    BY <1>2, TypeStep
  <2>3. Len(polls') \in Nat /\ Len(polls) <= Len(polls')
    BY <1>2, <2>2, OldSalesFewer DEF TypeOK
  <2>4. SeenBy(sales', planned.upTo) \subseteq SeenBy(sales, planned.upTo)
    <3> SUFFICES ASSUME NEW s \in SeenBy(sales', planned.upTo)
                 PROVE  s \in SeenBy(sales, planned.upTo)
      OBVIOUS
    <3>1. s \in ActiveSales' /\ s.poll <= planned.upTo
      BY DEF SeenBy, ActiveSales, Active
    <3>2. s.poll # Len(polls) + 1
      BY <1>1, <2>1, <3>1
    <3>3. s \in ActiveSales
      BY <1>2, <3>1, <3>2, OldSalesFewer
    <3> QED BY <3>1, <3>3 DEF SeenBy, ActiveSales
  <2>5. planned'.upTo = planned.upTo /\ planned'.rows = planned.rows
    BY <1>2
  <2>6. planned.upTo <= Len(polls')
    BY <1>1, <2>1, <2>3
  <2>7. \A s, t \in SeenBy(sales', planned'.upTo) \ planned'.rows : ~Conflict(s, t)
    BY <2>1, <2>4, <2>5
  <2> QED BY <2>1, <2>5, <2>6, <2>7 DEF PlanSettles
<1>3. CASE PlanReverts
  <2>1. PICK plan \in Plans : planned' = [rows |-> plan, upTo |-> Len(polls)]
    BY <1>3 DEF PlanReverts
  <2>2. sales' = sales /\ polls' = polls
    BY <1>3 DEF PlanReverts, vars
  <2>3. planned'.rows = plan /\ planned'.upTo = Len(polls)
    BY <2>1
  <2>4. SeenBy(sales, Len(polls)) \subseteq ActiveSales
    BY DEF SeenBy, ActiveSales
  <2>5. \A s, t \in SeenBy(sales, Len(polls)) \ plan : ~Conflict(s, t)
    BY <2>4, PlanParts
  <2>6. planned'.upTo \in Nat /\ planned'.upTo <= Len(polls')
    BY <1>1, <2>2, <2>3
  <2>7. \A s, t \in SeenBy(sales', planned'.upTo) \ planned'.rows : ~Conflict(s, t)
    BY <2>2, <2>3, <2>5
  <2> QED BY <2>6, <2>7 DEF PlanSettles
<1>4. CASE ApplyReverts
  BY <1>4 DEF ApplyReverts, PlanSettles
<1> QED BY <1>2, <1>3, <1>4 DEF ReplayNext, allVars, replayVars

\* The script applies a plan it made before its transaction, and still leaves no two
\* transfers between two sellers and no two sales of a seller in a poll among the
\* polls it has seen: what the poller did meanwhile only took sales away.  A clear
\* in between is excluded, as it lets the row ids of the plan be used again.
THEOREM ReplaySettled ==
  ASSUME ClearPhases = {}
  PROVE  ReplaySpec => ReplaySettles
<1> DEFINE Settled == script = "planned" /\ script' = "off" =>
             LET left == {s \in sales' : Active(s) /\ s.poll <= planned.upTo}
             IN  \A s, t \in left : s # t =>
                   /\ s.rule = Transfer /\ t.rule = Transfer => ~BetweenThem(s, t)
                   /\ s.rule # Transfer /\ t.rule # Transfer /\ s.seller = t.seller
                        => s.poll # t.poll
<1>1. ReplayInit => ReplayInv /\ PlanSettles
  <2>1. Init => TypeOK
    BY InitTyped
  <2>2. Init => PendingUnlistedAndUnique /\ OneSalePerDeparture
    BY NoPendingsFit DEF Init, NothingHeld, PendingUnlistedAndUnique, OneSalePerDeparture
  <2> QED BY <2>1, <2>2 DEF ReplayInit, ReplayInv, PlanSettles
<1>2. ReplayInv /\ [ReplayNext]_allVars => ReplayInv'
  BY ReplayInvStep
<1>3. ReplayInv => TypeOK
  BY DEF ReplayInv
<1>4. TypeOK /\ PlanSettles /\ [ReplayNext]_allVars => PlanSettles'
  BY PlanStep
<1>5. TypeOK /\ PlanSettles /\ [ReplayNext]_allVars => [Settled]_allVars
  <2> SUFFICES ASSUME TypeOK, PlanSettles, ReplayNext, script = "planned", script' = "off"
               PROVE  Settled
    OBVIOUS
  <2>1. ApplyReverts
    BY DEF ReplayNext, PlanReverts
  <2> DEFINE S == planned.rows \cap ActiveSales
             left == {s \in sales' : Active(s) /\ s.poll <= planned.upTo}
  <2>2. S \in SUBSET sales /\ sales \subseteq SaleRows /\ sales' = Reverting(S)
    BY <2>1, ActiveAreSales DEF ApplyReverts, TypeOK
  <2>3. left \subseteq SeenBy(sales, planned.upTo) \ planned.rows
    <3> HIDE DEF S
    <3> SUFFICES ASSUME NEW s \in left
                 PROVE  s \in SeenBy(sales, planned.upTo) \ planned.rows
      OBVIOUS
    <3>1. s \in ActiveSales /\ s \notin S
      BY <2>2, RevertingLeaves
    <3> QED BY <3>1 DEF S, SeenBy, ActiveSales
  <2>4. \A s, t \in left : ~Conflict(s, t)
    BY <2>3 DEF PlanSettles
  <2> HIDE DEF left
  <2>5. \A s, t \in left : s # t =>
          /\ s.rule = Transfer /\ t.rule = Transfer => ~BetweenThem(s, t)
          /\ s.rule # Transfer /\ t.rule # Transfer /\ s.seller = t.seller => s.poll # t.poll
    BY <2>4 DEF Conflict
  <2> QED BY <2>5 DEF left
<1> HIDE DEF Settled
<1>6. ReplaySpec => [][Settled]_allVars
  BY <1>1, <1>2, <1>3, <1>4, <1>5, PTL DEF ReplaySpec
<1> QED BY <1>6, PTL DEF ReplaySettles, Settled

-----------------------------------------------------------------------------
(* What the ledger promises.                                               *)

LEMMA ConsistentStep == Ledger!Consistent /\ [Ledger!Next]_(Ledger!vars) => Ledger!Consistent'
<1> SUFFICES ASSUME Ledger!Consistent, [Ledger!Next]_(Ledger!vars)
             PROVE  Ledger!Consistent'
  OBVIOUS
<1> DEFINE booked == Len(polls)
<1> USE DEF Ledger!Consistent
<1>1. CASE Ledger!Undo
  BY <1>1 DEF Ledger!Undo
<1>2. CASE Ledger!Book
  <2>1. \A s \in Counted' \cup Undone' : s \in Counted \cup Undone \/ s.poll = booked'
    BY <1>2 DEF Ledger!Book
  <2>2. booked' = booked + 1 /\ booked \in Nat
    BY <1>2 DEF Ledger!Book
  <2>3. \A s \in Counted' \cup Undone' : s.poll \in 1..booked'
    <3> HIDE DEF booked
    <3>1. \A s \in Counted \cup Undone : s.poll \in 1..booked
      BY DEF booked
    <3> QED BY <2>1, <2>2, <3>1
  <2>4. ASSUME NEW s \in Counted', s \in Undone'
        PROVE  FALSE
    <3>1. s \in Undone
      BY <1>2, <2>4 DEF Ledger!Book
    <3>2. s \notin Counted /\ s.poll \in 1..booked
      BY <3>1
    <3>3. s.poll = booked'
      BY <1>2, <2>4, <3>2 DEF Ledger!Book
    <3> HIDE DEF booked
    <3> QED BY <2>2, <3>2, <3>3
  <2> QED BY <2>2, <2>3, <2>4
<1>3. CASE Ledger!Clear
  BY <1>3 DEF Ledger!Clear
<1>4. CASE UNCHANGED Ledger!vars
  BY <1>4 DEF Ledger!vars
<1> QED BY <1>1, <1>2, <1>3, <1>4 DEF Ledger!Next

LEMMA ConsistentLedger == KeepsLedger => []Ledger!Consistent
<1>1. Ledger!Init => Ledger!Consistent
  BY DEF Ledger!Init, Ledger!Consistent
<1> QED BY <1>1, ConsistentStep, PTL DEF KeepsLedger, Ledger!Spec

\* No sales row both counts and is reverted, and a stored poll entered each, whatever
\* the poller, the ban check, the clear and the replay script do.
THEOREM LedgerConsistent == ReplaySpec => []Ledger!Consistent
BY ReplayKeepsLedger, ConsistentLedger, PTL

\* A sale that was reverted never counts again, whatever polls and scripts come later,
\* until the market data is cleared.
THEOREM LedgerUndoneForGood == ReplaySpec => Ledger!UndoneForGood
<1> DEFINE Stays == Len(polls)' # 0 => \A s \in Undone : s \in Undone' /\ s \notin Counted'
<1>1. Ledger!Consistent /\ Ledger!Consistent' /\ [Ledger!Next]_(Ledger!vars) => [Stays]_(Ledger!vars)
  <2> SUFFICES ASSUME Ledger!Consistent, Ledger!Consistent', Ledger!Next, Len(polls)' # 0,
                      NEW s \in Undone
               PROVE  s \in Undone' /\ s \notin Counted'
    OBVIOUS
  <2>1. CASE Ledger!Undo \/ Ledger!Book
    BY <2>1 DEF Ledger!Undo, Ledger!Book, Ledger!Consistent
  <2>2. CASE Ledger!Clear
    BY <2>2 DEF Ledger!Clear
  <2> QED BY <2>1, <2>2 DEF Ledger!Next
<1> HIDE DEF Stays
<1>2. KeepsLedger => [][Stays]_(Ledger!vars)
  BY <1>1, ConsistentLedger, PTL DEF KeepsLedger, Ledger!Spec
<1> QED BY <1>2, ReplayKeepsLedger, PTL DEF Ledger!UndoneForGood, Stays

=============================================================================
