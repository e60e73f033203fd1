---------------------------- MODULE SalePipeline ----------------------------
(***************************************************************************)
(* One item variant on its way through the poller: run_cycle of            *)
(* poller/poll_item_prices.py loads the inference state, evaluates the     *)
(* rules of SaleEngine on a new fetch and stores the outcome with          *)
(* write_poll_result of storage/service.py, in one transaction.  After the *)
(* poll come the account ban check of poller/account_ban_detector.py and   *)
(* the anomaly-day check of storage/sale_hygiene.py.  The poller may fail  *)
(* or be restarted between any two of these steps, and the admin page may  *)
(* clear the market data from another process meanwhile.                   *)
(*                                                                         *)
(* Poll ids are positions in the sequence polls; a row of the sales table  *)
(* names the poll that recorded it and occurred when that poll was made.   *)
(***************************************************************************)
EXTENDS SaleEngine, Sequences

CONSTANTS
  NoSeller,             \* the empty buyer column of a row that is no transfer
  ListingKinds,         \* what a fetched listing can look like
  Baselines,            \* values of the price-history median, NoPrice for none
  Truncations,          \* whether a fetch can be truncated, a set of BOOLEANs
  DivineFallback,       \* the preview may show keys the inference fetch missed
  LateRelistWindow,     \* late_relist_window_days, in clock ticks; 0 is off
  BanMinVanishes,       \* account_ban_min_vanishes
  BanLookback,          \* account_ban_cycle_lookback
  OtherVariantVanishes, \* bound on a seller's vanishes seen on other variants
  TicksPerDay,
  AnomalyMultiple,      \* ANOMALY_DAY_MULTIPLE
  AnomalyMinSales,      \* ANOMALY_MIN_SALES
  AnomalyLookback,      \* ANOMALY_LOOKBACK_DAYS
  Gaps,                 \* clock ticks that can pass between two stored polls
  ClearPhases,          \* when the admin page may clear the market data
  MaxPolls, MaxCycle    \* bounds of the model

ASSUME PipelineAssumption ==
  /\ NoSeller \notin Sellers
  /\ ListingKinds \subseteq Listings
  /\ Baselines \subseteq Nat
  /\ Truncations \subseteq BOOLEAN
  /\ DivineFallback \in BOOLEAN
  /\ {LateRelistWindow, OtherVariantVanishes, AnomalyMultiple, AnomalyMinSales,
      AnomalyLookback, MaxPolls, MaxCycle} \subseteq Nat
  /\ {BanMinVanishes, BanLookback, TicksPerDay} \subseteq Nat \ {0}
  /\ Gaps \subseteq Nat \ {0}
  /\ ClearPhases \subseteq {"idle", "loaded"}

VARIABLES
  cycle,    \* the poller's cycle counter, in memory
  dbCycle,  \* the greatest cycle_number in poll_runs, 0 for none
  phase,    \* idle, loaded (fetched and loaded, not yet stored), post (stored)
  sig,      \* inference_state_signals
  pend,     \* inference_state_pending
  held,     \* the signals and pendings the poller read for this poll
  sales,    \* the sales table
  polls,    \* item_polls, each with its ban_candidate_vanish events
  probed,   \* sellers the ban check of this cycle is done with
  marking,  \* the seller whose sales were reverted but who is not marked yet
  alerted   \* account_ban_alert_cooldown

stateVars == <<sig, pend>>
ledgerVars == <<sales, polls>>
banVars == <<probed, marking, alerted>>
vars == <<cycle, dbCycle, phase, sig, pend, held, sales, polls, probed, marking, alerted>>

Phases == {"idle", "loaded", "post"}

Transfer == "transfer"

Snapshots == UNION {[D -> ListingKinds] : D \in SUBSET Keys}

SaleRows ==
  [rule : {Transfer, Instant, Online}, fp : Fps, seller : Sellers,
   buyer : Sellers \cup {NoSeller}, poll : Nat \ {0}, reverted : BOOLEAN]

PollRows ==
  [cycle : Nat, at : Nat, xfer : Nat, inst : Int, online : Int, vanished : SUBSET Keys]

Active(s) == ~s.reverted

ActiveSales == {s \in sales : Active(s)}

KeyOf(s) == <<s.fp, s.seller>>

OccurredAt(s) == polls[s.poll].at

AtLeastZero(n) == IF n < 0 THEN 0 ELSE n

\* Mutant: the rows are deleted.
RevertingByDeletion(S) == sales \ S

\* sales with the rows of S marked reverted.
Reverting(S) == (sales \ S) \cup {[s EXCEPT !.reverted = TRUE] : s \in S}

\* Outside a poll the poller keeps no copy of the inference state.
NothingHeld == [sig |-> <<>>, pend |-> {}]

Init ==
  /\ cycle = 0 /\ dbCycle = 0 /\ phase = "idle"
  /\ sig = <<>> /\ pend = {} /\ held = NothingHeld
  /\ sales = {} /\ polls = <<>>
  /\ probed = {} /\ marking = {} /\ alerted = {}

-----------------------------------------------------------------------------
(* A poll of the variant: fetch and load, evaluate, store.                 *)

\* run_cycle begins a cycle, fetches the ladder and reads the inference state.
Load ==
  /\ phase = "idle"
  /\ cycle < MaxCycle /\ Len(polls) < MaxPolls
  /\ cycle' = cycle + 1
  /\ phase' = "loaded"
  /\ held' = [sig |-> sig, pend |-> pend]
  /\ UNCHANGED <<dbCycle, sig, pend, sales, polls, probed, marking, alerted>>

\* requested_at_utc of the last stored poll.
LastPollAt == IF polls = <<>> THEN 0 ELSE polls[Len(polls)].at

\* What the poller puts together before it evaluates the rules; at is the time
\* of the fetch.
Observation(at, curr, trunc, baseline, probe) ==
  [prev |-> held.sig, pend |-> held.pend, curr |-> curr, cycle |-> cycle, at |-> at,
   trunc |-> trunc, baseline |-> baseline, probe |-> probe]

\* The keys among listing_preview_rows: the fetched ladder with some of the rows
\* that have no mirror price, unless the divine-only fallback search mixes in others.
Previews(curr) ==
  IF DivineFallback THEN SUBSET Keys
  ELSE {shown \in SUBSET DOMAIN curr :
          {k \in DOMAIN curr : curr[k].price # NoPrice} \subseteq shown}

\* Mutant: only a transfer in the same direction is seen.
TransfersOneWay(a, b) ==
  {s \in ActiveSales : s.rule = Transfer /\ s.seller = a /\ s.buyer = b}

\* A counted transfer between the two sellers in either direction.
TransfersBetween(a, b) ==
  {s \in ActiveSales : s.rule = Transfer /\ {s.seller, s.buyer} = {a, b}}

PingPong(x) == {t \in Transfers(x) : TransfersBetween(t.seller, t.buyer) # {}}

PingPongPairs(x) == {<<t.seller, t.buyer>> : t \in PingPong(x)}

PingPongReverts(x) == UNION {TransfersBetween(t.seller, t.buyer) : t \in PingPong(x)}

\* revert_latest_sale: the row to revert as a set, empty when none matches.
LatestSale(rule, key, since) ==
  LET found == {s \in ActiveSales : /\ s.rule = rule /\ KeyOf(s) = key
                                    /\ OccurredAt(s) >= since}
  IN  {s \in found : \A t \in found : t.poll <= s.poll}

RelistReverts(x) == UNION {LatestSale(p.kind, p.key, 0) : p \in Relisted(x)}

WindowStart(x) == x.at - LateRelistWindow

TransferredAway(x, key) ==
  \E s \in sales : s.rule = Transfer /\ KeyOf(s) = key /\ OccurredAt(s) > WindowStart(x)

\* Mutant: pairs the stored ladder had are not skipped.
LateRelistKeysStillListed(x, preview) ==
  IF LateRelistWindow = 0 THEN {}
  ELSE {k \in preview : /\ k \notin {p.key : p \in Relisted(x)}
                        /\ ~TransferredAway(x, k)}

\* Mutant: pairs the same poll relists are not skipped.
LateRelistKeysTwice(x, preview) ==
  IF LateRelistWindow = 0 THEN {}
  ELSE {k \in preview : k \notin DOMAIN sig /\ ~TransferredAway(x, k)}

\* Pairs shown now that the stored ladder did not have.
LateRelistKeys(x, preview) ==
  IF LateRelistWindow = 0 THEN {}
  ELSE {k \in preview : /\ k \notin {p.key : p \in Relisted(x)}
                        /\ k \notin DOMAIN sig
                        /\ ~TransferredAway(x, k)}

LateRelistRevert(x, key) ==
  IF LatestSale(Instant, key, WindowStart(x)) # {}
  THEN LatestSale(Instant, key, WindowStart(x))
  ELSE LatestSale(Online, key, WindowStart(x))

LateRelistReverts(x, preview) ==
  UNION {LateRelistRevert(x, k) : k \in LateRelistKeys(x, preview)}

OfRule(rows, rule) == {r \in rows : r.rule = rule}

\* Sales credited less credits a relist takes back, raised to the number of sale
\* events unless it is negative.
ReconciledCount(x, kept, rule) ==
  LET credited == Cardinality(OfRule(kept, rule))
      undone == Cardinality({p \in Relisted(x) : p.kind = rule /\ p.counted})
  IN  IF credited >= undone THEN credited ELSE credited - undone

NewPollRow(x, kept, late) ==
  [cycle |-> x.cycle, at |-> x.at,
   xfer |-> AtLeastZero(Cardinality(Transfers(x)) - Cardinality(PingPongPairs(x))),
   inst |-> ReconciledCount(x, kept, Instant) - Cardinality(OfRule(late, Instant)),
   online |-> ReconciledCount(x, kept, Online) - Cardinality(OfRule(late, Online)),
   vanished |-> InferenceSafeVanishes(x)]

\* INSERT OR IGNORE: one row per poll time, rule, fingerprint, seller and buyer.
NewSales(x, kept) ==
  LET poll == Len(polls) + 1
  IN  {[rule |-> e.rule, fp |-> e.key[1], seller |-> e.key[2], buyer |-> NoSeller,
        poll |-> poll, reverted |-> FALSE] : e \in kept}
        \cup
      {[rule |-> Transfer, fp |-> t.fp, seller |-> t.seller, buyer |-> t.buyer,
        poll |-> poll, reverted |-> FALSE] : t \in Transfers(x) \ PingPong(x)}

\* The stored polls with their transfer counters lowered for the rows in S.
PollsWithoutTransfers(S) ==
  [i \in DOMAIN polls |->
     [polls[i] EXCEPT !.xfer = AtLeastZero(@ - Cardinality({s \in S : s.poll = i}))]]

\* write_poll_result: every table is updated in one transaction.
WritePollResult(x, kept, preview) ==
  LET late == LateRelistReverts(x, preview)
  IN  /\ sales' = Reverting(PingPongReverts(x) \cup late \cup RelistReverts(x))
                    \cup NewSales(x, kept)
      /\ polls' = Append(PollsWithoutTransfers(PingPongReverts(x)),
                         NewPollRow(x, kept, late))
      /\ sig' = x.curr
      /\ pend' = NewPendings(x, kept)
      /\ dbCycle' = cycle

WritePoll ==
  /\ phase = "loaded"
  /\ \E gap \in Gaps, curr \in Snapshots, trunc \in Truncations, baseline \in Baselines :
     \E x \in Probed(Observation(LastPollAt + gap, curr, trunc, baseline, <<>>)) :
     \E kept \in CreditedChoices(x), preview \in Previews(curr) :
        WritePollResult(x, kept, preview)
  /\ phase' = "post"
  /\ held' = NothingHeld
  /\ probed' = {}
  /\ UNCHANGED <<cycle, marking, alerted>>

\* Another variant's poll of the same cycle is stored before this one's.
OtherVariantWrites ==
  /\ phase = "loaded"
  /\ dbCycle' = cycle
  /\ UNCHANGED <<cycle, phase, sig, pend, held, sales, polls, probed, marking, alerted>>

-----------------------------------------------------------------------------
(* The account ban check, seller by seller.                                *)

BanWindow ==
  {i \in DOMAIN polls : polls[i].cycle >= cycle - BanLookback /\ polls[i].cycle <= cycle}

VanishedKeys(s) ==
  {k \in Keys : k[2] = s /\ \E i \in BanWindow : k \in polls[i].vanished}

OverVanishLimit(s, elsewhere) ==
  Cardinality(VanishedKeys(s)) + elsewhere >= BanMinVanishes

BanCheckOf(s) ==
  /\ phase = "post" /\ marking = {} /\ s \notin probed
  /\ \E elsewhere \in 0..OtherVariantVanishes : OverVanishLimit(s, elsewhere)
  /\ UNCHANGED <<cycle, dbCycle, phase, sig, held>>

\* The probe failed, or an account without listings was alerted before.
SkipBan(s) ==
  /\ BanCheckOf(s)
  /\ probed' = probed \cup {s}
  /\ UNCHANGED <<pend, sales, polls, marking, alerted>>

\* The account still lists something: it may be alerted again another time.
ClearBan(s) ==
  /\ BanCheckOf(s)
  /\ probed' = probed \cup {s}
  /\ alerted' = alerted \ {s}
  /\ UNCHANGED <<pend, sales, polls, marking>>

\* _group_vanishes_by_seller keeps one row, that is one poll, of each key.
VanishPolls(s) ==
  {{f[k] : k \in VanishedKeys(s)} :
     f \in {g \in [VanishedKeys(s) -> BanWindow] :
              \A k \in VanishedKeys(s) : k \in polls[g[k]].vanished}}

\* Mutant: only the poll that triggered the check is cleaned.
BannedSalesOfLastPoll(s, ids) ==
  {r \in ActiveSales : r.seller = s /\ r.rule # Transfer /\ r.poll = Len(polls)}

BannedSales(s, ids) ==
  {r \in ActiveSales : r.seller = s /\ r.rule # Transfer /\ r.poll \in ids}

\* The stored polls with their sale counters lowered for the rows in S.
PollsWithoutSales(S) ==
  [i \in DOMAIN polls |->
     LET gone(rule) == Cardinality({r \in OfRule(S, rule) : r.poll = i})
         less(n, m) == IF m = 0 THEN n ELSE AtLeastZero(n - m)
     IN  [polls[i] EXCEPT !.inst = less(@, gone(Instant)),
                          !.online = less(@, gone(Online))]]

\* revert_sales_for_account_ban: the seller's sales in the vanish polls are
\* reverted and the seller's pendings are dropped.
ConfirmBan(s) ==
  /\ BanCheckOf(s)
  /\ s \notin alerted
  /\ \E ids \in VanishPolls(s) :
       /\ sales' = Reverting(BannedSales(s, ids))
       /\ polls' = PollsWithoutSales(BannedSales(s, ids))
  /\ pend' = IF VanishedKeys(s) = {} THEN pend ELSE {p \in pend : p.key[2] # s}
  /\ marking' = {s}
  /\ UNCHANGED <<probed, alerted>>

\* After the notification, the seller is marked in a transaction of its own.
MarkBan ==
  /\ phase = "post" /\ marking # {}
  /\ alerted' = alerted \cup marking
  /\ probed' = probed \cup marking
  /\ marking' = {}
  /\ UNCHANGED <<cycle, dbCycle, phase, sig, pend, held, sales, polls>>

-----------------------------------------------------------------------------
(* The end of a cycle: the anomaly-day check.                              *)

Day(t) == t \div TicksPerDay

SalesOn(rows, day) == {s \in rows : Day(OccurredAt(s)) = day}

SaleDays(rows) == {Day(OccurredAt(s)) : s \in rows}

\* The last AnomalyLookback days that have one of the rows before this day.
HistoryDays(rows, day) ==
  {d \in SaleDays(rows) :
     /\ d < day
     /\ Cardinality({e \in SaleDays(rows) : d < e /\ e < day}) < AnomalyLookback}

\* sorted(counts)[len(counts) // 2], for the days' counts.
MedianSales(rows, days) ==
  LET count(d) == Cardinality(SalesOn(rows, d))
      below(n) == Cardinality({d \in days : count(d) < n})
      upTo(n) == Cardinality({d \in days : count(d) <= n})
      middle == Cardinality(days) \div 2
  IN  CHOOSE n \in {count(d) : d \in days} : below(n) <= middle /\ middle < upTo(n)

IsAnomalyDay(rows, day) ==
  LET n == Cardinality(SalesOn(rows, day))
  IN  /\ n > 0 /\ n >= AnomalyMinSales
      /\ HistoryDays(rows, day) # {}
      /\ n > AnomalyMultiple * MedianSales(rows, HistoryDays(rows, day))

\* rebuild_variant_sale_counters: every counter is set to the active sales.
RebuiltPolls(rows) ==
  [i \in DOMAIN polls |->
     LET count(rule) == Cardinality({s \in rows : Active(s) /\ s.rule = rule /\ s.poll = i})
     IN  [polls[i] EXCEPT !.xfer = count(Transfer), !.inst = count(Instant),
                          !.online = count(Online)]]

BanChecksDone ==
  /\ marking = {}
  /\ \A s \in Sellers : OverVanishLimit(s, 0) => s \in probed

\* Reverts all the day's sales and recounts; run_cycle swallows an exception.
RevertAnomalyDay(day) ==
  /\ IsAnomalyDay(ActiveSales, day)
  /\ sales' = Reverting(SalesOn(ActiveSales, day))
  /\ polls' = RebuiltPolls(Reverting(SalesOn(ActiveSales, day)))

\* The check looks at the day the cycle ends on, which may not be the poll's.
EndCycle ==
  /\ phase = "post" /\ BanChecksDone
  /\ \/ RevertAnomalyDay(Day(LastPollAt))
     \/ UNCHANGED <<sales, polls>>
  /\ phase' = "idle"
  /\ probed' = {}
  /\ UNCHANGED <<cycle, dbCycle, sig, pend, held, marking, alerted>>

-----------------------------------------------------------------------------
(* Failures, restarts, and the admin page.                                 *)

\* An exception ends the cycle; the main loop logs it and goes on.
AbortCycle ==
  /\ phase # "idle"
  /\ phase' = "idle" /\ held' = NothingHeld /\ probed' = {} /\ marking' = {}
  /\ UNCHANGED <<cycle, dbCycle, sig, pend, sales, polls, alerted>>

\* Mutant: the counter starts over.
NoStoredCycle == 0

\* latest_cycle_number, read when the process starts.
LatestCycleNumber == dbCycle

\* The poller process dies and is started again; a changed fingerprint version
\* empties the inference state before the first poll.
Restart ==
  /\ phase' = "idle" /\ held' = NothingHeld /\ probed' = {} /\ marking' = {}
  /\ cycle' = LatestCycleNumber
  /\ \/ UNCHANGED <<sig, pend>>
     \/ sig' = <<>> /\ pend' = {}
  /\ UNCHANGED <<dbCycle, sales, polls, alerted>>

\* Mutant: the sales outlive their polls.
AdminClearKeepsSales ==
  /\ phase \in ClearPhases
  /\ sig' = <<>> /\ pend' = {} /\ polls' = <<>> /\ dbCycle' = 0
  /\ UNCHANGED <<cycle, phase, held, sales, probed, marking, alerted>>

\* clear_market_tables; the sales go with their polls by the foreign key.
AdminClear ==
  /\ phase \in ClearPhases
  /\ sig' = <<>> /\ pend' = {} /\ sales' = {} /\ polls' = <<>> /\ dbCycle' = 0
  /\ UNCHANGED <<cycle, phase, held, probed, marking, alerted>>

Next ==
  \/ Load
  \/ WritePoll
  \/ OtherVariantWrites
  \/ \E s \in Sellers : SkipBan(s) \/ ClearBan(s) \/ ConfirmBan(s)
  \/ MarkBan
  \/ EndCycle
  \/ AbortCycle
  \/ Restart
  \/ AdminClear

Spec == Init /\ [][Next]_vars

-----------------------------------------------------------------------------
(* Properties.                                                             *)

IsSnapshot(f) ==
  /\ DOMAIN f \subseteq Keys
  /\ f = [k \in DOMAIN f |-> f[k]]
  /\ \A k \in DOMAIN f : f[k] \in Listings

\* Every table and every variable of the poller keeps its type: in particular a
\* sale names a poll that exists, and the open pendings are finitely many.
TypeOK ==
  /\ cycle \in Nat /\ dbCycle \in Nat
  /\ phase \in Phases
  /\ IsSnapshot(sig)
  /\ pend \subseteq PendingRows /\ IsFiniteSet(pend)
  /\ IsSnapshot(held.sig)
  /\ held.pend \subseteq PendingRows /\ IsFiniteSet(held.pend)
  /\ polls \in Seq(PollRows)
  /\ sales \subseteq SaleRows /\ IsFiniteSet(sales)
  /\ \A s \in sales : s.poll \in DOMAIN polls
  /\ probed \subseteq Sellers /\ marking \subseteq Sellers /\ alerted \subseteq Sellers

PendingsFit(snap, pendings) ==
  /\ \A p \in pendings : p.key \notin DOMAIN snap
  /\ \A p, q \in pendings : p.key = q.key => p = q

\* A pair with an open pending removal is not on the stored ladder and has no
\* second pending: resolving it can neither revert a sale of a pair that never
\* left nor credit one departure twice (the rows of inference_state_pending and
\* the copies of them the poller works on).
PendingUnlistedAndUnique ==
  PendingsFit(sig, pend) /\ PendingsFit(held.sig, held.pend)

\* A pending whose sale was credited at once still has that sale, active, in the
\* poll of the removal: the relist that takes the credit back finds what to revert.
CountedBacked ==
  \A p \in pend : p.counted =>
    \E s \in ActiveSales : /\ s.rule = p.kind /\ KeyOf(s) = p.key
                           /\ polls[s.poll].cycle = p.removed

\* A removal whose credit is deferred has not been sold yet by any other rule.
DeferredUnsold ==
  \A p \in pend : ~p.counted =>
    ~\E s \in ActiveSales : KeyOf(s) = p.key /\ polls[s.poll].cycle >= p.removed

\* What the last stored poll left pending is at most its grace old, and a
\* counted pending comes from that very poll: no pending outlives its window.
WithinItsWindow ==
  \A p \in pend : polls[Len(polls)].cycle - p.removed \in 0..p.grace

\* The two books that record a removal, inference_state_pending and sales, agree
\* as long as it is pending, so that its end finds what it has to take back and
\* credits nothing that was credited before.
PendingsMatchSales == CountedBacked /\ DeferredUnsold /\ WithinItsWindow

\* One pair leaves the ladder at most once per poll, so no poll sells it twice,
\* under one rule or under two.
OneSalePerDeparture ==
  \A s, t \in sales : KeyOf(s) = KeyOf(t) /\ s.poll = t.poll => s = t

\* Rule 9 as stored: a poll keeps at most the capped number of sales of a seller.
SellerBurstCapped ==
  MaxSalesPerSeller > 0 =>
    \A i \in DOMAIN polls, s \in Sellers :
      Cardinality({r \in sales : r.poll = i /\ r.seller = s /\ r.rule # Transfer})
        <= MaxSalesPerSeller

\* The sum of a sequence of numbers.
TotalOf(counts) ==
  LET sum[n \in 0..Len(counts)] == IF n = 0 THEN 0 ELSE sum[n - 1] + counts[n]
  IN  sum[Len(counts)]

CountsIn(rows) == [i \in DOMAIN rows |-> (rows[i].xfer + rows[i].inst) + rows[i].online]

CounterTotal == TotalOf(CountsIn(polls))

\* The poll counters, summed over the polls, never fall below the active sales:
\* no undo is counted twice against the totals the dashboard shows.
CountersCoverSales == CounterTotal >= Cardinality(ActiveSales)

\* The transfers still counted between two sellers all come from one poll: once
\* they trade a copy back, nothing between them counts.
PingPongPairsSettle ==
  \A s, t \in ActiveSales :
    /\ s.rule = Transfer /\ t.rule = Transfer
    /\ {s.seller, s.buyer} = {t.seller, t.buyer}
    => s.poll = t.poll

\* Polls of the variant have increasing cycle numbers through failures and
\* restarts, so storing one never replaces another (the upsert on the poll run).
NoPollOverwritten ==
  /\ \A i, j \in DOMAIN polls : i < j => polls[i].cycle < polls[j].cycle
  /\ phase = "loaded" => \A i \in DOMAIN polls : polls[i].cycle < cycle

\* Between confirming a ban and marking it, none of the seller's sales is active
\* in a poll where its listings vanished, and none of them is pending.
BanRevertsVanishPolls ==
  \A s \in marking :
    /\ \A r \in ActiveSales :
         r.seller = s /\ r.rule # Transfer /\ r.poll \in BanWindow =>
           \A k \in VanishedKeys(s) : k \notin polls[r.poll].vanished
    /\ VanishedKeys(s) # {} => \A p \in pend : p.key[2] # s

\* The steps that store a poll.
PollStored == phase = "loaded" /\ phase' = "post"

NewSalesOf(before, after) ==
  {s \in after : Active(s) /\ \A t \in before : t.poll # s.poll}

\* A poll records a sale only for a pair that left the ladder or lists fewer
\* copies than before, and that was listed or pending when the poll began.
SaleNeedsDeparture ==
  [][PollStored =>
       \A s \in NewSalesOf(sales, sales') :
         LET k == KeyOf(s)
         IN  /\ k \in DOMAIN held.sig \/ \E p \in held.pend : p.key = k /\ ~p.counted
             /\ k \in DOMAIN sig' =>
                  k \in DOMAIN held.sig /\ sig'[k].count < held.sig[k].count]_vars

RevertedBy(before, after) ==
  {s \in before : Active(s) /\ s \notin after}

\* A poll takes a sale of a pair back only when the stored ladder did not have
\* the pair: copies that stay listed revert nothing.
StillListedRevertsNothing ==
  [][PollStored =>
       \A s \in RevertedBy(sales, sales') :
         s.rule # Transfer => KeyOf(s) \notin DOMAIN sig]_vars

=============================================================================
