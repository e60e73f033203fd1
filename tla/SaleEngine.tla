----------------------------- MODULE SaleEngine -----------------------------
(***************************************************************************)
(* The sale inference rules of poller/sale_inference_engine.py, as pure    *)
(* operators: what one poll of one item variant concludes from the ladder  *)
(* it saw last time, the ladder it sees now and the removals still pending.*)
(*                                                                         *)
(* A ladder snapshot is a function from the listed keys, pairs of an item  *)
(* fingerprint and a seller, to the first listing of the key and how many  *)
(* copies of it are listed: this is what inference_state_signals keeps of  *)
(* a fetch.  The copies of one key are taken to share one price.  Prices   *)
(* are whole numbers of a price step; NoPrice stands for None (a currency  *)
(* without a mirror equivalent, an unknown baseline, an empty ladder), and *)
(* percentages are compared after multiplying by 100, not in floats.       *)
(*                                                                         *)
(* An observation x is a record with the fields                            *)
(*   prev, curr   the stored and the fetched ladder                        *)
(*   pend         the open pending removals, a set of records              *)
(*   cycle, at    the poller's cycle number and the time of the fetch      *)
(*   trunc        whether the search had more results than were fetched    *)
(*   baseline     the median of the variant's recent prices, or NoPrice    *)
(*   probe        the answers of the live online probe, seller by seller   *)
(*                                                                         *)
(* An operator marked "Mutant:" is a plausible mistake in the operator     *)
(* that follows it; no specification uses it.  Putting it in place of that *)
(* operator must break a property, which shows the property can fail.      *)
(***************************************************************************)
EXTENDS Integers, FiniteSets, FiniteSetsExt

CONSTANTS
  Fps,                  \* item fingerprints
  Sellers,              \* seller accounts
  UnknownSeller,        \* stands in for a seller the listing does not name
  MaxCopies,            \* bound on the copies one seller lists of one item
  JitterGrace,          \* fetch_jitter_grace_polls
  OnlineGrace,          \* non_instant_online_grace_polls
  MassVanishMinSellers, \* MASS_VANISH_MIN_SELLERS
  MassVanishSharePct,   \* MASS_VANISH_MIN_SELLER_SHARE, in percent
  MaxSalesPerSeller,    \* MAX_SALES_PER_SELLER_PER_POLL
  AboveBaselinePct,     \* sale_max_above_baseline_pct
  LowFloorBelow,        \* sale_floor_ignore_if_floor_below_mirrors
  BaselineRange,        \* sale_baseline_range_mirrors
  TruncMarginPct,       \* truncation_safe_margin_pct
  NearFloorPct,         \* truncated_instant_vanish_max_above_floor_pct
  NearFloorAbs          \* truncated_instant_vanish_max_above_floor_mirrors

ASSUME EngineAssumption ==
  /\ IsFiniteSet(Fps) /\ IsFiniteSet(Sellers)
  /\ MaxCopies \in Nat \ {0}
  /\ {JitterGrace, OnlineGrace, MassVanishMinSellers, MassVanishSharePct,
      MaxSalesPerSeller, AboveBaselinePct, LowFloorBelow, BaselineRange,
      TruncMarginPct, NearFloorPct, NearFloorAbs} \subseteq Nat

NoPrice == 0

Keys == Fps \X Sellers

\* The pending_kind column, and the two rules a pending may end up crediting.
Instant == "instant"
Online  == "online"

PendingRows ==
  [key : Keys, kind : {Instant, Online}, removed : Nat, counted : BOOLEAN,
   grace : Nat, price : Nat]

Listings == [instant : BOOLEAN, online : BOOLEAN, price : Nat, count : 1..MaxCopies]

-----------------------------------------------------------------------------
(* The ladders.                                                            *)

SellersOf(snap, fp) == {s \in Sellers : <<fp, s>> \in DOMAIN snap}

Vanished(x) == DOMAIN x.prev \ DOMAIN x.curr

StillListed(x) == DOMAIN x.prev \cap DOMAIN x.curr

PricesOf(snap) == {snap[k].price : k \in DOMAIN snap} \ {NoPrice}

CheapestMirrorEquiv(snap) ==
  IF PricesOf(snap) = {} THEN NoPrice ELSE Min(PricesOf(snap))

\* The dearest listing fetched: what lies beyond it was not looked at.
TruncationCutoff(snap) ==
  IF PricesOf(snap) = {} THEN NoPrice ELSE Max(PricesOf(snap))

\* Rule 1: the fingerprint went from one sole seller to another sole seller.
IsTransfer(x, fp) ==
  \E a, b \in Sellers : /\ a # b
                        /\ SellersOf(x.prev, fp) = {a}
                        /\ SellersOf(x.curr, fp) = {b}

-----------------------------------------------------------------------------
(* The price guards.                                                       *)

\* Mutant: no margin below the dearest listing fetched.
SafeToInferVanishWithoutMargin(x, price) ==
  \/ ~x.trunc
  \/ /\ TruncationCutoff(x.curr) # NoPrice
     /\ price # NoPrice
     /\ price <= TruncationCutoff(x.curr)

SafeToInferVanish(x, price) ==
  \/ ~x.trunc
  \/ /\ TruncationCutoff(x.curr) # NoPrice
     /\ price # NoPrice
     /\ 100 * price <= TruncationCutoff(x.curr) * (100 - TruncMarginPct)

NearFloorForTruncatedInstantVanish(x, price) ==
  LET floor == CheapestMirrorEquiv(x.prev)
  IN  \/ floor = NoPrice
      \/ /\ price # NoPrice
         /\ \/ 100 * price <= floor * (100 + NearFloorPct)
            \/ price <= floor + NearFloorAbs

PricedTooHighVsBaseline(x, price) ==
  /\ x.baseline # NoPrice
  /\ price # NoPrice
  /\ 100 * price > x.baseline * (100 + AboveBaselinePct)

IsLowFloorMarket(x) == CheapestMirrorEquiv(x.prev) \in 1..(LowFloorBelow - 1)

PricedOutsideBaselineRangeSub10(x, price) ==
  /\ IsLowFloorMarket(x)
  /\ BaselineRange > 0
  /\ x.baseline # NoPrice
  /\ price > x.baseline
  /\ price > CheapestMirrorEquiv(x.prev) + BaselineRange

\* The removal looks like an unlisting: too dear for anybody to have bought it.
UnlistGuard(x, price) ==
  \/ ~IsLowFloorMarket(x) /\ PricedTooHighVsBaseline(x, price)
  \/ PricedOutsideBaselineRangeSub10(x, price)

-----------------------------------------------------------------------------
(* Listings that left the ladder: rules 2, 2a, 2b, 4 and 4b.               *)

\* Sellers the poller asks the trade site about before it infers anything.
OnlineProbeSellers(x) ==
  {k[2] : k \in {v \in Vanished(x) : /\ ~x.prev[v].instant
                                     /\ SafeToInferVanish(x, x.prev[v].price)
                                     /\ ~IsTransfer(x, v[1])}} \ {UnknownSeller}

\* A probe request answers online or offline, or fails and leaves no entry.
Probed(x) ==
  {[x EXCEPT !.probe = answers] :
     answers \in UNION {[D -> BOOLEAN] : D \in SUBSET OnlineProbeSellers(x)}}

\* Mutant: a transfer is treated as a vanish as well.
ConsideredVanishesWithTransfers(x) ==
  {k \in Vanished(x) :
     /\ SafeToInferVanish(x, x.prev[k].price)
     /\ x.prev[k].instant /\ x.trunc =>
          NearFloorForTruncatedInstantVanish(x, x.prev[k].price)}

\* The vanishes the rules below start from.
ConsideredVanishes(x) ==
  {k \in Vanished(x) :
     /\ SafeToInferVanish(x, x.prev[k].price)
     /\ ~IsTransfer(x, k[1])
     /\ x.prev[k].instant /\ x.trunc =>
          NearFloorForTruncatedInstantVanish(x, x.prev[k].price)}

\* collect_inference_safe_vanishes: what the ban detector gets to see of them.
InferenceSafeVanishes(x) == {k \in ConsideredVanishes(x) : k[2] # UnknownSeller}

\* Rule 2: a buyout listing is gone at a price somebody may have paid.
InstantVanishes(x) ==
  {k \in ConsideredVanishes(x) : /\ x.prev[k].instant
                                 /\ ~UnlistGuard(x, x.prev[k].price)}

WasOnline(x, k) ==
  IF k[2] \in DOMAIN x.probe THEN x.probe[k[2]] ELSE x.prev[k].online

\* Rule 4b: a negotiable listing is gone while its seller is online.
OnlineVanishes(x) ==
  {k \in ConsideredVanishes(x) : /\ ~x.prev[k].instant
                                 /\ WasOnline(x, k)
                                 /\ ~UnlistGuard(x, x.prev[k].price)}

DeferInstant(x) == x.trunc /\ JitterGrace > 0

DeferOnline == OnlineGrace > 0

NewPendingRow(x, k, kind, defer, grace) ==
  [key |-> k, kind |-> kind, removed |-> x.cycle, counted |-> ~defer,
   grace |-> IF defer THEN grace ELSE 0, price |-> x.prev[k].price]

VanishPendings(x) ==
  {NewPendingRow(x, k, Instant, DeferInstant(x), JitterGrace) : k \in InstantVanishes(x)}
    \cup
  {NewPendingRow(x, k, Online, DeferOnline, OnlineGrace) : k \in OnlineVanishes(x)}

-----------------------------------------------------------------------------
(* Pending removals from earlier polls: rule 3 and the end of the grace.   *)

PollsAbsent(x, p) == IF x.cycle > p.removed THEN x.cycle - p.removed ELSE 0

WithinGrace(x, p) == ~p.counted /\ p.grace > 0 /\ PollsAbsent(x, p) <= p.grace

Reappeared(x) == {p \in x.pend : p.key \in DOMAIN x.curr}

\* Rule 3: listed again, so what was credited is taken back.  A reappearance
\* within the grace window is only fetch jitter.
Relisted(x) == {p \in Reappeared(x) : ~WithinGrace(x, p)}

\* Mutant: a pair that is listed again stays pending.
StillPendingWhenListed(x) ==
  {p \in x.pend : p.removed >= x.cycle \/ WithinGrace(x, p)}

StillPending(x) ==
  {p \in x.pend \ Reappeared(x) : p.removed >= x.cycle \/ WithinGrace(x, p)}

\* Mutant: a removal that was credited at once is credited again.
CreditedPendingsTwice(x) ==
  {p \in x.pend \ (Reappeared(x) \cup StillPending(x)) :
     p.kind = Instant => /\ SafeToInferVanish(x, p.price)
                         /\ ~UnlistGuard(x, p.price)}

\* The grace window is over and the listing stayed away: credit the sale.
CreditedPendings(x) ==
  {p \in x.pend \ (Reappeared(x) \cup StillPending(x)) :
     /\ ~p.counted
     /\ p.kind = Instant => /\ SafeToInferVanish(x, p.price)
                            /\ ~UnlistGuard(x, p.price)}

-----------------------------------------------------------------------------
(* Rule 2c: a seller keeps the key listed with fewer copies.               *)

CountDecreases(x) ==
  IF x.trunc THEN {}
  ELSE {k \in StillListed(x) : /\ x.prev[k].count > x.curr[k].count
                               /\ x.prev[k].instant
                               /\ ~UnlistGuard(x, x.prev[k].price)}

-----------------------------------------------------------------------------
(* The events that claim a sale.  "stage" is the order in which the engine *)
(* appends them; within a stage it walks over unordered rows or sets.      *)

SaleEvents == [rule : {Instant, Online}, key : Keys, stage : 1..4, copy : 1..MaxCopies]

SaleEvent(rule, key, stage, copy) ==
  [rule |-> rule, key |-> key, stage |-> stage, copy |-> copy]

\* Removals of this poll whose sale is not deferred.
CountedAtOnce(x) == {p \in VanishPendings(x) : p.counted}

VanishSaleEvents(x) ==
  {SaleEvent(p.kind, p.key, IF p.kind = Online THEN 1 ELSE 2, 1) : p \in CreditedPendings(x)}
    \cup
  {SaleEvent(p.kind, p.key, 3, 1) : p \in CountedAtOnce(x)}
    \cup
  UNION {{SaleEvent(Instant, k, 4, copy) : copy \in 1..(x.prev[k].count - x.curr[k].count)}
           : k \in CountDecreases(x)}

\* Mutant: a row near the cutoff is transferred as well.
TransfersUnguarded(x) ==
  {t \in [fp : Fps, seller : Sellers, buyer : Sellers] :
     /\ t.seller # t.buyer
     /\ SellersOf(x.prev, t.fp) = {t.seller}
     /\ SellersOf(x.curr, t.fp) = {t.buyer}}

\* Rule 1 as an event; a row near the cutoff may only have been bumped out.
Transfers(x) ==
  {t \in [fp : Fps, seller : Sellers, buyer : Sellers] :
     /\ t.seller # t.buyer
     /\ SellersOf(x.prev, t.fp) = {t.seller}
     /\ SellersOf(x.curr, t.fp) = {t.buyer}
     /\ SafeToInferVanish(x, x.prev[<<t.fp, t.seller>>].price)}

-----------------------------------------------------------------------------
(* Rules 8 and 9: what a poll may credit at most.                          *)

SellersIn(events) == {e.key[2] : e \in events}

\* Mutant: as many sellers as the minimum are not enough.
IsMassVanishOffByOne(x, events) ==
  /\ MassVanishMinSellers > 0
  /\ Cardinality(SellersIn(events)) > MassVanishMinSellers
  /\ LET before == Cardinality({k[2] : k \in DOMAIN x.prev})
     IN  100 * Cardinality(SellersIn(events)) >=
           MassVanishSharePct * (IF before = 0 THEN 1 ELSE before)

\* Rule 8: at least MassVanishMinSellers sellers and the given share of the
\* previous ladder's sellers "sold" at once.
IsMassVanish(x, events) ==
  /\ MassVanishMinSellers > 0
  /\ Cardinality(SellersIn(events)) >= MassVanishMinSellers
  /\ LET before == Cardinality({k[2] : k \in DOMAIN x.prev})
     IN  100 * Cardinality(SellersIn(events)) >=
           MassVanishSharePct * (IF before = 0 THEN 1 ELSE before)

OfSeller(events, s) == {e \in events : e.key[2] = s}

\* Mutant: every event counts.
IsUncappedChoice(kept, events) == kept = events

\* Rule 9: of each seller the first MaxSalesPerSeller events count.  Which come
\* first inside a stage depends on the iteration order of sets and rows.
IsFirstPerSeller(kept, events) ==
  /\ \A s \in Sellers :
        LET n == Cardinality(OfSeller(events, s))
        IN  Cardinality(OfSeller(kept, s)) =
              IF n < MaxSalesPerSeller THEN n ELSE MaxSalesPerSeller
  /\ \A e \in events \ kept, f \in kept : e.key[2] = f.key[2] => e.stage >= f.stage

\* The events that are still sales after the sanity caps.
CreditedChoices(x) ==
  LET events == VanishSaleEvents(x)
  IN  IF IsMassVanish(x, events) THEN {{}}
      ELSE IF MaxSalesPerSeller = 0 THEN {events}
      ELSE {kept \in SUBSET events : IsFirstPerSeller(kept, events)}

KeysOf(events) == {e.key : e \in events}

\* Mutant: an ignored removal keeps its pending.
NewPendingsUndropped(x, kept) == StillPending(x) \cup VanishPendings(x)

\* The pendings stored for the next poll: this poll's removals lose theirs when
\* the sale they backed was ignored, so that a relist has nothing to revert.
NewPendings(x, kept) ==
  LET ignored == KeysOf(VanishSaleEvents(x) \ kept) \ KeysOf(kept)
  IN  {p \in StillPending(x) \cup VanishPendings(x) :
         ~(p.removed = x.cycle /\ p.key \in ignored)}
=============================================================================
