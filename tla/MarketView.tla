----------------------------- MODULE MarketView -----------------------------
(***************************************************************************)
(* The inference rules against the market they watch.  The trade site      *)
(* lists offers; a poll sees the cheapest FetchCap of them, in the site's  *)
(* order and at the site's exchange rate, and in a longer ladder a row may *)
(* be missing from the answer.  The poller converts what it sees at a rate *)
(* of its own.  The question is whether a sale it claims is one: whether   *)
(* the listing has left the market, or has at least been changed.          *)
(*                                                                         *)
(* Prices the engine compares are in hundredths: a price in mirrors counts *)
(* 100 for each, one in divines counts the rate.                           *)
(***************************************************************************)
EXTENDS SaleEngine

CONSTANTS
  Offers,    \* what can be offered: instant, online, divine, price, count
  Rates,     \* exchange rates, in hundredths, that are met in a run
  FetchCap,  \* inference_fetch_cap, the search results that are looked at
  Jitter,    \* how many polls in a row a row can be missing from the answer
  Baselines, \* values of the price-history median, NoPrice for none
  MaxCycle   \* bound of the model

OfferType ==
  [instant : BOOLEAN, online : BOOLEAN, divine : BOOLEAN, price : Nat, count : 1..MaxCopies]

\* The poller's and the site's rates differ by less than the safety margin.
RatesWithinMargin ==
  \A r, q \in Rates : (100 - TruncMarginPct) * r < 100 * q

ASSUME MarketAssumption ==
  /\ Offers \subseteq OfferType
  /\ Rates \subseteq Nat \ {0}
  /\ RatesWithinMargin
  /\ TruncMarginPct <= 100
  /\ Jitter \in Nat /\ Jitter <= JitterGrace + 1
  /\ JitterGrace = 0 => Jitter = 0
  /\ Baselines \subseteq Nat
  /\ FetchCap \in Nat \ {0} /\ MaxCycle \in Nat

VARIABLES
  market, \* the offers on the trade site, by key
  since,  \* the first poll that could see the offer as it is
  unseen, \* how many polls in a row did not return the offer, up to Jitter
  missed, \* offers missing since then though the fetch reached beyond them
  cycle,  \* polls made
  sig,    \* inference_state_signals
  pend,   \* inference_state_pending
  claims  \* the sales and transfers the last poll claims

marketVars == <<market, since, unseen, missed>>
pollVars == <<cycle, sig, pend, claims>>
vars == <<market, since, unseen, missed, cycle, sig, pend, claims>>

Init ==
  /\ market = <<>> /\ since = <<>> /\ unseen = <<>> /\ missed = {}
  /\ cycle = 0 /\ sig = <<>> /\ pend = {} /\ claims = {}

-----------------------------------------------------------------------------
(* The market.                                                             *)

With(f, k, v) == [j \in DOMAIN f \cup {k} |-> IF j = k THEN v ELSE f[j]]

Without(f, k) == [j \in DOMAIN f \ {k} |-> f[j]]

\* A seller lists the item, or changes the listing.
Place(k, offer) ==
  /\ cycle < MaxCycle
  /\ k \in DOMAIN market => market[k] # offer
  /\ market' = With(market, k, offer)
  /\ since' = With(since, k, cycle + 1)
  /\ unseen' = With(unseen, k, 0)
  /\ missed' = missed \ {k}
  /\ UNCHANGED pollVars

\* A listing is sold, or taken off the market.
Remove(k) ==
  /\ cycle < MaxCycle
  /\ k \in DOMAIN market
  /\ market' = Without(market, k)
  /\ since' = Without(since, k)
  /\ unseen' = Without(unseen, k)
  /\ missed' = missed \ {k}
  /\ UNCHANGED pollVars

-----------------------------------------------------------------------------
(* A poll.                                                                 *)

MirrorEquivalent(offer, rate) ==
  IF offer.divine THEN offer.price * rate ELSE offer.price * 100

Copies(f) == MapThenSumSet(LAMBDA k : f[k], DOMAIN f)

\* All the copies on offer, by key.
Results == [k \in DOMAIN market |-> market[k].count]

SnapTrunc == Copies(Results) > FetchCap

\* Nothing fetched is dearer than the offer, by the site's own conversion.
BeyondFetch(k, fetched, site) ==
  \/ market[k].price = NoPrice
  \/ \A j \in fetched : MirrorEquivalent(market[j], site) <= MirrorEquivalent(market[k], site)

\* The copies fetched of each key: all of them, or a slice of the cheapest.
Fetches(site) ==
  IF ~SnapTrunc THEN {Results}
  ELSE {f \in UNION {[D -> 1..MaxCopies] : D \in SUBSET DOMAIN market} :
          /\ \A k \in DOMAIN f : f[k] <= Results[k]
          /\ Copies(f) <= FetchCap
          /\ \A k \in DOMAIN market :
               k \notin DOMAIN f \/ f[k] < Results[k] =>
                 BeyondFetch(k, DOMAIN f, site) \/ unseen[k] < Jitter}

\* listing_signals_from_fetch
Signals(f, rate) ==
  [k \in DOMAIN f |->
     [instant |-> market[k].instant, online |-> market[k].online,
      price |-> MirrorEquivalent(market[k], rate), count |-> f[k]]]

Claim(rule, key, removed) == [rule |-> rule, key |-> key, removed |-> removed]

Transfer == "transfer"

\* What a poll claims to be sold, with the poll in which it left the ladder.
ClaimsOf(x) ==
  {Claim(p.kind, p.key, p.removed) : p \in CreditedPendings(x) \cup CountedAtOnce(x)}
    \cup
  {Claim(Instant, k, x.cycle) : k \in CountDecreases(x)}
    \cup
  {Claim(Transfer, <<t.fp, t.seller>>, x.cycle) : t \in Transfers(x)}

Observation(f, rate, baseline) ==
  [prev |-> sig, pend |-> pend, curr |-> Signals(f, rate), cycle |-> cycle + 1,
   trunc |-> SnapTrunc, baseline |-> baseline, probe |-> <<>>]

OneMore(n) == IF n < Jitter THEN n + 1 ELSE n

Evaluate(x) ==
  /\ claims' = ClaimsOf(x)
  /\ \E kept \in CreditedChoices(x) : pend' = NewPendings(x, kept)
  /\ sig' = x.curr

Poll ==
  /\ cycle < MaxCycle
  /\ \E site, rate \in Rates, baseline \in Baselines :
     \E f \in Fetches(site) :
       /\ \E x \in Probed(Observation(f, rate, baseline)) : Evaluate(x)
       /\ unseen' = [k \in DOMAIN market |-> IF k \in DOMAIN f THEN 0 ELSE OneMore(unseen[k])]
       /\ missed' = {k \in DOMAIN market \ DOMAIN f :
                       k \in missed \/ ~BeyondFetch(k, DOMAIN f, site)}
  /\ cycle' = cycle + 1
  /\ UNCHANGED <<market, since>>

Next ==
  \/ \E k \in Keys, offer \in Offers : Place(k, offer)
  \/ \E k \in Keys : Remove(k)
  \/ Poll

Spec == Init /\ [][Next]_vars

-----------------------------------------------------------------------------
(* Properties.                                                             *)

\* The listing that left the ladder has left the market or was changed since.
Gone(c) == c.key \in DOMAIN market => since[c.key] >= c.removed

\* A buyout listing that stays on the market as it is never counts as sold: not
\* when cheaper offers push it out of the fetch, nor when the rates drift within
\* the margin, nor when the site leaves it out for the grace and a poll more
\* (safe_to_infer_vanish and the grace of rule 2b).
UnmovedBuyoutNeverSold == \A c \in claims : c.rule = Instant => Gone(c)

\* Nor does any other listing count as sold or transferred, as long as the site
\* did not leave it out (the guard of rules 1, 2c and 4b).
UnmovedNeverSold == \A c \in claims : c.key \in missed \/ Gone(c)
=============================================================================
