---------------------------- MODULE MarketProofs ----------------------------
(***************************************************************************)
(* For every market, every fetch cap, every drift of the rates within the  *)
(* margin: a listing that has not moved is not sold.  Two facts carry the  *)
(* proof.  A listing priced a margin below the dearest one fetched cannot  *)
(* have been pushed out of the fetch (WithinSlice).  And what is pending   *)
(* although it is still on the market has been missing from every fetch    *)
(* since, so that after its grace the site cannot leave it out once more   *)
(* (PendInv).                                                              *)
(***************************************************************************)
EXTENDS MarketView, FiniteSetTheorems, WellFoundedInduction, TLAPS

-----------------------------------------------------------------------------
(* The dearest price fetched.                                              *)

HasMax(S) == \E m \in S : \A n \in S : m >= n

\* A minimal subset without a maximum would have one.
LEMMA FiniteHasMax ==
  ASSUME NEW S \in SUBSET Nat, IsFiniteSet(S), S # {}
  PROVE  HasMax(S)
<1> DEFINE Bad == {U \in SUBSET S : U # {} /\ ~HasMax(U)}
<1> SUFFICES ASSUME Bad # {} PROVE FALSE
  OBVIOUS
<1>1. Bad \subseteq FiniteSubsetsOf(S)
  BY FS_Subset DEF FiniteSubsetsOf
<1>2. PICK U \in Bad : \A V \in Bad : <<V, U>> \notin StrictSubsetOrdering(S)
  <2>1. IsWellFoundedOn(StrictSubsetOrdering(S), FiniteSubsetsOf(S))
    BY FS_StrictSubsetOrderingWellFounded
  <2> HIDE DEF Bad
  <2> QED BY <1>1, <2>1, WFMin
<1>3. PICK e \in U : TRUE
  OBVIOUS
<1> DEFINE V == U \ {e}
<1>4. V \notin Bad
  <2>1. <<V, U>> \in (SUBSET S) \X (SUBSET S) /\ V \subseteq U /\ V # U
    BY <1>3
  <2> QED BY <1>2, <2>1 DEF StrictSubsetOrdering
<1>5. CASE V = {}
  <2>1. U = {e} /\ e \in Nat
    BY <1>3, <1>5
  <2>2. HasMax(U)
    BY <2>1 DEF HasMax
  <2> QED BY <2>2
<1>6. CASE V # {}
  <2>1. HasMax(V)
    BY <1>4, <1>6
  <2>2. PICK m \in V : \A n \in V : m >= n
    BY <2>1 DEF HasMax
  <2>3. e \in Nat /\ m \in Nat /\ m \in U /\ \A n \in U : n = e \/ n \in V
    BY <1>3
  <2>4. \A n \in U : n \in Nat
    OBVIOUS
  <2>5. HasMax(U)
    <3>1. CASE m >= e
      BY <2>2, <2>3, <2>4, <3>1 DEF HasMax
    <3>2. CASE e > m
      <4>1. \A n \in U : e >= n
        BY <2>2, <2>3, <2>4, <3>2
      <4> QED BY <1>3, <4>1 DEF HasMax
    <3> QED BY <2>3, <3>1, <3>2
  <2> QED BY <2>5
<1> QED BY <1>5, <1>6

LEMMA MaxIsDearest ==
  ASSUME NEW S \in SUBSET Nat, IsFiniteSet(S), S # {}
  PROVE  Max(S) \in S
<1>1. \E m \in S : \A n \in S : m >= n
  BY FiniteHasMax DEF HasMax
<1> QED BY <1>1 DEF Max

LEMMA ImageFinite ==
  ASSUME NEW S, NEW f, IsFiniteSet(S)
  PROVE  IsFiniteSet({f[k] : k \in S})
<1> DEFINE g == [k \in S |-> f[k]]
<1>1. g \in Surjection(S, {f[k] : k \in S})
  BY DEF Surjection
<1> QED BY <1>1, FS_Surjection

LEMMA KeysFinite == IsFiniteSet(Keys)
BY FS_Product, EngineAssumption DEF EngineAssumption, Keys

\* A snapshot of listings.
IsLadder(f) ==
  /\ DOMAIN f \subseteq Keys
  /\ f = [k \in DOMAIN f |-> f[k]]
  /\ \A k \in DOMAIN f : f[k] \in Listings

LEMMA CutoffIsAPrice ==
  ASSUME NEW f, IsLadder(f), TruncationCutoff(f) # NoPrice
  PROVE  \E j \in DOMAIN f : f[j].price = TruncationCutoff(f)
<1> DEFINE prices == [k \in DOMAIN f |-> f[k].price]
<1>1. PricesOf(f) \subseteq {prices[k] : k \in DOMAIN f}
  BY DEF PricesOf
<1>2. IsFiniteSet({prices[k] : k \in DOMAIN f})
  <2>1. IsFiniteSet(DOMAIN f)
    BY KeysFinite, FS_Subset DEF IsLadder
  <2> HIDE DEF prices
  <2> QED BY <2>1, ImageFinite
<1>3. IsFiniteSet(PricesOf(f))
  BY <1>1, <1>2, FS_Subset
<1>4. PricesOf(f) \in SUBSET Nat
  BY DEF PricesOf, IsLadder, Listings
<1>5. PricesOf(f) # {} /\ TruncationCutoff(f) = Max(PricesOf(f))
  BY DEF TruncationCutoff
<1>6. Max(PricesOf(f)) \in PricesOf(f)
  BY <1>3, <1>4, <1>5, MaxIsDearest
<1> QED BY <1>5, <1>6 DEF PricesOf

-----------------------------------------------------------------------------
(* A safe price lies within the fetched slice.                             *)

LEMMA TimesMonotone ==
  \A a, b, c \in Nat : a <= b => a * c <= b * c /\ c * a <= c * b
OBVIOUS

LEMMA TimesStrict ==
  \A a, b, c \in Nat : a < b /\ c > 0 => a * c < b * c
OBVIOUS

LEMMA CancelLess ==
  \A a, b, c \in Nat : a * c < b * c => a < b
BY TimesMonotone

LEMMA CancelAtMost ==
  \A a, b, c \in Nat : c > 0 /\ a * c <= b * c => a <= b
BY TimesStrict

\* p units of one currency come before q units of another at the site's rates r
\* and s; they still do, with the margin m in hundredths, at the rates t and v.
LEMMA RatesDrift ==
  ASSUME NEW m \in Nat, NEW p \in Nat, NEW q \in Nat,
         NEW r \in Nat, NEW s \in Nat, NEW t \in Nat, NEW v \in Nat,
         q > 0, r > 0, v > 0, p * r <= q * s,
         (m * t) * s < (100 * v) * r
  PROVE  m * (p * t) < 100 * (q * v)
<1>1. (m * t) * (p * r) <= (m * t) * (q * s)
  <2>1. m * t \in Nat /\ p * r \in Nat /\ q * s \in Nat
    OBVIOUS
  <2> QED BY <2>1, TimesMonotone
<1>2. ((m * t) * s) * q < ((100 * v) * r) * q
  <2>1. (m * t) * s \in Nat /\ (100 * v) * r \in Nat
    OBVIOUS
  <2> QED BY <2>1, TimesStrict
<1>3. (m * t) * (p * r) = (m * (p * t)) * r
  OBVIOUS
<1>4. (m * t) * (q * s) = ((m * t) * s) * q
  OBVIOUS
<1>5. ((100 * v) * r) * q = (100 * (q * v)) * r
  OBVIOUS
<1>6. (m * (p * t)) * r < (100 * (q * v)) * r
  <2>1. /\ (m * t) * (p * r) \in Nat /\ (m * t) * (q * s) \in Nat
        /\ ((100 * v) * r) * q \in Nat
    OBVIOUS
  <2> QED BY <1>1, <1>2, <1>3, <1>4, <1>5, <2>1
<1>7. m * (p * t) \in Nat /\ 100 * (q * v) \in Nat
  OBVIOUS
<1> QED BY <1>6, <1>7, CancelLess

\* An offer that the site does not list before another is dearer than the margin
\* below it, at whatever rates the poller has converted the two.
LEMMA DriftWithinMargin ==
  ASSUME NEW a \in OfferType, NEW b \in OfferType,
         NEW site \in Rates, NEW rate \in Rates, NEW then \in Rates,
         b.price # NoPrice,
         MirrorEquivalent(a, site) <= MirrorEquivalent(b, site)
  PROVE  (100 - TruncMarginPct) * MirrorEquivalent(a, rate) < 100 * MirrorEquivalent(b, then)
<1>1. PICK m \in Nat : m = 100 - TruncMarginPct
  BY EngineAssumption, MarketAssumption DEF EngineAssumption, MarketAssumption
<1>2. PICK p \in Nat, q \in Nat : p = a.price /\ q = b.price
  BY DEF OfferType
<1>3. /\ q > 0 /\ site \in Nat /\ rate \in Nat /\ then \in Nat
      /\ site > 0 /\ rate > 0 /\ then > 0
  BY <1>2, MarketAssumption DEF MarketAssumption, NoPrice
<1>4. /\ m < 100 /\ m * site < 100 * then
      /\ m * rate < 100 * site /\ m * rate < 100 * then
  <2>1. \A r, s \in Rates : m * r < 100 * s
    BY <1>1, MarketAssumption DEF MarketAssumption, RatesWithinMargin
  <2>2. m < 100
    BY <1>3, <2>1, CancelLess
  <2> QED BY <2>1, <2>2
<1>5. CASE ~a.divine /\ ~b.divine
  <2>1. /\ MirrorEquivalent(a, site) = p * 100 /\ MirrorEquivalent(b, site) = q * 100
        /\ MirrorEquivalent(a, rate) = p * 100 /\ MirrorEquivalent(b, then) = q * 100
    BY <1>2, <1>5 DEF MirrorEquivalent
  <2>2. (m * 100) * 100 < (100 * 100) * 100
    BY <1>4
  <2>3. m * (p * 100) < 100 * (q * 100)
    BY <1>3, <2>1, <2>2, RatesDrift
  <2> QED BY <1>1, <2>1, <2>3
<1>6. CASE ~a.divine /\ b.divine
  <2>1. /\ MirrorEquivalent(a, site) = p * 100 /\ MirrorEquivalent(b, site) = q * site
        /\ MirrorEquivalent(a, rate) = p * 100 /\ MirrorEquivalent(b, then) = q * then
    BY <1>2, <1>6 DEF MirrorEquivalent
  <2>2. (m * 100) * site < (100 * then) * 100
    BY <1>3, <1>4
  <2>3. m * (p * 100) < 100 * (q * then)
    BY <1>3, <2>1, <2>2, RatesDrift
  <2> QED BY <1>1, <2>1, <2>3
<1>7. CASE a.divine /\ ~b.divine
  <2>1. /\ MirrorEquivalent(a, site) = p * site /\ MirrorEquivalent(b, site) = q * 100
        /\ MirrorEquivalent(a, rate) = p * rate /\ MirrorEquivalent(b, then) = q * 100
    BY <1>2, <1>7 DEF MirrorEquivalent
  <2>2. (m * rate) * 100 < (100 * 100) * site
    BY <1>3, <1>4
  <2>3. m * (p * rate) < 100 * (q * 100)
    BY <1>3, <2>1, <2>2, RatesDrift
  <2> QED BY <1>1, <2>1, <2>3
<1>8. CASE a.divine /\ b.divine
  <2>1. /\ MirrorEquivalent(a, site) = p * site /\ MirrorEquivalent(b, site) = q * site
        /\ MirrorEquivalent(a, rate) = p * rate /\ MirrorEquivalent(b, then) = q * then
    BY <1>2, <1>8 DEF MirrorEquivalent
  <2>2. (m * rate) * site < (100 * then) * site
    BY <1>3, <1>4, TimesStrict
  <2>3. m * (p * rate) < 100 * (q * then)
    BY <1>3, <2>1, <2>2, RatesDrift
  <2> QED BY <1>1, <2>1, <2>3
<1> QED BY <1>5, <1>6, <1>7, <1>8 DEF OfferType

-----------------------------------------------------------------------------
(* The invariant.                                                          *)

TypeInv ==
  /\ cycle \in Nat
  /\ DOMAIN market \subseteq Keys
  /\ \A k \in DOMAIN market : market[k] \in OfferType
  /\ DOMAIN since = DOMAIN market /\ DOMAIN unseen = DOMAIN market
  /\ \A k \in DOMAIN market : since[k] \in 0..(cycle + 1) /\ unseen[k] \in Nat
  /\ missed \subseteq DOMAIN market
  /\ IsLadder(sig)
  /\ \A p \in pend : p \in PendingRows /\ p.removed <= cycle
  /\ \A c \in claims : c.removed \in Nat /\ c.removed <= cycle

\* The price is the offer's, converted at one of the rates.
PricedAs(k, price) == \E rate \in Rates : price = MirrorEquivalent(market[k], rate)

\* The stored ladder shows the offers as they were when the poll was made.
SigInv ==
  \A k \in DOMAIN sig :
    k \in DOMAIN market /\ since[k] <= cycle =>
      PricedAs(k, sig[k].price) /\ sig[k].count <= market[k].count

\* A pending whose listing is on the market unmoved is there because the site
\* left it out; a buyout has been out of every fetch since and is not sold yet.
PendInv ==
  \A p \in pend :
    p.key \in DOMAIN market /\ since[p.key] < p.removed =>
      /\ p.key \in missed
      /\ p.kind = Instant =>
           /\ ~p.counted /\ JitterGrace > 0 /\ p.grace = JitterGrace
           /\ PricedAs(p.key, p.price)
           /\ unseen[p.key] >= Jitter \/ unseen[p.key] > cycle - p.removed

Inv == TypeInv /\ SigInv /\ PendInv /\ UnmovedBuyoutNeverSold /\ UnmovedNeverSold

-----------------------------------------------------------------------------
(* One poll.                                                               *)

\* What a poll of fetch f observes, whatever the probes answer.
Observes(x, f, rate) ==
  /\ x.prev = sig /\ x.pend = pend /\ x.curr = Signals(f, rate)
  /\ x.cycle = cycle + 1 /\ x.trunc = SnapTrunc

LEMMA ProbedObserves ==
  ASSUME NEW f, NEW rate, NEW baseline, NEW x \in Probed(Observation(f, rate, baseline))
  PROVE  Observes(x, f, rate)
BY DEF Probed, Observation, Observes

LEMMA FetchTyped ==
  ASSUME TypeInv, NEW site, NEW rate \in Rates, NEW f \in Fetches(site)
  PROVE  /\ DOMAIN f \subseteq DOMAIN market
         /\ \A k \in DOMAIN f : f[k] \in 1..MaxCopies /\ f[k] <= market[k].count
         /\ IsLadder(Signals(f, rate)) /\ DOMAIN Signals(f, rate) = DOMAIN f
<1>1. /\ DOMAIN f \subseteq DOMAIN market
      /\ \A k \in DOMAIN f : f[k] \in 1..MaxCopies /\ f[k] <= market[k].count
  <2>1. \A k \in DOMAIN market : market[k].count \in 1..MaxCopies
    BY DEF TypeInv, OfferType
  <2>2. CASE ~SnapTrunc
    <3>1. f = Results
      BY <2>2 DEF Fetches
    <3>2. \A k \in DOMAIN market : market[k].count <= market[k].count
      BY <2>1
    <3> QED BY <2>1, <3>1, <3>2 DEF Results
  <2>3. CASE SnapTrunc
    <3>1. /\ f \in UNION {[D -> 1..MaxCopies] : D \in SUBSET DOMAIN market}
          /\ \A k \in DOMAIN f : f[k] <= Results[k]
      BY <2>3 DEF Fetches
    <3>2. PICK D \in SUBSET DOMAIN market : f \in [D -> 1..MaxCopies]
      BY <3>1
    <3> QED BY <3>1, <3>2 DEF Results
  <2> QED BY <2>2, <2>3
<1>2. DOMAIN Signals(f, rate) = DOMAIN f
  BY DEF Signals
<1>3. ASSUME NEW k \in DOMAIN f
      PROVE  Signals(f, rate)[k] \in Listings
  <2>1. /\ market[k] \in OfferType /\ f[k] \in 1..MaxCopies
    BY <1>1 DEF TypeInv
  <2>2. MirrorEquivalent(market[k], rate) \in Nat
    <3>1. market[k].price \in Nat /\ rate \in Nat
      BY <2>1, MarketAssumption DEF OfferType, MarketAssumption
    <3> QED BY <3>1 DEF MirrorEquivalent
  <2> QED BY <2>1, <2>2 DEF Signals, Listings, OfferType
<1>4. IsLadder(Signals(f, rate))
  <2>1. Signals(f, rate) = [k \in DOMAIN f |-> Signals(f, rate)[k]]
    BY DEF Signals
  <2>2. DOMAIN f \subseteq Keys
    BY <1>1 DEF TypeInv
  <2> QED BY <1>2, <1>3, <2>1, <2>2 DEF IsLadder
<1> QED BY <1>1, <1>2, <1>4

\* A fetch leaves an offer out because it is too dear or because the site does.
LEMMA LeftOut ==
  ASSUME NEW site, NEW f \in Fetches(site), NEW k \in DOMAIN market \ DOMAIN f
  PROVE  SnapTrunc /\ (BeyondFetch(k, DOMAIN f, site) \/ unseen[k] < Jitter)
<1>1. SnapTrunc
  BY DEF Fetches, Results
<1> QED BY <1>1 DEF Fetches

\* A price that is safe to infer from belongs to no offer beyond the fetch.
LEMMA WithinSlice ==
  ASSUME TypeInv, NEW site \in Rates, NEW rate \in Rates, NEW f \in Fetches(site),
         NEW x, Observes(x, f, rate), SnapTrunc,
         NEW k \in DOMAIN market, NEW price, PricedAs(k, price),
         BeyondFetch(k, DOMAIN f, site)
  PROVE  ~SafeToInferVanish(x, price)
<1> SUFFICES ASSUME SafeToInferVanish(x, price) PROVE FALSE
  OBVIOUS
<1>1. /\ TruncationCutoff(x.curr) # NoPrice /\ price # NoPrice
      /\ 100 * price <= TruncationCutoff(x.curr) * (100 - TruncMarginPct)
  BY DEF SafeToInferVanish, Observes
<1>2. PICK then \in Rates : price = MirrorEquivalent(market[k], then)
  BY DEF PricedAs
<1>3. market[k] \in OfferType /\ then \in Nat
  BY MarketAssumption DEF TypeInv, MarketAssumption
<1>4. market[k].price # NoPrice
  BY <1>1, <1>2, <1>3 DEF MirrorEquivalent, NoPrice, OfferType
<1>5. IsLadder(x.curr) /\ DOMAIN x.curr = DOMAIN f /\ DOMAIN f \subseteq DOMAIN market
  BY FetchTyped DEF Observes
<1>6. PICK j \in DOMAIN f : x.curr[j].price = TruncationCutoff(x.curr)
  BY <1>1, <1>5, CutoffIsAPrice
<1>7. TruncationCutoff(x.curr) = MirrorEquivalent(market[j], rate)
  BY <1>6 DEF Observes, Signals
<1>8. MirrorEquivalent(market[j], site) <= MirrorEquivalent(market[k], site)
  BY <1>4 DEF BeyondFetch
<1>9. market[j] \in OfferType
  BY <1>5 DEF TypeInv
<1>10. (100 - TruncMarginPct) * TruncationCutoff(x.curr) < 100 * price
  BY <1>2, <1>3, <1>4, <1>7, <1>8, <1>9, DriftWithinMargin
<1>11. /\ TruncationCutoff(x.curr) \in Nat /\ price \in Nat
       /\ TruncMarginPct \in Nat
  <2>1. rate \in Nat
    BY MarketAssumption DEF MarketAssumption
  <2> QED BY <1>2, <1>3, <1>7, <1>9, <2>1, EngineAssumption
          DEF MirrorEquivalent, OfferType, EngineAssumption
<1> QED BY <1>1, <1>10, <1>11

\* What has left the fetch at a safe price is still on the market only because
\* the site left it out.
LEMMA SafeIsLeftOut ==
  ASSUME TypeInv, NEW site \in Rates, NEW rate \in Rates, NEW f \in Fetches(site),
         NEW x, Observes(x, f, rate),
         NEW k \in DOMAIN market \ DOMAIN f, NEW price, PricedAs(k, price),
         SafeToInferVanish(x, price)
  PROVE  ~BeyondFetch(k, DOMAIN f, site) /\ unseen[k] < Jitter
BY LeftOut, WithinSlice

\* The same for what vanished in this poll.
LEMMA VanishedIsLeftOut ==
  ASSUME TypeInv, SigInv, NEW site \in Rates, NEW rate \in Rates, NEW f \in Fetches(site),
         NEW x, Observes(x, f, rate),
         NEW k \in Vanished(x), SafeToInferVanish(x, x.prev[k].price),
         k \in DOMAIN market, since[k] < cycle + 1
  PROVE  /\ k \notin DOMAIN f /\ SnapTrunc /\ PricedAs(k, x.prev[k].price)
         /\ ~BeyondFetch(k, DOMAIN f, site) /\ unseen[k] < Jitter
<1>1. k \in DOMAIN sig /\ k \notin DOMAIN f /\ x.prev = sig
  BY FetchTyped DEF Vanished, Observes
<1>2. since[k] <= cycle
  BY DEF TypeInv
<1>3. PricedAs(k, x.prev[k].price)
  BY <1>1, <1>2 DEF SigInv
<1> QED BY <1>1, <1>3, SafeIsLeftOut, LeftOut

LEMMA ConsideredVanish ==
  ASSUME NEW x, NEW p \in VanishPendings(x)
  PROVE  /\ p.key \in Vanished(x) /\ SafeToInferVanish(x, x.prev[p.key].price)
         /\ p.removed = x.cycle /\ p.price = x.prev[p.key].price
         /\ p.kind = Instant =>
              /\ p.counted = ~DeferInstant(x)
              /\ p.grace = IF DeferInstant(x) THEN JitterGrace ELSE 0
<1>1. CASE \E k \in InstantVanishes(x) :
             p = NewPendingRow(x, k, Instant, DeferInstant(x), JitterGrace)
  BY <1>1 DEF NewPendingRow, InstantVanishes, ConsideredVanishes
<1>2. CASE \E k \in OnlineVanishes(x) :
             p = NewPendingRow(x, k, Online, DeferOnline, OnlineGrace)
  BY <1>2 DEF NewPendingRow, OnlineVanishes, ConsideredVanishes, Online, Instant
<1> QED BY <1>1, <1>2 DEF VanishPendings

LEMMA UnseenTyped ==
  ASSUME TypeInv, NEW k \in DOMAIN market
  PROVE  OneMore(unseen[k]) \in Nat
BY DEF TypeInv, OneMore

-----------------------------------------------------------------------------
(* Every step keeps the invariant.                                         *)

LEMMA PlaceStep ==
  ASSUME Inv, NEW k \in Keys, NEW offer \in Offers, Place(k, offer)
  PROVE  Inv'
<1> USE DEF Inv
<1>1. /\ DOMAIN market' = DOMAIN market \cup {k} /\ market'[k] = offer
      /\ DOMAIN since' = DOMAIN market' /\ since'[k] = cycle + 1
      /\ DOMAIN unseen' = DOMAIN market' /\ unseen'[k] = 0
      /\ \A j \in DOMAIN market \ {k} :
           market'[j] = market[j] /\ since'[j] = since[j] /\ unseen'[j] = unseen[j]
      /\ missed' = missed \ {k} /\ UNCHANGED pollVars
  BY DEF Place, With, TypeInv
<1>2. UNCHANGED <<cycle, sig, pend, claims>>
  BY <1>1 DEF pollVars
<1>3. TypeInv'
  <2>1. offer \in OfferType
    BY MarketAssumption DEF MarketAssumption
  <2>2. cycle + 1 \in 0..(cycle + 1) /\ 0 \in Nat
    BY DEF TypeInv
  <2>3. \A j \in DOMAIN market' : j = k \/ j \in DOMAIN market \ {k}
    BY <1>1
  <2> QED BY <1>1, <1>2, <2>1, <2>2, <2>3 DEF TypeInv
<1>4. \A j \in DOMAIN market', n \in Nat : n <= cycle /\ since'[j] < n => j # k
  BY <1>1 DEF TypeInv
<1>5. SigInv'
  <2> SUFFICES ASSUME NEW j \in DOMAIN sig, j \in DOMAIN market', since'[j] <= cycle
               PROVE  PricedAs(j, sig[j].price)' /\ sig[j].count <= market'[j].count
    BY <1>2 DEF SigInv
  <2>1. j # k /\ j \in DOMAIN market \ {k}
    BY <1>1 DEF TypeInv
  <2> QED BY <1>1, <1>2, <2>1 DEF SigInv, PricedAs
<1>6. PendInv'
  <2> SUFFICES ASSUME NEW p \in pend, p.key \in DOMAIN market', since'[p.key] < p.removed
               PROVE  /\ p.key \in missed'
                      /\ p.kind = Instant =>
                           /\ ~p.counted /\ JitterGrace > 0 /\ p.grace = JitterGrace
                           /\ PricedAs(p.key, p.price)'
                           /\ unseen'[p.key] >= Jitter \/ unseen'[p.key] > cycle - p.removed
    BY <1>2 DEF PendInv
  <2>1. p.removed \in Nat /\ p.removed <= cycle
    BY DEF TypeInv, PendingRows
  <2>2. p.key # k /\ p.key \in DOMAIN market \ {k}
    BY <1>1, <1>4, <2>1
  <2> QED BY <1>1, <1>2, <2>2 DEF PendInv, PricedAs
<1>7. \A c \in claims : c.key = k \/ ~Gone(c) \/ Gone(c)'
  BY <1>1 DEF Gone
<1>8. \A c \in claims : c.key = k => Gone(c)'
  BY <1>1 DEF Gone, TypeInv
<1>9. UnmovedBuyoutNeverSold'
  BY <1>2, <1>7, <1>8 DEF UnmovedBuyoutNeverSold
<1>10. UnmovedNeverSold'
  BY <1>1, <1>2, <1>7, <1>8 DEF UnmovedNeverSold
<1> QED BY <1>3, <1>5, <1>6, <1>9, <1>10

LEMMA RemoveStep ==
  ASSUME Inv, NEW k \in Keys, Remove(k)
  PROVE  Inv'
<1> USE DEF Inv
<1>1. /\ DOMAIN market' = DOMAIN market \ {k}
      /\ DOMAIN since' = DOMAIN market' /\ DOMAIN unseen' = DOMAIN market'
      /\ \A j \in DOMAIN market' :
           market'[j] = market[j] /\ since'[j] = since[j] /\ unseen'[j] = unseen[j]
      /\ missed' = missed \ {k} /\ UNCHANGED pollVars
  BY DEF Remove, Without, TypeInv
<1>2. UNCHANGED <<cycle, sig, pend, claims>>
  BY <1>1 DEF pollVars
<1>3. TypeInv'
  BY <1>1, <1>2 DEF TypeInv
<1>4. SigInv'
  BY <1>1, <1>2 DEF SigInv, PricedAs
<1>5. PendInv'
  BY <1>1, <1>2 DEF PendInv, PricedAs
<1>6. \A c \in claims : c.key = k \/ ~Gone(c) \/ Gone(c)'
  BY <1>1 DEF Gone
<1>7. \A c \in claims : c.key = k => Gone(c)'
  BY <1>1 DEF Gone
<1>8. UnmovedBuyoutNeverSold'
  BY <1>2, <1>6, <1>7 DEF UnmovedBuyoutNeverSold
<1>9. UnmovedNeverSold'
  BY <1>1, <1>2, <1>6, <1>7 DEF UnmovedNeverSold
<1> QED BY <1>3, <1>4, <1>5, <1>8, <1>9

\* What leaves the ladder in this poll though it is still there, unmoved.
LEMMA NewPendingUnmoved ==
  ASSUME TypeInv, SigInv, NEW site \in Rates, NEW rate \in Rates, NEW f \in Fetches(site),
         NEW x, Observes(x, f, rate), NEW p \in VanishPendings(x),
         p.key \in DOMAIN market, since[p.key] < p.removed
  PROVE  /\ p.key \notin DOMAIN f /\ ~BeyondFetch(p.key, DOMAIN f, site)
         /\ p.removed = cycle + 1
         /\ p.kind = Instant =>
              /\ ~p.counted /\ JitterGrace > 0 /\ p.grace = JitterGrace
              /\ PricedAs(p.key, p.price)
              /\ OneMore(unseen[p.key]) > 0
<1>1. /\ p.key \in Vanished(x) /\ SafeToInferVanish(x, x.prev[p.key].price)
      /\ p.removed = x.cycle /\ p.price = x.prev[p.key].price
      /\ p.kind = Instant => /\ p.counted = ~DeferInstant(x)
                             /\ p.grace = IF DeferInstant(x) THEN JitterGrace ELSE 0
  BY ConsideredVanish
<1>2. x.cycle = cycle + 1 /\ x.trunc = SnapTrunc
  BY DEF Observes
<1>3. /\ p.key \notin DOMAIN f /\ SnapTrunc /\ PricedAs(p.key, x.prev[p.key].price)
      /\ ~BeyondFetch(p.key, DOMAIN f, site) /\ unseen[p.key] < Jitter
  BY <1>1, <1>2, VanishedIsLeftOut
<1>4. unseen[p.key] \in Nat /\ Jitter \in Nat /\ JitterGrace \in Nat
      /\ (JitterGrace = 0 => Jitter = 0)
  BY MarketAssumption, EngineAssumption DEF TypeInv, MarketAssumption, EngineAssumption
<1>5. JitterGrace > 0
  BY <1>3, <1>4
<1>6. DeferInstant(x)
  BY <1>2, <1>3, <1>5 DEF DeferInstant
<1>7. OneMore(unseen[p.key]) > 0
  BY <1>3, <1>4 DEF OneMore
<1> QED BY <1>1, <1>2, <1>3, <1>5, <1>6, <1>7

\* What stays pending was not fetched either, and has been unseen once more.
LEMMA StillPendingUnmoved ==
  ASSUME TypeInv, PendInv, NEW site \in Rates, NEW rate \in Rates, NEW f \in Fetches(site),
         NEW x, Observes(x, f, rate), NEW p \in StillPending(x),
         p.key \in DOMAIN market, since[p.key] < p.removed
  PROVE  /\ p.key \notin DOMAIN f /\ p.key \in missed
         /\ p.kind = Instant =>
              /\ ~p.counted /\ JitterGrace > 0 /\ p.grace = JitterGrace
              /\ PricedAs(p.key, p.price)
              /\ \/ OneMore(unseen[p.key]) >= Jitter
                 \/ OneMore(unseen[p.key]) > (cycle + 1) - p.removed
<1>1. p \in pend /\ p.key \notin DOMAIN f
  BY FetchTyped DEF StillPending, Reappeared, Observes
<1>2. /\ p.key \in missed
      /\ p.kind = Instant =>
           /\ ~p.counted /\ JitterGrace > 0 /\ p.grace = JitterGrace
           /\ PricedAs(p.key, p.price)
           /\ unseen[p.key] >= Jitter \/ unseen[p.key] > cycle - p.removed
  BY <1>1 DEF PendInv
<1>3. unseen[p.key] \in Nat /\ Jitter \in Nat /\ cycle \in Nat /\ p.removed \in Nat
  BY <1>1, MarketAssumption DEF TypeInv, MarketAssumption, PendingRows
<1>4. unseen[p.key] >= Jitter \/ unseen[p.key] > cycle - p.removed =>
        \/ OneMore(unseen[p.key]) >= Jitter
        \/ OneMore(unseen[p.key]) > (cycle + 1) - p.removed
  BY <1>3 DEF OneMore
<1> QED BY <1>1, <1>2, <1>4

LEMMA NewPendingsTyped ==
  ASSUME TypeInv, NEW site \in Rates, NEW rate \in Rates, NEW f \in Fetches(site),
         NEW x, Observes(x, f, rate), NEW p \in VanishPendings(x) \cup StillPending(x)
  PROVE  p \in PendingRows /\ p.removed \in Nat /\ p.removed <= cycle + 1
<1>1. CASE p \in StillPending(x)
  BY <1>1 DEF StillPending, Observes, TypeInv, PendingRows
<1>2. ASSUME NEW k \in Vanished(x), NEW kind \in {Instant, Online}, NEW defer \in BOOLEAN,
             NEW grace \in Nat, p = NewPendingRow(x, k, kind, defer, grace)
      PROVE  p \in PendingRows /\ p.removed = cycle + 1
  <2>1. /\ k \in Keys /\ x.prev[k].price \in Nat
    BY DEF Vanished, Observes, TypeInv, IsLadder, Listings
  <2>2. x.cycle = cycle + 1 /\ cycle + 1 \in Nat
    BY DEF Observes, TypeInv
  <2> QED BY <1>2, <2>1, <2>2 DEF NewPendingRow, PendingRows
<1>3. DeferInstant(x) \in BOOLEAN /\ DeferOnline \in BOOLEAN
  BY DEF DeferInstant, DeferOnline
<1>4. JitterGrace \in Nat /\ OnlineGrace \in Nat
  BY EngineAssumption DEF EngineAssumption
<1>5. CASE \E k \in InstantVanishes(x) :
             p = NewPendingRow(x, k, Instant, DeferInstant(x), JitterGrace)
  BY <1>2, <1>3, <1>4, <1>5 DEF InstantVanishes, ConsideredVanishes, TypeInv
<1>6. CASE \E k \in OnlineVanishes(x) :
             p = NewPendingRow(x, k, Online, DeferOnline, OnlineGrace)
  BY <1>2, <1>3, <1>4, <1>6 DEF OnlineVanishes, ConsideredVanishes, TypeInv
<1> QED BY <1>1, <1>5, <1>6 DEF VanishPendings

\* What a poll may wrongly claim at most.
Excused(c, f, site) ==
  c.key \in DOMAIN market /\ since[c.key] < c.removed =>
    /\ c.rule # Instant
    /\ c.key \notin DOMAIN f
    /\ c.key \in missed \/ ~BeyondFetch(c.key, DOMAIN f, site)

LEMMA CreditedIsExcused ==
  ASSUME TypeInv, PendInv, NEW site \in Rates, NEW rate \in Rates, NEW f \in Fetches(site),
         NEW x, Observes(x, f, rate), NEW p \in CreditedPendings(x)
  PROVE  Excused(Claim(p.kind, p.key, p.removed), f, site)
<1> SUFFICES ASSUME p.key \in DOMAIN market, since[p.key] < p.removed
             PROVE  /\ p.kind # Instant
                    /\ p.key \notin DOMAIN f
                    /\ p.key \in missed
  BY DEF Excused, Claim
<1>1. /\ p \in pend /\ p.key \notin DOMAIN f /\ ~p.counted
      /\ p.kind = Instant => SafeToInferVanish(x, p.price)
      /\ p.removed < x.cycle /\ ~WithinGrace(x, p)
  <2>1. /\ p \in x.pend /\ p \notin Reappeared(x) /\ p \notin StillPending(x)
        /\ ~p.counted /\ (p.kind = Instant => SafeToInferVanish(x, p.price))
    BY DEF CreditedPendings
  <2>2. p \in pend /\ p.removed \in Nat /\ x.cycle \in Nat
    BY <2>1 DEF Observes, TypeInv, PendingRows
  <2>3. ~(p.removed >= x.cycle) /\ ~WithinGrace(x, p)
    BY <2>1 DEF StillPending
  <2>4. p.key \notin DOMAIN f
    BY <2>1, FetchTyped DEF Reappeared, Observes
  <2> QED BY <2>1, <2>2, <2>3, <2>4
<1>2. /\ p.key \in missed
      /\ p.kind = Instant =>
           /\ ~p.counted /\ JitterGrace > 0 /\ p.grace = JitterGrace
           /\ PricedAs(p.key, p.price)
           /\ unseen[p.key] >= Jitter \/ unseen[p.key] > cycle - p.removed
  BY <1>1 DEF PendInv
<1>3. ASSUME p.kind = Instant
      PROVE  FALSE
  <2>1. unseen[p.key] < Jitter
    BY <1>1, <1>2, <1>3, SafeIsLeftOut
  <2>2. /\ unseen[p.key] \in Nat /\ Jitter \in Nat /\ JitterGrace \in Nat
        /\ cycle \in Nat /\ p.removed \in Nat /\ x.cycle = cycle + 1
        /\ Jitter <= JitterGrace + 1
    BY <1>1, MarketAssumption, EngineAssumption
    DEF TypeInv, PendingRows, MarketAssumption, EngineAssumption, Observes
  <2>3. (cycle + 1) - p.removed > JitterGrace
    BY <1>1, <1>2, <1>3, <2>2 DEF WithinGrace, PollsAbsent
  <2> QED BY <1>2, <1>3, <2>1, <2>2, <2>3
<1> QED BY <1>1, <1>2, <1>3

LEMMA CountedIsExcused ==
  ASSUME TypeInv, SigInv, NEW site \in Rates, NEW rate \in Rates, NEW f \in Fetches(site),
         NEW x, Observes(x, f, rate), NEW p \in CountedAtOnce(x)
  PROVE  Excused(Claim(p.kind, p.key, p.removed), f, site)
BY NewPendingUnmoved DEF CountedAtOnce, Excused, Claim

LEMMA DecreaseIsExcused ==
  ASSUME TypeInv, SigInv, NEW site \in Rates, NEW rate \in Rates, NEW f \in Fetches(site),
         NEW x, Observes(x, f, rate), NEW k \in CountDecreases(x)
  PROVE  Excused(Claim(Instant, k, x.cycle), f, site)
<1> SUFFICES ASSUME k \in DOMAIN market, since[k] < cycle + 1
             PROVE  FALSE
  BY DEF Excused, Claim, Observes
<1>1. /\ ~SnapTrunc /\ k \in DOMAIN sig /\ k \in DOMAIN f
      /\ sig[k].count > Signals(f, rate)[k].count
  BY FetchTyped DEF CountDecreases, StillListed, Observes
<1>2. Signals(f, rate)[k].count = market[k].count
  <2>1. f = Results
    BY <1>1 DEF Fetches
  <2> QED BY <1>1, <2>1 DEF Signals, Results
<1>3. since[k] <= cycle /\ market[k].count \in Nat /\ sig[k].count \in Nat
  BY <1>1, EngineAssumption DEF TypeInv, OfferType, IsLadder, Listings, EngineAssumption
<1>4. sig[k].count <= market[k].count
  BY <1>1, <1>3 DEF SigInv
<1> QED BY <1>1, <1>2, <1>3, <1>4

LEMMA TransferIsExcused ==
  ASSUME TypeInv, SigInv, NEW site \in Rates, NEW rate \in Rates, NEW f \in Fetches(site),
         NEW x, Observes(x, f, rate), NEW t \in Transfers(x)
  PROVE  Excused(Claim(Transfer, <<t.fp, t.seller>>, x.cycle), f, site)
<1> DEFINE k == <<t.fp, t.seller>>
<1>1. /\ k \in Vanished(x) /\ SafeToInferVanish(x, x.prev[k].price)
  BY DEF Transfers, SellersOf, Vanished
<1>2. Transfer # Instant
  BY DEF Transfer, Instant
<1>3. x.cycle = cycle + 1
  BY DEF Observes
<1>4. ASSUME k \in DOMAIN market, since[k] < cycle + 1
      PROVE  k \notin DOMAIN f /\ ~BeyondFetch(k, DOMAIN f, site)
  BY <1>1, <1>4, VanishedIsLeftOut
<1> QED BY <1>2, <1>3, <1>4 DEF Excused, Claim

LEMMA ClaimsExcused ==
  ASSUME TypeInv, SigInv, PendInv,
         NEW site \in Rates, NEW rate \in Rates, NEW f \in Fetches(site),
         NEW x, Observes(x, f, rate), NEW c \in ClaimsOf(x)
  PROVE  Excused(c, f, site) /\ c.removed \in Nat /\ c.removed <= cycle + 1
<1>1. x.cycle = cycle + 1 /\ cycle \in Nat
  BY DEF Observes, TypeInv
<1>2. CASE \E p \in CreditedPendings(x) : c = Claim(p.kind, p.key, p.removed)
  <2>1. PICK p \in CreditedPendings(x) : c = Claim(p.kind, p.key, p.removed)
    BY <1>2
  <2>2. p.removed \in Nat /\ p.removed <= cycle
    BY DEF CreditedPendings, Observes, TypeInv, PendingRows
  <2>3. Excused(c, f, site)
    BY <2>1, CreditedIsExcused
  <2> QED BY <1>1, <2>1, <2>2, <2>3 DEF Claim
<1>3. CASE \E p \in CountedAtOnce(x) : c = Claim(p.kind, p.key, p.removed)
  <2>1. PICK p \in CountedAtOnce(x) : c = Claim(p.kind, p.key, p.removed)
    BY <1>3
  <2>2. p.removed \in Nat /\ p.removed <= cycle + 1
    BY NewPendingsTyped DEF CountedAtOnce
  <2>3. Excused(c, f, site)
    BY <2>1, CountedIsExcused
  <2> QED BY <2>1, <2>2, <2>3 DEF Claim
<1>4. CASE \E k \in CountDecreases(x) : c = Claim(Instant, k, x.cycle)
  BY <1>1, <1>4, DecreaseIsExcused DEF Claim
<1>5. CASE \E t \in Transfers(x) : c = Claim(Transfer, <<t.fp, t.seller>>, x.cycle)
  BY <1>1, <1>5, TransferIsExcused DEF Claim
<1> QED BY <1>2, <1>3, <1>4, <1>5 DEF ClaimsOf

LEMMA PollStep ==
  ASSUME Inv, Poll
  PROVE  Inv'
<1> USE DEF Inv
<1> PICK site \in Rates, rate \in Rates, baseline \in Baselines :
      \E f \in Fetches(site) :
        /\ \E x \in Probed(Observation(f, rate, baseline)) : Evaluate(x)
        /\ unseen' = [k \in DOMAIN market |-> IF k \in DOMAIN f THEN 0 ELSE OneMore(unseen[k])]
        /\ missed' = {k \in DOMAIN market \ DOMAIN f :
                        k \in missed \/ ~BeyondFetch(k, DOMAIN f, site)}
  BY DEF Poll
<1>1. PICK f \in Fetches(site) :
        /\ \E x \in Probed(Observation(f, rate, baseline)) : Evaluate(x)
        /\ unseen' = [k \in DOMAIN market |-> IF k \in DOMAIN f THEN 0 ELSE OneMore(unseen[k])]
        /\ missed' = {k \in DOMAIN market \ DOMAIN f :
                        k \in missed \/ ~BeyondFetch(k, DOMAIN f, site)}
  OBVIOUS
<1>2. PICK x \in Probed(Observation(f, rate, baseline)) : Evaluate(x)
  BY <1>1
<1>3. Observes(x, f, rate)
  BY <1>2, ProbedObserves
<1>4. cycle' = cycle + 1 /\ market' = market /\ since' = since /\ cycle \in Nat
  BY DEF Poll, TypeInv
<1>5. /\ claims' = ClaimsOf(x) /\ sig' = Signals(f, rate)
      /\ pend' \subseteq VanishPendings(x) \cup StillPending(x)
  BY <1>2, <1>3 DEF Evaluate, NewPendings, Observes
<1>6. TypeInv'
  <2>1. cycle' \in Nat /\ \A k \in DOMAIN market : since[k] \in 0..(cycle' + 1)
    BY <1>4 DEF TypeInv
  <2>2. DOMAIN unseen' = DOMAIN market /\ \A k \in DOMAIN market : unseen'[k] \in Nat
    BY <1>1, UnseenTyped
  <2>3. missed' \subseteq DOMAIN market'
    BY <1>1, <1>4
  <2>4. IsLadder(sig)'
    <3>1. IsLadder(Signals(f, rate))
      BY FetchTyped
    <3> QED BY <1>5, <3>1 DEF IsLadder
  <2>5. \A p \in pend' : p \in PendingRows /\ p.removed <= cycle'
    BY <1>3, <1>4, <1>5, NewPendingsTyped
  <2>6. \A c \in claims' : c.removed \in Nat /\ c.removed <= cycle'
    BY <1>3, <1>4, <1>5, ClaimsExcused
  <2> QED BY <1>4, <2>1, <2>2, <2>3, <2>4, <2>5, <2>6 DEF TypeInv
<1>7. SigInv'
  <2> SUFFICES ASSUME NEW k \in DOMAIN f
               PROVE  PricedAs(k, sig[k].price)' /\ sig'[k].count <= market'[k].count
    BY <1>4, <1>5 DEF SigInv, Signals
  <2>1. sig'[k].price = MirrorEquivalent(market[k], rate) /\ sig'[k].count = f[k]
    BY <1>5 DEF Signals
  <2>2. MirrorEquivalent(market'[k], rate) = MirrorEquivalent(market[k], rate)
    BY <1>4 DEF MirrorEquivalent
  <2>3. f[k] <= market[k].count
    BY FetchTyped
  <2> QED BY <1>4, <2>1, <2>3 DEF PricedAs, MirrorEquivalent
<1>8. PendInv'
  <2> SUFFICES ASSUME NEW p \in pend', p.key \in DOMAIN market, since[p.key] < p.removed
               PROVE  /\ p.key \in missed'
                      /\ p.kind = Instant =>
                           /\ ~p.counted /\ JitterGrace > 0 /\ p.grace = JitterGrace
                           /\ PricedAs(p.key, p.price)'
                           /\ unseen'[p.key] >= Jitter \/ unseen'[p.key] > cycle' - p.removed
    BY <1>4 DEF PendInv
  <2>1. p \in PendingRows
    BY <1>6 DEF TypeInv
  <2>2. PricedAs(p.key, p.price)' = PricedAs(p.key, p.price)
    BY <1>4 DEF PricedAs, MirrorEquivalent
  <2>3. p.key \notin DOMAIN f => unseen'[p.key] = OneMore(unseen[p.key])
    BY <1>1
  <2>4. CASE p \in VanishPendings(x)
    <3>1. /\ p.key \notin DOMAIN f /\ ~BeyondFetch(p.key, DOMAIN f, site)
          /\ p.removed = cycle + 1
          /\ p.kind = Instant =>
               /\ ~p.counted /\ JitterGrace > 0 /\ p.grace = JitterGrace
               /\ PricedAs(p.key, p.price)
               /\ OneMore(unseen[p.key]) > 0
      BY <1>3, <2>4, NewPendingUnmoved
    <3>2. cycle' - p.removed = 0
      BY <1>4, <3>1
    <3> QED BY <1>1, <2>2, <2>3, <3>1, <3>2
  <2>5. CASE p \in StillPending(x)
    <3>1. /\ p.key \notin DOMAIN f /\ p.key \in missed
          /\ p.kind = Instant =>
               /\ ~p.counted /\ JitterGrace > 0 /\ p.grace = JitterGrace
               /\ PricedAs(p.key, p.price)
               /\ \/ OneMore(unseen[p.key]) >= Jitter
                  \/ OneMore(unseen[p.key]) > (cycle + 1) - p.removed
      BY <1>3, <2>5, StillPendingUnmoved
    <3> QED BY <1>1, <1>4, <2>2, <2>3, <3>1
  <2> QED BY <1>5, <2>4, <2>5
<1>9. ASSUME NEW c \in claims'
      PROVE  Gone(c)' \/ (c.rule # Instant /\ c.key \in missed')
  <2>1. Excused(c, f, site) /\ c.removed \in Nat
    BY <1>3, <1>5, ClaimsExcused
  <2>2. CASE c.key \notin DOMAIN market
    BY <1>4, <2>2 DEF Gone
  <2>3. CASE c.key \in DOMAIN market /\ since[c.key] >= c.removed
    BY <1>4, <2>3 DEF Gone
  <2>4. CASE c.key \in DOMAIN market /\ since[c.key] < c.removed
    BY <1>1, <2>1, <2>4 DEF Excused
  <2>5. c.key \in DOMAIN market => since[c.key] \in Nat
    BY DEF TypeInv
  <2> QED BY <2>1, <2>2, <2>3, <2>4, <2>5
<1>10. UnmovedBuyoutNeverSold'
  BY <1>9 DEF UnmovedBuyoutNeverSold
<1>11. UnmovedNeverSold'
  BY <1>9 DEF UnmovedNeverSold
<1> QED BY <1>6, <1>7, <1>8, <1>10, <1>11

LEMMA InitInv == Init => Inv
<1> SUFFICES ASSUME Init PROVE Inv
  OBVIOUS
<1>1. /\ market = <<>> /\ since = <<>> /\ unseen = <<>> /\ sig = <<>>
      /\ missed = {} /\ pend = {} /\ claims = {} /\ cycle = 0
  BY DEF Init
<1>2. DOMAIN market = {} /\ DOMAIN since = {} /\ DOMAIN unseen = {} /\ DOMAIN sig = {}
  BY <1>1
<1>3. IsLadder(sig)
  <2>1. sig = [k \in DOMAIN sig |-> sig[k]]
    BY <1>1
  <2> QED BY <1>2, <2>1 DEF IsLadder
<1>4. TypeInv
  BY <1>1, <1>2, <1>3 DEF TypeInv
<1>5. SigInv /\ PendInv /\ UnmovedBuyoutNeverSold /\ UnmovedNeverSold
  BY <1>1, <1>2 DEF SigInv, PendInv, UnmovedBuyoutNeverSold, UnmovedNeverSold
<1> QED BY <1>4, <1>5 DEF Inv

LEMMA StutterStep ==
  ASSUME Inv, UNCHANGED vars
  PROVE  Inv'
<1>1. /\ market' = market /\ since' = since /\ unseen' = unseen /\ missed' = missed
      /\ cycle' = cycle /\ sig' = sig /\ pend' = pend /\ claims' = claims
  BY DEF vars
<1> QED BY <1>1 DEF Inv, TypeInv, SigInv, PendInv, PricedAs, IsLadder, Gone,
                    UnmovedBuyoutNeverSold, UnmovedNeverSold

\* The invariant, of which the two properties are conjuncts: every market that
\* sellers can make and every answer the site can give.
THEOREM MarketInvariant == Spec => []Inv
<1>1. Init => Inv
  BY InitInv
<1>2. Inv /\ [Next]_vars => Inv'
  BY PlaceStep, RemoveStep, PollStep, StutterStep DEF Next
<1> QED BY <1>1, <1>2, PTL DEF Spec

\* A buyout listing that stays on the market as it is never counts as sold, for
\* every fetch cap, every ladder, every rate within the margin (rules 2 and 2b).
THEOREM MarketBuyouts == Spec => []UnmovedBuyoutNeverSold
<1>1. Inv => UnmovedBuyoutNeverSold
  BY DEF Inv
<1> QED BY <1>1, MarketInvariant, PTL

\* No listing the site has not left out of an answer counts as sold or as
\* transferred while it stays on the market as it is (rules 1, 2c and 4b).
THEOREM MarketUnmoved == Spec => []UnmovedNeverSold
<1>1. Inv => UnmovedNeverSold
  BY DEF Inv
<1> QED BY <1>1, MarketInvariant, PTL
=============================================================================
