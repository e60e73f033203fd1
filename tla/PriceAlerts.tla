----------------------------- MODULE PriceAlerts -----------------------------
(***************************************************************************)
(* The price-drop alerts of one item variant: the alert check at the end of *)
(* the poll of a variant (run_cycle in poller/poll_item_prices.py), what it *)
(* remembers (the medians it takes its baseline from, and the last alert),  *)
(* the row of price_alert_cooldown that outlives the process, and what a    *)
(* fresh process seeds its memory from.                                     *)
(*                                                                         *)
(* Whether the cheapest price is far enough below the baseline, deep enough *)
(* and worth flipping is a choice; whether it repeats an alert is not.      *)
(***************************************************************************)
EXTENDS Integers, FiniteSetsExt

CONSTANTS
  Sellers,                      \* numbers from 1: the least one is the name that sorts first
  Prices,                       \* [cur |-> "mirror" or "divine", amt |-> a natural number]
  Ratios,                       \* how many divines a mirror may cost
  HistoryCycles, CooldownCycles,
  MaxCycles, MaxAlertFaults     \* bounds: cycle numbers; crashes, failed cycles and clears

ASSUME AlertAssumption ==
  /\ Sellers \subseteq Nat \ {0} /\ IsFiniteSet(Sellers)
  /\ Prices \subseteq [cur : {"mirror", "divine"}, amt : Nat \ {0}] /\ IsFiniteSet(Prices)
  /\ Ratios \subseteq Nat \ {0} /\ Ratios # {}
  /\ {HistoryCycles, MaxCycles} \subseteq Nat \ {0} /\ {CooldownCycles, MaxAlertFaults} \subseteq Nat

VARIABLES
  filtered,   \* the variant has an image filter
  poller,     \* where the process is: "down", "idle", "send" or "store"
  cycle,      \* its cycle number
  history,    \* how many medians price_history holds for the variant
  lastAlert,  \* alert_state
  row,        \* price_alert_cooldown
  polls,      \* the variant's stored polls with a median
  lastCycle,  \* the greatest cycle_number of poll_runs
  deal,       \* the alert check of the poll under way, or of the last one
  posted,     \* history: the last alert handed to Discord, with its time
  alertSpent, alertTorn   \* faults so far; history: which of them may excuse an alert

alertVars == <<filtered, poller, cycle, history, lastAlert, row, polls, lastCycle, deal, posted,
               alertSpent, alertTorn>>

NoPrice == [cur |-> "", amt |-> 0]
NoMirror == [num |-> 0, den |-> 1]
NoAlert == [cycle |-> -1, low |-> NoMirror, price |-> NoPrice, seller |-> 0]
NoDeal == [low |-> NoMirror, cheapest |-> NoPrice, sellers |-> {}, hidden |-> FALSE,
           silenced |-> FALSE]

\* to_mirror_equivalent, as a fraction
Mirrors(p, ratio) == [num |-> IF p.cur = "mirror" THEN p.amt * ratio ELSE p.amt, den |-> ratio]
Below(a, b) == a.num * b.den < b.num * a.den

\* A row written before the identity of the listing was stored.
LegacyRow == [NoAlert EXCEPT !.cycle = 0, !.low = [num |-> 3, den |-> 5]]

AlertInit ==
  /\ filtered \in BOOLEAN
  /\ poller = "down" /\ cycle = 0 /\ history = 0 /\ lastAlert = NoAlert
  /\ row \in {NoAlert, LegacyRow}
  /\ polls = 0 /\ lastCycle = 0
  /\ deal = NoDeal
  /\ posted = [price |-> NoPrice, seller |-> 0, hidden |-> FALSE, age |-> 0]
  /\ alertSpent = 0
  /\ alertTorn = {}

-----------------------------------------------------------------------------
(* What the poll saw.  offers maps a seller to his price or to NoPrice.  The
   ladder of the trade site may hide divine prices below a listing of one
   mirror; a second search, for divines only, then brings them in. *)

Selling(offers) == {s \in Sellers : offers[s] # NoPrice}

MayHide(offers) ==
  IF [cur |-> "mirror", amt |-> 1] \in {offers[s] : s \in Selling(offers)}
  THEN {s \in Selling(offers) : offers[s].cur = "divine"} ELSE {}

SecondSearch(offers, shown) ==
  /\ \E s \in shown : offers[s] = [cur |-> "mirror", amt |-> 1]
  /\ Cardinality({s \in shown : offers[s].cur = "divine"}) <= 1

Priced(offers, shown) ==
  IF SecondSearch(offers, shown)
  THEN shown \union {s \in Selling(offers) : offers[s].cur = "divine"} ELSE shown

Cheapest(offers, among, ratio) ==
  CHOOSE p \in {offers[s] : s \in among} :
    \A s \in among : ~Below(Mirrors(offers[s], ratio), Mirrors(p, ratio))

\* sellers_listed_at_price, of the ladder alone
SellersAt(offers, shown, p) == {s \in shown : offers[s] = p}

Deal(offers, shown, ratio) ==
  LET low == Cheapest(offers, Priced(offers, shown), ratio)
      seen == Cheapest(offers, shown, ratio) IN
    [low |-> Mirrors(low, ratio), cheapest |-> seen, sellers |-> SellersAt(offers, shown, seen),
     hidden |-> low # seen, silenced |-> FALSE]

-----------------------------------------------------------------------------
(* The check *)

Diff(a, b) == IF a < b THEN b - a ELSE a - b

\* Mutant: mirror values are compared, whatever the currency.
SamePriceInMirrors(last, d) ==
  100 * Diff(last.low.num * d.low.den, d.low.num * last.low.den)
    <= Max({last.low.den * d.low.den, last.low.num * d.low.den})

\* Native amounts when both are in one currency other than mirrors, mirror values otherwise.
SamePrice(last, d) ==
  IF last.price.cur = d.cheapest.cur /\ last.price.cur = "divine"
  THEN 200 * Diff(last.price.amt, d.cheapest.amt) <= Max({100, 2 * last.price.amt})
  ELSE 100 * Diff(last.low.num * d.low.den, d.low.num * last.low.den)
         <= Max({last.low.den * d.low.den, last.low.num * d.low.den})

\* is_repeat_price_alert
IsRepeat(last, d, now) ==
  /\ last # NoAlert
  /\ SamePrice(last, d)
  /\ \/ last.seller = 0 \/ last.seller \in d.sellers
     \/ now - last.cycle < CooldownCycles

\* The process keeps three times as many; the check needs no more than this.
Longer(n) == Min({n + 1, HistoryCycles})

\* Alerts are off in the configuration just read, or the thresholds are not met, or they are.
Checks == {"off", "calm", "drop"}

\* A poll is stored and its prices are checked; ratio is the mirror price of this cycle.
PollVariant(offers, shown, ratio, check) ==
  /\ poller = "idle" /\ cycle < MaxCycles
  /\ cycle' = cycle + 1 /\ lastCycle' = cycle + 1
  /\ LET priced == shown # {}
         d == Deal(offers, shown, ratio)
         due == priced /\ check = "drop" /\ history >= HistoryCycles
         again == due /\ IsRepeat(lastAlert, d, cycle + 1) IN
       /\ deal' = IF due THEN [d EXCEPT !.silenced = again] ELSE NoDeal
       /\ poller' = IF due /\ ~again THEN "send" ELSE "idle"
       /\ polls' = IF priced THEN Longer(polls) ELSE polls
       /\ history' = IF priced /\ check # "off" /\ poller' = "idle" THEN Longer(history) ELSE history
  /\ posted' = [posted EXCEPT !.age = Min({@ + 1, CooldownCycles})]
  /\ UNCHANGED <<filtered, lastAlert, row, alertSpent, alertTorn>>

\* send_discord_alert swallows a failed post; the alert is remembered either way.
SendAlert ==
  /\ poller = "send"
  /\ poller' = "store"
  /\ lastAlert' = [cycle |-> cycle, low |-> deal.low, price |-> deal.cheapest,
                   seller |-> IF deal.sellers = {} THEN 0 ELSE Min(deal.sellers)]
  /\ posted' = [price |-> deal.cheapest, seller |-> lastAlert'.seller, hidden |-> deal.hidden,
                age |-> 0]
  /\ alertTorn' = alertTorn \ {"unsaved"}
  /\ UNCHANGED <<filtered, cycle, history, row, polls, lastCycle, deal, alertSpent>>

\* upsert_price_alert_cooldown, and the median is added to the history
StoreAlert ==
  /\ poller = "store"
  /\ poller' = "idle"
  /\ row' = lastAlert
  /\ history' = Longer(history)
  /\ deal' = NoDeal
  /\ UNCHANGED <<filtered, cycle, lastAlert, polls, lastCycle, posted, alertSpent, alertTorn>>

-----------------------------------------------------------------------------
(* Faults and restarts *)

Faults(e) == alertSpent < MaxAlertFaults /\ alertSpent' = alertSpent + 1 /\ alertTorn' = alertTorn \union e

\* A request fails before the poll is stored: only the number of the cycle has moved.
CycleFails ==
  /\ poller = "idle" /\ cycle < MaxCycles
  /\ cycle' = cycle + 1
  /\ Faults({})
  /\ UNCHANGED <<filtered, poller, history, lastAlert, row, polls, lastCycle, deal, posted>>

PollerDies ==
  /\ poller # "down"
  /\ poller' = "down" /\ cycle' = 0 /\ history' = 0 /\ lastAlert' = NoAlert
  /\ deal' = NoDeal
  /\ Faults(IF poller = "store" THEN {"unsaved"} ELSE {})
  /\ UNCHANGED <<filtered, row, polls, lastCycle, posted>>

\* seed_price_history_from_db groups the medians by name and mode; run_cycle looks them up by
\* a key that also has the image filter.
SeededHistory == IF filtered THEN 0 ELSE Min({polls, HistoryCycles})

\* Mutant: a fresh process begins to count its cycles again.
SeededCycleZero == 0

SeededCycle == lastCycle

PollerStarts ==
  /\ poller = "down"
  /\ poller' = "idle"
  /\ cycle' = SeededCycle
  /\ history' = SeededHistory
  /\ lastAlert' = row
  /\ UNCHANGED <<filtered, row, polls, lastCycle, deal, posted, alertSpent, alertTorn>>

\* The admin clears the market tables: polls and runs, but not price_alert_cooldown.
AdminClears ==
  /\ polls' = 0 /\ lastCycle' = 0
  /\ Faults({"cleared"})
  /\ UNCHANGED <<filtered, poller, cycle, history, lastAlert, row, deal, posted>>

AlertNext ==
  \/ \E offers \in [Sellers -> Prices \union {NoPrice}] :
       \E hidden \in SUBSET MayHide(offers), ratio \in Ratios, check \in Checks :
         PollVariant(offers, Selling(offers) \ hidden, ratio, check)
  \/ SendAlert \/ StoreAlert
  \/ CycleFails \/ PollerDies \/ PollerStarts \/ AdminClears

-----------------------------------------------------------------------------
(* Properties *)

AlertTypeOK ==
  /\ filtered \in BOOLEAN
  /\ poller \in {"down", "idle", "send", "store"}
  /\ cycle \in 0..MaxCycles /\ lastCycle \in 0..MaxCycles
  /\ history \in 0..HistoryCycles /\ polls \in 0..HistoryCycles
  /\ \A a \in {lastAlert, row} : /\ a.cycle \in -1..MaxCycles /\ a.seller \in Sellers \union {0}
                                 /\ a.price \in Prices \union {NoPrice}
  /\ deal.sellers \subseteq Sellers /\ deal.cheapest \in Prices \union {NoPrice}
  /\ alertSpent \in 0..MaxAlertFaults /\ alertTorn \subseteq {"unsaved", "cleared"}

\* The listing of the last alert is not alerted again while it keeps its native price, however
\* many cycles, restarts, clears and moves of the mirror price lie between; except when the
\* process died between post and row, and when the price came from the divines-only search.
LastAlertedStaysQuiet ==
  [][(SendAlert /\ ~deal.hidden /\ ~posted.hidden /\ "unsaved" \notin alertTorn)
       => ~(posted.price = deal.cheapest /\ posted.seller \in deal.sellers)]_alertVars

\* Another seller's listing at the price of the last alert is held back for CooldownCycles
\* polls at most, across restarts and failed cycles; a clear, which makes the cycle numbers
\* begin again, is excepted.
HeldBackForCooldown ==
  (deal.silenced /\ lastAlert.seller \notin deal.sellers \union {0} /\ "cleared" \notin alertTorn)
    => posted.age < CooldownCycles

\* "Prime in-memory price history from SQLite (median_mirror per variant)."
HistorySurvivesRestart ==
  [][PollerStarts => history' = Min({polls, HistoryCycles})]_alertVars
=============================================================================
