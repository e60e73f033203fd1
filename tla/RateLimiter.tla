----------------------------- MODULE RateLimiter -----------------------------
(***************************************************************************)
(* AdaptiveRateLimiter (poller/poll_item_prices.py) and the trade API it    *)
(* paces: the poller sends one request at a time, waits before each by what *)
(* the headers of earlier answers said, and the server counts the requests  *)
(* of an address in sliding windows, refusing what is over a limit and      *)
(* blocking the address for a while.  The server is external: it is what    *)
(* the headers the code reads say it is.                                    *)
(*                                                                         *)
(* Time is a clock of ticks; windows and waits are counted in ticks.        *)
(***************************************************************************)
EXTENDS Integers, Sequences, FiniteSetsExt

CONSTANTS
  Buckets,             \* the endpoints: search, fetch, exchange
  Policies,            \* what X-Rate-Limit-Policy may say
  Limits,              \* the windows of a policy: [max |-> ..., span |-> ...]
  ReservePct,          \* reserve_ratio
  Penalty,             \* how long the server blocks an address
  MaxDisturbances      \* bound: requests of others, answers without headers, restarts

\* The natural delay, 1.1 times span by max, is a whole number of ticks.
ASSUME LimiterAssumption ==
  /\ IsFiniteSet(Buckets) /\ IsFiniteSet(Policies) /\ Policies # {}
  /\ IsFiniteSet(Limits) /\ Limits # {}
  /\ \A w \in Limits : w.max \in Nat \ {0} /\ w.span \in Nat \ {0} /\ (11 * w.span) % (10 * w.max) = 0
  /\ {ReservePct, Penalty, MaxDisturbances} \subseteq Nat

VARIABLES
  policyOf,    \* the policy the server applies to a bucket
  log,         \* the server's: ages of the requests it counted, the newest first
  blocked,     \* the server's: ticks until a block ends
  known,       \* _bucket_policy: the buckets whose policy an answer has named
  wait,        \* _next_allowed_at, per policy, as ticks from now
  toldBlock,   \* history: ticks left of a block the process was told of
  unpaced,     \* history, per policy: requests no wait was kept before, or told of after
  disturbed    \* how many disturbances there were

limiterVars == <<policyOf, log, blocked, known, wait, toldBlock, unpaced, disturbed>>

LimiterInit ==
  /\ policyOf \in [Buckets -> Policies]
  /\ log = [p \in Policies |-> <<>>] /\ blocked = [p \in Policies |-> 0]
  /\ known = {} /\ wait = [p \in Policies |-> 0]
  /\ toldBlock = [p \in Policies |-> 0]
  /\ unpaced = [p \in Policies |-> 0] /\ disturbed = 0

-----------------------------------------------------------------------------
(* The server *)

Used(ages, w) == Cardinality({i \in DOMAIN ages : ages[i] < w.span})

Refuses(p) == blocked[p] > 0 \/ \E w \in Limits : Used(log[p], w) >= w.max

\* A request that is over a limit is not counted and starts a block.
Counts(p) ==
  IF Refuses(p)
  THEN /\ log' = log
       /\ blocked' = [blocked EXCEPT ![p] = IF @ > 0 THEN @ ELSE Penalty]
  ELSE log' = [log EXCEPT ![p] = <<0>> \o @] /\ blocked' = blocked

-----------------------------------------------------------------------------
(* The client *)

\* _reserve_budget
Reserve(max) ==
  IF max <= 1 THEN 0 ELSE Min({max - 1, Max({1, (max * ReservePct + 99) \div 100})})

NaturalDelay(w) == (11 * w.span) \div (10 * w.max)

\* What the headers of an answer say of each window: its use and the rest of a block
Windows(ages, block) ==
  {[max |-> w.max, span |-> w.span, used |-> Used(ages, w), retry |-> block] : w \in Limits}

\* The candidate wait of a window
PacedWait(w) ==
  LET remaining == Max({0, w.max - w.used}) IN
    NaturalDelay(w) *
      (IF remaining <= Reserve(w.max) THEN 4
       ELSE IF 100 * remaining <= 8 * w.max THEN 3
       ELSE IF 100 * remaining <= 15 * w.max THEN 2
       ELSE 1)

BlockWait(w, refused) ==
  IF w.retry > 0 /\ (refused \/ w.max - w.used <= Reserve(w.max)) THEN w.retry + 1 ELSE 0

\* Mutant: the wait of a block alone, without pacing.
ComputedBlockWait(windows, refused) == Max({BlockWait(w, refused) : w \in windows})

\* _compute_wait_seconds
ComputedWait(windows, refused) == Max(UNION {{PacedWait(w), BlockWait(w, refused)} : w \in windows})

MayRequest(b) == b \in known => wait[policyOf[b]] = 0

NotPaced(p) == unpaced' = [unpaced EXCEPT ![p] = Min({@ + 1, 3})]

\* An answer comes at once, with its headers: wait_before_request, post, update_from_response.
Request(b) ==
  LET p == policyOf[b] IN
    /\ MayRequest(b)
    /\ Counts(p)
    /\ known' = known \union {b}
    /\ wait' = [wait EXCEPT ![p] = Max({@, ComputedWait(Windows(log'[p], blocked'[p]), Refuses(p))})]
    /\ toldBlock' = [toldBlock EXCEPT ![p] = IF Refuses(p) THEN blocked'[p] ELSE @]
    /\ IF b \in known THEN UNCHANGED unpaced ELSE NotPaced(p)
    /\ UNCHANGED <<policyOf, disturbed>>

Disturbs == disturbed < MaxDisturbances /\ disturbed' = disturbed + 1

\* The request is counted, but its answer is lost or has no rate-limit headers.
RequestUnanswered(b) ==
  /\ MayRequest(b)
  /\ Counts(policyOf[b]) /\ NotPaced(policyOf[b])
  /\ Disturbs
  /\ UNCHANGED <<policyOf, known, wait, toldBlock>>

\* Somebody at the same address uses the trade site.
OthersRequest(p) ==
  /\ Counts(p) /\ NotPaced(p)
  /\ Disturbs
  /\ UNCHANGED <<policyOf, known, wait, toldBlock>>

LimiterRestarts ==
  /\ known # {}
  /\ known' = {} /\ wait' = [p \in Policies |-> 0] /\ toldBlock' = [p \in Policies |-> 0]
  /\ Disturbs
  /\ UNCHANGED <<policyOf, log, blocked, unpaced>>

-----------------------------------------------------------------------------
Longest == Max({w.span : w \in Limits})

\* A tick later, without the requests that have left every window: the oldest ones.
Aged(ages) ==
  [i \in 1..Cardinality({j \in DOMAIN ages : ages[j] + 1 < Longest}) |-> ages[i] + 1]

Sooner(ticks) == [p \in Policies |-> Max({0, ticks[p] - 1})]

Tick ==
  /\ log' = [p \in Policies |-> Aged(log[p])]
  /\ blocked' = Sooner(blocked) /\ wait' = Sooner(wait) /\ toldBlock' = Sooner(toldBlock)
  /\ UNCHANGED <<policyOf, known, unpaced, disturbed>>

LimiterNext ==
  \/ \E b \in Buckets : Request(b) \/ RequestUnanswered(b)
  \/ \E p \in Policies : OthersRequest(p)
  \/ LimiterRestarts
  \/ Tick

-----------------------------------------------------------------------------
(* Properties *)

LimiterTypeOK ==
  /\ policyOf \in [Buckets -> Policies] /\ known \subseteq Buckets
  /\ \A p \in Policies : /\ \A i \in DOMAIN log[p] : log[p][i] \in 0..(Longest - 1)
                         /\ blocked[p] \in 0..Penalty /\ toldBlock[p] \in 0..blocked[p]
                         /\ wait[p] \in Nat
  /\ disturbed \in 0..MaxDisturbances

\* The pacing keeps room for one request it did not pace: the server refuses nothing as long
\* as there were at most two such requests, the first one of the process among them.
RoomForOne == \A p \in Policies : unpaced[p] <= 2 => blocked[p] = 0

\* While a block that this process was told of lasts, it sends nothing to a bucket it knows to
\* be under the policy, however its waits were computed in between.
BlockHonoured ==
  [][\A b \in known : Request(b) => toldBlock[policyOf[b]] = 0]_limiterVars
=============================================================================
