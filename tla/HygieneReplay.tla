--------------------------- MODULE HygieneReplay ----------------------------
(***************************************************************************)
(* The sale pipeline with scripts/revert_fake_sales.py run against its     *)
(* database: plan_reverts of storage/sale_hygiene.py lists the sales that  *)
(* the rules of the poller would not have counted, apply_reverts marks     *)
(* them.  The script reads its plan before its transaction begins, so the  *)
(* poller may write between the two.                                       *)
(***************************************************************************)
EXTENDS PipelineLedger

VARIABLES
  shown,   \* the sellers in the listing_snapshots of each poll, how many
  script,  \* off, or planned between plan_reverts and apply_reverts
  planned  \* the plan: the sales to revert, and the polls there were

replayVars == <<shown, script, planned>>
allVars == <<vars, replayVars>>

NothingPlanned == [rows |-> {}, upTo |-> 0]

ReplayInit == Init /\ shown = <<>> /\ script = "off" /\ planned = NothingPlanned

-----------------------------------------------------------------------------
(* plan_reverts.                                                           *)

VanishSalesOf(i) == {s \in ActiveSales : s.rule # Transfer /\ s.poll = i}

SellersBefore(i) == IF i = 1 THEN 0 ELSE shown[i - 1]

\* Rule 8 on the stored rows of a poll and of the poll before it.
IsMassVanishPoll(i) ==
  LET n == Cardinality({s.seller : s \in VanishSalesOf(i)})
      before == SellersBefore(i)
  IN  /\ n >= MassVanishMinSellers
      /\ 100 * n >= MassVanishSharePct * (IF before = 0 THEN 1 ELSE before)

MassVanishPlan == UNION {VanishSalesOf(i) : i \in {j \in DOMAIN polls : IsMassVanishPoll(j)}}

\* Mutant: a burst is one item's.
SamePollAndKey(s, t) == s.poll = t.poll /\ KeyOf(s) = KeyOf(t)

SamePollAndSeller(s, t) == s.poll = t.poll /\ s.seller = t.seller

\* Rule 9: all but one sale of a seller in a poll.  The code keeps the row with
\* the lowest id, which may be any of them.
BurstPlans ==
  LET rest == {s \in ActiveSales \ MassVanishPlan : s.rule # Transfer}
  IN  {S \in SUBSET rest :
         \A s \in rest : Cardinality({t \in rest \ S : SamePollAndSeller(s, t)}) = 1}

BetweenThem(s, t) == {s.seller, s.buyer} = {t.seller, t.buyer}

PingPongPlan ==
  {s \in ActiveSales : /\ s.rule = Transfer
                       /\ \E t \in ActiveSales \ {s} : t.rule = Transfer /\ BetweenThem(s, t)}

\* What the rules for single polls and for pairs of sellers plan.
RulePlans == {MassVanishPlan \cup burst \cup PingPongPlan : burst \in BurstPlans}

AnomalyPlan(rows) ==
  UNION {SalesOn(rows, day) : day \in {d \in SaleDays(rows) : IsAnomalyDay(rows, d)}}

Plans == {plan \cup AnomalyPlan(ActiveSales \ plan) : plan \in RulePlans}

-----------------------------------------------------------------------------
(* The script, and the pipeline under it.                                  *)

PlanReverts ==
  /\ script = "off"
  /\ \E plan \in Plans : planned' = [rows |-> plan, upTo |-> Len(polls)]
  /\ script' = "planned"
  /\ UNCHANGED <<vars, shown>>

\* Rows that have been reverted meanwhile stay as they are.
ApplyReverts ==
  /\ script = "planned"
  /\ sales' = Reverting(planned.rows \cap ActiveSales)
  /\ polls' = IF planned.rows = {} THEN polls ELSE RebuiltPolls(sales')
  /\ script' = "off" /\ planned' = NothingPlanned
  /\ UNCHANGED <<cycle, dbCycle, phase, sig, pend, held, probed, marking, alerted, shown>>

\* How many sellers the stored preview of the ladder can name.
SellersShown(curr) == {Cardinality({k[2] : k \in preview}) : preview \in Previews(curr)}

StoresSnapshots ==
  IF PollStored THEN \E n \in SellersShown(sig') : shown' = Append(shown, n)
  ELSE IF polls' = <<>> THEN shown' = <<>>
  ELSE UNCHANGED shown

ReplayNext ==
  \/ Next /\ StoresSnapshots /\ UNCHANGED <<script, planned>>
  \/ PlanReverts
  \/ ApplyReverts

ReplaySpec == ReplayInit /\ [][ReplayNext]_allVars

-----------------------------------------------------------------------------
(* Properties.                                                             *)

\* After a replay a seller has one sale in a poll at most and no two sellers have
\* two transfers between them, among the polls that the script has seen, whatever
\* the poller reverted or recorded between plan and apply.
ReplaySettles ==
  [][script = "planned" /\ script' = "off" =>
       LET left == {s \in sales' : Active(s) /\ s.poll <= planned.upTo}
       IN  \A s, t \in left : s # t =>
             /\ s.rule = Transfer /\ t.rule = Transfer => ~BetweenThem(s, t)
             /\ s.rule # Transfer /\ t.rule # Transfer /\ s.seller = t.seller => s.poll # t.poll]_allVars

\* The two implementations of rule 8 agree: what the engine let through, on the
\* state it keeps, is no mass vanish to the script, on the rows that were stored,
\* as long as the stored preview shows the whole ladder.
LiveSalesAreNoMassVanish == MassVanishPlan = {}

=============================================================================
