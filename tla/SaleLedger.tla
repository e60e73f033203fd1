----------------------------- MODULE SaleLedger -----------------------------
(***************************************************************************)
(* What the sales table promises to whoever adds up sales: a sale is       *)
(* entered once, by the poll that inferred it; it counts until it is       *)
(* undone; it never counts again after that.  Only clearing the market     *)
(* data takes entries out of the ledger.                                   *)
(***************************************************************************)
EXTENDS Integers

VARIABLES
  counted, \* the sales that count, each with the poll that entered it
  undone,  \* the sales that were reverted
  booked   \* how many polls have been stored

vars == <<counted, undone, booked>>

Init == counted = {} /\ undone = {} /\ booked = 0

\* Sales stop counting, none is entered.
Undo ==
  /\ counted' \subseteq counted
  /\ undone' = undone \cup (counted \ counted')
  /\ booked' = booked

\* The next poll enters its sales; it may undo others at the same time.
Book ==
  /\ booked' = booked + 1
  /\ \A s \in counted' \ counted : s.poll = booked'
  /\ undone' = undone \cup (counted \ counted')

Clear == counted' = {} /\ undone' = {} /\ booked' = 0

Next == Undo \/ Book \/ Clear

Spec == Init /\ [][Next]_vars

-----------------------------------------------------------------------------
\* No sale both counts and is undone, and each was entered by a stored poll.
Consistent ==
  /\ booked \in Nat
  /\ counted \cap undone = {}
  /\ \A s \in counted \cup undone : s.poll \in 1..booked

\* Until the market data is cleared, a sale that was undone stays undone.
UndoneForGood ==
  [][booked' # 0 => \A s \in undone : s \in undone' /\ s \notin counted']_vars
=============================================================================
