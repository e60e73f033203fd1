---------------------------- MODULE PollerOutput -----------------------------
(***************************************************************************)
(* What the poller does to the outside in a cycle besides storing polls:    *)
(* its price-drop alerts, its new-items channel, its ops alerts (with the   *)
(* probe's) and its requests to the trade API.  These share no state (the   *)
(* alerts of a variant read the poll, the limiter reads headers), so each   *)
(* is followed on its own: "part" is the one that moves.                    *)
(***************************************************************************)
EXTENDS PriceAlerts, NewItemAlerts, OpsAlerts, RateLimiter

VARIABLE part

outputVars == <<part, alertVars, itemVars, opsVars, limiterVars>>

Init ==
  /\ part \in {"price", "items", "ops", "pacing"}
  /\ AlertInit /\ ItemInit /\ OpsInit /\ LimiterInit
  /\ part # "price" => ~filtered /\ row = NoAlert

Next ==
  /\ UNCHANGED part
  /\ \/ part = "price" /\ AlertNext /\ UNCHANGED <<itemVars, opsVars, limiterVars>>
     \/ part = "items" /\ ItemNext /\ UNCHANGED <<alertVars, opsVars, limiterVars>>
     \/ part = "ops" /\ OpsNext /\ UNCHANGED <<alertVars, itemVars, limiterVars>>
     \/ part = "pacing" /\ LimiterNext /\ UNCHANGED <<alertVars, itemVars, opsVars>>

Spec == Init /\ [][Next]_outputVars
-----------------------------------------------------------------------------
(* Properties *)

\* Nobody waits for an alert longer than its cooldown: not for another seller's
\* listing at the price of the last alert, nor for a trouble that was found.
NoAlertWithheld == AlertTypeOK /\ OpsTypeOK /\ HeldBackForCooldown /\ TroubleIsTold

\* Nobody is told of the same listing or the same trouble twice in a cooldown.
ToldOncePerCooldown == []ItemTypeOK /\ AnnouncedOncePerCooldown /\ OncePerCooldown

\* The pacing leaves room for a request it does not pace, and while a refusal it was
\* told of lasts it sends nothing that the refusal is about.
RequestsArePaced == [](LimiterTypeOK /\ RoomForOne) /\ BlockHonoured

\* Instance: two sellers; two divine prices and the price that hides them; two ratios.
MCPrices == {[cur |-> "divine", amt |-> 60], [cur |-> "divine", amt |-> 90], [cur |-> "mirror", amt |-> 1]}

\* Two rolls of one seller, and one of them with another seller.
MCListings == {[fp |-> "a", seller |-> "s"], [fp |-> "b", seller |-> "s"], [fp |-> "a", seller |-> "t"]}

MCLimits == {[max |-> 3, span |-> 30]}
=============================================================================
