---------------------------- MODULE NewItemAlerts ----------------------------
(***************************************************************************)
(* The new-items channel of one item variant: classify_new_items            *)
(* (poller/new_item_classifier.py) and its caller at the end of a poll      *)
(* (run_cycle in poller/poll_item_prices.py).  A listing is a pair of a     *)
(* fingerprint and a seller.  A poll stores its listings twice: as the      *)
(* signals of the next comparison and as snapshot rows, where listings of   *)
(* one seller at one price are merged into one row.                         *)
(***************************************************************************)
EXTENDS Integers, FiniteSetsExt

CONSTANTS
  Listings,               \* [fp |-> ..., seller |-> ...]
  NewItemCooldown,        \* new_items_cooldown_cycles
  ReturnMinCycles,        \* new_items_return_min_cycles
  MaxItemCycles, MaxItemFaults

ASSUME NewItemAssumption ==
  /\ IsFiniteSet(Listings) /\ \A p \in Listings : DOMAIN p = {"fp", "seller"}
  /\ {NewItemCooldown, MaxItemFaults} \subseteq Nat
  /\ {ReturnMinCycles, MaxItemCycles} \subseteq Nat \ {0}

VARIABLES
  worker,      \* where the process is: "down", "idle", "post" or "store"
  itemCycle,   \* its cycle number
  storedCycle, \* the greatest cycle_number of poll_runs
  signals,     \* the variant's inference_state_signals
  lastSeen,    \* per listing: the last cycle with a snapshot row of it, or 0
  lastTold,    \* new_item_alert_cooldown, per listing: the cycle, or 0
  news,        \* the classified listings, and which of them were transfers
  sinceSeen, sinceTold,   \* history: cycles begun since the listing was up, or was posted
  itemSpent, itemTorn     \* faults; history: listings whose row was lost, or merged away

itemVars == <<worker, itemCycle, storedCycle, signals, lastSeen, lastTold, news, sinceSeen,
              sinceTold, itemSpent, itemTorn>>

NoNews == [listings |-> {}, transfers |-> {}]
Long == Max({NewItemCooldown, ReturnMinCycles})      \* the ages that matter are below this

ItemInit ==
  /\ worker = "down" /\ itemCycle = 0 /\ storedCycle = 0
  /\ signals = {} /\ lastSeen = [p \in Listings |-> 0] /\ lastTold = [p \in Listings |-> 0]
  /\ news = NoNews
  /\ sinceSeen = [p \in Listings |-> Long] /\ sinceTold = [p \in Listings |-> Long]
  /\ itemSpent = 0
  /\ itemTorn = [untold |-> {}, unseen |-> {}, cleared |-> FALSE]

Ages(since) == [p \in Listings |-> Min({since[p] + 1, Long})]

-----------------------------------------------------------------------------
(* classify_new_items *)

\* New ones that are not instant, have no price or lie above a truncated floor, and the relists
\* among the events of the engine and its pending rows
MaySkip(up) == SUBSET (up \ signals)

\* Confirmed transfers: the roll was another seller's in the poll before.
MayMove(up) == {p \in up \ signals : \E q \in signals \ up : q.fp = p.fp}

\* Mutant: one cycle short
CoolingDownShort(p, c) == lastTold[p] # 0 /\ c - lastTold[p] + 1 < NewItemCooldown

CoolingDown(p, c) == lastTold[p] # 0 /\ c - lastTold[p] < NewItemCooldown

\* Mutant: the gap is counted with both of its ends.
JustRelistedShort(p, c) == lastSeen[p] # 0 /\ c - lastSeen[p] + 1 < ReturnMinCycles

\* "Same seller+roll reappeared after a short gap"
JustRelisted(p, c) == lastSeen[p] # 0 /\ c - lastSeen[p] < ReturnMinCycles

Classified(up, skipped, moved, c) ==
  {p \in (up \ signals) \ skipped : ~CoolingDown(p, c) /\ (p \in moved \/ ~JustRelisted(p, c))}

\* _dedupe_listings_for_display keeps one row of a seller's listings at one price.
MayMerge(up) == {gone \in SUBSET up : \A p \in gone : \E q \in up \ gone : q.seller = p.seller}

\* The last snapshot row of each listing
Rows(up, merged, c) == [p \in Listings |-> IF p \in up \ merged THEN c ELSE lastSeen[p]]

\* A poll finds the listings in up, stores them and classifies the new ones.
PollItems(up, merged, skipped, moved) ==
  /\ worker = "idle" /\ itemCycle < MaxItemCycles
  /\ LET c == itemCycle + 1
         found == Classified(up, skipped, moved, c) IN
       /\ itemCycle' = c /\ storedCycle' = c
       /\ lastSeen' = Rows(up, merged, c)
       /\ news' = [listings |-> found, transfers |-> found \intersect moved]
       /\ worker' = IF found = {} THEN "idle" ELSE "post"
  /\ signals' = up
  /\ sinceSeen' = [p \in Listings |-> IF p \in up THEN 0 ELSE Ages(sinceSeen)[p]]
  /\ sinceTold' = Ages(sinceTold)
  /\ itemTorn' = [itemTorn EXCEPT !.unseen = (@ \ up) \union merged]
  /\ UNCHANGED <<lastTold, itemSpent>>

Spends == itemSpent < MaxItemFaults /\ itemSpent' = itemSpent + 1

\* One message for all of them.
PostNews ==
  /\ worker = "post"
  /\ worker' = "store"
  /\ sinceTold' = [p \in Listings |-> IF p \in news.listings THEN 0 ELSE sinceTold[p]]
  /\ itemTorn' = [itemTorn EXCEPT !.untold = @ \ news.listings]
  /\ UNCHANGED <<itemCycle, storedCycle, signals, lastSeen, lastTold, news, sinceSeen, itemSpent>>

\* The post is refused: nothing is stored, and the listings are no longer new in the next poll.
PostRefused ==
  /\ worker = "post"
  /\ worker' = "idle" /\ news' = NoNews
  /\ Spends
  /\ UNCHANGED <<itemCycle, storedCycle, signals, lastSeen, lastTold, sinceSeen, sinceTold, itemTorn>>

Stored(p) == lastTold' = [lastTold EXCEPT ![p] = itemCycle]

\* upsert_new_item_alert_cooldown, one listing at a time
StoreOne(p) ==
  /\ worker = "store" /\ p \in news.listings
  /\ Stored(p)
  /\ news' = IF news.listings = {p} THEN NoNews ELSE [news EXCEPT !.listings = @ \ {p}]
  /\ worker' = IF news' = NoNews THEN "idle" ELSE "store"
  /\ UNCHANGED <<itemCycle, storedCycle, signals, lastSeen, sinceSeen, sinceTold, itemSpent, itemTorn>>

\* An upsert fails: those after it are not tried.
StoreFails ==
  /\ worker = "store"
  /\ worker' = "idle" /\ news' = NoNews
  /\ itemTorn' = [itemTorn EXCEPT !.untold = @ \union news.listings]
  /\ Spends
  /\ UNCHANGED <<itemCycle, storedCycle, signals, lastSeen, lastTold, sinceSeen, sinceTold>>

-----------------------------------------------------------------------------
ItemCycleFails ==
  /\ worker = "idle" /\ itemCycle < MaxItemCycles
  /\ itemCycle' = itemCycle + 1
  /\ sinceSeen' = Ages(sinceSeen) /\ sinceTold' = Ages(sinceTold)
  /\ Spends
  /\ UNCHANGED <<worker, storedCycle, signals, lastSeen, lastTold, news, itemTorn>>

WorkerDies ==
  /\ worker # "down"
  /\ worker' = "down" /\ itemCycle' = 0 /\ news' = NoNews
  /\ itemTorn' = IF worker = "store" THEN [itemTorn EXCEPT !.untold = @ \union news.listings] ELSE itemTorn
  /\ Spends
  /\ UNCHANGED <<storedCycle, signals, lastSeen, lastTold, sinceSeen, sinceTold>>

WorkerStarts ==
  /\ worker = "down"
  /\ worker' = "idle" /\ itemCycle' = storedCycle
  /\ UNCHANGED <<storedCycle, signals, lastSeen, lastTold, news, sinceSeen, sinceTold, itemSpent, itemTorn>>

\* The admin's clear: signals, snapshots, polls and runs go, the cooldown rows stay.
MarketCleared ==
  /\ signals' = {} /\ lastSeen' = [p \in Listings |-> 0] /\ storedCycle' = 0
  /\ itemTorn' = [itemTorn EXCEPT !.cleared = TRUE]
  /\ Spends
  /\ UNCHANGED <<worker, itemCycle, lastTold, news, sinceSeen, sinceTold>>

ItemNext ==
  \/ \E up \in SUBSET Listings :
       \E merged \in MayMerge(up), skipped \in MaySkip(up),
          moved \in SUBSET MayMove(up) :
         PollItems(up, merged, skipped, moved)
  \/ PostNews \/ PostRefused \/ StoreFails
  \/ \E p \in Listings : StoreOne(p)
  \/ ItemCycleFails \/ WorkerDies \/ WorkerStarts \/ MarketCleared
-----------------------------------------------------------------------------
(* Properties *)

ItemTypeOK ==
  /\ worker \in {"down", "idle", "post", "store"}
  /\ itemCycle \in 0..MaxItemCycles /\ storedCycle \in 0..MaxItemCycles
  /\ signals \subseteq Listings
  /\ {lastSeen, lastTold} \subseteq [Listings -> 0..MaxItemCycles]
  /\ news.transfers \subseteq Listings /\ news.listings \subseteq Listings
  /\ {sinceSeen, sinceTold} \subseteq [Listings -> 0..Long]
  /\ itemSpent \in 0..MaxItemFaults

\* A listing is announced again only NewItemCooldown cycles after it was, whatever cycles and
\* processes failed in between; except when its row was lost between post and upsert.
AnnouncedOncePerCooldown ==
  [][PostNews => \A p \in news.listings \ itemTorn.untold : sinceTold[p] >= NewItemCooldown]_itemVars

\* A listing that comes back after a short gap is not announced as new supply, unless it comes
\* from another seller, or its snapshot rows were merged into another row's or cleared.
ShortGapIsNoNews ==
  [][(worker = "idle" /\ worker' = "post" /\ ~itemTorn.cleared)
       => \A p \in (news'.listings \ news'.transfers) \ itemTorn.unseen :
            sinceSeen[p] + 1 >= ReturnMinCycles]_itemVars
=============================================================================
