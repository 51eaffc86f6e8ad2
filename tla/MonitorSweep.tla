---------------------------- MODULE MonitorSweep ----------------------------
(***************************************************************************)
(* The price and stock monitor: DashboardService.monitor_sweep             *)
(* (api/service.py), MonitorWorker (jikgugom/monitor/worker.py) and the    *)
(* scheduler thread (api/scheduler.py).                                    *)
(*                                                                         *)
(* A sweep takes one snapshot of the listings, polls the source and acts   *)
(* on the shop listing by listing, and only when every listing has been    *)
(* polled writes the rows of those it acted on.  Every call to the source, *)
(* the shop and the database is a step of its own.  The scheduler keeps    *)
(* its own ticks apart (max_instances=1); a sweep asked for by the route   *)
(* runs in a thread of its own and may overlap.                            *)
(*                                                                         *)
(* The listings here are those the sweep looks at: published or paused,    *)
(* with a product in the primary channel.  SELECT has no ORDER BY, so they *)
(* come in any order.  Notes and reasons are left out.                     *)
(***************************************************************************)
EXTENDS Integers, FiniteSets

CONSTANTS Listings,    (* the listings that have been published            *)
          Scheduler,   (* the scheduler's thread                           *)
          Routes,      (* threads that may serve POST /api/monitor/run     *)
          Prices,      (* prices the source may ask, in USD                *)
          Baseline,    (* the one asked when the listings were sourced     *)
          Quote,       (* MarginEngine.quote of a source price: [Prices -> Nat] *)
          ThinMargin,  (* source prices whose quote is below the floor     *)
          ListedAt,    (* sale price the listings were published with      *)
          MaxFaults,   (* bound: calls that raise, and restarts            *)
          NULL

ASSUME MonitorAssumption ==
    /\ NULL \notin Listings
    /\ Prices \subseteq Nat /\ Baseline \in Prices /\ Baseline > 0
    /\ Quote \in [Prices -> Nat]
    /\ ThinMargin \subseteq Prices
    /\ ListedAt \in Nat /\ ListedAt > 0
    /\ MaxFaults \in Nat

VARIABLES row,         (* table listings: [Listings -> [status, price]]    *)
          shop,        (* the products on the channel: [Listings -> Offer] *)
          source,      (* what the source would answer: [Listings -> Snap] *)
          sweep,       (* the sweeps in progress: [Sweepers -> Sweep]      *)
          faults       (* history: faults so far                           *)

vars == <<row, shop, source, sweep, faults>>

Sweepers == {Scheduler} \cup Routes
-----------------------------------------------------------------------------
SalePrices == {Quote[p] : p \in Prices} \cup {ListedAt}

Row == [status: {"published", "paused"}, price: SalePrices]

Offer == [onSale: BOOLEAN, price: SalePrices]

Snap == [stock: BOOLEAN, price: Prices]

Decision == [action: {"none", "pause", "reprice", "resume"}, price: SalePrices \cup {NULL}]

Nothing == [action |-> "none", price |-> NULL]

Published == [status |-> "published", price |-> ListedAt]

Unchanged == [stock |-> TRUE, price |-> Baseline]

Resting == [pc |-> "idle", todo |-> {}, cur |-> NULL,
            snap |-> [l \in Listings |-> Published],
            plan |-> [l \in Listings |-> Nothing],
            seen |-> Published]

Init ==
    /\ row = [l \in Listings |-> Published]
    /\ shop = [l \in Listings |-> [onSale |-> TRUE, price |-> ListedAt]]
    /\ source = [l \in Listings |-> Unchanged]
    /\ sweep = [s \in Sweepers |-> Resting]
    /\ faults = 0
-----------------------------------------------------------------------------
Spike(price) == 100 * (price - Baseline) > 5 * Baseline

(* Reasons not to sell, in the order decide() tries them.                  *)
MustPause(snap) == ~snap.stock \/ snap.price \in ThinMargin \/ Spike(snap.price)

Distance(a, b) == IF a > b THEN a - b ELSE b - a

Drifted(quoted, current) == 100 * Distance(quoted, current) >= 2 * current

(* Mutant: the branch that takes a paused listing back is gone.            *)
DecideNoResume(state, snap) ==
    CASE MustPause(snap) /\ state.status = "published" -> [action |-> "pause", price |-> NULL]
      [] ~MustPause(snap) /\ state.status = "published" /\ Drifted(Quote[snap.price], state.price)
            -> [action |-> "reprice", price |-> Quote[snap.price]]
      [] OTHER -> Nothing

(* Mutant: the drift is measured without its threshold, so that a quote    *)
(* equal to the current price is a change as well.                         *)
DecideAlwaysReprice(state, snap) ==
    CASE MustPause(snap) /\ state.status = "published" -> [action |-> "pause", price |-> NULL]
      [] ~MustPause(snap) /\ state.status = "paused"
            -> [action |-> "resume", price |-> Quote[snap.price]]
      [] ~MustPause(snap) /\ state.status = "published"
            -> [action |-> "reprice", price |-> Quote[snap.price]]
      [] OTHER -> Nothing

(* Mutant: the drift is absorbed before the rise is looked at.             *)
DecideDriftFirst(state, snap) ==
    CASE snap.stock /\ state.status = "published" /\ Drifted(Quote[snap.price], state.price)
            -> [action |-> "reprice", price |-> Quote[snap.price]]
      [] ~snap.stock /\ state.status = "published" -> [action |-> "pause", price |-> NULL]
      [] ~MustPause(snap) /\ state.status = "paused"
            -> [action |-> "resume", price |-> Quote[snap.price]]
      [] OTHER -> Nothing

(* MonitorWorker.decide.                                                   *)
Decide(state, snap) ==
    CASE MustPause(snap) /\ state.status = "published" -> [action |-> "pause", price |-> NULL]
      [] ~MustPause(snap) /\ state.status = "paused"
            -> [action |-> "resume", price |-> Quote[snap.price]]
      [] ~MustPause(snap) /\ state.status = "published" /\ Drifted(Quote[snap.price], state.price)
            -> [action |-> "reprice", price |-> Quote[snap.price]]
      [] OTHER -> Nothing

(* Mutant: every decision's new price is copied, None included.            *)
EditedAlwaysPrice(rec, d) ==
    CASE d.action = "pause"   -> [status |-> "paused", price |-> d.price]
      [] d.action = "reprice" -> [rec EXCEPT !.price = d.price]
      [] d.action = "resume"  -> [status |-> "published", price |-> d.price]

(* The edits monitor_sweep makes to the record of its snapshot.            *)
Edited(rec, d) ==
    CASE d.action = "pause"   -> [rec EXCEPT !.status = "paused"]
      [] d.action = "reprice" -> [rec EXCEPT !.price = d.price]
      [] d.action = "resume"  -> [status |-> "published", price |-> d.price]

(* A flush leaves the columns that the session read as they should be.     *)
Column(current, read, new) == IF new # read THEN new ELSE current
-----------------------------------------------------------------------------
(* The snapshot: list_listings, one SELECT.                                *)
StartSweep(s) ==
    /\ sweep[s].pc = "idle"
    /\ sweep' = [sweep EXCEPT ![s] = [Resting EXCEPT !.pc = "poll", !.todo = Listings, !.snap = row]]
    /\ UNCHANGED <<row, shop, source, faults>>

(* check_availability and decide.                                          *)
Poll(s, l) ==
    LET d == Decide(sweep[s].snap[l], source[l]) IN
    /\ sweep[s].pc = "poll"
    /\ l \in sweep[s].todo
    /\ sweep' = [sweep EXCEPT ![s].todo = @ \ {l},
                              ![s].plan[l] = d,
                              ![s].cur = IF d = Nothing THEN NULL ELSE l,
                              ![s].pc = IF d = Nothing THEN "poll" ELSE "apply"]
    /\ UNCHANGED <<row, shop, source, faults>>

(* _apply: one call to the shop, two for a resume.                         *)
ApplyPause(s) ==
    LET l == sweep[s].cur IN
    /\ sweep[s].pc = "apply"
    /\ sweep[s].plan[l].action = "pause"
    /\ shop' = [shop EXCEPT ![l].onSale = FALSE]
    /\ sweep' = [sweep EXCEPT ![s].pc = "poll", ![s].cur = NULL]
    /\ UNCHANGED <<row, source, faults>>

ApplyPrice(s) ==
    LET l == sweep[s].cur
        d == sweep[s].plan[l]
    IN  /\ sweep[s].pc = "apply"
        /\ d.action \in {"reprice", "resume"}
        /\ shop' = [shop EXCEPT ![l].price = d.price]
        /\ sweep' = IF d.action = "resume"
                    THEN [sweep EXCEPT ![s].pc = "resume"]
                    ELSE [sweep EXCEPT ![s].pc = "poll", ![s].cur = NULL]
        /\ UNCHANGED <<row, source, faults>>

ApplyResume(s) ==
    LET l == sweep[s].cur IN
    /\ sweep[s].pc = "resume"
    /\ shop' = [shop EXCEPT ![l].onSale = TRUE]
    /\ sweep' = [sweep EXCEPT ![s].pc = "poll", ![s].cur = NULL]
    /\ UNCHANGED <<row, source, faults>>

(* run() returns its decisions; those that are not NONE are saved.         *)
PollsDone(s) ==
    /\ sweep[s].pc = "poll"
    /\ sweep[s].todo = {}
    /\ sweep' = [sweep EXCEPT ![s].pc = "load",
                              ![s].todo = {l \in Listings : sweep[s].plan[l] # Nothing}]
    /\ UNCHANGED <<row, shop, source, faults>>

(* SqlRepository.save_listing, its SELECT and its UPDATE.                  *)
LoadListing(s, l) ==
    /\ sweep[s].pc = "load"
    /\ l \in sweep[s].todo
    /\ sweep' = [sweep EXCEPT ![s].pc = "save", ![s].cur = l, ![s].seen = row[l]]
    /\ UNCHANGED <<row, shop, source, faults>>

(* Mutant: the sweep saves the price and forgets the status.               *)
SaveListingPriceOnly(s) ==
    LET l == sweep[s].cur
        new == Edited(sweep[s].snap[l], sweep[s].plan[l])
    IN  /\ sweep[s].pc = "save"
        /\ row' = [row EXCEPT ![l].price = Column(@, sweep[s].seen.price, new.price)]
        /\ sweep' = [sweep EXCEPT ![s].pc = "load", ![s].cur = NULL,
                                  ![s].todo = @ \ {l}, ![s].seen = Published]
        /\ UNCHANGED <<shop, source, faults>>

SaveListing(s) ==
    LET l == sweep[s].cur
        new == Edited(sweep[s].snap[l], sweep[s].plan[l])
    IN  /\ sweep[s].pc = "save"
        /\ row' = [row EXCEPT
              ![l] = [status |-> Column(@.status, sweep[s].seen.status, new.status),
                      price  |-> Column(@.price, sweep[s].seen.price, new.price)]]
        /\ sweep' = [sweep EXCEPT ![s].pc = "load", ![s].cur = NULL,
                                  ![s].todo = @ \ {l}, ![s].seen = Published]
        /\ UNCHANGED <<shop, source, faults>>

EndSweep(s) ==
    /\ sweep[s].pc = "load"
    /\ sweep[s].todo = {}
    /\ sweep' = [sweep EXCEPT ![s] = Resting]
    /\ UNCHANGED <<row, shop, source, faults>>
-----------------------------------------------------------------------------
Fault == faults < MaxFaults /\ faults' = faults + 1

(* Nothing in monitor_sweep or run() catches: a call that raises ends the  *)
(* sweep where it is, and what it did to the shop so far is not saved.     *)
CallRaises(s) ==
    /\ Fault
    /\ sweep[s].pc # "idle"
    /\ sweep' = [sweep EXCEPT ![s] = Resting]
    /\ UNCHANGED <<row, shop, source>>

(* The process dies and comes back; rows and shop survive it.              *)
Restart ==
    /\ Fault
    /\ sweep' = [s \in Sweepers |-> Resting]
    /\ UNCHANGED <<row, shop, source>>

(* The source goes its own way.                                            *)
SourceMoves(l) ==
    /\ source' \in {[source EXCEPT ![l] = snap] : snap \in Snap}
    /\ UNCHANGED <<row, shop, sweep, faults>>
-----------------------------------------------------------------------------
SweepStep(s) ==
    \/ \E l \in Listings : Poll(s, l) \/ LoadListing(s, l)
    \/ ApplyPause(s)
    \/ ApplyPrice(s)
    \/ ApplyResume(s)
    \/ PollsDone(s)
    \/ SaveListing(s)
    \/ EndSweep(s)

Next ==
    \/ \E s \in Sweepers : StartSweep(s) \/ SweepStep(s) \/ CallRaises(s)
    \/ Restart
    \/ \E l \in Listings : SourceMoves(l)

SweepSpec == Init /\ [][Next]_vars

(* The scheduler ticks for ever, and a sweep that was started goes on.     *)
(* Nobody has to use the route.                                            *)
Fairness ==
    /\ WF_vars(StartSweep(Scheduler))
    /\ \A s \in Sweepers : WF_vars(SweepStep(s))

FairSweepSpec == SweepSpec /\ Fairness
-----------------------------------------------------------------------------
TypeOK ==
    /\ row \in [Listings -> Row]
    /\ shop \in [Listings -> Offer]
    /\ source \in [Listings -> Snap]
    /\ sweep \in [Sweepers -> [pc: {"idle", "poll", "apply", "resume", "load", "save"},
                               todo: SUBSET Listings, cur: Listings \cup {NULL},
                               snap: [Listings -> Row], plan: [Listings -> Decision],
                               seen: Row]]
    /\ faults \in 0..MaxFaults

(* What the monitor is for: an offer fits what the source says.            *)
Fits(offer, snap) ==
    IF MustPause(snap) THEN ~offer.onSale
    ELSE offer.onSale /\ ~Drifted(Quote[snap.price], offer.price)

Records(rec, snap) ==
    IF MustPause(snap) THEN rec.status = "paused"
    ELSE rec.status = "published" /\ ~Drifted(Quote[snap.price], rec.price)

(* Between sweeps the rows say what the shop shows: paused exactly when it *)
(* is off sale, and at the shop's price (monitor_sweep applies, then saves). *)
RowsTellTheShop ==
    (\A s \in Sweepers : sweep[s].pc = "idle") =>
        \A l \in Listings :
            /\ row[l].status = "published" <=> shop[l].onSale
            /\ row[l].price = shop[l].price

(* However the source moved before, once it stays where it is the shop     *)
(* comes to fit it and stays so: off sale when it is out of stock or too   *)
(* dear, back on sale at the new price when it recovers (monitor/worker.py). *)
OfferFollowsSource ==
    \A l \in Listings, snap \in Snap :
        <>[](source[l] = snap) => <>[]Fits(shop[l], snap)

(* The table heals itself: whatever sweeps overlapped, raised or died, once *)
(* the source stays where it is the row comes to say what it should.  (The *)
(* sweep decides from the row, so nothing of the kind holds for the shop.) *)
RowsFollowSource ==
    \A l \in Listings, snap \in Snap :
        <>[](source[l] = snap) => <>[]Records(row[l], snap)

(* A sharp rise is for a person to look at and never passed on to the shop *)
(* by itself (worker.py), whatever sweeps overlap.                         *)
NoAutomaticRaise ==
    \A l \in Listings :
        shop[l].price \in {ListedAt} \cup {Quote[p] : p \in {q \in Prices : ~Spike(q)}}

(* What is sold out is taken off sale by the monitor (adapters/naver.py:   *)
(* the stock the shop is told is 999 because the monitor pauses it).       *)
SoldOutIsPulled ==
    \A l \in Listings : <>[](~source[l].stock) => <>[](~shop[l].onSale)

(* No change at the source, no change by the sweep (test_monitor_sweep.py, *)
(* "원본 변동 없음 → 변경 0").                                              *)
StableSourceNoChange ==
    [](\A l \in Listings : source[l] = Unchanged)
        => [](\A s \in Sweepers, l \in Listings : sweep[s].plan[l] = Nothing)
=============================================================================
