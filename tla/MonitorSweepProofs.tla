-------------------------- MODULE MonitorSweepProofs --------------------------
(***************************************************************************)
(* Theorems about MonitorSweep, for any listings, prices and quotes: type  *)
(* correctness and NoAutomaticRaise however many sweeps overlap and        *)
(* wherever a call raises; RowsTellTheShop for the scheduler alone when no *)
(* call raises; and StableSourceNoChange where the listing's price is the  *)
(* monitor's own quote.                                                    *)
(***************************************************************************)
EXTENDS MonitorSweep, TLAPS

(* The quotes of the source prices that are no spike.                      *)
CalmQuotes == {Quote[p] : p \in {q \in Prices : ~Spike(q)}}

(* A decision carries a price exactly when it changes one, and a calm one. *)
Sound(d) ==
    /\ d \in Decision
    /\ d.action \in {"none", "pause"} => d.price = NULL
    /\ d.action \in {"reprice", "resume"} => d.price \in CalmQuotes

SweepType == [pc: {"idle", "poll", "apply", "resume", "load", "save"},
              todo: SUBSET Listings, cur: Listings \cup {NULL},
              snap: [Listings -> Row], plan: [Listings -> Decision],
              seen: Row]

(* What a sweep knows of itself: the listing it is at is there and has a   *)
(* decision, and so has every listing it still has to save.                *)
SweepOK(h) ==
    /\ h \in SweepType
    /\ \A l \in Listings : Sound(h.plan[l])
    /\ h.pc \in {"apply", "resume", "save"} => h.cur \in Listings
    /\ h.pc = "resume" => h.plan[h.cur].action = "resume"
    /\ h.pc = "save" => h.cur \in h.todo
    /\ h.pc \in {"load", "save"} => \A l \in h.todo : h.plan[l] # Nothing

SweepTyped ==
    /\ TypeOK
    /\ \A s \in Sweepers : SweepOK(sweep[s])

SweepInv == SweepTyped /\ NoAutomaticRaise
-----------------------------------------------------------------------------
LEMMA QuoteTypes ==
    /\ ListedAt \in SalePrices
    /\ \A p \in Prices : Quote[p] \in SalePrices
    /\ CalmQuotes \subseteq SalePrices
  BY DEF SalePrices, CalmQuotes

(* decide() only ever decides soundly.                                     *)
LEMMA DecideSound ==
    ASSUME NEW state \in Row, NEW snap \in Snap
    PROVE  Sound(Decide(state, snap))
<1> DEFINE q == Quote[snap.price]
<1>1. snap.price \in Prices /\ q \in SalePrices /\ state.status \in {"published", "paused"}
  BY QuoteTypes DEF Snap, Row
<1>2. ~MustPause(snap) => q \in CalmQuotes
  BY <1>1 DEF MustPause, CalmQuotes
<1>3. CASE MustPause(snap) /\ state.status = "published"
  <2>1. Decide(state, snap) = [action |-> "pause", price |-> NULL]
    BY <1>3 DEF Decide
  <2> QED
    BY <2>1 DEF Sound, Decision
<1>4. CASE ~MustPause(snap) /\ state.status = "paused"
  <2>1. Decide(state, snap) = [action |-> "resume", price |-> q]
    BY <1>4 DEF Decide
  <2> QED
    BY <1>1, <1>2, <1>4, <2>1 DEF Sound, Decision
<1>5. CASE ~MustPause(snap) /\ state.status = "published" /\ Drifted(q, state.price)
  <2>1. Decide(state, snap) = [action |-> "reprice", price |-> q]
    BY <1>5 DEF Decide
  <2> QED
    BY <1>1, <1>2, <1>5, <2>1 DEF Sound, Decision
<1>6. CASE ~(MustPause(snap) /\ state.status = "published")
           /\ ~(~MustPause(snap) /\ state.status = "paused")
           /\ ~(~MustPause(snap) /\ state.status = "published" /\ Drifted(q, state.price))
  <2>1. Decide(state, snap) = Nothing
    BY <1>6 DEF Decide
  <2> QED
    BY <2>1 DEF Sound, Decision, Nothing
<1> QED
  BY <1>3, <1>4, <1>5, <1>6

LEMMA NothingSound == Sound(Nothing)
  BY DEF Sound, Nothing, Decision

LEMMA SoundActs ==
    ASSUME NEW d, Sound(d), d # Nothing
    PROVE  d.action \in {"pause", "reprice", "resume"}
  BY DEF Sound, Decision, Nothing

LEMMA EditedRow ==
    ASSUME NEW rec \in Row, NEW d, Sound(d), d # Nothing
    PROVE  Edited(rec, d) \in Row
<1>1. d.action \in {"pause", "reprice", "resume"}
  BY SoundActs
<1>2. d.action \in {"reprice", "resume"} => d.price \in SalePrices
  BY QuoteTypes DEF Sound
<1>3. CASE d.action = "pause"
  BY <1>3 DEF Edited, Row
<1>4. CASE d.action = "reprice"
  BY <1>2, <1>4 DEF Edited, Row
<1>5. CASE d.action = "resume"
  BY <1>2, <1>5 DEF Edited, Row
<1> QED
  BY <1>1, <1>3, <1>4, <1>5

LEMMA RestingOK == SweepOK(Resting)
<1>1. Published \in Row /\ Nothing \in Decision
  BY QuoteTypes DEF Published, Row, Nothing, Decision
<1>2. Resting \in SweepType
  BY <1>1 DEF Resting, SweepType
<1> QED
  BY <1>2, NothingSound DEF SweepOK, Resting
-----------------------------------------------------------------------------
LEMMA SweepInit == Init => SweepInv
<1> SUFFICES ASSUME Init PROVE SweepInv
  OBVIOUS
<1>1. Published \in Row /\ Unchanged \in Snap
  BY QuoteTypes, MonitorAssumption DEF Published, Row, Unchanged, Snap
<1>2. \A s \in Sweepers : sweep[s] = Resting
  BY DEF Init
<1>3. \A l \in Listings : [onSale |-> TRUE, price |-> ListedAt] \in Offer
  BY QuoteTypes DEF Offer
<1>4. sweep \in [Sweepers -> SweepType]
  BY RestingOK DEF Init, SweepOK
<1>5. TypeOK
  <2>1. row \in [Listings -> Row] /\ source \in [Listings -> Snap]
    BY <1>1 DEF Init
  <2>2. shop \in [Listings -> Offer]
    BY <1>3 DEF Init
  <2>3. faults \in 0..MaxFaults
    BY MonitorAssumption DEF Init
  <2> QED
    BY <1>4, <2>1, <2>2, <2>3 DEF TypeOK, SweepType
<1>6. NoAutomaticRaise
  BY DEF Init, NoAutomaticRaise
<1> QED
  BY <1>2, <1>5, <1>6, RestingOK DEF SweepInv, SweepTyped

(* A step of one sweep that leaves it in order, and the rows and the shop. *)
LEMMA SweepMoves ==
    ASSUME SweepInv, NEW s \in Sweepers, NEW h, SweepOK(h),
           sweep' = [sweep EXCEPT ![s] = h],
           row' \in [Listings -> Row], shop' \in [Listings -> Offer],
           \A l \in Listings : shop'[l].price \in {shop[l].price} \cup CalmQuotes,
           UNCHANGED source, faults' \in 0..MaxFaults
    PROVE  SweepInv'
<1>1. sweep' \in [Sweepers -> SweepType]
  BY DEF SweepInv, SweepTyped, TypeOK, SweepOK, SweepType
<1>2. TypeOK'
  BY <1>1 DEF SweepInv, SweepTyped, TypeOK, SweepType
<1>3. \A v \in Sweepers : SweepOK(sweep'[v])
  BY DEF SweepInv, SweepTyped, TypeOK
<1>4. NoAutomaticRaise'
  BY DEF SweepInv, NoAutomaticRaise, CalmQuotes
<1> QED
  BY <1>2, <1>3, <1>4 DEF SweepInv, SweepTyped

LEMMA SweepStepInv ==
    ASSUME SweepInv, NEW s \in Sweepers, SweepStep(s)
    PROVE  SweepInv'
<1> DEFINE h == sweep[s]
<1>a. h \in SweepType /\ SweepOK(h)
  BY DEF SweepInv, SweepTyped, SweepOK
<1>b. /\ row \in [Listings -> Row] /\ shop \in [Listings -> Offer]
      /\ source \in [Listings -> Snap] /\ faults \in 0..MaxFaults
      /\ sweep \in [Sweepers -> SweepType]
  BY DEF SweepInv, SweepTyped, TypeOK, SweepType
<1>1. ASSUME NEW l \in Listings, Poll(s, l)
      PROVE  SweepInv'
  <2> DEFINE d == Decide(h.snap[l], source[l])
             g == [h EXCEPT !.todo = @ \ {l}, !.plan[l] = d,
                            !.cur = IF d = Nothing THEN NULL ELSE l,
                            !.pc = IF d = Nothing THEN "poll" ELSE "apply"]
  <2>1. Sound(d)
    BY <1>a, <1>b, DecideSound DEF SweepType
  <2>2. g \in SweepType /\ \A k \in Listings : Sound(g.plan[k])
    <3> HIDE DEF d
    <3> QED
      BY <1>a, <2>1 DEF SweepType, SweepOK, Sound
  <2>3. SweepOK(g)
    <3> HIDE DEF d
    <3> QED
      BY <1>a, <2>2, NothingSound DEF SweepOK, SweepType
  <2>4. sweep' = [sweep EXCEPT ![s] = g]
    BY <1>1, <1>b DEF Poll
  <2> QED
    BY <1>1, <1>b, <2>3, <2>4, SweepMoves DEF Poll
<1>2. ASSUME ApplyPause(s)
      PROVE  SweepInv'
  <2> DEFINE g == [h EXCEPT !.pc = "poll", !.cur = NULL]
  <2>1. SweepOK(g)
    BY <1>a DEF SweepOK, SweepType
  <2>2. shop' \in [Listings -> Offer] /\ \A l \in Listings : shop'[l].price = shop[l].price
    BY <1>2, <1>b DEF ApplyPause, Offer
  <2>3. sweep' = [sweep EXCEPT ![s] = g]
    BY <1>2, <1>b DEF ApplyPause
  <2> QED
    BY <1>2, <1>b, <2>1, <2>2, <2>3, SweepMoves DEF ApplyPause
<1>3. ASSUME ApplyPrice(s)
      PROVE  SweepInv'
  <2> DEFINE d == h.plan[h.cur]
             g == IF d.action = "resume" THEN [h EXCEPT !.pc = "resume"]
                  ELSE [h EXCEPT !.pc = "poll", !.cur = NULL]
  <2>0. h.cur \in Listings /\ d.price \in CalmQuotes /\ d.price \in SalePrices
    BY <1>3, <1>a, QuoteTypes DEF ApplyPrice, SweepOK, Sound
  <2>1. SweepOK(g)
    <3>1. CASE d.action = "resume"
      BY <1>a, <2>0, <3>1 DEF SweepOK, SweepType
    <3>2. CASE d.action # "resume"
      BY <1>a, <3>2 DEF SweepOK, SweepType
    <3> QED
      BY <3>1, <3>2
  <2>2. /\ shop' \in [Listings -> Offer]
        /\ \A l \in Listings : shop'[l].price \in {shop[l].price} \cup CalmQuotes
    BY <1>3, <1>b, <2>0 DEF ApplyPrice, Offer
  <2>3. sweep' = [sweep EXCEPT ![s] = g]
    BY <1>3, <1>b DEF ApplyPrice
  <2> QED
    BY <1>3, <1>b, <2>1, <2>2, <2>3, SweepMoves DEF ApplyPrice
<1>4. ASSUME ApplyResume(s)
      PROVE  SweepInv'
  <2> DEFINE g == [h EXCEPT !.pc = "poll", !.cur = NULL]
  <2>1. SweepOK(g)
    BY <1>a DEF SweepOK, SweepType
  <2>2. shop' \in [Listings -> Offer] /\ \A l \in Listings : shop'[l].price = shop[l].price
    BY <1>4, <1>b DEF ApplyResume, Offer
  <2>3. sweep' = [sweep EXCEPT ![s] = g]
    BY <1>4, <1>b DEF ApplyResume
  <2> QED
    BY <1>4, <1>b, <2>1, <2>2, <2>3, SweepMoves DEF ApplyResume
<1>5. ASSUME PollsDone(s)
      PROVE  SweepInv'
  <2> DEFINE g == [h EXCEPT !.pc = "load", !.todo = {l \in Listings : h.plan[l] # Nothing}]
  <2>1. SweepOK(g)
    BY <1>a DEF SweepOK, SweepType
  <2>2. sweep' = [sweep EXCEPT ![s] = g]
    BY <1>5, <1>b DEF PollsDone
  <2> QED
    BY <1>5, <1>b, <2>1, <2>2, SweepMoves DEF PollsDone
<1>6. ASSUME NEW l \in Listings, LoadListing(s, l)
      PROVE  SweepInv'
  <2> DEFINE g == [h EXCEPT !.pc = "save", !.cur = l, !.seen = row[l]]
  <2>1. SweepOK(g)
    BY <1>6, <1>a, <1>b DEF SweepOK, SweepType, LoadListing
  <2>2. sweep' = [sweep EXCEPT ![s] = g]
    BY <1>6, <1>b DEF LoadListing
  <2> QED
    BY <1>6, <1>b, <2>1, <2>2, SweepMoves DEF LoadListing
<1>7. ASSUME SaveListing(s)
      PROVE  SweepInv'
  <2> DEFINE new == Edited(h.snap[h.cur], h.plan[h.cur])
             g == [h EXCEPT !.pc = "load", !.cur = NULL, !.todo = @ \ {h.cur}, !.seen = Published]
  <2>1. SweepOK(g)
    BY <1>7, <1>a, RestingOK DEF SaveListing, SweepOK, SweepType, Resting
  <2>2. new \in Row
    BY <1>7, <1>a, EditedRow DEF SaveListing, SweepOK, SweepType
  <2>3. row' \in [Listings -> Row]
    <3> HIDE DEF new
    <3>1. row' = [row EXCEPT ![h.cur] =
                    [status |-> Column(@.status, h.seen.status, new.status),
                     price  |-> Column(@.price, h.seen.price, new.price)]]
      BY <1>7 DEF SaveListing, new
    <3> QED
      BY <1>b, <2>2, <3>1 DEF Row, Column
  <2>4. sweep' = [sweep EXCEPT ![s] = g]
    BY <1>7, <1>b DEF SaveListing
  <2> QED
    BY <1>7, <1>b, <2>1, <2>3, <2>4, SweepMoves DEF SaveListing
<1>8. ASSUME EndSweep(s)
      PROVE  SweepInv'
  BY <1>8, <1>b, RestingOK, SweepMoves DEF EndSweep
<1> QED
  BY <1>1, <1>2, <1>3, <1>4, <1>5, <1>6, <1>7, <1>8 DEF SweepStep

LEMMA SweepNext == SweepInv /\ [Next]_vars => SweepInv'
<1> SUFFICES ASSUME SweepInv, [Next]_vars PROVE SweepInv'
  OBVIOUS
<1>b. /\ row \in [Listings -> Row] /\ shop \in [Listings -> Offer]
      /\ source \in [Listings -> Snap] /\ faults \in 0..MaxFaults
  BY DEF SweepInv, SweepTyped, TypeOK
<1>1. ASSUME NEW s \in Sweepers, StartSweep(s)
      PROVE  SweepInv'
  <2> DEFINE g == [Resting EXCEPT !.pc = "poll", !.todo = Listings, !.snap = row]
  <2>1. SweepOK(g)
    BY <1>b, RestingOK DEF SweepOK, SweepType, Resting
  <2> QED
    BY <1>1, <1>b, <2>1, SweepMoves DEF StartSweep
<1>2. ASSUME NEW s \in Sweepers, SweepStep(s)
      PROVE  SweepInv'
  BY <1>2, SweepStepInv
<1>f. Fault => faults' \in 0..MaxFaults
  BY <1>b, MonitorAssumption DEF Fault
<1>3. ASSUME NEW s \in Sweepers, CallRaises(s)
      PROVE  SweepInv'
  BY <1>3, <1>b, <1>f, RestingOK, SweepMoves DEF CallRaises
<1>4. ASSUME Restart
      PROVE  SweepInv'
  <2>1. sweep' \in [Sweepers -> SweepType] /\ \A s \in Sweepers : SweepOK(sweep'[s])
    BY <1>4, RestingOK DEF Restart, SweepOK
  <2>2. TypeOK'
    BY <1>4, <1>b, <1>f, <2>1 DEF Restart, TypeOK, SweepType
  <2> QED
    BY <1>4, <2>1, <2>2 DEF Restart, SweepInv, SweepTyped, NoAutomaticRaise
<1>5. ASSUME NEW l \in Listings, SourceMoves(l)
      PROVE  SweepInv'
  <2>1. source' \in [Listings -> Snap]
    BY <1>5, <1>b DEF SourceMoves
  <2>2. TypeOK'
    BY <1>5, <2>1 DEF SourceMoves, SweepInv, SweepTyped, TypeOK
  <2> QED
    BY <1>5, <2>2 DEF SourceMoves, SweepInv, SweepTyped, NoAutomaticRaise
<1>6. CASE UNCHANGED vars
  BY <1>6 DEF vars, SweepInv, SweepTyped, TypeOK, NoAutomaticRaise
<1> QED
  BY <1>1, <1>2, <1>3, <1>4, <1>5, <1>6 DEF Next

(* The types of the rows, the shop and the sweeps (MonitorSweep).          *)
THEOREM SweepTypeCorrect == SweepSpec => []TypeOK
<1>1. SweepInv => TypeOK
  BY DEF SweepInv, SweepTyped
<1> QED
  BY SweepInit, SweepNext, <1>1, PTL DEF SweepSpec

(* However many sweeps overlap and wherever a call raises or the process   *)
(* dies, a sharp rise at the source is never passed on to the shop         *)
(* (MonitorWorker.decide and _apply).                                      *)
THEOREM NoSpikePassedOn == SweepSpec => []NoAutomaticRaise
<1>1. SweepInv => NoAutomaticRaise
  BY DEF SweepInv
<1> QED
  BY SweepInit, SweepNext, <1>1, PTL DEF SweepSpec
-----------------------------------------------------------------------------
(* The scheduler alone, and no call raises.                                *)
Undisturbed == Routes = {} /\ MaxFaults = 0

Agrees(rec, offer) ==
    /\ rec.status = "published" <=> offer.onSale
    /\ rec.price = offer.price

(* What the sweep will have made of a listing's row when it ends.          *)
Outlook(h, l) ==
    IF h.plan[l] = Nothing THEN h.snap[l] ELSE Edited(h.snap[l], h.plan[l])

(* The rows are those of the snapshot until they are saved, and the shop   *)
(* runs ahead of them exactly as the sweep's outlook does.                 *)
Polling(h, rows, offers) ==
    /\ rows = h.snap
    /\ \A l \in h.todo : h.plan[l] = Nothing
    /\ \A l \in Listings : l # h.cur => Agrees(Outlook(h, l), offers[l])

Saving(h, rows, offers) ==
    /\ \A l \in h.todo : /\ rows[l] = h.snap[l]
                         /\ Agrees(Edited(h.snap[l], h.plan[l]), offers[l])
    /\ \A l \in Listings \ h.todo : Agrees(rows[l], offers[l])

SoloSweep(h, rows, offers) ==
    /\ h.pc = "idle" => \A l \in Listings : Agrees(rows[l], offers[l])
    /\ h.pc \in {"poll", "apply", "resume"} => Polling(h, rows, offers)
    /\ h.pc = "poll" => h.cur = NULL
    /\ h.pc \in {"apply", "resume"} => h.cur \notin h.todo /\ h.plan[h.cur] # Nothing
    /\ h.pc = "apply" => Agrees(h.snap[h.cur], offers[h.cur])
    /\ h.pc = "resume" => offers[h.cur].price = h.plan[h.cur].price
    /\ h.pc \in {"load", "save"} => Saving(h, rows, offers)
    /\ h.pc = "save" => h.seen = rows[h.cur]

SoloInv == SweepInv /\ SoloSweep(sweep[Scheduler], row, shop)

LEMMA SoloInit == Init => SoloInv
<1> SUFFICES ASSUME Init PROVE SoloInv
  OBVIOUS
<1>1. sweep[Scheduler] = Resting
  BY DEF Init, Sweepers
<1>2. \A l \in Listings : Agrees(row[l], shop[l])
  BY DEF Init, Agrees, Published
<1> QED
  BY <1>1, <1>2, SweepInit DEF SoloInv, SoloSweep, Resting

(* The three calls to the shop bring its product to the row's outlook.     *)
LEMMA SoloStep ==
    ASSUME SoloInv, SweepStep(Scheduler)
    PROVE  SoloSweep(sweep'[Scheduler], row', shop')
<1> DEFINE s == Scheduler
           h == sweep[s]
<1>a. h \in SweepType /\ SweepOK(h)
  BY DEF SoloInv, SweepInv, SweepTyped, SweepOK, Sweepers
<1>b. /\ row \in [Listings -> Row] /\ shop \in [Listings -> Offer]
      /\ sweep \in [Sweepers -> SweepType] /\ s \in Sweepers
  BY DEF SoloInv, SweepInv, SweepTyped, TypeOK, SweepType, Sweepers
<1>c. SoloSweep(h, row, shop)
  BY DEF SoloInv
<1>n. NULL \notin Listings
  BY MonitorAssumption
<1>1. ASSUME NEW l \in Listings, Poll(s, l)
      PROVE  SoloSweep(sweep'[s], row', shop')
  <2> DEFINE d == Decide(h.snap[l], source[l])
             g == [h EXCEPT !.todo = @ \ {l}, !.plan[l] = d,
                            !.cur = IF d = Nothing THEN NULL ELSE l,
                            !.pc = IF d = Nothing THEN "poll" ELSE "apply"]
  <2>1. sweep'[s] = g /\ row' = row /\ shop' = shop
    BY <1>1, <1>b DEF Poll
  <2>2. /\ h.pc = "poll" /\ l \in h.todo /\ h.cur = NULL
        /\ Polling(h, row, shop)
    BY <1>1, <1>c DEF Poll, SoloSweep
  <2>3. \A k \in Listings : Agrees(Outlook(h, k), shop[k])
    BY <1>n, <2>2 DEF Polling
  <2>4. h.plan[l] = Nothing /\ Outlook(h, l) = h.snap[l]
    BY <2>2 DEF Polling, Outlook
  <2> HIDE DEF d
  <2>5. /\ g.snap = h.snap /\ g.todo = h.todo \ {l} /\ g.plan[l] = d
        /\ \A k \in Listings : k # l => g.plan[k] = h.plan[k]
        /\ d = Nothing => g.pc = "poll" /\ g.cur = NULL /\ g.plan[l] = Nothing
        /\ d # Nothing => g.pc = "apply" /\ g.cur = l
    BY <1>a DEF SweepType
  <2> HIDE DEF g
  <2>6. \A k \in Listings : k # l => Outlook(g, k) = Outlook(h, k)
    BY <2>5 DEF Outlook
  <2>7. d = Nothing => Outlook(g, l) = Outlook(h, l)
    BY <2>4, <2>5 DEF Outlook
  <2>8. Polling(g, row, shop)
    <3>1. \A k \in g.todo : g.plan[k] = Nothing
      BY <1>a, <2>2, <2>5 DEF Polling, SweepType
    <3>2. \A k \in Listings : k # g.cur => Agrees(Outlook(g, k), shop[k])
      BY <2>3, <2>5, <2>6, <2>7
    <3> QED
      BY <2>2, <2>5, <3>1, <3>2 DEF Polling
  <2> QED
    BY <2>1, <2>3, <2>4, <2>5, <2>8 DEF SoloSweep
<1>2. ASSUME h.pc \in {"apply", "resume"},
             NEW o \in Offer, Agrees(Outlook(h, h.cur), o),
             shop' = [shop EXCEPT ![h.cur] = o], row' = row,
             sweep' = [sweep EXCEPT ![s].pc = "poll", ![s].cur = NULL]
      PROVE  SoloSweep(sweep'[s], row', shop')
  <2> DEFINE g == [h EXCEPT !.pc = "poll", !.cur = NULL]
  <2>1. sweep'[s] = g
    BY <1>2, <1>b
  <2>2. Polling(h, row, shop) /\ h.cur \in Listings
    BY <1>2, <1>a, <1>c DEF SoloSweep, SweepOK
  <2>3. /\ g.snap = h.snap /\ g.todo = h.todo /\ g.plan = h.plan
        /\ g.pc = "poll" /\ g.cur = NULL
    BY <1>a DEF SweepType
  <2> HIDE DEF g
  <2>4. \A k \in Listings : Outlook(g, k) = Outlook(h, k)
    BY <2>3 DEF Outlook
  <2>5. \A k \in Listings : Agrees(Outlook(g, k), shop'[k])
    BY <1>2, <1>b, <2>2, <2>4 DEF Polling
  <2> QED
    BY <1>2, <2>1, <2>2, <2>3, <2>5 DEF Polling, SoloSweep
<1>3. ASSUME ApplyPause(s)
      PROVE  SoloSweep(sweep'[s], row', shop')
  <2> DEFINE o == [shop[h.cur] EXCEPT !.onSale = FALSE]
  <2>1. /\ h.pc = "apply" /\ h.cur \in Listings /\ h.plan[h.cur] # Nothing
        /\ h.plan[h.cur].action = "pause" /\ Agrees(h.snap[h.cur], shop[h.cur])
    BY <1>3, <1>a, <1>c DEF ApplyPause, SoloSweep, SweepOK
  <2>2. h.snap[h.cur] \in Row /\ shop[h.cur] \in Offer
    BY <1>a, <1>b, <2>1 DEF SweepType
  <2>3. Outlook(h, h.cur) = [h.snap[h.cur] EXCEPT !.status = "paused"]
    BY <2>1 DEF Outlook, Edited
  <2>4. o \in Offer /\ Agrees(Outlook(h, h.cur), o)
    BY <2>1, <2>2, <2>3 DEF Agrees, Row, Offer
  <2>5. shop' = [shop EXCEPT ![h.cur] = o] /\ row' = row
    BY <1>3, <1>b DEF ApplyPause
  <2> QED
    BY <1>2, <1>3, <2>1, <2>4, <2>5 DEF ApplyPause
<1>4. ASSUME ApplyPrice(s)
      PROVE  SoloSweep(sweep'[s], row', shop')
  <2> DEFINE d == h.plan[h.cur]
             o == [shop[h.cur] EXCEPT !.price = d.price]
  <2>1. /\ h.pc = "apply" /\ h.cur \in Listings /\ h.cur \notin h.todo /\ d # Nothing
        /\ d.action \in {"reprice", "resume"} /\ Agrees(h.snap[h.cur], shop[h.cur])
        /\ Polling(h, row, shop)
    BY <1>4, <1>a, <1>c DEF ApplyPrice, SoloSweep, SweepOK
  <2>2. /\ h.snap[h.cur] \in Row /\ shop[h.cur] \in Offer
        /\ d.price \in SalePrices
    BY <1>a, <1>b, <2>1, QuoteTypes DEF SweepType, SweepOK, Sound
  <2>3. o \in Offer
    BY <2>2 DEF Offer
  <2>4. shop' = [shop EXCEPT ![h.cur] = o] /\ row' = row
    BY <1>4, <1>b DEF ApplyPrice
  <2>5. CASE d.action = "reprice"
    <3>1. Outlook(h, h.cur) = [h.snap[h.cur] EXCEPT !.price = d.price]
      BY <2>1, <2>5 DEF Outlook, Edited
    <3>2. Agrees(Outlook(h, h.cur), o)
      BY <2>1, <2>2, <3>1 DEF Agrees, Row, Offer
    <3>3. sweep' = [sweep EXCEPT ![s].pc = "poll", ![s].cur = NULL]
      BY <1>4, <2>5 DEF ApplyPrice
    <3> QED
      BY <1>2, <2>1, <2>3, <2>4, <3>2, <3>3
  <2>6. CASE d.action = "resume"
    <3> DEFINE g == [h EXCEPT !.pc = "resume"]
    <3>1. sweep'[s] = g
      BY <1>4, <1>b, <2>6 DEF ApplyPrice
    <3>2. /\ g.snap = h.snap /\ g.todo = h.todo /\ g.plan = h.plan
          /\ g.pc = "resume" /\ g.cur = h.cur
      BY <1>a DEF SweepType
    <3> HIDE DEF g
    <3>3. \A k \in Listings : Outlook(g, k) = Outlook(h, k)
      BY <3>2 DEF Outlook
    <3>4. shop'[h.cur].price = d.price /\ \A k \in Listings : k # h.cur => shop'[k] = shop[k]
      BY <1>b, <2>1, <2>2, <2>4 DEF Offer
    <3>5. Polling(g, row', shop')
      BY <2>1, <2>4, <3>2, <3>3, <3>4 DEF Polling
    <3> QED
      BY <2>1, <2>4, <3>1, <3>2, <3>4, <3>5 DEF SoloSweep
  <2> QED
    BY <2>1, <2>5, <2>6
<1>5. ASSUME ApplyResume(s)
      PROVE  SoloSweep(sweep'[s], row', shop')
  <2> DEFINE o == [shop[h.cur] EXCEPT !.onSale = TRUE]
  <2>1. /\ h.pc = "resume" /\ h.cur \in Listings /\ h.plan[h.cur] # Nothing
        /\ h.plan[h.cur].action = "resume" /\ shop[h.cur].price = h.plan[h.cur].price
    BY <1>5, <1>a, <1>c DEF ApplyResume, SoloSweep, SweepOK
  <2>2. shop[h.cur] \in Offer
    BY <1>b, <2>1
  <2>3. Outlook(h, h.cur) = [status |-> "published", price |-> h.plan[h.cur].price]
    BY <2>1 DEF Outlook, Edited
  <2>4. o \in Offer /\ Agrees(Outlook(h, h.cur), o)
    <3>1. o \in Offer /\ o.onSale = TRUE /\ o.price = shop[h.cur].price
      BY <2>2 DEF Offer
    <3>2. Outlook(h, h.cur).status = "published" /\ Outlook(h, h.cur).price = o.price
      BY <2>1, <2>3, <3>1
    <3> HIDE DEF o
    <3> QED
      BY <3>1, <3>2 DEF Agrees
  <2>5. shop' = [shop EXCEPT ![h.cur] = o] /\ row' = row
    BY <1>5, <1>b DEF ApplyResume
  <2> QED
    BY <1>2, <1>5, <2>1, <2>4, <2>5 DEF ApplyResume
<1>6. ASSUME PollsDone(s)
      PROVE  SoloSweep(sweep'[s], row', shop')
  <2> DEFINE g == [h EXCEPT !.pc = "load", !.todo = {l \in Listings : h.plan[l] # Nothing}]
  <2>1. sweep'[s] = g /\ row' = row /\ shop' = shop
    BY <1>6, <1>b DEF PollsDone
  <2>2. h.cur = NULL /\ Polling(h, row, shop)
    BY <1>6, <1>c DEF PollsDone, SoloSweep
  <2>3. \A l \in Listings : row[l] = h.snap[l] /\ Agrees(Outlook(h, l), shop[l])
    BY <1>n, <2>2 DEF Polling
  <2>4. /\ g.pc = "load" /\ g.snap = h.snap /\ g.plan = h.plan
        /\ g.todo = {l \in Listings : h.plan[l] # Nothing}
    BY <1>a DEF SweepType
  <2> HIDE DEF g
  <2>5. Saving(g, row, shop)
    BY <2>3, <2>4 DEF Saving, Outlook
  <2> QED
    BY <2>1, <2>4, <2>5 DEF SoloSweep
<1>7. ASSUME NEW l \in Listings, LoadListing(s, l)
      PROVE  SoloSweep(sweep'[s], row', shop')
  <2> DEFINE g == [h EXCEPT !.pc = "save", !.cur = l, !.seen = row[l]]
  <2>1. sweep'[s] = g /\ row' = row /\ shop' = shop
    BY <1>7, <1>b DEF LoadListing
  <2>2. Saving(h, row, shop)
    BY <1>7, <1>c DEF LoadListing, SoloSweep
  <2>3. /\ g.pc = "save" /\ g.snap = h.snap /\ g.plan = h.plan /\ g.todo = h.todo
        /\ g.cur = l /\ g.seen = row[l]
    BY <1>a DEF SweepType
  <2> HIDE DEF g
  <2> QED
    BY <2>1, <2>2, <2>3 DEF SoloSweep, Saving
<1>8. ASSUME SaveListing(s)
      PROVE  SoloSweep(sweep'[s], row', shop')
  <2> DEFINE new == Edited(h.snap[h.cur], h.plan[h.cur])
             g == [h EXCEPT !.pc = "load", !.cur = NULL, !.todo = @ \ {h.cur}, !.seen = Published]
  <2>1. sweep'[s] = g /\ shop' = shop
    BY <1>8, <1>b DEF SaveListing
  <2>2. /\ h.cur \in Listings /\ h.cur \in h.todo /\ h.seen = row[h.cur]
        /\ Saving(h, row, shop)
    BY <1>8, <1>a, <1>c DEF SaveListing, SoloSweep, SweepOK
  <2>3. new \in Row
    BY <1>8, <1>a, EditedRow DEF SaveListing, SweepOK, SweepType
  <2>4. row' = [row EXCEPT ![h.cur] = new]
    <3> HIDE DEF new
    <3>1. row' = [row EXCEPT ![h.cur] =
                    [status |-> Column(@.status, h.seen.status, new.status),
                     price  |-> Column(@.price, h.seen.price, new.price)]]
      BY <1>8 DEF SaveListing, new
    <3>2. \A a, b : Column(a, a, b) = b
      BY DEF Column
    <3>3. row' = [row EXCEPT ![h.cur] = [status |-> new.status, price |-> new.price]]
      BY <1>b, <2>2, <3>1, <3>2
    <3>4. new = [status |-> new.status, price |-> new.price]
      BY <2>3 DEF Row
    <3> QED
      BY <3>3, <3>4
  <2>5. /\ g.pc = "load" /\ g.snap = h.snap /\ g.plan = h.plan
        /\ g.todo = h.todo \ {h.cur}
    BY <1>a DEF SweepType
  <2>6. Agrees(new, shop[h.cur])
    BY <2>2 DEF Saving
  <2> HIDE DEF g, new
  <2>7. \A l \in Listings : l # h.cur => row'[l] = row[l]
    BY <1>b, <2>4
  <2>8. row'[h.cur] = new
    BY <1>b, <2>2, <2>4
  <2>9. Saving(g, row', shop)
    <3>1. h.todo \subseteq Listings
      BY <1>a DEF SweepType
    <3> QED
      BY <2>2, <2>5, <2>6, <2>7, <2>8, <3>1 DEF Saving
  <2> QED
    BY <2>1, <2>5, <2>9 DEF SoloSweep
<1>9. ASSUME EndSweep(s)
      PROVE  SoloSweep(sweep'[s], row', shop')
  <2>1. sweep'[s] = Resting /\ row' = row /\ shop' = shop
    BY <1>9, <1>b DEF EndSweep
  <2>2. \A l \in Listings : Agrees(row[l], shop[l])
    BY <1>9, <1>c DEF EndSweep, SoloSweep, Saving
  <2> QED
    BY <2>1, <2>2 DEF SoloSweep, Resting
<1> QED
  BY <1>1, <1>3, <1>4, <1>5, <1>6, <1>7, <1>8, <1>9 DEF SweepStep

LEMMA SoloNext ==
    ASSUME Undisturbed, SoloInv, [Next]_vars
    PROVE  SoloInv'
<1>1. SweepInv'
  BY SweepNext DEF SoloInv
<1>2. Sweepers = {Scheduler} /\ ~Fault
  <2>1. faults \in 0..0
    BY DEF Undisturbed, SoloInv, SweepInv, SweepTyped, TypeOK
  <2> QED
    BY <2>1 DEF Undisturbed, Sweepers, Fault
<1>3. ASSUME StartSweep(Scheduler)
      PROVE  SoloSweep(sweep'[Scheduler], row', shop')
  <2> DEFINE g == [Resting EXCEPT !.pc = "poll", !.todo = Listings, !.snap = row]
  <2>1. sweep'[Scheduler] = g /\ row' = row /\ shop' = shop
    BY <1>2, <1>3 DEF StartSweep, SoloInv, SweepInv, SweepTyped, TypeOK
  <2>2. \A l \in Listings : Agrees(row[l], shop[l])
    BY <1>3 DEF StartSweep, SoloInv, SoloSweep
  <2>3. /\ g.pc = "poll" /\ g.todo = Listings /\ g.snap = row /\ g.cur = NULL
        /\ \A l \in Listings : g.plan[l] = Nothing
    BY DEF Resting
  <2> HIDE DEF g
  <2>4. Polling(g, row, shop)
    BY <2>2, <2>3 DEF Polling, Outlook
  <2> QED
    BY <2>1, <2>3, <2>4 DEF SoloSweep
<1>4. ASSUME SweepStep(Scheduler)
      PROVE  SoloSweep(sweep'[Scheduler], row', shop')
  BY <1>4, SoloStep
<1>5. ASSUME NEW l \in Listings, SourceMoves(l)
      PROVE  SoloSweep(sweep'[Scheduler], row', shop')
  BY <1>5 DEF SourceMoves, SoloInv
<1>6. ASSUME UNCHANGED vars
      PROVE  SoloSweep(sweep'[Scheduler], row', shop')
  BY <1>6 DEF vars, SoloInv
<1>7. SoloSweep(sweep'[Scheduler], row', shop')
  BY <1>2, <1>3, <1>4, <1>5, <1>6 DEF Next, CallRaises, Restart
<1> QED
  BY <1>1, <1>7 DEF SoloInv

(* With the scheduler's sweeps alone and no call that raises, whatever the *)
(* source does, the rows agree with the shop whenever no sweep runs        *)
(* (monitor_sweep acts on the shop first and saves the rows last).         *)
THEOREM SoloRowsTellTheShop ==
    ASSUME Undisturbed
    PROVE  SweepSpec => []RowsTellTheShop
<1>1. SoloInv => RowsTellTheShop
  BY DEF SoloInv, SoloSweep, RowsTellTheShop, Agrees, Sweepers
<1>2. SoloInv /\ [Next]_vars => SoloInv'
  BY SoloNext
<1> QED
  BY SoloInit, <1>1, <1>2, PTL DEF SweepSpec
-----------------------------------------------------------------------------
(***************************************************************************)
(* A source that rests.  The listings were published at a price that the   *)
(* monitor's own quote of the baseline bears out: engine and settings use  *)
(* the same rates, and the baseline's quote clears the floor.              *)
(***************************************************************************)
PricedAlike == Baseline \notin ThinMargin /\ ~Drifted(Quote[Baseline], ListedAt)

SourceRests == \A l \in Listings : source[l] = Unchanged

NothingPlanned == \A s \in Sweepers, l \in Listings : sweep[s].plan[l] = Nothing

(* A sweep with nothing to do: it has seen the rows as they were published *)
(* and has none to save.                                                   *)
Calm(h) ==
    /\ h.pc \in {"idle", "poll", "load"}
    /\ h.pc = "load" => h.todo = {}
    /\ \A l \in Listings : h.snap[l] = Published /\ h.plan[l] = Nothing

CalmInv ==
    /\ sweep \in [Sweepers -> SweepType]
    /\ row = [l \in Listings |-> Published]
    /\ shop = [l \in Listings |-> [onSale |-> TRUE, price |-> ListedAt]]
    /\ \A s \in Sweepers : Calm(sweep[s])

LEMMA RestingCalm == Resting \in SweepType /\ Calm(Resting)
  BY RestingOK DEF SweepOK, Calm, Resting

(* decide() has no branch for what has not changed.                        *)
LEMMA NothingDecided == ASSUME PricedAlike PROVE Decide(Published, Unchanged) = Nothing
<1>1. ~MustPause(Unchanged)
  BY MonitorAssumption DEF PricedAlike, MustPause, Spike, Unchanged
<1>2. Published.status = "published" /\ ~Drifted(Quote[Unchanged.price], Published.price)
  BY DEF PricedAlike, Published, Unchanged
<1> QED
  BY <1>1, <1>2 DEF Decide

LEMMA CalmInit == Init => CalmInv
<1> SUFFICES ASSUME Init PROVE CalmInv
  OBVIOUS
<1>1. sweep \in [Sweepers -> SweepType] /\ \A s \in Sweepers : Calm(sweep[s])
  BY RestingCalm DEF Init
<1> QED
  BY <1>1 DEF Init, CalmInv

(* A step of one sweep that leaves it calm.                                *)
LEMMA CalmSweepMoves ==
    ASSUME CalmInv, NEW s \in Sweepers, NEW h \in SweepType, Calm(h),
           sweep' = [sweep EXCEPT ![s] = h], UNCHANGED <<row, shop>>
    PROVE  CalmInv'
<1>1. sweep' \in [Sweepers -> SweepType]
  BY DEF CalmInv
<1>2. \A v \in Sweepers : Calm(sweep'[v])
  BY DEF CalmInv
<1> QED
  BY <1>1, <1>2 DEF CalmInv

LEMMA CalmStep ==
    ASSUME PricedAlike, CalmInv, SourceRests, [Next]_vars
    PROVE  CalmInv'
<1>a. \A s \in Sweepers : sweep[s] \in SweepType /\ Calm(sweep[s])
  BY DEF CalmInv
<1>1. ASSUME NEW s \in Sweepers, StartSweep(s)
      PROVE  CalmInv'
  <2> DEFINE h == [Resting EXCEPT !.pc = "poll", !.todo = Listings, !.snap = row]
  <2>1. row \in [Listings -> Row]
    BY RestingOK DEF CalmInv, SweepOK, SweepType, Resting
  <2>2. h \in SweepType /\ Calm(h)
    BY <2>1, RestingCalm DEF CalmInv, Calm, SweepType, Resting
  <2> HIDE DEF h
  <2> QED
    BY <1>1, <2>2, CalmSweepMoves DEF StartSweep, h
<1>2. ASSUME NEW s \in Sweepers, NEW l \in Listings, Poll(s, l)
      PROVE  CalmInv'
  <2> DEFINE old == sweep[s]
             h == [old EXCEPT !.todo = @ \ {l}, !.plan[l] = Nothing, !.cur = NULL, !.pc = "poll"]
  <2>1. Decide(old.snap[l], source[l]) = Nothing
    BY <1>a, NothingDecided DEF Calm, SourceRests
  <2>2. sweep' = [sweep EXCEPT ![s] = h]
    BY <1>2, <2>1 DEF Poll, CalmInv
  <2>3. h \in SweepType /\ Calm(h)
    BY <1>a, NothingSound DEF Calm, SweepType, Sound
  <2> HIDE DEF h
  <2> QED
    BY <1>2, <2>2, <2>3, CalmSweepMoves DEF Poll
<1>3. ASSUME NEW s \in Sweepers, PollsDone(s)
      PROVE  CalmInv'
  <2> DEFINE old == sweep[s]
             none == {l \in Listings : old.plan[l] # Nothing}
             h == [old EXCEPT !.pc = "load", !.todo = none]
  <2>1. none = {}
    BY <1>a DEF Calm
  <2>2. sweep' = [sweep EXCEPT ![s] = h]
    BY <1>3 DEF PollsDone, CalmInv
  <2> HIDE DEF none
  <2>3. h \in SweepType /\ Calm(h)
    BY <1>a, <2>1 DEF Calm, SweepType
  <2> HIDE DEF h
  <2> QED
    BY <1>3, <2>2, <2>3, CalmSweepMoves DEF PollsDone
<1>4. ASSUME NEW s \in Sweepers, EndSweep(s) \/ CallRaises(s)
      PROVE  CalmInv'
  BY <1>4, RestingCalm, CalmSweepMoves DEF EndSweep, CallRaises
<1>5. ASSUME NEW s \in Sweepers, SweepStep(s)
      PROVE  CalmInv'
  <2>1. ~ApplyPause(s) /\ ~ApplyPrice(s) /\ ~ApplyResume(s) /\ ~SaveListing(s)
    BY <1>a DEF Calm, ApplyPause, ApplyPrice, ApplyResume, SaveListing
  <2>2. \A l \in Listings : ~LoadListing(s, l)
    BY <1>a DEF Calm, LoadListing
  <2> QED
    BY <1>2, <1>3, <1>4, <1>5, <2>1, <2>2 DEF SweepStep
<1>6. CASE Restart
  BY <1>6, RestingCalm DEF Restart, CalmInv
<1>7. ASSUME NEW l \in Listings, SourceMoves(l)
      PROVE  CalmInv'
  BY <1>7 DEF SourceMoves, CalmInv
<1>8. CASE UNCHANGED vars
  BY <1>8 DEF vars, CalmInv
<1> QED
  BY <1>1, <1>4, <1>5, <1>6, <1>7, <1>8 DEF Next

(* As long as no source changes, no sweep decides anything, however many   *)
(* overlap and wherever one raises or dies (test_monitor_sweep.py): what a *)
(* sweep reads, decides and saves never feeds back into a change.          *)
THEOREM StableSourceStays ==
    ASSUME PricedAlike
    PROVE  SweepSpec => StableSourceNoChange
<1>1. Init => CalmInv
  BY CalmInit
<1>2. CalmInv /\ SourceRests /\ [Next]_vars => CalmInv'
  BY CalmStep
<1>3. CalmInv => NothingPlanned
  BY DEF CalmInv, Calm, NothingPlanned
<1>4. SweepSpec => ([]SourceRests => []NothingPlanned)
  BY <1>1, <1>2, <1>3, PTL DEF SweepSpec
<1> QED
  BY <1>4 DEF StableSourceNoChange, SourceRests, NothingPlanned
=============================================================================
