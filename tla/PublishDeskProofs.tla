-------------------------- MODULE PublishDeskProofs --------------------------
(***************************************************************************)
(* Theorems about PublishDesk, for any items, channels and number of       *)
(* threads: type correctness and NumbersAreReal, whatever overlaps, is     *)
(* lost or dies; and for handlers that do not overlap, KeyedByPrimary and  *)
(* ApprovalHasDraft.                                                       *)
(***************************************************************************)
EXTENDS PublishDesk, WellFoundedInduction, TLAPS

(* Gone and Sells, of any offers of the channels.                          *)
GoneFrom(offers, p) == p.channel \in Samples /\ p.no <= offers[p.channel].lost

Names(offers, p, i) ==
    p.no \in DOMAIN offers[p.channel].sold /\ offers[p.channel].sold[p.no] = i

(* What the handlers know of the product numbers they carry.               *)
SoldAs(offers, p, i, cs) ==
    p \in Number /\ p.channel \in cs /\ (GoneFrom(offers, p) \/ Names(offers, p, i))

Carries(h, offers) ==
    /\ \A c \in ChannelSet :
          h.results[c].no # NULL => SoldAs(offers, h.results[c].no, h.item, {c})
    /\ h.rec.cpn # NULL => SoldAs(offers, h.rec.cpn, h.item, ChannelSet)

(* A handler past its first steps is at an item, and at one of its         *)
(* channels or of the items of its sourcing run, which moves from one item *)
(* to another and so may carry no results.                                 *)
HandlerOK(h) ==
    /\ h \in Handler
    /\ h.pc \in {"draft", "publish", "load_pub", "save_pub", "load_row", "save_row"}
          => h.item \in ItemSet
    /\ h.pc = "draft" => h.k = 1
    /\ h.pc \in {"publish", "load_pub", "save_pub"} => h.k \in DOMAIN Channels
    /\ h.pc \in {"load_row", "save_row"} /\ h.op = "source" => h.k \in DOMAIN Items
    /\ h.pc \in {"clear", "pipeline"} => h.op = "source"
    /\ h.pc \in {"draft", "publish", "load_pub", "save_pub"} => h.op = "approve"
    /\ h.op = "source" => \A c \in ChannelSet : h.results[c].no = NULL

(* NumbersAreReal, of any tables and channels.                             *)
Real(rows, publications, offers) ==
    \A i \in ItemSet :
        /\ rows[i] # NULL /\ rows[i].cpn # NULL => SoldAs(offers, rows[i].cpn, i, ChannelSet)
        /\ \A c \in ChannelSet : publications[i][c].no # NULL
              => SoldAs(offers, publications[i][c].no, i, {c})

PublishInv ==
    /\ TypeOK
    /\ Real(listings, pubs, shop)
    /\ \A w \in Workers : HandlerOK(worker[w]) /\ Carries(worker[w], shop)

LEMMA RealNumbers == Real(listings, pubs, shop) => NumbersAreReal
  BY DEF Real, NumbersAreReal, SoldAs, Sells, Names, Gone, GoneFrom
-----------------------------------------------------------------------------
LEMMA Sequences ==
    /\ Len(Channels) \in Nat /\ DOMAIN Channels = 1..Len(Channels) /\ 1 \in DOMAIN Channels
    /\ Len(Items) \in Nat /\ DOMAIN Items = 1..Len(Items) /\ 1 \in DOMAIN Items
    /\ \A k \in DOMAIN Channels : Channels[k] \in ChannelSet
    /\ \A k \in DOMAIN Items : Items[k] \in ItemSet
    /\ NULL \notin Number /\ NULL \notin ItemSet /\ Primary \in ChannelSet
<1>1. /\ Len(Channels) \in Nat /\ DOMAIN Channels = 1..Len(Channels)
      /\ Len(Items) \in Nat /\ DOMAIN Items = 1..Len(Items) /\ Len(Items) > 0
  BY PublishAssumption
<1>2. /\ \A k \in DOMAIN Channels : Channels[k] \in ChannelSet
      /\ \A k \in DOMAIN Items : Items[k] \in ItemSet
  BY DEF ChannelSet, ItemSet
<1>3. DOMAIN Channels # {}
  BY PublishAssumption DEF ChannelSet
<1>4. 1 \in DOMAIN Channels
  BY <1>1, <1>3
<1> QED
  BY <1>1, <1>2, <1>4, PublishAssumption

LEMMA BlankRow == Blank \in Row /\ NoPub \in Pub /\ NoPub.no = NULL /\ Blank.cpn = NULL
  BY DEF Blank, Row, NoPub, Pub

LEMMA IdleOK == HandlerOK(Idle) /\ \A offers : Carries(Idle, offers)
<1>1. Idle \in Handler
  BY BlankRow DEF Idle, Handler
<1> QED
  BY <1>1, BlankRow DEF Idle, HandlerOK, Carries

(* No step renames a product, or takes one away other than by a restart.   *)
Keeps(offers, more) ==
    \A p \in Number :
        /\ GoneFrom(offers, p) => GoneFrom(more, p)
        /\ \A i : Names(offers, p, i) => GoneFrom(more, p) \/ Names(more, p, i)

LEMMA SoldStays ==
    ASSUME NEW offers, NEW more, Keeps(offers, more)
    PROVE  /\ \A p, i, cs : SoldAs(offers, p, i, cs) => SoldAs(more, p, i, cs)
           /\ \A h : Carries(h, offers) => Carries(h, more)
           /\ \A rows, publications :
                 Real(rows, publications, offers) => Real(rows, publications, more)
<1>1. \A p, i, cs : SoldAs(offers, p, i, cs) => SoldAs(more, p, i, cs)
  BY DEF SoldAs, Keeps
<1> QED
  BY <1>1 DEF Carries, Real

(* A step of one thread: it ends in order, and so do the tables.           *)
LEMMA ThreadStep ==
    ASSUME PublishInv, NEW w \in Workers, NEW h, HandlerOK(h), Carries(h, shop'),
           worker' = [worker EXCEPT ![w] = h],
           listings' \in [ItemSet -> Row \cup {NULL}],
           pubs' \in [ItemSet -> [ChannelSet -> Pub]],
           shop' \in [ChannelSet -> Catalogue],
           Keeps(shop, shop'), Real(listings', pubs', shop'),
           booting' \in BOOLEAN, faults' \in 0..MaxFaults
    PROVE  PublishInv'
<1>1. worker' \in [Workers -> Handler]
  BY DEF PublishInv, TypeOK, HandlerOK
<1>2. \A v \in Workers : HandlerOK(worker'[v]) /\ Carries(worker'[v], shop')
  BY SoldStays DEF PublishInv, TypeOK
<1> QED
  BY <1>1, <1>2 DEF PublishInv, TypeOK

(* The same for a thread that leaves the tables and the channels alone.    *)
LEMMA LocalStep ==
    ASSUME PublishInv, NEW w \in Workers, NEW h, HandlerOK(h), Carries(h, shop),
           worker' = [worker EXCEPT ![w] = h],
           UNCHANGED <<listings, pubs, shop>>,
           booting' \in BOOLEAN, faults' \in 0..MaxFaults
    PROVE  PublishInv'
<1>1. Keeps(shop, shop') /\ Real(listings', pubs', shop') /\ Carries(h, shop')
  BY DEF Keeps, PublishInv
<1>2. /\ listings' \in [ItemSet -> Row \cup {NULL}]
      /\ pubs' \in [ItemSet -> [ChannelSet -> Pub]]
      /\ shop' \in [ChannelSet -> Catalogue]
  BY DEF PublishInv, TypeOK
<1> QED
  BY <1>1, <1>2, ThreadStep
-----------------------------------------------------------------------------
(* The number the row goes by is one the handler carries.                  *)
LEMMA MonitorKeyCarried ==
    ASSUME NEW h, HandlerOK(h), NEW c0 \in ChannelSet, h.results[c0].status = "listed"
    PROVE  /\ \E c \in ChannelSet :
                 h.results[c].status = "listed" /\ MonitorKey(h) = h.results[c].no
           /\ h.results[Primary].status = "listed" => MonitorKey(h) = h.results[Primary].no
<1> DEFINE listed == {k \in DOMAIN Channels : h.results[Channels[k]].status = "listed"}
           first == CHOOSE k \in listed : \A j \in listed : k <= j
<1>1. listed # {} /\ listed \subseteq Nat
  BY Sequences DEF ChannelSet
<1>2. \E k \in listed : \A j \in listed : k <= j
  <2>1. \E k \in listed : \A j \in listed : ~(<<j, k>> \in OpToRel(<, Nat))
    BY <1>1, WFMin, NatLessThanWellFounded
  <2>2. \A j, k \in Nat : ~(<<j, k>> \in OpToRel(<, Nat)) => k <= j
    BY DEF OpToRel
  <2> QED
    BY <1>1, <2>1, <2>2
<1>3. first \in listed
  BY <1>2
<1>4. Channels[first] \in ChannelSet /\ h.results[Channels[first]].status = "listed"
  BY <1>3, Sequences
<1>5. MonitorKey(h) = IF h.results[Primary].status = "listed" THEN h.results[Primary].no
                      ELSE h.results[Channels[first]].no
  BY DEF MonitorKey
<1> QED
  BY <1>4, <1>5, Sequences

LEMMA PublishedOK ==
    ASSUME NEW h, HandlerOK(h), NEW offers, Carries(h, offers), h.pc = "save_pub"
    PROVE  HandlerOK(Published(h)) /\ Carries(Published(h), offers)
<1>1. CASE \E c \in ChannelSet : h.results[c].status = "listed"
  <2> DEFINE key == MonitorKey(h)
             g == [h EXCEPT !.pc = "load_row", !.seenPub = NoPub,
                            !.rec = [status |-> "published", cpn |-> key, draft |-> FALSE]]
  <2>1. PICK c \in ChannelSet : key = h.results[c].no
    BY <1>1, MonitorKeyCarried
  <2>2. Published(h) = g
    BY <1>1 DEF Published
  <2>3. key \in Number \cup {NULL}
    BY <2>1 DEF HandlerOK, Handler, Pub
  <2>4. key # NULL => SoldAs(offers, key, h.item, ChannelSet)
    BY <2>1 DEF Carries, SoldAs
  <2> HIDE DEF key
  <2>5. [status |-> "published", cpn |-> key, draft |-> FALSE] \in Row
    BY <2>3 DEF Row
  <2>6. HandlerOK(g)
    BY <2>5, BlankRow DEF HandlerOK, Handler
  <2>7. Carries(g, offers)
    BY <2>4 DEF Carries, HandlerOK, Handler
  <2> QED
    BY <2>2, <2>6, <2>7
<1>2. CASE ~\E c \in ChannelSet : h.results[c].status = "listed"
  BY <1>2, IdleOK DEF Published
<1> QED
  BY <1>1, <1>2

(* A result that is not NULL names what was just sold to this channel.     *)
LEMMA CollectedOK ==
    ASSUME NEW h, HandlerOK(h), h.pc = "publish", NEW offers, Carries(h, offers),
           NEW pub \in Pub,
           pub.no # NULL => SoldAs(offers, pub.no, h.item, {Channels[h.k]})
    PROVE  HandlerOK(Collected(h, pub)) /\ Carries(Collected(h, pub), offers)
<1> DEFINE last == h.k = Len(Channels)
           g == Collected(h, pub)
<1>1. h \in Handler /\ h.k \in DOMAIN Channels /\ h.item \in ItemSet /\ h.op = "approve"
  BY DEF HandlerOK
<1>2. /\ g.results = [h.results EXCEPT ![Channels[h.k]] = pub]
      /\ g.k = IF last THEN 1 ELSE h.k + 1
      /\ g.pc = IF last THEN "load_pub" ELSE "publish"
      /\ g.item = h.item /\ g.rec = h.rec /\ g.op = "approve" /\ g \in Handler
  <2>1. [h.results EXCEPT ![Channels[h.k]] = pub] \in [ChannelSet -> Pub]
    BY <1>1 DEF Handler
  <2>2. (IF last THEN 1 ELSE h.k + 1) \in Nat
    BY <1>1 DEF Handler
  <2> QED
    BY <1>1, <2>1, <2>2 DEF Collected, Handler
<1>3. g.k \in DOMAIN Channels
  BY <1>1, <1>2, Sequences
<1> HIDE DEF g
<1>4. HandlerOK(g)
  <2>1. g.pc \in {"load_pub", "publish"}
    BY <1>2
  <2> QED
    BY <1>1, <1>2, <1>3, <2>1 DEF HandlerOK
<1>5. Carries(g, offers)
  <2>1. \A c \in ChannelSet : c # Channels[h.k] => g.results[c] = h.results[c]
    BY <1>1, <1>2 DEF Handler
  <2>2. g.results[Channels[h.k]] = pub
    BY <1>1, <1>2, Sequences DEF Handler
  <2> QED
    BY <1>2, <2>1, <2>2 DEF Carries
<1> QED
  BY <1>4, <1>5 DEF g

(* A channel that creates one product more.                                *)
LEMMA CreateOK ==
    ASSUME NEW offers \in [ChannelSet -> Catalogue], NEW c \in ChannelSet, NEW i \in ItemSet
    PROVE  LET more == [offers EXCEPT ![c].sold = Append(@, i)]
               p == [channel |-> c, no |-> Len(offers[c].sold) + 1] IN
           /\ more \in [ChannelSet -> Catalogue]
           /\ Keeps(offers, more)
           /\ p \in Number /\ SoldAs(more, p, i, {c})
<1> DEFINE old == offers[c].sold
           new == Append(old, i)
           more == [offers EXCEPT ![c].sold = new]
           p == [channel |-> c, no |-> Len(old) + 1]
<1>1. offers[c] \in Catalogue /\ old \in Seq(ItemSet)
  BY DEF Catalogue
<1>2. /\ new \in Seq(ItemSet) /\ Len(new) = Len(old) + 1 /\ Len(old) \in Nat
      /\ DOMAIN old = 1..Len(old) /\ DOMAIN new = 1..(Len(old) + 1)
      /\ new[Len(old) + 1] = i /\ \A k \in DOMAIN old : new[k] = old[k]
  BY <1>1
<1> HIDE DEF new
<1>3. /\ more \in [ChannelSet -> Catalogue] /\ more[c].sold = new
      /\ \A d \in ChannelSet : more[d].lost = offers[d].lost
      /\ \A d \in ChannelSet : d # c => more[d] = offers[d]
  BY <1>1, <1>2 DEF Catalogue
<1> HIDE DEF more
<1>4. ASSUME NEW q \in Number, NEW j, Names(offers, q, j)
      PROVE  Names(more, q, j)
  <2>1. q.channel \in ChannelSet
    BY DEF Number
  <2>2. CASE q.channel = c
    <3>1. q.no \in DOMAIN old /\ old[q.no] = j
      BY <1>4, <2>2 DEF Names
    <3>2. q.no \in DOMAIN new /\ new[q.no] = j
      BY <1>2, <3>1
    <3> QED
      BY <1>3, <2>2, <3>2 DEF Names
  <2>3. CASE q.channel # c
    BY <1>3, <1>4, <2>1, <2>3 DEF Names
  <2> QED
    BY <2>2, <2>3
<1>5. \A q \in Number : GoneFrom(offers, q) => GoneFrom(more, q)
  BY <1>3 DEF GoneFrom, Number
<1>6. Keeps(offers, more)
  BY <1>4, <1>5 DEF Keeps
<1>7. p \in Number /\ SoldAs(more, p, i, {c})
  BY <1>2, <1>3 DEF Number, SoldAs, Names
<1> QED
  BY <1>3, <1>6, <1>7 DEF more, new

LEMMA KeepsOn ==
    ASSUME NEW a, NEW b, NEW c, Keeps(a, b), Keeps(b, c)
    PROVE  Keeps(a, c)
  BY DEF Keeps

(* The thread that publishes, its channel and its item.                    *)
LEMMA AtChannel ==
    ASSUME PublishInv, NEW w \in Workers, worker[w].pc = "publish"
    PROVE  /\ HandlerOK(worker[w]) /\ Carries(worker[w], shop)
           /\ worker[w].item \in ItemSet /\ Channel(w) \in ChannelSet
           /\ shop \in [ChannelSet -> Catalogue]
  BY Sequences DEF PublishInv, TypeOK, HandlerOK, Channel
-----------------------------------------------------------------------------
LEMMA PublishInit == Init => PublishInv
<1> SUFFICES ASSUME Init PROVE PublishInv
  OBVIOUS
<1>1. /\ listings \in [ItemSet -> Row \cup {NULL}]
      /\ pubs \in [ItemSet -> [ChannelSet -> Pub]]
      /\ shop \in [ChannelSet -> Catalogue]
      /\ booting \in BOOLEAN /\ faults \in 0..MaxFaults
  <2>1. << >> \in Seq(ItemSet)
    OBVIOUS
  <2>2. [sold |-> << >>, lost |-> 0] \in Catalogue
    BY <2>1 DEF Catalogue
  <2> QED
    BY <2>2, BlankRow, PublishAssumption DEF Init
<1>2. \A w \in Workers : HandlerOK(worker[w]) /\ Carries(worker[w], shop)
  BY IdleOK DEF Init
<1>3. worker \in [Workers -> Handler]
  BY IdleOK DEF Init, HandlerOK
<1>4. Real(listings, pubs, shop)
  BY BlankRow DEF Init, Real
<1> QED
  BY <1>1, <1>2, <1>3, <1>4 DEF PublishInv, TypeOK

(* The steps of a sourcing run that save nothing.                          *)
LEMMA RunSourcingOK == \A w \in Workers : PublishInv /\ RunSourcing(w) => PublishInv'
<1> SUFFICES ASSUME NEW w \in Workers, PublishInv, RunSourcing(w) PROVE PublishInv'
  OBVIOUS
<1> DEFINE doomed == {i \in ItemSet : listings[i] # NULL}
           h == [Idle EXCEPT !.pc = "clear", !.op = "source", !.doomed = doomed]
<1>1. worker' = [worker EXCEPT ![w] = h]
  BY DEF RunSourcing
<1>2. HandlerOK(h)
  <2>1. doomed \in SUBSET ItemSet
    OBVIOUS
  <2> HIDE DEF doomed
  <2> QED
    BY <2>1, BlankRow DEF HandlerOK, Handler, Idle
<1>3. Carries(h, shop)
  BY BlankRow DEF Carries, Idle
<1> QED
  BY <1>1, <1>2, <1>3, LocalStep DEF RunSourcing, PublishInv, TypeOK

LEMMA ClearListingsOK == \A w \in Workers : PublishInv /\ ClearListings(w) => PublishInv'
<1> SUFFICES ASSUME NEW w \in Workers, PublishInv, ClearListings(w) PROVE PublishInv'
  OBVIOUS
<1> DEFINE old == worker[w]
           h == [old EXCEPT !.pc = "pipeline", !.doomed = {}]
<1>1. HandlerOK(old) /\ Carries(old, shop) /\ old.pc = "clear"
  BY DEF PublishInv, ClearListings
<1>2. worker' = [worker EXCEPT ![w] = h]
  BY DEF ClearListings, PublishInv, TypeOK
<1> HIDE DEF old
<1>3. HandlerOK(h) /\ Carries(h, shop)
  BY <1>1 DEF HandlerOK, Handler, Carries
<1>4. listings' \in [ItemSet -> Row \cup {NULL}] /\ pubs' \in [ItemSet -> [ChannelSet -> Pub]]
  BY BlankRow DEF ClearListings, PublishInv, TypeOK
<1>5. Real(listings', pubs', shop)
  BY BlankRow DEF ClearListings, PublishInv, Real
<1>6. UNCHANGED <<shop, booting, faults>> /\ Keeps(shop, shop)
  BY DEF ClearListings, Keeps
<1> QED
  BY <1>2, <1>3, <1>4, <1>5, <1>6, ThreadStep DEF PublishInv, TypeOK

LEMMA SavingOK ==
    ASSUME NEW h, HandlerOK(h), h.op = "source", NEW offers, NEW k \in DOMAIN Items
    PROVE  HandlerOK(Saving(h, k)) /\ Carries(Saving(h, k), offers)
<1>1. Outcome(k) \in Row /\ Outcome(k).cpn = NULL
  BY BlankRow DEF Outcome, Row
<1>2. Items[k] \in ItemSet /\ k \in Nat
  BY Sequences
<1>3. HandlerOK(Saving(h, k))
  BY <1>1, <1>2 DEF Saving, HandlerOK, Handler
<1>4. Carries(Saving(h, k), offers)
  BY <1>1, <1>2 DEF Saving, HandlerOK, Handler, Carries
<1> QED
  BY <1>3, <1>4

LEMMA RunPipelineOK == \A w \in Workers : PublishInv /\ RunPipeline(w) => PublishInv'
<1> SUFFICES ASSUME NEW w \in Workers, PublishInv, RunPipeline(w) PROVE PublishInv'
  OBVIOUS
<1>1. HandlerOK(worker[w]) /\ worker[w].op = "source"
  BY DEF PublishInv, RunPipeline, HandlerOK
<1>2. HandlerOK(Saving(worker[w], 1)) /\ Carries(Saving(worker[w], 1), shop)
  BY <1>1, SavingOK, Sequences
<1>3. worker' = [worker EXCEPT ![w] = Saving(worker[w], 1)]
  BY DEF RunPipeline
<1> QED
  BY <1>2, <1>3, LocalStep DEF RunPipeline, PublishInv, TypeOK
-----------------------------------------------------------------------------
(* The steps of an approval.                                               *)
LEMMA ApproveListingOK ==
    \A w \in Workers, i \in ItemSet : PublishInv /\ ApproveListing(w, i) => PublishInv'
<1> SUFFICES ASSUME NEW w \in Workers, NEW i \in ItemSet, PublishInv, ApproveListing(w, i)
             PROVE  PublishInv'
  OBVIOUS
<1> DEFINE h == [Idle EXCEPT !.pc = "draft", !.op = "approve", !.item = i]
<1>1. HandlerOK(h) /\ Carries(h, shop)
  BY BlankRow DEF HandlerOK, Handler, Idle, Carries
<1>2. worker' = [worker EXCEPT ![w] = h]
  BY DEF ApproveListing
<1> QED
  BY <1>1, <1>2, LocalStep DEF ApproveListing, PublishInv, TypeOK

LEMMA GetDraftOK == \A w \in Workers : PublishInv /\ GetDraft(w) => PublishInv'
<1> SUFFICES ASSUME NEW w \in Workers, PublishInv, GetDraft(w) PROVE PublishInv'
  OBVIOUS
<1> DEFINE old == worker[w]
           row == listings[old.item]
           answer == row # NULL /\ row.draft
           h == [old EXCEPT !.pc = "publish", !.rec.draft = answer]
<1>1. HandlerOK(old) /\ Carries(old, shop) /\ old.pc = "draft"
  BY DEF PublishInv, GetDraft
<1>2. worker' = [worker EXCEPT ![w] = h]
  BY DEF GetDraft, PublishInv, TypeOK
<1>3. answer \in BOOLEAN
  OBVIOUS
<1> HIDE DEF old, answer
<1>4. h.rec \in Row /\ h.rec.cpn = old.rec.cpn
  BY <1>1, <1>3 DEF HandlerOK, Handler, Row
<1>5. HandlerOK(h)
  BY <1>1, <1>4, Sequences DEF HandlerOK, Handler
<1>6. Carries(h, shop)
  BY <1>1, <1>4 DEF Carries, HandlerOK, Handler
<1> QED
  BY <1>2, <1>5, <1>6, LocalStep DEF GetDraft, PublishInv, TypeOK
-----------------------------------------------------------------------------
(* publish(): what a channel answered.                                     *)
LEMMA NotSoldOK ==
    ASSUME NEW h, HandlerOK(h), h.pc = "publish", NEW offers, Carries(h, offers),
           NEW status \in {"rejected", "pending"}
    PROVE  LET g == Collected(h, [status |-> status, no |-> NULL])
           IN  HandlerOK(g) /\ Carries(g, offers)
<1> DEFINE pub == [status |-> status, no |-> NULL]
<1>1. pub \in Pub /\ pub.no = NULL
  BY DEF Pub
<1> HIDE DEF pub
<1>2. HandlerOK(Collected(h, pub)) /\ Carries(Collected(h, pub), offers)
  BY <1>1, CollectedOK
<1> QED
  BY <1>2 DEF pub

LEMMA SoldOK ==
    ASSUME NEW h, HandlerOK(h), h.pc = "publish", NEW offers, Carries(h, offers),
           NEW p \in Number, SoldAs(offers, p, h.item, {Channels[h.k]})
    PROVE  LET g == Collected(h, [status |-> "listed", no |-> p])
           IN  HandlerOK(g) /\ Carries(g, offers)
<1> DEFINE pub == [status |-> "listed", no |-> p]
<1>1. pub \in Pub /\ pub.no = p
  BY DEF Pub
<1> HIDE DEF pub
<1>2. HandlerOK(Collected(h, pub)) /\ Carries(Collected(h, pub), offers)
  BY <1>1, CollectedOK
<1> QED
  BY <1>2 DEF pub

LEMMA NotListedOK == \A w \in Workers : PublishInv /\ NotListed(w) => PublishInv'
<1> SUFFICES ASSUME NEW w \in Workers, PublishInv, NotListed(w) PROVE PublishInv'
  OBVIOUS
<1>1. PICK status \in {"rejected", "pending"} :
        worker' = [worker EXCEPT ![w] = Collected(worker[w], [status |-> status, no |-> NULL])]
  BY DEF NotListed
<1>2. HandlerOK(worker[w]) /\ Carries(worker[w], shop) /\ worker[w].pc = "publish"
  BY DEF PublishInv, NotListed
<1> DEFINE g == Collected(worker[w], [status |-> status, no |-> NULL])
<1>3. HandlerOK(g) /\ Carries(g, shop)
  BY <1>2, NotSoldOK
<1> QED
  BY <1>1, <1>3, LocalStep DEF NotListed, PublishInv, TypeOK

(* The tables stay real when the channels sell more.                       *)
LEMMA SellingStep ==
    ASSUME PublishInv, NEW w \in Workers, NEW h, HandlerOK(h), Carries(h, shop'),
           worker' = [worker EXCEPT ![w] = h],
           UNCHANGED <<listings, pubs>>, booting' \in BOOLEAN, faults' \in 0..MaxFaults,
           shop' \in [ChannelSet -> Catalogue], Keeps(shop, shop')
    PROVE  PublishInv'
<1>1. Real(listings', pubs', shop')
  BY SoldStays DEF PublishInv
<1>2. /\ listings' \in [ItemSet -> Row \cup {NULL}]
      /\ pubs' \in [ItemSet -> [ChannelSet -> Pub]]
  BY DEF PublishInv, TypeOK
<1> QED
  BY <1>1, <1>2, ThreadStep

(* A channel lists the product, of whatever kind it is.                    *)
LEMMA ListsOK ==
    ASSUME PublishInv, NEW w \in Workers, worker[w].pc = "publish", Create(w),
           worker' = [worker EXCEPT ![w] =
               Collected(worker[w], [status |-> "listed", no |-> NextNumber(w)])],
           UNCHANGED <<listings, pubs, booting, faults>>
    PROVE  PublishInv'
<1> DEFINE h == worker[w]
           g == Collected(h, [status |-> "listed", no |-> NextNumber(w)])
<1>1. /\ shop' \in [ChannelSet -> Catalogue] /\ Keeps(shop, shop')
      /\ NextNumber(w) \in Number /\ SoldAs(shop', NextNumber(w), h.item, {Channels[h.k]})
  BY AtChannel, CreateOK DEF Create, NextNumber, Channel
<1>2. HandlerOK(h) /\ Carries(h, shop')
  BY <1>1, AtChannel, SoldStays
<1>3. HandlerOK(g) /\ Carries(g, shop')
  BY <1>1, <1>2, SoldOK
<1> QED
  BY <1>1, <1>3, SellingStep DEF PublishInv, TypeOK

LEMMA ListedOK ==
    \A w \in Workers : PublishInv /\ (SampleListed(w) \/ Listed(w)) => PublishInv'
  BY ListsOK DEF SampleListed, Listed, Posting

LEMMA FaultOK == TypeOK /\ Fault => faults' \in 0..MaxFaults
  BY PublishAssumption DEF TypeOK, Fault

LEMMA AnswerLostOK == \A w \in Workers : PublishInv /\ AnswerLost(w) => PublishInv'
<1> SUFFICES ASSUME NEW w \in Workers, PublishInv, AnswerLost(w) PROVE PublishInv'
  OBVIOUS
<1> DEFINE h == worker[w]
<1>1. h.pc = "publish"
  BY DEF AnswerLost, Posting
<1>2. shop' \in [ChannelSet -> Catalogue] /\ Keeps(shop, shop')
  BY <1>1, AtChannel, CreateOK DEF AnswerLost, Create, Channel
<1>3. HandlerOK(h) /\ Carries(h, shop')
  BY <1>1, <1>2, AtChannel, SoldStays
<1>4. PICK status \in {"rejected", "pending"} :
        worker' = [worker EXCEPT ![w] = Collected(h, [status |-> status, no |-> NULL])]
  BY DEF AnswerLost
<1> DEFINE g == Collected(h, [status |-> status, no |-> NULL])
<1>5. HandlerOK(g) /\ Carries(g, shop')
  BY <1>1, <1>3, NotSoldOK
<1>6. faults' \in 0..MaxFaults
  BY FaultOK DEF AnswerLost, PublishInv
<1> QED
  BY <1>2, <1>4, <1>5, <1>6, SellingStep DEF AnswerLost, PublishInv, TypeOK

LEMMA PostedTwiceOK == \A w \in Workers : PublishInv /\ PostedTwice(w) => PublishInv'
<1> SUFFICES ASSUME NEW w \in Workers, PublishInv, PostedTwice(w) PROVE PublishInv'
  OBVIOUS
<1> DEFINE h == worker[w]
           c == Channels[h.k]
           once == [shop EXCEPT ![c].sold = Append(shop[c].sold, h.item)]
           twice == [once EXCEPT ![c].sold = Append(once[c].sold, h.item)]
           p == [channel |-> c, no |-> Len(shop[c].sold) + 2]
           g == Collected(h, [status |-> "listed", no |-> p])
<1>1. /\ h.pc = "publish" /\ HandlerOK(h) /\ Carries(h, shop)
      /\ h.item \in ItemSet /\ c \in ChannelSet /\ shop \in [ChannelSet -> Catalogue]
  BY AtChannel DEF PostedTwice, Posting, Channel
<1>2. once \in [ChannelSet -> Catalogue] /\ Keeps(shop, once)
  BY <1>1, CreateOK
<1>3. shop[c] \in Catalogue /\ shop[c].sold \in Seq(ItemSet)
  BY <1>1 DEF Catalogue
<1>4. once[c].sold = Append(shop[c].sold, h.item) /\ Len(once[c].sold) + 1 = Len(shop[c].sold) + 2
  BY <1>1, <1>3 DEF Catalogue
<1>5. shop' = twice /\ worker' = [worker EXCEPT ![w] = g]
  BY <1>1, <1>4 DEF PostedTwice, Channel
<1> HIDE DEF once
<1>6. /\ shop' \in [ChannelSet -> Catalogue] /\ Keeps(once, shop')
      /\ p \in Number /\ SoldAs(shop', p, h.item, {c})
  BY <1>1, <1>2, <1>4, <1>5, CreateOK
<1>7. Keeps(shop, shop')
  BY <1>2, <1>6, KeepsOn
<1>8. Carries(h, shop')
  BY <1>1, <1>7, SoldStays
<1>9. HandlerOK(g) /\ Carries(g, shop')
  BY <1>1, <1>6, <1>8, SoldOK
<1>10. faults' \in 0..MaxFaults
  BY FaultOK DEF PostedTwice, PublishInv
<1> QED
  BY <1>5, <1>6, <1>7, <1>9, <1>10, SellingStep DEF PostedTwice, PublishInv, TypeOK
-----------------------------------------------------------------------------
(* save_publication.                                                       *)
LEMMA LoadPublicationOK == \A w \in Workers : PublishInv /\ LoadPublication(w) => PublishInv'
<1> SUFFICES ASSUME NEW w \in Workers, PublishInv, LoadPublication(w) PROVE PublishInv'
  OBVIOUS
<1> DEFINE old == worker[w]
           read == pubs[old.item][Channels[old.k]]
           h == [old EXCEPT !.pc = "save_pub", !.seenPub = read]
<1>1. HandlerOK(old) /\ Carries(old, shop) /\ old.pc = "load_pub"
  BY DEF PublishInv, LoadPublication
<1>2. worker' = [worker EXCEPT ![w] = h]
  BY DEF LoadPublication, PublishInv, TypeOK
<1>3. old.item \in ItemSet /\ Channels[old.k] \in ChannelSet
  BY <1>1, Sequences DEF HandlerOK
<1>4. read \in Pub
  BY <1>3 DEF PublishInv, TypeOK
<1> HIDE DEF old, read
<1>5. HandlerOK(h) /\ Carries(h, shop)
  BY <1>1, <1>4 DEF HandlerOK, Handler, Carries
<1> QED
  BY <1>2, <1>5, LocalStep DEF LoadPublication, PublishInv, TypeOK

LEMMA NextChannelOK ==
    ASSUME NEW h, HandlerOK(h), NEW offers, Carries(h, offers), h.pc = "save_pub",
           h.k # Len(Channels)
    PROVE  LET g == [h EXCEPT !.pc = "load_pub", !.k = h.k + 1, !.seenPub = NoPub]
           IN  HandlerOK(g) /\ Carries(g, offers)
<1>1. h.k + 1 \in DOMAIN Channels /\ h.k + 1 \in Nat
  BY Sequences DEF HandlerOK
<1> QED
  BY <1>1, BlankRow DEF HandlerOK, Handler, Carries

LEMMA SavePublicationOK == \A w \in Workers : PublishInv /\ SavePublication(w) => PublishInv'
<1> SUFFICES ASSUME NEW w \in Workers, PublishInv, SavePublication(w) PROVE PublishInv'
  OBVIOUS
<1> DEFINE h == worker[w]
           c == Channels[h.k]
           row == pubs[h.item][c]
           new == ResultToSave(h)
           other == [h EXCEPT !.pc = "load_pub", !.k = h.k + 1, !.seenPub = NoPub]
           next == IF h.k = Len(Channels) THEN Published(h) ELSE other
           saved == IF h.seenPub = new THEN row
                    ELSE [status |-> Column(row.status, h.seenPub.status, new.status),
                          no |-> Column(row.no, h.seenPub.no, new.no)]
<1>1. HandlerOK(h) /\ Carries(h, shop) /\ h.pc = "save_pub"
  BY DEF PublishInv, SavePublication
<1>2. h.item \in ItemSet /\ c \in ChannelSet /\ h \in Handler
  BY <1>1, Sequences DEF HandlerOK
<1>3. \/ worker' = [worker EXCEPT ![w] = Idle] /\ UNCHANGED pubs
      \/ worker' = [worker EXCEPT ![w] = next] /\ pubs' = [pubs EXCEPT ![h.item][c] = saved]
  BY DEF SavePublication
<1>4. UNCHANGED <<listings, shop, booting, faults>>
  BY DEF SavePublication
<1>5. CASE worker' = [worker EXCEPT ![w] = Idle] /\ UNCHANGED pubs
  BY <1>4, <1>5, IdleOK, LocalStep DEF PublishInv, TypeOK
<1>6. CASE worker' = [worker EXCEPT ![w] = next] /\ pubs' = [pubs EXCEPT ![h.item][c] = saved]
  <2>1. HandlerOK(next) /\ Carries(next, shop)
    BY <1>1, PublishedOK, NextChannelOK
  <2>2. row \in Pub /\ h.seenPub \in Pub /\ new \in Pub
    BY <1>2 DEF PublishInv, TypeOK, Handler, ResultToSave
  <2>3. saved \in Pub /\ saved.no \in {row.no, new.no}
    <3> HIDE DEF row, new
    <3> QED
      BY <2>2 DEF Pub, Column
  <2>4. saved.no # NULL => SoldAs(shop, saved.no, h.item, {c})
    <3>1. row.no # NULL => SoldAs(shop, row.no, h.item, {c})
      BY <1>2 DEF PublishInv, Real
    <3>2. new.no # NULL => SoldAs(shop, new.no, h.item, {c})
      BY <1>1, <1>2 DEF Carries, ResultToSave
    <3> QED
      BY <2>3, <3>1, <3>2
  <2> HIDE DEF saved, next
  <2>5. pubs \in [ItemSet -> [ChannelSet -> Pub]]
    BY DEF PublishInv, TypeOK
  <2>6. pubs' \in [ItemSet -> [ChannelSet -> Pub]]
    BY <1>2, <1>6, <2>3, <2>5
  <2>7. \A i \in ItemSet, d \in ChannelSet : pubs'[i][d].no # NULL
            => SoldAs(shop, pubs'[i][d].no, i, {d})
    <3> SUFFICES ASSUME NEW i \in ItemSet, NEW d \in ChannelSet, pubs'[i][d].no # NULL
                 PROVE  SoldAs(shop, pubs'[i][d].no, i, {d})
      OBVIOUS
    <3>1. CASE i = h.item /\ d = c
      BY <1>2, <1>6, <2>4, <2>5, <3>1
    <3>2. CASE ~(i = h.item /\ d = c)
      <4>1. pubs'[i][d] = pubs[i][d]
        BY <1>2, <1>6, <2>5, <3>2
      <4> QED
        BY <4>1 DEF PublishInv, Real
    <3> QED
      BY <3>1, <3>2
  <2>8. Real(listings', pubs', shop')
    BY <1>4, <2>7 DEF PublishInv, Real
  <2>9. Keeps(shop, shop')
    BY <1>4 DEF Keeps
  <2> QED
    BY <1>4, <1>6, <2>1, <2>6, <2>8, <2>9, ThreadStep DEF PublishInv, TypeOK
<1> QED
  BY <1>3, <1>5, <1>6
-----------------------------------------------------------------------------
(* save_listing.                                                           *)
LEMMA LoadRowOK == \A w \in Workers : PublishInv /\ LoadRow(w) => PublishInv'
<1> SUFFICES ASSUME NEW w \in Workers, PublishInv, LoadRow(w) PROVE PublishInv'
  OBVIOUS
<1> DEFINE old == worker[w]
           read == listings[old.item]
           h == [old EXCEPT !.pc = "save_row", !.seen = read]
<1>1. HandlerOK(old) /\ Carries(old, shop) /\ old.pc = "load_row"
  BY DEF PublishInv, LoadRow
<1>2. worker' = [worker EXCEPT ![w] = h]
  BY DEF LoadRow, PublishInv, TypeOK
<1>3. read \in Row \cup {NULL}
  BY <1>1 DEF PublishInv, TypeOK, HandlerOK
<1> HIDE DEF old, read
<1>4. HandlerOK(h) /\ Carries(h, shop)
  BY <1>1, <1>3 DEF HandlerOK, Handler, Carries
<1> QED
  BY <1>2, <1>4, LocalStep DEF LoadRow, PublishInv, TypeOK

LEMMA AfterSaveOK ==
    ASSUME NEW h, HandlerOK(h), h.pc = "save_row", NEW offers
    PROVE  HandlerOK(AfterSave(h)) /\ Carries(AfterSave(h), offers)
<1>1. CASE h.op = "source" /\ h.k < Len(Items)
  <2> DEFINE g == Saving(h, h.k + 1)
  <2>1. h.k + 1 \in DOMAIN Items
    BY <1>1, Sequences DEF HandlerOK
  <2>2. HandlerOK(g) /\ Carries(g, offers)
    BY <1>1, <2>1, SavingOK
  <2>3. AfterSave(h) = [g EXCEPT !.seen = NULL]
    BY <1>1 DEF AfterSave
  <2> HIDE DEF g
  <2> QED
    BY <2>2, <2>3 DEF HandlerOK, Handler, Carries
<1>2. CASE ~(h.op = "source" /\ h.k < Len(Items))
  BY <1>2, IdleOK DEF AfterSave
<1> QED
  BY <1>1, <1>2

LEMMA SaveRowOK == \A w \in Workers : PublishInv /\ SaveRow(w) => PublishInv'
<1> SUFFICES ASSUME NEW w \in Workers, PublishInv, SaveRow(w) PROVE PublishInv'
  OBVIOUS
<1> DEFINE h == worker[w]
           row == listings[h.item]
           new == NewRow(h)
           saved == IF h.seen = NULL THEN new
                    ELSE IF new = h.seen THEN row
                    ELSE [status |-> Column(row.status, h.seen.status, new.status),
                          cpn |-> Column(row.cpn, h.seen.cpn, new.cpn),
                          draft |-> Column(row.draft, h.seen.draft, new.draft)]
<1>1. HandlerOK(h) /\ Carries(h, shop) /\ h.pc = "save_row"
  BY DEF PublishInv, SaveRow
<1>2. h.item \in ItemSet /\ h.seen \in Row \cup {NULL} /\ h.rec \in Row
  BY <1>1 DEF HandlerOK, Handler
<1>3. /\ worker' = [worker EXCEPT ![w] = AfterSave(h)]
      /\ listings' = [listings EXCEPT ![h.item] = saved]
      /\ ~SaveFails(h) /\ UNCHANGED <<pubs, shop, faults>> /\ booting' \in BOOLEAN
  BY DEF SaveRow, PublishInv, TypeOK
<1>4. row \in Row \cup {NULL} /\ (h.seen # NULL /\ new # h.seen => row # NULL)
  BY <1>2, <1>3 DEF SaveFails, PublishInv, TypeOK
<1>5. new \in Row /\ new.cpn = h.rec.cpn
  <2>1. CASE h.seen = NULL
    BY <1>2, <2>1 DEF NewRow
  <2>2. CASE h.seen # NULL
    <3>1. h.rec.draft \/ h.seen.draft \in BOOLEAN
      BY <1>2, <2>2 DEF Row
    <3>2. new = [h.rec EXCEPT !.draft = h.rec.draft \/ h.seen.draft]
      BY <2>2 DEF NewRow
    <3> QED
      BY <1>2, <3>1, <3>2 DEF Row
  <2> QED
    BY <2>1, <2>2
<1>6. /\ saved \in Row \cup {NULL}
      /\ saved # NULL => saved.cpn = new.cpn \/ (row # NULL /\ saved.cpn = row.cpn)
  <2> HIDE DEF row, new
  <2> QED
    BY <1>2, <1>4, <1>5 DEF Row, Column
<1>7. saved # NULL /\ saved.cpn # NULL => SoldAs(shop, saved.cpn, h.item, ChannelSet)
  <2>1. row # NULL /\ row.cpn # NULL => SoldAs(shop, row.cpn, h.item, ChannelSet)
    BY <1>2 DEF PublishInv, Real
  <2>2. new.cpn # NULL => SoldAs(shop, new.cpn, h.item, ChannelSet)
    BY <1>1, <1>5 DEF Carries
  <2> QED
    BY <1>6, <2>1, <2>2
<1> HIDE DEF saved
<1>8. listings' \in [ItemSet -> Row \cup {NULL}]
  BY <1>3, <1>6 DEF PublishInv, TypeOK
<1>9. Real(listings', pubs', shop')
  BY <1>2, <1>3, <1>7 DEF PublishInv, TypeOK, Real
<1>10. HandlerOK(AfterSave(h)) /\ Carries(AfterSave(h), shop') /\ Keeps(shop, shop')
  BY <1>1, <1>3, AfterSaveOK DEF Keeps
<1> QED
  BY <1>3, <1>8, <1>9, <1>10, ThreadStep DEF PublishInv, TypeOK
-----------------------------------------------------------------------------
(* A handler that ends without saving.                                     *)
LEMMA RowCollidesOK == \A w \in Workers : PublishInv /\ RowCollides(w) => PublishInv'
<1> SUFFICES ASSUME NEW w \in Workers, PublishInv, RowCollides(w) PROVE PublishInv'
  OBVIOUS
<1> QED
  BY IdleOK, LocalStep DEF RowCollides, PublishInv, TypeOK

LEMMA RaisesOK == \A w \in Workers : PublishInv /\ Raises(w) => PublishInv'
<1> SUFFICES ASSUME NEW w \in Workers, PublishInv, Raises(w) PROVE PublishInv'
  OBVIOUS
<1>1. faults' \in 0..MaxFaults /\ booting' \in BOOLEAN
  BY FaultOK DEF Raises, PublishInv, TypeOK
<1> QED
  BY <1>1, IdleOK, LocalStep DEF Raises, PublishInv

(* A restart takes products away, but remembers which numbers they had.    *)
LEMMA ForgottenOK ==
    ASSUME TypeOK, shop' = [c \in ChannelSet |-> Forgotten(c)]
    PROVE  shop' \in [ChannelSet -> Catalogue] /\ Keeps(shop, shop')
<1>1. \A c \in ChannelSet : /\ shop[c].sold \in Seq(ItemSet) /\ shop[c].lost \in Nat
                            /\ Len(shop[c].sold) \in Nat /\ shop[c] \in Catalogue
                            /\ DOMAIN shop[c].sold = 1..Len(shop[c].sold)
  BY DEF TypeOK, Catalogue
<1>2. \A c \in ChannelSet : Forgotten(c) \in Catalogue
  <2>1. << >> \in Seq(ItemSet)
    OBVIOUS
  <2> QED
    BY <1>1, <2>1 DEF Forgotten, Catalogue
<1>3. ASSUME NEW p \in Number
      PROVE  /\ GoneFrom(shop, p) => GoneFrom(shop', p)
             /\ \A i : Names(shop, p, i) => GoneFrom(shop', p) \/ Names(shop', p, i)
  <2> DEFINE c == p.channel
  <2>1. c \in ChannelSet /\ p.no \in Nat
    BY DEF Number
  <2>2. CASE c \in Samples
    <3>1. shop'[c].lost >= shop[c].lost /\ shop'[c].lost >= Len(shop[c].sold)
      BY <1>1, <2>1, <2>2 DEF Forgotten
    <3>2. shop'[c].lost \in Nat
      BY <1>1, <2>1, <2>2 DEF Forgotten
    <3> HIDE DEF c
    <3> QED
      BY <1>1, <2>1, <2>2, <3>1, <3>2 DEF GoneFrom, Names, c
  <2>3. CASE c \notin Samples
    <3>1. shop'[c] = shop[c]
      BY <2>1, <2>3 DEF Forgotten
    <3> QED
      BY <3>1 DEF GoneFrom, Names
  <2> QED
    BY <2>2, <2>3
<1> QED
  BY <1>2, <1>3 DEF Keeps

LEMMA RestartOK == PublishInv /\ Restart => PublishInv'
<1> SUFFICES ASSUME PublishInv, Restart PROVE PublishInv'
  OBVIOUS
<1>1. faults' \in 0..MaxFaults /\ booting' \in BOOLEAN
  BY FaultOK DEF Restart, PublishInv, Seeding
<1>2. worker' \in [Workers -> Handler]
  BY IdleOK DEF Restart, HandlerOK
<1>3. \A w \in Workers : HandlerOK(worker'[w]) /\ Carries(worker'[w], shop')
  BY IdleOK DEF Restart
<1>4. shop' \in [ChannelSet -> Catalogue] /\ Keeps(shop, shop')
  BY ForgottenOK DEF Restart, PublishInv
<1>5. UNCHANGED <<listings, pubs>> /\ Real(listings', pubs', shop')
  BY <1>4, SoldStays DEF Restart, PublishInv
<1> QED
  BY <1>1, <1>2, <1>3, <1>4, <1>5 DEF PublishInv, TypeOK
-----------------------------------------------------------------------------
LEMMA PublishStep == PublishInv /\ [Next]_vars => PublishInv'
<1> SUFFICES ASSUME PublishInv, [Next]_vars PROVE PublishInv'
  OBVIOUS
<1>1. ASSUME NEW w \in Workers, RunSourcing(w) PROVE PublishInv'
  BY <1>1, RunSourcingOK
<1>2. ASSUME NEW w \in Workers, NEW i \in ItemSet, ApproveListing(w, i) PROVE PublishInv'
  BY <1>2, ApproveListingOK
<1>3. ASSUME NEW w \in Workers, Step(w) PROVE PublishInv'
  BY <1>3, ClearListingsOK, RunPipelineOK, GetDraftOK, ListedOK, NotListedOK, LoadPublicationOK,
     SavePublicationOK, LoadRowOK, SaveRowOK, RowCollidesOK DEF Step
<1>4. ASSUME NEW w \in Workers, AnswerLost(w) \/ PostedTwice(w) PROVE PublishInv'
  BY <1>4, AnswerLostOK, PostedTwiceOK
<1>5. ASSUME NEW w \in Workers, Raises(w) PROVE PublishInv'
  BY <1>5, RaisesOK
<1>6. CASE Restart
  BY <1>6, RestartOK
<1>7. CASE UNCHANGED vars
  <2>1. UNCHANGED <<listings, pubs, shop, worker, booting, faults>>
    BY <1>7 DEF vars
  <2>2. TypeOK'
    BY <2>1 DEF PublishInv, TypeOK
  <2>3. Real(listings', pubs', shop')
    BY <2>1 DEF PublishInv
  <2>4. \A w \in Workers : HandlerOK(worker'[w]) /\ Carries(worker'[w], shop')
    BY <2>1 DEF PublishInv
  <2> QED
    BY <2>2, <2>3, <2>4 DEF PublishInv
<1> QED
  BY <1>1, <1>2, <1>3, <1>4, <1>5, <1>6, <1>7 DEF Next

LEMMA PublishInvariant == PublishSpec => []PublishInv
<1> QED
  BY PublishInit, PublishStep, PTL DEF PublishSpec

(* Every reachable state of a desk of any items, channels and threads is   *)
(* of the declared types.                                                  *)
THEOREM PublishTypeCorrect == PublishSpec => []TypeOK
<1>1. PublishInv => TypeOK
  BY DEF PublishInv
<1> QED
  BY <1>1, PublishInvariant, PTL

(* Whatever overlaps, is lost, is posted twice or dies, a product number   *)
(* in "listings" or "publications" is that of a product of the same item,  *)
(* and in "publications" on the same channel, unless a sample channel gave *)
(* it before a restart; a real channel's number always is (service.py:87). *)
THEOREM NumbersStayReal == PublishSpec => []NumbersAreReal
<1>1. PublishInv => NumbersAreReal
  BY RealNumbers DEF PublishInv
<1> QED
  BY <1>1, PublishInvariant, PTL
-----------------------------------------------------------------------------
(***************************************************************************)
(* One thread: the dashboard with a single user.  What a session has read  *)
(* is then what is there, an approval finds its listing still ready at     *)
(* every step, and a sourcing run has the table to itself.                 *)
(***************************************************************************)
OneThread == \A v, w \in Workers : v = w

(* What KeyedByPrimary says of one row and the publications of its item.   *)
KeyFits(row, publications) ==
    /\ row.cpn \in Number
    /\ \E c \in ChannelSet : row.cpn = publications[c].no
    /\ publications[Primary].status = "listed" => row.cpn = publications[Primary].no

(* A row that may be approved has a draft, one that was is keyed.          *)
RowSound(row, publications) ==
    row # NULL =>
        /\ row.status = "ready" => row.draft
        /\ row.status = "published" => KeyFits(row, publications)

TablesSound(rows, publications) ==
    \A i \in ItemSet : RowSound(rows[i], publications[i])

(* A channel's answer has a number exactly when it listed the product.     *)
Truthful(pub) == pub.status = "listed" <=> pub.no # NULL

(* The sourcing run: until its rows are saved nothing is published, and    *)
(* what it saves is not published either.                                  *)
SourcingThread(h, rows) ==
    /\ h.pc = "clear" => h.doomed = {i \in ItemSet : rows[i] # NULL}
    /\ h.pc \in {"pipeline", "load_row", "save_row"} =>
          \A i \in ItemSet : rows[i] # NULL => rows[i].status # "published"
    /\ h.pc \in {"load_row", "save_row"} =>
          h.rec.status # "published" /\ (h.rec.status = "ready" => h.rec.draft)

(* The approval: its listing is still ready; it has a draft to publish;    *)
(* the first k - 1 results are saved, and in the end the record is keyed   *)
(* as the publications in the table say.                                   *)
ApprovingThread(h, rows, publications) ==
    /\ rows[h.item] # NULL /\ rows[h.item].status = "ready"
    /\ h.pc = "publish" => h.rec.draft
    /\ h.pc \in {"load_pub", "save_pub"} =>
          \A j \in 1..(h.k - 1) : publications[h.item][Channels[j]] = h.results[Channels[j]]
    /\ h.pc = "save_pub" => h.seenPub = publications[h.item][Channels[h.k]]
    /\ h.pc \in {"load_row", "save_row"} =>
          h.rec.status = "published" /\ KeyFits(h.rec, publications[h.item])

SerialThread(h, rows, publications) ==
    /\ h.pc # "idle" => h.op \in {"source", "approve"}
    /\ \A c \in ChannelSet : Truthful(h.results[c])
    /\ h.pc # "idle" /\ h.op = "source" => SourcingThread(h, rows)
    /\ h.pc # "idle" /\ h.op = "approve" => ApprovingThread(h, rows, publications)
    /\ h.pc = "save_row" => h.seen = rows[h.item]

SerialInv ==
    /\ PublishInv
    /\ TablesSound(listings, pubs)
    /\ \A w \in Workers : SerialThread(worker[w], listings, pubs)

LEMMA SoundIsKeyed == TablesSound(listings, pubs) => KeyedByPrimary
  BY DEF TablesSound, RowSound, KeyFits, KeyedByPrimary

LEMMA RestingSerial == \A rows, publications : SerialThread(Idle, rows, publications)
  BY DEF SerialThread, Idle, Truthful, NoPub

LEMMA SerialInit == Init => SerialInv
<1> SUFFICES ASSUME Init PROVE SerialInv
  OBVIOUS
<1>1. TablesSound(listings, pubs)
  BY DEF Init, TablesSound, RowSound
<1>2. \A w \in Workers : SerialThread(worker[w], listings, pubs)
  BY RestingSerial DEF Init
<1> QED
  BY <1>1, <1>2, PublishInit DEF SerialInv

(* What the only thread and the tables are in, whatever the step.          *)
LEMMA SerialFacts ==
    ASSUME SerialInv, NEW w \in Workers
    PROVE  /\ HandlerOK(worker[w]) /\ worker[w] \in Handler
           /\ SerialThread(worker[w], listings, pubs)
           /\ TablesSound(listings, pubs)
           /\ worker \in [Workers -> Handler]
           /\ listings \in [ItemSet -> Row \cup {NULL}]
           /\ pubs \in [ItemSet -> [ChannelSet -> Pub]]
  BY DEF SerialInv, PublishInv, TypeOK, HandlerOK

(* A step of the only thread: it ends in order, and so do the tables.      *)
LEMMA SerialThreadStep ==
    ASSUME OneThread, SerialInv, PublishInv', NEW w \in Workers, NEW h,
           worker' = [worker EXCEPT ![w] = h],
           SerialThread(h, listings', pubs'), TablesSound(listings', pubs')
    PROVE  SerialInv'
<1>1. \A v \in Workers : worker'[v] = h
  BY SerialFacts DEF OneThread
<1> QED
  BY <1>1 DEF SerialInv

(* The same for a step that leaves the tables alone.                       *)
LEMMA SerialLocalStep ==
    ASSUME OneThread, SerialInv, PublishInv', NEW w \in Workers, NEW h,
           worker' = [worker EXCEPT ![w] = h], UNCHANGED <<listings, pubs>>,
           SerialThread(h, listings, pubs)
    PROVE  SerialInv'
  BY SerialThreadStep, SerialFacts
-----------------------------------------------------------------------------
(* The sourcing run.                                                       *)
LEMMA SerialRunSourcing ==
    ASSUME OneThread, SerialInv, PublishInv', NEW w \in Workers, RunSourcing(w)
    PROVE  SerialInv'
<1> DEFINE doomed == {i \in ItemSet : listings[i] # NULL}
           h == [Idle EXCEPT !.pc = "clear", !.op = "source", !.doomed = doomed]
<1>1. worker' = [worker EXCEPT ![w] = h] /\ UNCHANGED <<listings, pubs>>
  BY DEF RunSourcing
<1>2. SerialThread(h, listings, pubs)
  BY DEF SerialThread, SourcingThread, Idle, Truthful, NoPub
<1> HIDE DEF h
<1> QED
  BY <1>1, <1>2, SerialLocalStep

LEMMA SerialClearListings ==
    ASSUME OneThread, SerialInv, PublishInv', NEW w \in Workers, ClearListings(w)
    PROVE  SerialInv'
<1> DEFINE old == worker[w]
           h == [old EXCEPT !.pc = "pipeline", !.doomed = {}]
<1>1. /\ old \in Handler /\ old.pc = "clear" /\ old.op = "source"
      /\ SerialThread(old, listings, pubs)
      /\ old.doomed = {i \in ItemSet : listings[i] # NULL}
  BY SerialFacts DEF ClearListings, HandlerOK, SerialThread, SourcingThread
<1>2. worker' = [worker EXCEPT ![w] = h]
  BY SerialFacts DEF ClearListings
<1>3. \A i \in ItemSet : listings'[i] = NULL
  BY <1>1 DEF ClearListings
<1> HIDE DEF old
<1>4. SerialThread(h, listings', pubs')
  BY <1>1, <1>3 DEF SerialThread, SourcingThread, Handler
<1>5. TablesSound(listings', pubs')
  BY <1>3 DEF TablesSound, RowSound
<1> QED
  BY <1>2, <1>4, <1>5, SerialThreadStep

(* The k-th item is about to be looked up, and nothing is published.       *)
LEMMA SerialSaving ==
    ASSUME NEW h, h \in Handler, h.op = "source", NEW k \in DOMAIN Items,
           NEW rows, NEW publications,
           \A c \in ChannelSet : Truthful(h.results[c]),
           \A i \in ItemSet : rows[i] # NULL => rows[i].status # "published"
    PROVE  SerialThread(Saving(h, k), rows, publications)
<1>1. Outcome(k).status # "published" /\ (Outcome(k).status = "ready" => Outcome(k).draft)
  BY DEF Outcome, Blank
<1>2. /\ Saving(h, k).pc = "load_row" /\ Saving(h, k).op = "source"
      /\ Saving(h, k).rec = Outcome(k) /\ Saving(h, k).results = h.results
  BY DEF Saving, Handler
<1> QED
  BY <1>1, <1>2 DEF SerialThread, SourcingThread

LEMMA SerialRunPipeline ==
    ASSUME OneThread, SerialInv, PublishInv', NEW w \in Workers, RunPipeline(w)
    PROVE  SerialInv'
<1> DEFINE old == worker[w]
<1>1. /\ old \in Handler /\ old.op = "source"
      /\ \A c \in ChannelSet : Truthful(old.results[c])
      /\ \A i \in ItemSet : listings[i] # NULL => listings[i].status # "published"
  BY SerialFacts DEF RunPipeline, HandlerOK, SerialThread, SourcingThread
<1>2. worker' = [worker EXCEPT ![w] = Saving(old, 1)] /\ UNCHANGED <<listings, pubs>>
  BY DEF RunPipeline
<1> QED
  BY <1>1, <1>2, SerialSaving, SerialLocalStep, Sequences
-----------------------------------------------------------------------------
(* The approval, up to its last answer.                                    *)
LEMMA SerialApproveListing ==
    ASSUME OneThread, SerialInv, PublishInv', NEW w \in Workers, NEW i \in ItemSet,
           ApproveListing(w, i)
    PROVE  SerialInv'
<1> DEFINE h == [Idle EXCEPT !.pc = "draft", !.op = "approve", !.item = i]
<1>1. worker' = [worker EXCEPT ![w] = h] /\ UNCHANGED <<listings, pubs>>
  BY DEF ApproveListing
<1>2. SerialThread(h, listings, pubs)
  BY DEF ApproveListing, SerialThread, ApprovingThread, Idle, Truthful, NoPub
<1> HIDE DEF h
<1> QED
  BY <1>1, <1>2, SerialLocalStep

LEMMA SerialGetDraft ==
    ASSUME OneThread, SerialInv, PublishInv', NEW w \in Workers, GetDraft(w)
    PROVE  SerialInv'
<1> DEFINE old == worker[w]
           row == listings[old.item]
           h == [old EXCEPT !.pc = "publish", !.rec.draft = row # NULL /\ row.draft]
<1>1. /\ old \in Handler /\ old.op = "approve" /\ old.pc = "draft" /\ old.item \in ItemSet
      /\ SerialThread(old, listings, pubs)
      /\ row # NULL /\ row.status = "ready"
  BY SerialFacts DEF GetDraft, HandlerOK, SerialThread, ApprovingThread
<1>2. row.draft
  BY <1>1, SerialFacts DEF TablesSound, RowSound
<1>3. worker' = [worker EXCEPT ![w] = h] /\ UNCHANGED <<listings, pubs>>
  BY SerialFacts DEF GetDraft
<1>4. /\ h.pc = "publish" /\ h.op = "approve" /\ h.item = old.item
      /\ h.results = old.results /\ h.rec.draft
  BY <1>1, <1>2 DEF Handler, Row
<1> HIDE DEF h
<1>5. SerialThread(h, listings, pubs)
  BY <1>1, <1>4 DEF SerialThread, ApprovingThread
<1> QED
  BY <1>3, <1>5, SerialLocalStep

(* An answer of a channel is collected.                                    *)
LEMMA SerialCollected ==
    ASSUME NEW h, HandlerOK(h), h.pc = "publish", NEW rows, NEW publications,
           SerialThread(h, rows, publications), NEW pub \in Pub, Truthful(pub)
    PROVE  SerialThread(Collected(h, pub), rows, publications)
<1> DEFINE g == Collected(h, pub)
           last == h.k = Len(Channels)
<1>1. h \in Handler /\ h.k \in DOMAIN Channels /\ h.op = "approve"
  BY DEF HandlerOK
<1>2. /\ g.results = [h.results EXCEPT ![Channels[h.k]] = pub]
      /\ g.pc = IF last THEN "load_pub" ELSE "publish"
      /\ g.k = IF last THEN 1 ELSE h.k + 1
      /\ g.item = h.item /\ g.rec = h.rec /\ g.op = "approve"
  BY <1>1 DEF Collected, Handler
<1>3. \A c \in ChannelSet : Truthful(g.results[c])
  BY <1>1, <1>2 DEF Handler, SerialThread
<1>4. ApprovingThread(h, rows, publications)
  BY <1>1 DEF SerialThread
<1> HIDE DEF g
<1>5. g.pc = "load_pub" => 1..(g.k - 1) = {}
  BY <1>2
<1>6. g.pc \in {"load_pub", "publish"}
  BY <1>2
<1>7. ApprovingThread(g, rows, publications)
  BY <1>2, <1>4, <1>5, <1>6 DEF ApprovingThread
<1> QED
  BY <1>2, <1>3, <1>6, <1>7 DEF SerialThread, g

(* publish() in all the ways it may turn out.                              *)
LEMMA SerialPublish ==
    ASSUME OneThread, SerialInv, PublishInv', NEW w \in Workers,
           SampleListed(w) \/ Listed(w) \/ NotListed(w) \/ AnswerLost(w) \/ PostedTwice(w)
    PROVE  SerialInv'
<1>1. /\ worker[w].pc = "publish" /\ HandlerOK(worker[w])
      /\ SerialThread(worker[w], listings, pubs) /\ UNCHANGED <<listings, pubs>>
  BY SerialFacts DEF SampleListed, Listed, NotListed, AnswerLost, PostedTwice, Posting
<1>2. \A p \in Number : LET pub == [status |-> "listed", no |-> p] IN
                           pub \in Pub /\ Truthful(pub)
  BY Sequences DEF Pub, Truthful
<1>3. \A status \in {"rejected", "pending"} :
          LET pub == [status |-> status, no |-> NULL] IN pub \in Pub /\ Truthful(pub)
  BY DEF Pub, Truthful
<1>4. PICK pub \in Pub : Truthful(pub) /\ worker' = [worker EXCEPT ![w] = Collected(@, pub)]
  <2>1. CASE SampleListed(w) \/ Listed(w)
    <3>1. NextNumber(w) \in Number
      BY <1>1, AtChannel, CreateOK DEF NextNumber, SerialInv
    <3> QED
      BY <1>2, <2>1, <3>1 DEF SampleListed, Listed
  <2>2. CASE NotListed(w) \/ AnswerLost(w)
    BY <1>3, <2>2 DEF NotListed, AnswerLost
  <2>3. CASE PostedTwice(w)
    <3> DEFINE c == Channel(w)
               p == [channel |-> c, no |-> Len(shop[c].sold) + 2]
    <3>1. c \in ChannelSet /\ Len(shop[c].sold) \in Nat
      BY <1>1, AtChannel DEF SerialInv, Catalogue
    <3>2. p \in Number
      BY <3>1 DEF Number
    <3> QED
      BY <1>2, <2>3, <3>2 DEF PostedTwice
  <2> QED
    BY <2>1, <2>2, <2>3
<1>5. SerialThread(Collected(worker[w], pub), listings, pubs)
  BY <1>1, <1>4, SerialCollected
<1> QED
  BY <1>1, <1>4, <1>5, SerialLocalStep
-----------------------------------------------------------------------------
(* The approval saves what it collected.                                   *)
LEMMA SerialLoadPublication ==
    ASSUME OneThread, SerialInv, PublishInv', NEW w \in Workers, LoadPublication(w)
    PROVE  SerialInv'
<1> DEFINE old == worker[w]
           read == pubs[old.item][Channels[old.k]]
           h == [old EXCEPT !.pc = "save_pub", !.seenPub = read]
<1>1. /\ old \in Handler /\ old.op = "approve" /\ old.pc = "load_pub"
      /\ SerialThread(old, listings, pubs)
  BY SerialFacts DEF LoadPublication, HandlerOK
<1>2. worker' = [worker EXCEPT ![w] = h] /\ UNCHANGED <<listings, pubs>>
  BY SerialFacts DEF LoadPublication
<1>3. /\ h.pc = "save_pub" /\ h.seenPub = read /\ h.op = "approve"
      /\ h.item = old.item /\ h.k = old.k /\ h.results = old.results
  BY <1>1 DEF Handler
<1> HIDE DEF h
<1>4. SerialThread(h, listings, pubs)
  BY <1>1, <1>3 DEF SerialThread, ApprovingThread
<1> QED
  BY <1>2, <1>4, SerialLocalStep

(* All results are saved: the record the handler goes on to save is keyed  *)
(* as the publications say.                                                *)
LEMMA SerialPublished ==
    ASSUME NEW h, HandlerOK(h), h.pc = "save_pub", NEW rows, NEW publications,
           rows[h.item] # NULL, rows[h.item].status = "ready",
           \A c \in ChannelSet : Truthful(h.results[c]),
           \A c \in ChannelSet : publications[h.item][c] = h.results[c]
    PROVE  SerialThread(Published(h), rows, publications)
<1>1. CASE \E c \in ChannelSet : h.results[c].status = "listed"
  <2> DEFINE key == MonitorKey(h)
             g == [h EXCEPT !.pc = "load_row", !.seenPub = NoPub,
                            !.rec = [status |-> "published", cpn |-> key, draft |-> FALSE]]
  <2>1. /\ \E c \in ChannelSet : h.results[c].status = "listed" /\ key = h.results[c].no
        /\ h.results[Primary].status = "listed" => key = h.results[Primary].no
    BY <1>1, MonitorKeyCarried
  <2>2. h \in Handler /\ h.op = "approve" /\ Primary \in ChannelSet
    BY Sequences DEF HandlerOK
  <2>3. key \in Number
    BY <2>1, <2>2 DEF Truthful, Handler, Pub
  <2> HIDE DEF key
  <2>4. /\ g.pc = "load_row" /\ g.op = "approve" /\ g.item = h.item /\ g.results = h.results
        /\ g.rec = [status |-> "published", cpn |-> key, draft |-> FALSE]
    BY <2>2 DEF Handler
  <2>5. Published(h) = g
    BY <1>1 DEF Published, key
  <2> HIDE DEF g
  <2>6. KeyFits(g.rec, publications[h.item])
    BY <2>1, <2>2, <2>3, <2>4 DEF KeyFits
  <2> QED
    BY <2>4, <2>5, <2>6 DEF SerialThread, ApprovingThread
<1>2. CASE ~\E c \in ChannelSet : h.results[c].status = "listed"
  BY <1>2, RestingSerial DEF Published
<1> QED
  BY <1>1, <1>2

LEMMA SerialSavePublication ==
    ASSUME OneThread, SerialInv, PublishInv', NEW w \in Workers, SavePublication(w)
    PROVE  SerialInv'
<1> DEFINE h == worker[w]
           c == Channels[h.k]
           row == pubs[h.item][c]
           new == ResultToSave(h)
           other == [h EXCEPT !.pc = "load_pub", !.k = h.k + 1, !.seenPub = NoPub]
           next == IF h.k = Len(Channels) THEN Published(h) ELSE other
           saved == IF h.seenPub = new THEN row
                    ELSE [status |-> Column(row.status, h.seenPub.status, new.status),
                          no |-> Column(row.no, h.seenPub.no, new.no)]
<1>1. /\ HandlerOK(h) /\ h \in Handler /\ h.pc = "save_pub" /\ h.op = "approve"
      /\ h.item \in ItemSet /\ h.k \in DOMAIN Channels /\ c \in ChannelSet
      /\ SerialThread(h, listings, pubs) /\ ApprovingThread(h, listings, pubs)
      /\ h.seenPub = row
  BY SerialFacts, Sequences DEF SavePublication, HandlerOK, SerialThread, ApprovingThread
<1>2. CASE worker' = [worker EXCEPT ![w] = Idle] /\ UNCHANGED pubs
  BY <1>2, RestingSerial, SerialLocalStep DEF SavePublication
<1>3. CASE worker' = [worker EXCEPT ![w] = next] /\ pubs' = [pubs EXCEPT ![h.item][c] = saved]
  <2>1. row \in Pub /\ new \in Pub /\ new = h.results[c]
    BY <1>1, SerialFacts DEF Handler, ResultToSave
  <2>2. saved = new
    <3> HIDE DEF row, new
    <3> QED
      BY <1>1, <2>1 DEF Pub, Column
  <2> HIDE DEF saved
  <2>3. pubs' \in [ItemSet -> [ChannelSet -> Pub]] /\ UNCHANGED listings
    BY DEF SavePublication, PublishInv, TypeOK
  <2>4. /\ pubs'[h.item][c] = h.results[c]
        /\ \A d \in ChannelSet : d # c => pubs'[h.item][d] = pubs[h.item][d]
        /\ \A i \in ItemSet : i # h.item => pubs'[i] = pubs[i]
    BY <1>1, <1>3, <2>1, <2>2, SerialFacts
  <2>5. \A j \in 1..h.k : pubs'[h.item][Channels[j]] = h.results[Channels[j]]
    <3> SUFFICES ASSUME NEW j \in 1..h.k
                 PROVE  pubs'[h.item][Channels[j]] = h.results[Channels[j]]
      OBVIOUS
    <3>1. Channels[j] \in ChannelSet
      BY <1>1, Sequences
    <3>2. CASE Channels[j] = c
      BY <2>4, <3>2
    <3>3. CASE Channels[j] # c
      <4>1. j \in 1..(h.k - 1)
        BY <1>1, <3>3, Sequences
      <4> QED
        BY <1>1, <2>4, <3>1, <3>3, <4>1 DEF ApprovingThread
    <3> QED
      BY <3>2, <3>3
  <2>6. TablesSound(listings', pubs')
    <3> SUFFICES ASSUME NEW i \in ItemSet
                 PROVE  RowSound(listings[i], pubs'[i])
      BY <2>3 DEF TablesSound
    <3>1. CASE i = h.item
      BY <1>1, <3>1, SerialFacts DEF TablesSound, RowSound, ApprovingThread
    <3>2. CASE i # h.item
      BY <2>4, <3>2, SerialFacts DEF TablesSound
    <3> QED
      BY <3>1, <3>2
  <2>7. listings[h.item] # NULL /\ listings[h.item].status = "ready"
    BY <1>1 DEF ApprovingThread
  <2>8. \A d \in ChannelSet : Truthful(h.results[d])
    BY <1>1 DEF SerialThread
  <2>9. SerialThread(next, listings', pubs')
    <3>1. CASE h.k = Len(Channels)
      <4>1. \A d \in ChannelSet : pubs'[h.item][d] = h.results[d]
        BY <2>5, <3>1, Sequences DEF ChannelSet
      <4> QED
        BY <1>1, <2>3, <2>7, <2>8, <3>1, <4>1, SerialPublished
    <3>2. CASE h.k # Len(Channels)
      <4>1. /\ other.pc = "load_pub" /\ other.op = "approve" /\ other.item = h.item
            /\ other.results = h.results /\ other.k = h.k + 1
        BY <1>1 DEF Handler
      <4>2. 1..(other.k - 1) = 1..h.k
        BY <1>1, <4>1, Sequences
      <4>3. next = other
        BY <3>2
      <4> HIDE DEF other, next
      <4> QED
        BY <2>3, <2>5, <2>7, <2>8, <4>1, <4>2, <4>3 DEF SerialThread, ApprovingThread
    <3> QED
      BY <3>1, <3>2
  <2> HIDE DEF next
  <2> QED
    BY <1>3, <2>6, <2>9, SerialThreadStep
<1> QED
  BY <1>2, <1>3 DEF SavePublication
-----------------------------------------------------------------------------
(* save_listing, for both handlers.                                        *)
LEMMA SerialLoadRow ==
    ASSUME OneThread, SerialInv, PublishInv', NEW w \in Workers, LoadRow(w)
    PROVE  SerialInv'
<1> DEFINE old == worker[w]
           read == listings[old.item]
           h == [old EXCEPT !.pc = "save_row", !.seen = read]
<1>1. old \in Handler /\ old.pc = "load_row" /\ SerialThread(old, listings, pubs)
  BY SerialFacts DEF LoadRow
<1>2. worker' = [worker EXCEPT ![w] = h] /\ UNCHANGED <<listings, pubs>>
  BY SerialFacts DEF LoadRow
<1>3. /\ h.pc = "save_row" /\ h.seen = read /\ h.op = old.op
      /\ h.item = old.item /\ h.rec = old.rec /\ h.results = old.results
  BY <1>1 DEF Handler
<1> HIDE DEF h
<1>4. SerialThread(h, listings, pubs)
  BY <1>1, <1>3 DEF SerialThread, SourcingThread, ApprovingThread
<1> QED
  BY <1>2, <1>4, SerialLocalStep

(* What the only thread saves is its record, with the draft of the row.    *)
LEMMA SerialSavedRow ==
    ASSUME SerialInv, NEW w \in Workers, SaveRow(w)
    PROVE  \E new \in Row :
              /\ listings' = [listings EXCEPT ![worker[w].item] = new]
              /\ new.status = worker[w].rec.status /\ new.cpn = worker[w].rec.cpn
              /\ worker[w].rec.draft => new.draft
<1> DEFINE h == worker[w]
           row == listings[h.item]
           new == NewRow(h)
           saved == IF h.seen = NULL THEN new
                    ELSE IF new = h.seen THEN row
                    ELSE [status |-> Column(row.status, h.seen.status, new.status),
                          cpn |-> Column(row.cpn, h.seen.cpn, new.cpn),
                          draft |-> Column(row.draft, h.seen.draft, new.draft)]
<1>1. h \in Handler /\ h.pc = "save_row" /\ h.seen = row /\ h.rec \in Row
  BY SerialFacts DEF SaveRow, SerialThread, Handler
<1>2. row \in Row \cup {NULL}
  BY <1>1 DEF Handler
<1>3. /\ new \in Row /\ new.status = h.rec.status /\ new.cpn = h.rec.cpn
      /\ h.rec.draft => new.draft
  <2>1. CASE row = NULL
    BY <1>1, <2>1 DEF NewRow
  <2>2. CASE row # NULL
    <3>1. h.rec.draft \/ row.draft \in BOOLEAN
      BY <1>1, <1>2, <2>2 DEF Row
    <3>2. new = [h.rec EXCEPT !.draft = h.rec.draft \/ row.draft]
      BY <1>1, <2>2 DEF NewRow
    <3>3. new \in Row
      BY <1>1, <3>1, <3>2 DEF Row
    <3>4. new.status = h.rec.status /\ new.cpn = h.rec.cpn
      BY <1>1, <3>2 DEF Row
    <3>5. new.draft = (h.rec.draft \/ row.draft)
      BY <1>1, <3>2 DEF Row
    <3> QED
      BY <3>3, <3>4, <3>5
  <2> QED
    BY <2>1, <2>2
<1>4. listings' = [listings EXCEPT ![h.item] = saved]
  BY DEF SaveRow
<1>5. saved = new
  <2>1. \A a, b : Column(a, a, b) = b
    BY DEF Column
  <2>2. CASE row = NULL \/ new = row
    BY <1>1, <2>2
  <2>3. CASE row # NULL /\ new # row
    <3>1. saved = [status |-> new.status, cpn |-> new.cpn, draft |-> new.draft]
      BY <1>1, <2>1, <2>3
    <3> HIDE DEF new, saved
    <3> QED
      BY <1>3, <3>1 DEF Row
  <2> QED
    BY <2>2, <2>3
<1> HIDE DEF new, saved
<1> QED
  BY <1>3, <1>4, <1>5

LEMMA SerialSaveRow ==
    ASSUME OneThread, SerialInv, PublishInv', NEW w \in Workers, SaveRow(w)
    PROVE  SerialInv'
<1> DEFINE h == worker[w]
<1>1. /\ HandlerOK(h) /\ h \in Handler /\ h.pc = "save_row" /\ h.item \in ItemSet
      /\ SerialThread(h, listings, pubs) /\ h.op \in {"source", "approve"}
  BY SerialFacts DEF SaveRow, HandlerOK, SerialThread
<1>2. PICK new \in Row : /\ listings' = [listings EXCEPT ![h.item] = new]
                         /\ new.status = h.rec.status /\ new.cpn = h.rec.cpn
                         /\ h.rec.draft => new.draft
  BY SerialSavedRow
<1>3. worker' = [worker EXCEPT ![w] = AfterSave(h)] /\ UNCHANGED pubs
  BY DEF SaveRow
<1>4. \A i \in ItemSet : listings'[i] = IF i = h.item THEN new ELSE listings[i]
  BY <1>1, <1>2, SerialFacts
<1>5. CASE h.op = "source"
  <2>1. /\ h.rec.status # "published" /\ (h.rec.status = "ready" => h.rec.draft)
        /\ \A i \in ItemSet : listings[i] # NULL => listings[i].status # "published"
    BY <1>1, <1>5 DEF SerialThread, SourcingThread
  <2>2. RowSound(new, pubs[h.item])
    BY <1>2, <2>1 DEF RowSound
  <2>3. TablesSound(listings', pubs')
    BY <1>3, <1>4, <2>2, SerialFacts DEF TablesSound
  <2>4. \A i \in ItemSet : listings'[i] # NULL => listings'[i].status # "published"
    BY <1>2, <1>4, <2>1
  <2>5. SerialThread(AfterSave(h), listings', pubs')
    <3>1. CASE h.k < Len(Items)
      <4> DEFINE g == Saving(h, h.k + 1)
      <4>1. h.k + 1 \in DOMAIN Items
        BY <1>1, <1>5, <3>1, Sequences DEF HandlerOK
      <4>2. SerialThread(g, listings', pubs')
        <5>1. \A c \in ChannelSet : Truthful(h.results[c])
          BY <1>1 DEF SerialThread
        <5> QED
          BY <1>1, <1>5, <2>4, <4>1, <5>1, SerialSaving
      <4>3. AfterSave(h) = [g EXCEPT !.seen = NULL]
        BY <1>5, <3>1 DEF AfterSave
      <4>4. g \in Handler /\ g.op = "source" /\ g.pc = "load_row"
        BY <1>1, <1>5, <4>1, SavingOK DEF HandlerOK, Saving, Handler
      <4>5. LET n == AfterSave(h) IN
            n.pc = "load_row" /\ n.op = "source" /\ n.rec = g.rec /\ n.results = g.results
        BY <4>2, <4>3, <4>4 DEF Handler
      <4> HIDE DEF g
      <4> QED
        BY <4>2, <4>4, <4>5 DEF SerialThread, SourcingThread
    <3>2. CASE ~(h.k < Len(Items))
      BY <3>2, RestingSerial DEF AfterSave
    <3> QED
      BY <3>1, <3>2
  <2> QED
    BY <1>3, <2>3, <2>5, SerialThreadStep
<1>6. CASE h.op = "approve"
  <2>1. h.rec.status = "published" /\ KeyFits(h.rec, pubs[h.item])
    BY <1>1, <1>6 DEF SerialThread, ApprovingThread
  <2>2. RowSound(new, pubs[h.item])
    BY <1>2, <2>1 DEF RowSound, KeyFits
  <2>3. TablesSound(listings', pubs')
    BY <1>3, <1>4, <2>2, SerialFacts DEF TablesSound
  <2>4. AfterSave(h) = Idle
    BY <1>6 DEF AfterSave
  <2> QED
    BY <1>3, <2>3, <2>4, RestingSerial, SerialThreadStep
<1> QED
  BY <1>1, <1>5, <1>6
-----------------------------------------------------------------------------
LEMMA SerialStep == OneThread /\ SerialInv /\ [Next]_vars => SerialInv'
<1> SUFFICES ASSUME OneThread, SerialInv, [Next]_vars PROVE SerialInv'
  OBVIOUS
<1>0. PublishInv'
  BY PublishStep DEF SerialInv
<1>1. ASSUME NEW w \in Workers, RunSourcing(w) PROVE SerialInv'
  BY <1>0, <1>1, SerialRunSourcing
<1>2. ASSUME NEW w \in Workers, NEW i \in ItemSet, ApproveListing(w, i) PROVE SerialInv'
  BY <1>0, <1>2, SerialApproveListing
<1>3. ASSUME NEW w \in Workers, RowCollides(w) \/ Raises(w) PROVE SerialInv'
  BY <1>0, <1>3, RestingSerial, SerialLocalStep DEF RowCollides, Raises
<1>4. ASSUME NEW w \in Workers, Step(w) PROVE SerialInv'
  BY <1>0, <1>3, <1>4, SerialClearListings, SerialRunPipeline, SerialGetDraft, SerialPublish,
     SerialLoadPublication, SerialSavePublication, SerialLoadRow, SerialSaveRow DEF Step
<1>5. ASSUME NEW w \in Workers, AnswerLost(w) \/ PostedTwice(w) PROVE SerialInv'
  BY <1>0, <1>5, SerialPublish
<1>6. CASE Restart
  BY <1>0, <1>6, RestingSerial DEF Restart, SerialInv
<1>7. CASE UNCHANGED vars
  BY <1>0, <1>7 DEF vars, SerialInv
<1> QED
  BY <1>1, <1>2, <1>3, <1>4, <1>5, <1>6, <1>7 DEF Next

LEMMA SerialInvariant ==
    ASSUME OneThread
    PROVE  PublishSpec => []SerialInv
<1>1. Init => SerialInv
  BY SerialInit
<1>2. SerialInv /\ [Next]_vars => SerialInv'
  BY SerialStep
<1> QED
  BY <1>1, <1>2, PTL DEF PublishSpec

(* With one user, whatever is lost or posted twice and wherever the        *)
(* process dies, a published row has a number, that of its product in the  *)
(* primary channel if it is listed there and of one in another channel if  *)
(* not (service.py:96): the monitor never works on a row without a key.    *)
THEOREM SoloKeyedByPrimary ==
    ASSUME OneThread
    PROVE  PublishSpec => []KeyedByPrimary
<1>1. PublishSpec => []SerialInv
  BY SerialInvariant
<1>2. SerialInv => KeyedByPrimary
  BY SoundIsKeyed DEF SerialInv
<1> QED
  BY <1>1, <1>2, PTL

(* With one user, what approve_listing hands to the publisher is never the *)
(* None get_draft would give for a row without a draft (service.py:81):    *)
(* the three transactions it reads in speak of one and the same row.       *)
THEOREM SoloApprovalHasDraft ==
    ASSUME OneThread
    PROVE  PublishSpec => []ApprovalHasDraft
<1>1. PublishSpec => []SerialInv
  BY SerialInvariant
<1>2. SerialInv => ApprovalHasDraft
  BY DEF SerialInv, PublishInv, HandlerOK, SerialThread, ApprovingThread, ApprovalHasDraft
<1> QED
  BY <1>1, <1>2, PTL
=============================================================================
