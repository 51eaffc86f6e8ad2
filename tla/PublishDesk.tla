----------------------------- MODULE PublishDesk -----------------------------
(***************************************************************************)
(* Sourcing and publishing in the dashboard service (api/service.py): the  *)
(* handlers run_sourcing and approve_listing over the tables "listings"    *)
(* and "publications" (api/db.py), the publisher that fans a draft out to  *)
(* the channels (jikgugom/pipeline/multichannel.py), and the channels.     *)
(*                                                                         *)
(* As in OrderDesk, a handler is a sequence of transactions and of calls   *)
(* to the outside, and other threads run between any two of them.          *)
(*                                                                         *)
(* A listing row keeps its status, the number the monitor goes by and      *)
(* whether it has a draft.  The verdicts of compliance, margin and         *)
(* evaluation are the constant Sellable: such an item comes out of the     *)
(* pipeline "ready" and with a draft, any other one is put aside.          *)
(*                                                                         *)
(* A channel without keys is a sample (adapters/factory.py): its products  *)
(* and the counter of their numbers live in the process, and a restart     *)
(* forgets them while the tables go on naming them.                        *)
(***************************************************************************)
EXTENDS Naturals, Sequences

CONSTANTS Items,       (* what fetch_bestsellers returns, in its order     *)
          Sellable,    (* those the pipeline finds fit for publication     *)
          Channels,    (* the channels of the settings, in their order     *)
          Primary,     (* settings.primary_channel                         *)
          Samples,     (* the channels factory.py has no real adapter for  *)
          Workers,     (* threads that may run a handler at one time       *)
          MaxProducts, (* bound: with so many on a channel none is approved *)
          MaxFaults,   (* bound: exceptions, lost answers and restarts     *)
          Restarts,    (* whether the process may be killed                *)
          NULL

ItemSet == {Items[i] : i \in DOMAIN Items}
ChannelSet == {Channels[i] : i \in DOMAIN Channels}

(* A product number: no two channels give the same (samples.py: prefixes), *)
(* and a channel counts its own.                                           *)
Number == [channel: ChannelSet, no: Nat]

ASSUME PublishAssumption ==
    /\ Items \in Seq(ItemSet) /\ Len(Items) > 0
    /\ Channels \in Seq(ChannelSet)
    /\ Sellable \subseteq ItemSet
    /\ Primary \in ChannelSet /\ Samples \subseteq ChannelSet
    /\ MaxProducts \in Nat /\ MaxFaults \in Nat /\ Restarts \in BOOLEAN
    /\ NULL \notin Number \cup ItemSet

VARIABLES listings,    (* table listings: [ItemSet -> Row or NULL]         *)
          pubs,        (* table publications: [ItemSet -> [ChannelSet -> Pub]] *)
          shop,        (* what the channels sell: [ChannelSet -> Catalogue] *)
          worker,      (* handlers in progress: [Workers -> Handler]       *)
          booting,     (* the process runs __init__ and serves nobody yet  *)
          faults       (* history: faults so far                           *)

vars == <<listings, pubs, shop, worker, booting, faults>>
-----------------------------------------------------------------------------
Row == [status: {"ready", "published", "aside"}, cpn: Number \cup {NULL}, draft: BOOLEAN]

Pub == [status: {"none", "listed", "rejected", "pending"}, no: Number \cup {NULL}]

(* sold: the items of the products numbered 1, 2, ...; lost: history, the  *)
(* last number given by a process that died and took its products along.   *)
Catalogue == [sold: Seq(ItemSet), lost: Nat]

NoPub == [status |-> "none", no |-> NULL]

Blank == [status |-> "aside", cpn |-> NULL, draft |-> FALSE]

(* k counts the items of a sourcing run and the channels of an approval;   *)
(* rec is the record to save, results what the publisher collected, seen   *)
(* and seenPub the rows the open session has read, doomed the rows that    *)
(* clear_listings is about to delete.                                      *)
Handler == [pc: {"idle", "clear", "pipeline", "draft", "publish", "load_pub", "save_pub",
                 "load_row", "save_row"},
            op: {"none", "source", "approve"},
            item: ItemSet \cup {NULL}, k: Nat,
            rec: Row, results: [ChannelSet -> Pub],
            seen: Row \cup {NULL}, seenPub: Pub, doomed: SUBSET ItemSet]

Idle == [pc |-> "idle", op |-> "none", item |-> NULL, k |-> 1,
         rec |-> Blank, results |-> [c \in ChannelSet |-> NoPub],
         seen |-> NULL, seenPub |-> NoPub, doomed |-> {}]

(* A process started on an empty database.                                 *)
Init ==
    /\ listings = [i \in ItemSet |-> NULL]
    /\ pubs = [i \in ItemSet |-> [c \in ChannelSet |-> NoPub]]
    /\ shop = [c \in ChannelSet |-> [sold |-> << >>, lost |-> 0]]
    /\ worker = [w \in Workers |-> Idle]
    /\ booting = TRUE
    /\ faults = 0

Column(current, read, new) == IF new # read THEN new ELSE current
-----------------------------------------------------------------------------
(* run_sourcing starts with clear_listings, which first reads what it will *)
(* delete.  __init__ calls it before the server serves anybody.            *)
RunSourcing(w) ==
    /\ worker[w].pc = "idle"
    /\ booting => \A v \in Workers : worker[v] = Idle
    /\ worker' = [worker EXCEPT ![w] =
          [Idle EXCEPT !.pc = "clear", !.op = "source",
                       !.doomed = {i \in ItemSet : listings[i] # NULL}]]
    /\ UNCHANGED <<listings, pubs, shop, booting, faults>>

(* Mutant: publications outlive the listings they belong to.               *)
ClearListingsOnly(w) ==
    /\ worker[w].pc = "clear"
    /\ listings' = [i \in ItemSet |-> IF i \in worker[w].doomed THEN NULL ELSE listings[i]]
    /\ worker' = [worker EXCEPT ![w].pc = "pipeline", ![w].doomed = {}]
    /\ UNCHANGED <<pubs, shop, booting, faults>>

ClearListings(w) ==
    /\ worker[w].pc = "clear"
    /\ listings' = [i \in ItemSet |-> IF i \in worker[w].doomed THEN NULL ELSE listings[i]]
    /\ pubs' = [i \in ItemSet |-> [c \in ChannelSet |-> NoPub]]
    /\ worker' = [worker EXCEPT ![w].pc = "pipeline", ![w].doomed = {}]
    /\ UNCHANGED <<shop, booting, faults>>

(* The record run_sourcing saves for the k-th outcome.                     *)
Outcome(k) == IF Items[k] \in Sellable
              THEN [status |-> "ready", cpn |-> NULL, draft |-> TRUE]
              ELSE Blank

Saving(h, k) == [h EXCEPT !.pc = "load_row", !.k = k, !.item = Items[k], !.rec = Outcome(k)]

(* PipelineRunner.run: every item is processed before the first is saved.  *)
RunPipeline(w) ==
    /\ worker[w].pc = "pipeline"
    /\ worker' = [worker EXCEPT ![w] = Saving(@, 1)]
    /\ UNCHANGED <<listings, pubs, shop, booting, faults>>
-----------------------------------------------------------------------------
Room == \A c \in ChannelSet : Len(shop[c].sold) < MaxProducts

(* Mutant: approve does not ask whether the listing is ready.              *)
ApproveListingAnyStatus(w, i) ==
    /\ worker[w].pc = "idle" /\ ~booting /\ Room
    /\ listings[i] # NULL
    /\ worker' = [worker EXCEPT ![w] = [Idle EXCEPT !.pc = "draft", !.op = "approve", !.item = i]]
    /\ UNCHANGED <<listings, pubs, shop, booting, faults>>

(* approve_listing: 404 and 409 change nothing and are left out.           *)
ApproveListing(w, i) ==
    /\ worker[w].pc = "idle" /\ ~booting /\ Room
    /\ listings[i] # NULL
    /\ listings[i].status = "ready"
    /\ worker' = [worker EXCEPT ![w] = [Idle EXCEPT !.pc = "draft", !.op = "approve", !.item = i]]
    /\ UNCHANGED <<listings, pubs, shop, booting, faults>>

(* get_draft is a transaction of its own; rec.draft remembers its answer.  *)
GetDraft(w) ==
    LET row == listings[worker[w].item] IN
    /\ worker[w].pc = "draft"
    /\ worker' = [worker EXCEPT ![w].pc = "publish",
                                ![w].rec.draft = row # NULL /\ row.draft]
    /\ UNCHANGED <<listings, pubs, shop, booting, faults>>

(* publish() goes on to the next channel, or its results get saved.        *)
Collected(h, pub) ==
    LET last == h.k = Len(Channels) IN
    [h EXCEPT !.results[Channels[h.k]] = pub,
              !.k = IF last THEN 1 ELSE @ + 1,
              !.pc = IF last THEN "load_pub" ELSE "publish"]

Channel(w) == Channels[worker[w].k]

(* The channel gives its next number.                                      *)
NextNumber(w) == [channel |-> Channel(w), no |-> Len(shop[Channel(w)].sold) + 1]

Create(w) == shop' = [shop EXCEPT ![Channel(w)].sold = Append(@, worker[w].item)]

(* A sample channel lists whatever it gets, None as well.                  *)
SampleListed(w) ==
    /\ worker[w].pc = "publish" /\ Channel(w) \in Samples
    /\ Create(w)
    /\ worker' = [worker EXCEPT ![w] = Collected(@, [status |-> "listed", no |-> NextNumber(w)])]
    /\ UNCHANGED <<listings, pubs, booting, faults>>

(* A real channel gets a request, if there is a draft to make one of.      *)
Posting(w) == worker[w].pc = "publish" /\ Channel(w) \notin Samples /\ worker[w].rec.draft

Listed(w) ==
    /\ Posting(w)
    /\ Create(w)
    /\ worker' = [worker EXCEPT ![w] = Collected(@, [status |-> "listed", no |-> NextNumber(w)])]
    /\ UNCHANGED <<listings, pubs, booting, faults>>

(* The channel refuses, or answers without a number, or there is no draft  *)
(* to publish: MultiChannelPublisher turns an exception into "pending".    *)
NotListed(w) ==
    /\ worker[w].pc = "publish" /\ Channel(w) \notin Samples
    /\ \E status \in (IF worker[w].rec.draft THEN {"rejected", "pending"} ELSE {"pending"}) :
          worker' = [worker EXCEPT ![w] = Collected(@, [status |-> status, no |-> NULL])]
    /\ UNCHANGED <<listings, pubs, shop, booting, faults>>
-----------------------------------------------------------------------------
(* SqlRepository.save_publication, for each channel in turn.               *)
LoadPublication(w) ==
    LET h == worker[w] IN
    /\ h.pc = "load_pub"
    /\ worker' = [worker EXCEPT ![w].pc = "save_pub",
                                ![w].seenPub = pubs[h.item][Channels[h.k]]]
    /\ UNCHANGED <<listings, pubs, shop, booting, faults>>

(* Mutant: the listing's vocabulary where the publication's belongs.       *)
ResultToSaveWrongWord(h) ==
    LET r == h.results[Channels[h.k]] IN
    IF r.status = "listed" THEN [r EXCEPT !.status = "published"] ELSE r

(* Mutant: every channel's row gets the primary channel's result.          *)
ResultToSavePrimary(h) == h.results[Primary]

ResultToSave(h) == h.results[Channels[h.k]]

(* Mutant: the row is keyed by the last channel that listed the product.   *)
MonitorKeyLast(h) ==
    LET listed == {k \in DOMAIN Channels : h.results[Channels[k]].status = "listed"}
        last == CHOOSE k \in listed : \A j \in listed : j <= k
    IN  h.results[Channels[last]].no

(* The number the row keeps: the primary channel's, else the first listed. *)
MonitorKey(h) ==
    LET listed == {k \in DOMAIN Channels : h.results[Channels[k]].status = "listed"}
        first == CHOOSE k \in listed : \A j \in listed : k <= j
    IN  IF h.results[Primary].status = "listed" THEN h.results[Primary].no
        ELSE h.results[Channels[first]].no

(* After the last publication: one success is enough to be published.      *)
Published(h) ==
    IF \E c \in ChannelSet : h.results[c].status = "listed"
    THEN [h EXCEPT !.pc = "load_row", !.seenPub = NoPub,
                   !.rec = [status |-> "published", cpn |-> MonitorKey(h), draft |-> FALSE]]
    ELSE Idle

(* Two sessions that both read no row both insert, and the second fails;   *)
(* a row that was deleted meanwhile fails the update.                      *)
SavePublication(w) ==
    LET h == worker[w]
        c == Channels[h.k]
        row == pubs[h.item][c]
        new == ResultToSave(h)
        next == IF h.k = Len(Channels) THEN Published(h)
                ELSE [h EXCEPT !.pc = "load_pub", !.k = @ + 1, !.seenPub = NoPub]
    IN  /\ h.pc = "save_pub"
        /\ IF (h.seenPub = NoPub /\ row # NoPub) \/ (h.seenPub \notin {NoPub, new} /\ row = NoPub)
           THEN worker' = [worker EXCEPT ![w] = Idle] /\ UNCHANGED pubs
           ELSE /\ worker' = [worker EXCEPT ![w] = next]
                /\ pubs' = [pubs EXCEPT ![h.item][c] =
                      IF h.seenPub = new THEN row
                      ELSE [status |-> Column(row.status, h.seenPub.status, new.status),
                            no |-> Column(row.no, h.seenPub.no, new.no)]]
        /\ UNCHANGED <<listings, shop, booting, faults>>
-----------------------------------------------------------------------------
(* SqlRepository.save_listing, for both handlers; a draft that is not      *)
(* given leaves the column as it is.                                       *)
LoadRow(w) ==
    /\ worker[w].pc = "load_row"
    /\ worker' = [worker EXCEPT ![w].pc = "save_row", ![w].seen = listings[worker[w].item]]
    /\ UNCHANGED <<listings, pubs, shop, booting, faults>>

NewRow(h) ==
    IF h.seen = NULL THEN h.rec ELSE [h.rec EXCEPT !.draft = @ \/ h.seen.draft]

SaveFails(h) ==
    LET row == listings[h.item] IN
    \/ h.seen = NULL /\ row # NULL
    \/ h.seen # NULL /\ row = NULL /\ NewRow(h) # h.seen

(* What is left of the handler once its row is saved.                      *)
AfterSave(h) ==
    IF h.op = "source" /\ h.k < Len(Items) THEN [Saving(h, h.k + 1) EXCEPT !.seen = NULL] ELSE Idle

SaveRow(w) ==
    LET h == worker[w]
        row == listings[h.item]
        new == NewRow(h)
    IN  /\ h.pc = "save_row"
        /\ ~SaveFails(h)
        /\ listings' = [listings EXCEPT ![h.item] =
              IF h.seen = NULL THEN new
              ELSE IF new = h.seen THEN row
              ELSE [status |-> Column(row.status, h.seen.status, new.status),
                    cpn |-> Column(row.cpn, h.seen.cpn, new.cpn),
                    draft |-> Column(row.draft, h.seen.draft, new.draft)]]
        /\ worker' = [worker EXCEPT ![w] = AfterSave(h)]
        /\ booting' = (booting /\ AfterSave(h) # Idle)
        /\ UNCHANGED <<pubs, shop, faults>>

RowCollides(w) ==
    /\ worker[w].pc = "save_row"
    /\ SaveFails(worker[w])
    /\ worker' = [worker EXCEPT ![w] = Idle]
    /\ UNCHANGED <<listings, pubs, shop, booting, faults>>
-----------------------------------------------------------------------------
Fault == faults < MaxFaults /\ faults' = faults + 1

(* The product was created but the answer did not come back.               *)
AnswerLost(w) ==
    /\ Fault
    /\ Posting(w)
    /\ Create(w)
    /\ \E status \in {"rejected", "pending"} :
          worker' = [worker EXCEPT ![w] = Collected(@, [status |-> status, no |-> NULL])]
    /\ UNCHANGED <<listings, pubs, booting>>

(* The product was created and the answer was an error of the server that  *)
(* request_json takes for passing (5xx): it posts the product again.  What *)
(* timed out is not posted again.                                          *)
PostedTwice(w) ==
    LET c == Channel(w)
        item == worker[w].item
        answer == [channel |-> c, no |-> Len(shop[c].sold) + 2] IN
    /\ Fault
    /\ Posting(w)
    /\ shop' = [shop EXCEPT ![c].sold = Append(Append(@, item), item)]
    /\ worker' = [worker EXCEPT ![w] = Collected(@, [status |-> "listed", no |-> answer])]
    /\ UNCHANGED <<listings, pubs, booting>>

(* A process that starts seeds an empty table, and only an empty one.      *)
Seeding == \A i \in ItemSet : listings[i] = NULL

(* The source, the pipeline or the database raises; publish() does not.    *)
(* In __init__ that ends the process, and it is started again: nothing has *)
(* been published yet.                                                     *)
Raises(w) ==
    /\ Fault
    /\ worker[w].pc \notin {"idle", "publish"}
    /\ worker' = [worker EXCEPT ![w] = Idle]
    /\ booting' = (booting /\ Seeding)
    /\ UNCHANGED <<listings, pubs, shop>>

(* What a new process knows of a channel: the samples start empty and      *)
(* count from one again.                                                   *)
Forgotten(c) ==
    IF c \in Samples
    THEN [sold |-> << >>, lost |-> IF shop[c].lost < Len(shop[c].sold) THEN Len(shop[c].sold)
                                  ELSE shop[c].lost]
    ELSE shop[c]

(* The process dies and starts again; the tables are as they were.         *)
Restart ==
    /\ Fault /\ Restarts
    /\ worker' = [w \in Workers |-> Idle]
    /\ booting' = Seeding
    /\ shop' = [c \in ChannelSet |-> Forgotten(c)]
    /\ UNCHANGED <<listings, pubs>>
-----------------------------------------------------------------------------
Step(w) ==
    \/ ClearListings(w)
    \/ RunPipeline(w)
    \/ GetDraft(w)
    \/ SampleListed(w)
    \/ Listed(w)
    \/ NotListed(w)
    \/ LoadPublication(w)
    \/ SavePublication(w)
    \/ LoadRow(w)
    \/ SaveRow(w)
    \/ RowCollides(w)

Next ==
    \/ \E w \in Workers :
          \/ RunSourcing(w)
          \/ \E i \in ItemSet : ApproveListing(w, i)
          \/ Step(w)
          \/ AnswerLost(w)
          \/ PostedTwice(w)
          \/ Raises(w)
    \/ Restart

PublishSpec == Init /\ [][Next]_vars
-----------------------------------------------------------------------------
TypeOK ==
    /\ listings \in [ItemSet -> Row \cup {NULL}]
    /\ pubs \in [ItemSet -> [ChannelSet -> Pub]]
    /\ shop \in [ChannelSet -> Catalogue]
    /\ worker \in [Workers -> Handler]
    /\ booting \in BOOLEAN
    /\ faults \in 0..MaxFaults

(* Given by a process that died: its successor may give the number again.  *)
Gone(p) == p.channel \in Samples /\ p.no <= shop[p.channel].lost

Sells(p, i) ==
    p.no \in DOMAIN shop[p.channel].sold /\ shop[p.channel].sold[p.no] = i

(* Whatever overlaps, is lost, is posted twice or dies, a number in either *)
(* table is that of a product of that very item, in a publication on that  *)
(* very channel; all that is excepted is a sample channel's number from    *)
(* before a restart.  So two rows share a number only if it is such a one; *)
(* the monitor's dictionary from numbers to rows needs that they do not    *)
(* (service.py:171).                                                       *)
NumbersAreReal ==
    \A i \in ItemSet :
        /\ listings[i] # NULL /\ listings[i].cpn # NULL
             => Gone(listings[i].cpn) \/ Sells(listings[i].cpn, i)
        /\ \A c \in ChannelSet :
             LET p == pubs[i][c].no IN p # NULL => p.channel = c /\ (Gone(p) \/ Sells(p, i))

(* The monitor's key: a published row has a number, the one its            *)
(* publication in the primary channel has if there is one (service.py:96), *)
(* and some channel's in any case.                                         *)
KeyedByPrimary ==
    \A i \in ItemSet :
        listings[i] # NULL /\ listings[i].status = "published" =>
            /\ listings[i].cpn \in Number
            /\ \E c \in ChannelSet : listings[i].cpn = pubs[i][c].no
            /\ pubs[i][Primary].status = "listed" => listings[i].cpn = pubs[i][Primary].no

(* What approve_listing publishes has been written: a draft that passed    *)
(* compliance and margin, never None (get_listing, get_draft and publish   *)
(* run one after the other, not in one transaction).                       *)
ApprovalHasDraft ==
    \A w \in Workers : worker[w].pc = "publish" => worker[w].rec.draft

(* While nothing is in progress, the monitor knows every product of the    *)
(* primary channel: some published row is keyed by it.  A product that is  *)
(* in no row is never paused (adapters/naver.py: the shop is told a stock  *)
(* of 999 because the monitor pauses what is sold out).                    *)
SoldIsWatched ==
    (~booting /\ \A w \in Workers : worker[w].pc = "idle") =>
        \A k \in DOMAIN shop[Primary].sold :
            \E i \in ItemSet : listings[i] # NULL /\ listings[i].status = "published"
                                /\ listings[i].cpn = [channel |-> Primary, no |-> k]

(* One product of a kind per channel (adapters/base.py: publishing the     *)
(* same product twice is to be prevented).                                 *)
NoDuplicateProduct ==
    \A c \in ChannelSet : \A j, k \in DOMAIN shop[c].sold :
        shop[c].sold[j] = shop[c].sold[k] => j = k

(* No two published rows go by one number (service.py:171).                *)
KeysDiffer ==
    \A i, j \in ItemSet :
        /\ i # j /\ listings[i] # NULL /\ listings[j] # NULL
        /\ listings[i].status = "published" /\ listings[j].status = "published"
        => listings[i].cpn # listings[j].cpn

(* A product that fails does not stop the batch (pipeline/runner.py): once *)
(* no sourcing run is in progress, the catalogue is there.                 *)
CatalogueIsThere ==
    (~booting /\ \A w \in Workers : worker[w].op # "source")
        => \A i \in ItemSet : listings[i] # NULL
=============================================================================
