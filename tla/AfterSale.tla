------------------------------ MODULE AfterSale ------------------------------
(***************************************************************************)
(* What follows a sale, composed with the pipeline that priced it, as in   *)
(* jikgugom/demo.py: the order guard (order/processor.py) and the          *)
(* fulfilment ledger in memory (order/manual.py, order/ledger.py).         *)
(***************************************************************************)
EXTENDS Pipeline

CONSTANTS
  CostsFx,       \* costs.yaml fx_rate_krw_per_usd: the rate of the guard
  MinOrderMargin \* OrderGuardConfig.min_margin_rate, in 1/10000

ASSUME AfterSaleAssumption == CostsFx \in Nat \ {0} /\ MinOrderMargin \in Nat

VARIABLES
  order,    \* the order taken: NULL or [item, sale, hs, status]
  ledger    \* its line in the ledger: NULL or its status

vars == <<env, shop, market, batch, outcome, order, ledger>>

SalesInit == PipelineInit /\ order = NULL /\ ledger = NULL

\* Mutant: the order's context gets the wrong amount of the quote.
TakeOrderWrongAmount(i) ==
  /\ order = NULL
  /\ batch.pc = "done"
  /\ outcome[i] # NULL /\ outcome[i].quote # NULL
  /\ order' = [item |-> i, sale |-> outcome[i].quote.profit, status |-> "received",
               hs |-> IF shop.source = "sample" THEN market[i].good.hs ELSE NoCode]
  /\ UNCHANGED <<pipelineVars, ledger>>

\* A priced product is ordered at its price.  The code for the customs is the
\* one the source gives, not the one the engine found.
TakeOrder(i) ==
  /\ order = NULL
  /\ batch.pc = "done"
  /\ outcome[i] # NULL /\ outcome[i].quote # NULL
  /\ order' = [item |-> i, sale |-> outcome[i].quote.sale, status |-> "received",
               hs |-> IF shop.source = "sample" THEN market[i].good.hs ELSE NoCode]
  /\ UNCHANGED <<pipelineVars, ledger>>

\* check_availability.  AliExpress tells nothing of the stock: what has a price
\* is in stock.
Snapshot(i) ==
  [price    |-> IF shop.source = "sample" THEN market[i].price ELSE Shown(i),
   stock    |-> IF shop.source = "aliexpress" THEN Shown(i) > 0 ELSE market[i].stock,
   currency |-> market[i].good.currency]

CostNow(o) ==
  LET snap == Snapshot(o.item)
  IN  FinalCost(snap.price, CustomsTypeFor(snap.price, snap.currency), o.hs, CostsFx)

\* Mutant: the price at the source is not looked at again.
GuardStockOnly(o) ==
  IF Snapshot(o.item).stock THEN "auto_order" ELSE "approval_required"

\* OrderProcessor.evaluate_guard.
Guard(o) ==
  IF /\ Snapshot(o.item).stock
     /\ Profit(o.sale, CostNow(o), shop.channel) > 0
     /\ MarginRate(o.sale, CostNow(o), shop.channel) >= MinOrderMargin
  THEN "auto_order" ELSE "approval_required"

\* Mutant: a second call starts the line anew.
ProcessAnew(auto) ==
  /\ order # NULL
  /\ IF Guard(order) = "auto_order" /\ auto
     THEN ledger' = "awaiting_purchase" /\ order' = [order EXCEPT !.status = "amazon_ordered"]
     ELSE UNCHANGED ledger /\ order' = [order EXCEPT !.status = "pending_approval"]
  /\ UNCHANGED pipelineVars

\* OrderProcessor.process, any number of times for one order number.
Process(auto) ==
  /\ order # NULL
  /\ IF Guard(order) = "auto_order" /\ auto
     THEN /\ ledger' = IF ledger = NULL THEN "awaiting_purchase" ELSE ledger
          /\ order' = [order EXCEPT !.status = "amazon_ordered"]
     ELSE UNCHANGED ledger /\ order' = [order EXCEPT !.status = "pending_approval"]
  /\ UNCHANGED pipelineVars

\* The operator's side of the ledger: neither call asks what the line says.
ConfirmPurchase ==
  /\ ledger # NULL
  /\ ledger' = "purchased"
  /\ UNCHANGED <<pipelineVars, order>>

UpdateShipment ==
  /\ ledger # NULL
  /\ ledger' \in {"shipped", "customs", "delivered"}
  /\ UNCHANGED <<pipelineVars, order>>

SalesNext ==
  \/ PipelineStep /\ UNCHANGED <<order, ledger>>
  \/ \E i \in Items : TakeOrder(i)
  \/ \E auto \in BOOLEAN : Process(auto)
  \/ ConfirmPurchase
  \/ UpdateShipment

SalesSpec == SalesInit /\ [][SalesNext]_vars
-----------------------------------------------------------------------------
Quotes == [sale: Nat, profit: Int, margin: Int]

SalesTypeOK ==
  /\ env \in Environment \cup {NULL}
  /\ shop # NULL =>
       /\ shop.source \in {"sample", "aliexpress", "amazon"}
       /\ shop.channel \in SupportedChannels /\ shop.fx \in Nat \ {0}
  /\ \A i \in Items : market[i].good \in Goods /\ market[i].price \in Prices
  /\ batch.pc \in {"idle", "run", "done"} /\ DOMAIN batch.seen = Items
  /\ \A i \in Items : outcome[i] # NULL =>
       /\ outcome[i].status \in {"blocked", "review", "margin_rejected", "ready",
                                 "published", "publish_failed"}
       /\ outcome[i].quote # NULL => outcome[i].quote \in Quotes
       /\ outcome[i].score # NULL => outcome[i].score \in 0..100
  /\ order # NULL => order.status \in {"received", "pending_approval", "amazon_ordered"}
  /\ ledger \in {NULL, "awaiting_purchase", "purchased", "shipped", "customs", "delivered"}

\* A process with a key of AliExpress or Amazon does not source from the samples,
\* and one with a key of Naver, where Naver is the primary channel, does not
\* imitate it: such a start is real or fails (core/settings.py: fail-fast).  Keys of
\* a source that another one precedes, or of a channel that is not sold on, may
\* go unused.
NoSilentMock ==
  [][env # NULL /\ shop' # NULL =>
       /\ env.keys \cap {AliKey, AliSecret, AmazonKey} # {} => shop'.source # "sample"
       /\ env.keys \cap {NaverId, NaverSecret} # {} /\ shop'.channel = "naver"
            => shop'.catalog = "real"]_vars

\* What a rule forbids never has a price, so that it cannot be sold by any
\* way out of the pipeline, and what is in doubt waits for a person: only what
\* no rule has anything against gets a draft (compliance/engine.py).
OnlyCleanIsDrafted ==
  \A i \in Items :
    LET p == batch.seen[i]
    IN  outcome[i] # NULL =>
          /\ outcome[i].quote # NULL =>
               ~Prohibited(p) /\ ~Banned(p) /\ ~Counterfeit(p) /\ ~NeedsKc(p, KcBlock)
          /\ outcome[i].draft # NULL => Doubts(p) = {}

\* Every price, whatever the customs type, the code and the rate, is the least
\* one in price units that earns the target margin (margin/engine.py).
PricesCover ==
  \A i \in Items :
    outcome[i] # NULL /\ outcome[i].quote # NULL =>
      LeastPrice(outcome[i].quote.sale,
                 FinalCost(batch.seen[i].price, Verdict(i).customs, Verdict(i).hs, shop.fx),
                 shop.channel)

\* The models advise: with their keys or without, failing or answering anything,
\* they change neither the quote nor the price of the draft, and of what is
\* decided only that a product may wait for a person instead of being offered
\* (evaluation/agent.py, content/agent.py).
AdviserOnlyDemotes ==
  \A i \in Items :
    outcome[i] # NULL /\ outcome[i].quote # NULL =>
      /\ outcome[i].quote = QuoteOf(i)
      /\ outcome[i].draft # NULL => outcome[i].draft.price = QuoteOf(i).sale
      /\ outcome[i].status \in {"ready", "published", "publish_failed"}
           => Verdict(i).verdict = "pass" /\ ~TooThin(QuoteOf(i))
      /\ Verdict(i).verdict = "pass" /\ ~TooThin(QuoteOf(i))
           => outcome[i].status # "margin_rejected"

\* An order for what the pipeline offered passes the guard for as long as the
\* source is in stock and no dearer than it was, although the two compute with
\* different rates, codes and floors: if the rate of the settings is not below
\* that of costs.yaml (order/processor.py, core/settings.py).
FreshOrderPasses ==
  order # NULL /\ outcome[order.item].draft # NULL /\ shop.fx >= CostsFx =>
    LET snap == Snapshot(order.item)
    IN  snap.stock /\ snap.price <= batch.seen[order.item].price
          => Guard(order) = "auto_order"

\* Nothing is ordered by itself at a loss: when a line enters the ledger, the
\* sale earns something, before any rounding, at the price seen just then
\* (order/processor.py).
NoLossOrdered ==
  [][ledger = NULL /\ ledger' # NULL =>
       Snapshot(order.item).stock /\ Earning(order.sale, CostNow(order), shop.channel) > 0]_vars

\* Processing an order again leaves what its line says: neither a second
\* purchase is asked for nor is the progress of the first lost (order/manual.py).
ReprocessKeepsLedger ==
  [][ledger # NULL /\ ledger' # ledger => ledger' # "awaiting_purchase"]_vars
=============================================================================
