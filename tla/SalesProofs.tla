----------------------------- MODULE SalesProofs -----------------------------
(***************************************************************************)
(* The pipeline and what follows a sale, for every environment, every      *)
(* range of products and every configuration the loaders accept.           *)
(*                                                                         *)
(* The argument is one inductive invariant: an outcome is what the engines *)
(* say of the product as it was fetched (ResultOK), and an order is at the *)
(* price of such an outcome (OrderOK).  Neither can be disturbed, because  *)
(* a process reads its environment once and fetches before it judges.      *)
(***************************************************************************)
EXTENDS AfterSale, MarginProofs

Offered == {"ready", "published", "publish_failed"}
Sources == {"sample", "aliexpress", "amazon"}

\* A product as an adapter reports it.
SeenOK(i, p) ==
  /\ p.price \in Nat /\ p.currency = market[i].good.currency
  /\ p.rating \in 0..50 /\ p.count \in DOMAIN Demand /\ p.crowd \in 0..99

\* An outcome that is what the engines say of the product.
ResultOK(i, r) ==
  /\ batch.seen[i] # NULL
  /\ r.status \in Offered \cup {"blocked", "review", "margin_rejected"}
  /\ r.quote # NULL =>
       /\ Verdict(i).verdict # "block"
       /\ ~Unpriceable(i)
       /\ r.quote = QuoteOf(i)
  /\ r.draft # NULL =>
       /\ Verdict(i).verdict = "pass"
       /\ ~TooThin(QuoteOf(i))
       /\ r.draft.price = QuoteOf(i).sale
  /\ r.status \in Offered => Verdict(i).verdict = "pass" /\ ~TooThin(QuoteOf(i))
  /\ r.status = "margin_rejected" =>
       /\ ~Unpriceable(i)
       /\ Verdict(i).verdict = "pass" /\ TooThin(QuoteOf(i))
  /\ r.score # NULL => r.score \in 0..100

ShopOK ==
  /\ env \in Environment \cup {NULL}
  /\ env # NULL => shop = NULL
  /\ shop # NULL =>
       /\ shop.source \in Sources /\ shop.channel \in SupportedChannels
       /\ shop.fx \in Nat \ {0}

MarketOK ==
  /\ market = [i \in Items |-> market[i]]
  /\ \A i \in Items :
       /\ market[i] = [good |-> market[i].good, price |-> market[i].price,
                       shown |-> market[i].shown, stock |-> market[i].stock]
       /\ market[i].good \in Goods /\ market[i].price \in Prices

BatchOK ==
  /\ batch = [pc |-> batch.pc, auto |-> batch.auto, seen |-> batch.seen]
  /\ batch.pc \in {"idle", "run", "done"}
  /\ batch.pc # "idle" => shop # NULL
  /\ batch.seen = [i \in Items |-> batch.seen[i]]
  /\ \A i \in Items : batch.seen[i] # NULL => batch.pc # "idle" /\ SeenOK(i, batch.seen[i])

OutcomeOK ==
  /\ outcome = [i \in Items |-> outcome[i]]
  /\ \A i \in Items : outcome[i] # NULL => ResultOK(i, outcome[i])

OrderOK ==
  /\ order # NULL =>
       /\ order = [item |-> order.item, sale |-> order.sale, status |-> order.status, hs |-> order.hs]
       /\ order.status \in {"received", "pending_approval", "amazon_ordered"}
       /\ order.item \in Items /\ batch.pc = "done"
       /\ outcome[order.item] # NULL /\ outcome[order.item].quote # NULL
       /\ order.sale = outcome[order.item].quote.sale
  /\ ledger \in {NULL, "awaiting_purchase", "purchased", "shipped", "customs", "delivered"}

SalesInv == ShopOK /\ MarketOK /\ BatchOK /\ OutcomeOK /\ OrderOK
-----------------------------------------------------------------------------
\* What a verdict means, whatever the product.
LEMMA VerdictFacts ==
  ASSUME NEW product
  PROVE  LET e == Evaluate(product)
         IN  /\ e.verdict \in {"block", "review", "pass"}
             /\ e.hs = Classify(product)
             /\ e.verdict # "block" =>
                  /\ ~Prohibited(product) /\ ~Banned(product)
                  /\ ~Counterfeit(product) /\ ~NeedsKc(product, KcBlock)
                  /\ e.customs = CustomsTypeFor(product.price, product.currency)
             /\ e.verdict = "pass" => Doubts(product) = {}
BY DEF Evaluate

LEMMA NoDoubtIsList ==
  ASSUME NEW product, Doubts(product) = {}
  PROVE  CustomsTypeFor(product.price, product.currency) = "list"
<1>1. "PRICE_OUT_OF_RANGE" \in {"KC_REQUIRED", "PRICE_OUT_OF_RANGE", "HS_UNDETERMINED"}
  OBVIOUS
<1>2. CustomsTypeFor(product.price, product.currency) # "general"
  BY <1>1 DEF Doubts
<1>3. QED
  BY <1>2 DEF CustomsTypeFor

\* A product that can be priced is priced in whole won, for a known channel.
LEMMA QuoteFacts ==
  ASSUME SalesInv, NEW i \in Items, batch.seen[i] # NULL, ~Unpriceable(i)
  PROVE  /\ shop.channel \in DOMAIN ChannelFees
         /\ batch.seen[i].price \in Nat \ {0}
         /\ batch.seen[i].currency = "USD"
         /\ FinalCost(batch.seen[i].price, Verdict(i).customs, Verdict(i).hs, shop.fx) \in Nat \ {0}
         /\ QuoteOf(i) \in Quotes
<1> DEFINE cost == FinalCost(batch.seen[i].price, Verdict(i).customs, Verdict(i).hs, shop.fx)
           sale == SalePrice(cost, shop.channel)
<1>1. /\ shop.channel \in DOMAIN ChannelFees /\ batch.seen[i].price \in Nat \ {0}
      /\ batch.seen[i].currency = "USD" /\ shop.fx \in Nat \ {0}
  BY DEF SalesInv, BatchOK, ShopOK, SeenOK, Unpriceable, QuoteRaises
<1>2. cost \in Nat \ {0}
  BY <1>1, CostType, CostPositive
<1> HIDE DEF cost
<1>3. sale \in Nat
  BY <1>1, <1>2, SalePriceType
<1> HIDE DEF sale
<1>4. Profit(sale, cost, shop.channel) \in Int /\ MarginRate(sale, cost, shop.channel) \in Int
  BY <1>1, <1>2, <1>3, RatesType
<1>5. QuoteOf(i) = [sale |-> sale, profit |-> Profit(sale, cost, shop.channel),
                    margin |-> MarginRate(sale, cost, shop.channel)]
  BY DEF QuoteOf, Quote, sale, cost
<1>6. QED
  BY <1>1, <1>2, <1>3, <1>4, <1>5 DEF Quotes, cost
-----------------------------------------------------------------------------
\* A start either fails or assembles a shop for a channel it knows.
LEMMA AssembledOK ==
  ASSUME NEW e \in Environment, Readable(e), Consistent(e)
  PROVE  LET a == Assembled(e)
         IN  a.source \in Sources /\ a.channel \in SupportedChannels /\ a.fx \in Nat \ {0}
<1>1. SourceName(e) \in Sources
  BY DEF SourceName, Sources
<1>2. FxRate(e) \in Nat \ {0}
  BY PipelineAssumption DEF Environment, Readable, Consistent, FxRate
<1>3. PrimaryChannel(e) \in SupportedChannels
  <2> DEFINE s == SalesChannels(e)
  <2>1. s \in Seq(STRING) \/ s = <<"naver", "coupang">>
    BY PipelineAssumption DEF Environment, SalesChannels
  <2>2. ChannelNames(e) = {s[k] : k \in DOMAIN s} /\ ChannelNames(e) # {}
        /\ ChannelNames(e) \subseteq SupportedChannels
    BY DEF ChannelNames, Consistent
  <2> HIDE DEF s
  <2>3. 1 \in DOMAIN s
    BY <2>1, <2>2
  <2>4. s[1] \in SupportedChannels
    BY <2>2, <2>3
  <2>5. QED
    BY <2>4 DEF PrimaryChannel, s, SupportedChannels
<1>4. QED
  BY <1>1, <1>2, <1>3 DEF Assembled

LEMMA InitOK == SalesInit => SalesInv
<1> SUFFICES ASSUME SalesInit PROVE SalesInv
  OBVIOUS
<1> USE DEF SalesInit, PipelineInit, NoBatch
<1>1. ShopOK
  BY DEF ShopOK
<1>2. MarketOK
  BY PipelineAssumption DEF MarketOK
<1>3. BatchOK
  BY DEF BatchOK
<1>4. OutcomeOK
  BY DEF OutcomeOK
<1>5. OrderOK
  BY DEF OrderOK
<1>6. QED
  BY <1>1, <1>2, <1>3, <1>4, <1>5 DEF SalesInv

\* One outcome is set while the run goes on, so that no order exists yet.
LEMMA FinishOK ==
  ASSUME SalesInv, UNCHANGED <<order, ledger>>, NEW i \in Items, NEW r,
         Current(i), Finish(i, r), ResultOK(i, r)
  PROVE  SalesInv'
<1> USE DEF SalesInv, Finish, Current
<1>1. ShopOK' /\ MarketOK' /\ BatchOK'
  BY DEF ShopOK, MarketOK, BatchOK, SeenOK
<1>2. OutcomeOK'
  <2>1. outcome' = [j \in Items |-> IF j = i THEN r ELSE outcome[j]]
    BY DEF OutcomeOK
  <2>3. ASSUME NEW j \in Items, outcome'[j] # NULL PROVE ResultOK(j, outcome[j])'
    <3>1. CASE j = i
      BY <2>1, <3>1 DEF ResultOK, Verdict, QuoteOf, Unpriceable, TooThin
    <3>2. CASE j # i
      <4>1. outcome'[j] = outcome[j] /\ ResultOK(j, outcome[j])
        BY <2>1, <2>3, <3>2 DEF OutcomeOK
      <4>2. QED
        BY <4>1 DEF ResultOK, Verdict, QuoteOf, Unpriceable, TooThin
    <3>3. QED
      BY <3>1, <3>2
  <2>4. QED
    BY <2>1, <2>3 DEF OutcomeOK
<1>3. OrderOK'
  BY DEF OrderOK
<1>4. QED
  BY <1>1, <1>2, <1>3

LEMMA AbortOK ==
  ASSUME SalesInv, UNCHANGED <<order, ledger>>, batch.pc = "run", Abort
  PROVE  SalesInv'
<1> USE DEF SalesInv, Abort
<1>1. ShopOK' /\ MarketOK' /\ BatchOK'
  BY DEF ShopOK, MarketOK, BatchOK, NoBatch
<1>2. OutcomeOK'
  BY DEF OutcomeOK
<1>3. OrderOK'
  BY DEF OrderOK
<1>4. QED
  BY <1>1, <1>2, <1>3

LEMMA StartOK ==
  ASSUME SalesInv, UNCHANGED <<order, ledger>>, Start
  PROVE  SalesInv'
<1> USE DEF SalesInv, Start
<1>1. ShopOK'
  BY AssembledOK DEF ShopOK
<1>2. shop = NULL /\ batch.pc = "idle"
  BY DEF ShopOK, BatchOK
<1>3. MarketOK' /\ BatchOK'
  BY <1>2 DEF MarketOK, BatchOK, SeenOK
<1>4. \A i \in Items : outcome[i] = NULL
  BY <1>2 DEF OutcomeOK, BatchOK, ResultOK
<1>5. OutcomeOK'
  BY <1>4 DEF OutcomeOK
<1>6. OrderOK'
  BY <1>2 DEF OrderOK
<1>7. QED
  BY <1>1, <1>3, <1>5, <1>6

LEMMA FetchedOK ==
  ASSUME SalesInv, NEW i \in Items, shop # NULL
  PROVE  SeenOK(i, Fetched(i))
<1> DEFINE g == market[i].good
<1>1. g \in Goods /\ market[i].price \in Nat /\ shop.source \in Sources
  BY PipelineAssumption DEF SalesInv, MarketOK, ShopOK
<1>2. g.rating \in 0..50 /\ g.crowd \in 0..99 /\ g.count \in DOMAIN Demand /\ g.list \in Nat
      /\ 0 \in DOMAIN Demand
  <2>1. g.list \in Prices /\ Prices \subseteq Nat
    BY <1>1, PipelineAssumption
  <2>2. g.rating \in 0..50 /\ g.crowd \in 0..99 /\ g.count \in DOMAIN Demand
    BY <1>1, PipelineAssumption
  <2>3. 0 \in DOMAIN Demand
    BY PipelineAssumption
  <2>4. QED
    BY <2>1, <2>2, <2>3
<1>3. Shown(i) \in Nat
  BY <1>1 DEF Shown
<1>4. QED
  BY <1>1, <1>2, <1>3 DEF SeenOK, Fetched, Sources

LEMMA FetchOK ==
  ASSUME SalesInv, UNCHANGED <<order, ledger>>, Fetch
  PROVE  SalesInv'
<1> USE DEF SalesInv, Fetch
<1>1. ShopOK' /\ MarketOK'
  BY DEF ShopOK, MarketOK
<1>2. BatchOK'
  <2>1. PICK found \in Answers, auto \in BOOLEAN :
          batch' = [pc |-> "run", auto |-> auto,
                    seen |-> [i \in Items |-> IF i \in found THEN Fetched(i) ELSE NULL]]
    OBVIOUS
  <2>2. \A i \in Items : batch'.seen[i] # NULL => SeenOK(i, Fetched(i)) /\ batch'.seen[i] = Fetched(i)
    BY <2>1, FetchedOK
  <2>3. ASSUME NEW i \in Items, batch'.seen[i] # NULL PROVE SeenOK(i, batch.seen[i])'
    BY <2>2, <2>3 DEF SeenOK
  <2>4. QED
    BY <2>1, <2>3 DEF BatchOK
<1>3. OutcomeOK'
  BY DEF OutcomeOK
<1>4. OrderOK'
  BY DEF OrderOK
<1>5. QED
  BY <1>1, <1>2, <1>3, <1>4

\* What a step outside the run leaves alone: shop, batch and outcomes.
LEMMA OutcomeKept ==
  ASSUME SalesInv, shop' = shop, batch'.seen = batch.seen, outcome' = outcome
  PROVE  OutcomeOK'
<1>1. ASSUME NEW i \in Items, outcome'[i] # NULL PROVE ResultOK(i, outcome[i])'
  <2>1. ResultOK(i, outcome[i])
    BY <1>1 DEF SalesInv, OutcomeOK
  <2>2. QED
    BY <2>1 DEF ResultOK, Verdict, QuoteOf, Unpriceable, TooThin
<1>2. QED
  BY <1>1 DEF SalesInv, OutcomeOK

LEMMA RunEndsOK ==
  ASSUME SalesInv, UNCHANGED <<order, ledger>>, RunEnds
  PROVE  SalesInv'
<1> USE DEF SalesInv, RunEnds
<1>1. /\ batch' = [pc |-> "done", auto |-> batch.auto, seen |-> batch.seen]
  BY DEF BatchOK
<1>2. ShopOK' /\ MarketOK' /\ BatchOK'
  BY <1>1 DEF ShopOK, MarketOK, BatchOK, SeenOK
<1>3. OutcomeOK'
  BY <1>1, OutcomeKept
<1>4. OrderOK'
  BY DEF OrderOK
<1>5. QED
  BY <1>2, <1>3, <1>4

LEMMA SourceMovesOK ==
  ASSUME SalesInv, UNCHANGED <<order, ledger>>, NEW i \in Items, SourceMoves(i)
  PROVE  SalesInv'
<1> USE DEF SalesInv, SourceMoves
<1>1. PICK price \in Prices, shown \in BOOLEAN, stock \in BOOLEAN :
        market' = [market EXCEPT ![i].price = price, ![i].shown = shown, ![i].stock = stock]
  OBVIOUS
<1>2. market' = [j \in Items |->
                   IF j = i THEN [good |-> market[i].good, price |-> price,
                                  shown |-> shown, stock |-> stock]
                            ELSE market[j]]
  <2>1. market[i] = [good |-> market[i].good, price |-> market[i].price,
                     shown |-> market[i].shown, stock |-> market[i].stock]
    BY DEF MarketOK
  <2>2. QED
    BY <1>1, <2>1 DEF MarketOK
<1>3. MarketOK'
  BY <1>2 DEF MarketOK
<1>4. \A j \in Items : market'[j].good = market[j].good
  BY <1>2
<1>5. ShopOK' /\ BatchOK'
  BY <1>4 DEF ShopOK, BatchOK, SeenOK
<1>6. OutcomeOK'
  BY OutcomeKept
<1>7. OrderOK'
  BY DEF OrderOK
<1>8. QED
  BY <1>3, <1>5, <1>6, <1>7
-----------------------------------------------------------------------------
\* Every exit of a product from the pipeline is an outcome the engines stand by.
LEMMA DemandType ==
  ASSUME NEW n \in DOMAIN Demand
  PROVE  n \in Nat /\ Demand[n] \in Int
BY PipelineAssumption

LEMMA ScoresOK ==
  ASSUME SalesInv, NEW i \in Items, batch.seen[i] # NULL, NEW score \in Scores(batch.seen[i])
  PROVE  score \in 0..100
<1> DEFINE p == batch.seen[i]
<1>1. \A x \in Int : Clamp(x) \in 0..100
  BY DEF Clamp
<1>2. p.rating \in 0..50 /\ p.count \in Nat /\ p.crowd \in 0..99 /\ Demand[p.count] \in Int
  <2>1. SeenOK(i, p)
    BY DEF SalesInv, BatchOK
  <2>2. p.rating \in 0..50 /\ p.count \in DOMAIN Demand /\ p.crowd \in 0..99
    BY <2>1 DEF SeenOK
  <2>3. p.count \in Nat /\ Demand[p.count] \in Int
    BY <2>2, DemandType
  <2>4. QED
    BY <2>2, <2>3, Zenon
<1>3. HeuristicScore(p) \in 0..100
  <2>1. Sentiment(p) \in Int
    <3> DEFINE reviews == IF p.count < 200 THEN p.count ELSE 200
    <3>1. reviews \in Int /\ p.rating - 25 \in Int
      BY <1>2
    <3>2. (p.rating - 25) * reviews \in Int
      <4> HIDE DEF reviews
      <4> QED BY <3>1
    <3>3. QED
      BY <3>2 DEF Sentiment
  <2> DEFINE a == 45 * Sentiment(p) + 40 * Demand[p.count] + 15 * (10000 - 100 * p.crowd)
  <2>2. a \in Int
    BY <1>2, <2>1
  <2> HIDE DEF a
  <2>3. RoundHalfEven(a, 10000) \in Int
    BY <2>2 DEF RoundHalfEven
  <2>4. QED
    BY <1>1, <2>3 DEF HeuristicScore, a
<1>4. \A x \in ModelScores : Clamp(x) \in 0..100
  BY <1>1, PipelineAssumption
<1>5. QED
  <2> HIDE DEF p
  <2>1. score = HeuristicScore(p) \/ \E x \in ModelScores : score = Clamp(x)
    BY DEF Scores, p
  <2>2. QED
    BY <2>1, <1>3, <1>4

LEMMA ExitOK ==
  ASSUME SalesInv, UNCHANGED <<order, ledger>>, NEW i \in Items,
         \/ Blocked(i) \/ PricingRaises(i) \/ Doubtful(i) \/ MarginRejected(i)
         \/ Skipped(i) \/ CategoryRaises(i) \/ Drafted(i) \/ PublishRaises(i)
  PROVE  SalesInv'
<1>0. batch.seen[i] # NULL /\ batch.pc = "run" /\ Current(i)
  BY DEF Blocked, PricingRaises, Doubtful, MarginRejected, Skipped, CategoryRaises,
         Drafted, PublishRaises, Passed, Priced, Current
<1>1. CASE Blocked(i)
  <2>1. ResultOK(i, Aside("blocked", NULL))
    BY <1>0 DEF ResultOK, Aside, Offered
  <2>2. QED
    BY <1>0, <1>1, <2>1, FinishOK DEF Blocked
<1>2. CASE Doubtful(i)
  <2>1. ResultOK(i, Aside("review", QuoteOf(i)))
    BY <1>0, <1>2 DEF ResultOK, Aside, Offered, Doubtful, Priced
  <2>2. QED
    BY <1>0, <1>2, <2>1, FinishOK DEF Doubtful
<1>3. CASE MarginRejected(i)
  <2>1. ResultOK(i, Aside("margin_rejected", QuoteOf(i)))
    BY <1>0, <1>3 DEF ResultOK, Aside, Offered, MarginRejected, Priced
  <2>2. QED
    BY <1>0, <1>3, <2>1, FinishOK DEF MarginRejected
<1>4. CASE Skipped(i)
  <2>1. PICK score \in Scores(batch.seen[i]) :
          Finish(i, [Aside("review", QuoteOf(i)) EXCEPT !.score = score])
    BY <1>4 DEF Skipped
  <2>2. score \in 0..100
    BY <1>0, ScoresOK
  <2>3. ResultOK(i, [Aside("review", QuoteOf(i)) EXCEPT !.score = score])
    BY <1>0, <1>4, <2>2 DEF ResultOK, Aside, Offered, Skipped, Passed, Priced
  <2>4. QED
    BY <1>0, <2>1, <2>3, FinishOK
<1>5. CASE Drafted(i)
  <2>1. PICK score \in Wanted(i), draft \in Drafts(QuoteOf(i)), status \in PublishStatuses :
          Finish(i, [status |-> status, quote |-> QuoteOf(i), score |-> score, draft |-> draft])
    BY <1>5 DEF Drafted
  <2>2. score \in 0..100
    BY <1>0, ScoresOK DEF Wanted
  <2>3. draft.price = QuoteOf(i).sale /\ status \in Offered
    BY DEF Drafts, PublishStatuses, Offered
  <2>4. ResultOK(i, [status |-> status, quote |-> QuoteOf(i), score |-> score, draft |-> draft])
    BY <1>0, <1>5, <2>2, <2>3 DEF ResultOK, Offered, Drafted, Passed, Priced
  <2>5. QED
    BY <1>0, <2>1, <2>4, FinishOK
<1>6. CASE PricingRaises(i) \/ CategoryRaises(i) \/ PublishRaises(i)
  BY <1>0, <1>6, AbortOK DEF PricingRaises, CategoryRaises, PublishRaises
<1>7. QED
  BY <1>1, <1>2, <1>3, <1>4, <1>5, <1>6

LEMMA TakeOrderOK ==
  ASSUME SalesInv, NEW i \in Items, TakeOrder(i)
  PROVE  SalesInv'
<1> USE DEF SalesInv, TakeOrder, pipelineVars
<1>1. ShopOK' /\ MarketOK' /\ BatchOK'
  BY DEF ShopOK, MarketOK, BatchOK, SeenOK
<1>2. OutcomeOK'
  BY OutcomeKept
<1>3. OrderOK'
  BY DEF OrderOK
<1>4. QED
  BY <1>1, <1>2, <1>3

LEMMA OrderStepOK ==
  ASSUME SalesInv, (\E auto \in BOOLEAN : Process(auto)) \/ ConfirmPurchase \/ UpdateShipment
  PROVE  SalesInv'
<1> USE DEF SalesInv, Process, ConfirmPurchase, UpdateShipment, pipelineVars
<1>1. ShopOK' /\ MarketOK' /\ BatchOK'
  BY DEF ShopOK, MarketOK, BatchOK, SeenOK
<1>2. OutcomeOK'
  BY OutcomeKept
<1>3. OrderOK'
  <2>1. UNCHANGED <<batch, outcome>>
    OBVIOUS
  <2>2. CASE \E auto \in BOOLEAN : Process(auto)
    <3>1. /\ order # NULL
          /\ \/ order' = [order EXCEPT !.status = "amazon_ordered"]
             \/ order' = [order EXCEPT !.status = "pending_approval"]
          /\ ledger' \in {ledger, "awaiting_purchase"}
      BY <2>2
    <3> HIDE DEF Process, ConfirmPurchase, UpdateShipment
    <3>2. \E status \in {"amazon_ordered", "pending_approval"} :
            order' = [item |-> order.item, sale |-> order.sale, status |-> status, hs |-> order.hs]
      BY <3>1 DEF OrderOK
    <3>3. QED
      BY <2>1, <3>1, <3>2 DEF OrderOK
  <2>3. CASE ConfirmPurchase \/ UpdateShipment
    BY <2>3 DEF OrderOK
  <2>4. QED
    BY <2>2, <2>3
<1>4. QED
  BY <1>1, <1>2, <1>3

LEMMA NextOK == SalesInv /\ [SalesNext]_vars => SalesInv'
<1> SUFFICES ASSUME SalesInv, [SalesNext]_vars PROVE SalesInv'
  OBVIOUS
<1>1. CASE UNCHANGED vars
  BY <1>1, OutcomeKept DEF vars, pipelineVars, SalesInv, ShopOK, MarketOK, BatchOK, SeenOK, OrderOK
<1>2. CASE PipelineStep /\ UNCHANGED <<order, ledger>>
  BY <1>2, StartOK, FetchOK, RunEndsOK, SourceMovesOK, ExitOK DEF PipelineStep
<1>3. CASE \E i \in Items : TakeOrder(i)
  BY <1>3, TakeOrderOK
<1>4. CASE (\E auto \in BOOLEAN : Process(auto)) \/ ConfirmPurchase \/ UpdateShipment
  BY <1>4, OrderStepOK
<1>5. QED
  BY <1>1, <1>2, <1>3, <1>4 DEF SalesNext

THEOREM SalesInvariant == SalesSpec => []SalesInv
<1>1. SalesInit => SalesInv
  BY InitOK
<1>2. SalesInv /\ [SalesNext]_vars => SalesInv'
  BY NextOK
<1>3. QED
  BY <1>1, <1>2, PTL DEF SalesSpec
-----------------------------------------------------------------------------
\* The state of a process has its types: statuses, quotes in whole won and
\* scores from 0 to 100, whatever the model and the source answer.
THEOREM SalesTypes == SalesSpec => []SalesTypeOK
<1>1. SalesInv => SalesTypeOK
  <2> SUFFICES ASSUME SalesInv PROVE SalesTypeOK
    OBVIOUS
  <2>1. ASSUME NEW i \in Items, outcome[i] # NULL
        PROVE  /\ outcome[i].status \in {"blocked", "review", "margin_rejected", "ready",
                                         "published", "publish_failed"}
               /\ outcome[i].quote # NULL => outcome[i].quote \in Quotes
               /\ outcome[i].score # NULL => outcome[i].score \in 0..100
    <3>1. ResultOK(i, outcome[i])
      BY <2>1 DEF SalesInv, OutcomeOK
    <3>2. outcome[i].quote # NULL => outcome[i].quote \in Quotes
      BY <3>1, QuoteFacts DEF ResultOK
    <3>3. QED
      BY <3>1, <3>2 DEF ResultOK, Offered
  <2>2. DOMAIN batch.seen = Items
    BY DEF SalesInv, BatchOK
  <2>3. QED
    BY <2>1, <2>2 DEF SalesInv, SalesTypeOK, ShopOK, MarketOK, BatchOK, OrderOK, Sources
<1>2. QED
  BY <1>1, SalesInvariant, PTL

\* What the compliance engine has something against is neither priced nor
\* drafted, in any run over any products (compliance/engine.py, pipeline/runner.py).
THEOREM OnlyCleanIsDraftedAlways == SalesSpec => []OnlyCleanIsDrafted
<1>1. SalesInv => OnlyCleanIsDrafted
  <2> SUFFICES ASSUME SalesInv, NEW i \in Items, outcome[i] # NULL
               PROVE  LET p == batch.seen[i]
                      IN  /\ outcome[i].quote # NULL =>
                               ~Prohibited(p) /\ ~Banned(p) /\ ~Counterfeit(p) /\ ~NeedsKc(p, KcBlock)
                          /\ outcome[i].draft # NULL => Doubts(p) = {}
    BY DEF OnlyCleanIsDrafted
  <2>1. ResultOK(i, outcome[i])
    BY DEF SalesInv, OutcomeOK
  <2>2. QED
    BY <2>1, VerdictFacts DEF ResultOK, Verdict
<1>2. QED
  BY <1>1, SalesInvariant, PTL

\* Every quote of every run is at the least price that earns the target, for
\* every configuration the loader accepts (margin/engine.py).
THEOREM PricesCoverAlways == SalesSpec => []PricesCover
<1>1. SalesInv => PricesCover
  <2> SUFFICES ASSUME SalesInv, NEW i \in Items, outcome[i] # NULL, outcome[i].quote # NULL
               PROVE  LeastPrice(outcome[i].quote.sale,
                        FinalCost(batch.seen[i].price, Verdict(i).customs, Verdict(i).hs, shop.fx),
                        shop.channel)
    BY DEF PricesCover
  <2> DEFINE cost == FinalCost(batch.seen[i].price, Verdict(i).customs, Verdict(i).hs, shop.fx)
  <2>1. batch.seen[i] # NULL /\ ~Unpriceable(i) /\ outcome[i].quote = QuoteOf(i)
    BY DEF SalesInv, OutcomeOK, ResultOK
  <2>2. cost \in Nat /\ shop.channel \in DOMAIN ChannelFees
    BY <2>1, QuoteFacts
  <2>3. outcome[i].quote.sale = SalePrice(cost, shop.channel)
    BY <2>1 DEF QuoteOf, Quote
  <2> HIDE DEF cost
  <2>4. LeastPrice(outcome[i].quote.sale, cost, shop.channel)
    BY <2>2, <2>3, SalePriceIsLeast
  <2>5. QED
    BY <2>4 DEF cost
<1>2. QED
  BY <1>1, SalesInvariant, PTL

\* No answer of a model changes a price, or lets through what the engines stop
\* (evaluation/agent.py, content/agent.py).
THEOREM AdviserOnlyDemotesAlways == SalesSpec => []AdviserOnlyDemotes
<1>1. SalesInv => AdviserOnlyDemotes
  <2> SUFFICES ASSUME SalesInv, NEW i \in Items, outcome[i] # NULL, outcome[i].quote # NULL
               PROVE  /\ outcome[i].quote = QuoteOf(i)
                      /\ outcome[i].draft # NULL => outcome[i].draft.price = QuoteOf(i).sale
                      /\ outcome[i].status \in {"ready", "published", "publish_failed"}
                           => Verdict(i).verdict = "pass" /\ ~TooThin(QuoteOf(i))
                      /\ Verdict(i).verdict = "pass" /\ ~TooThin(QuoteOf(i))
                           => outcome[i].status # "margin_rejected"
    BY DEF AdviserOnlyDemotes
  <2>1. ResultOK(i, outcome[i])
    BY DEF SalesInv, OutcomeOK
  <2>2. QED
    BY <2>1 DEF ResultOK, Offered
<1>2. QED
  BY <1>1, SalesInvariant, PTL

\* If the target leaves room above the floor of the pipeline, as the shipped
\* configuration does, the margin gate of the pipeline never closes
\* (pipeline/runner.py: MARGIN_REJECTED).
THEOREM MarginGateStaysOpen ==
  ASSUME RoomAbove(MinMargin)
  PROVE  SalesSpec => [](\A i \in Items : outcome[i] # NULL => outcome[i].status # "margin_rejected")
<1>1. SalesInv => \A i \in Items : outcome[i] # NULL => outcome[i].status # "margin_rejected"
  <2> SUFFICES ASSUME SalesInv, NEW i \in Items, outcome[i] # NULL,
                      outcome[i].status = "margin_rejected"
               PROVE  FALSE
    OBVIOUS
  <2> DEFINE cost == FinalCost(batch.seen[i].price, Verdict(i).customs, Verdict(i).hs, shop.fx)
             sale == SalePrice(cost, shop.channel)
  <2>1. batch.seen[i] # NULL /\ ~Unpriceable(i) /\ TooThin(QuoteOf(i))
    BY DEF SalesInv, OutcomeOK, ResultOK
  <2>2. cost \in Nat \ {0} /\ shop.channel \in DOMAIN ChannelFees /\ QuoteOf(i) \in Quotes
    BY <2>1, QuoteFacts
  <2>3. QuoteOf(i).profit = Profit(sale, cost, shop.channel)
        /\ QuoteOf(i).margin = MarginRate(sale, cost, shop.channel)
    BY DEF QuoteOf, Quote
  <2> HIDE DEF cost
  <2>4. MinMargin \in Nat
    BY PipelineAssumption
  <2>5. Profit(sale, cost, shop.channel) > 0 /\ MarginRate(sale, cost, shop.channel) >= MinMargin
    BY <2>2, <2>4, TargetClearsFloor
  <2> HIDE DEF sale
  <2>6. QuoteOf(i).profit \in Int /\ QuoteOf(i).margin \in Int
    BY <2>2 DEF Quotes
  <2>7. QED
    BY <2>1, <2>3, <2>4, <2>5, <2>6 DEF TooThin
<1>2. QED
  BY <1>1, SalesInvariant, PTL
-----------------------------------------------------------------------------
\* If the floor of the guard is not above that of the pipeline, an order for
\* what is offered passes the guard as long as the source is in stock and no
\* dearer, whatever the customs code and both rates (order/processor.py).
THEOREM FreshOrderPassesAlways ==
  ASSUME MinOrderMargin <= MinMargin
  PROVE  SalesSpec => []FreshOrderPasses
<1>1. SalesInv => FreshOrderPasses
  <2> SUFFICES ASSUME SalesInv, order # NULL, outcome[order.item].draft # NULL, shop.fx >= CostsFx,
                      Snapshot(order.item).stock,
                      Snapshot(order.item).price <= batch.seen[order.item].price
               PROVE  Guard(order) = "auto_order"
    BY DEF FreshOrderPasses
  <2> DEFINE i == order.item
             p == batch.seen[i]
             snap == Snapshot(i)
             cost == FinalCost(p.price, Verdict(i).customs, Verdict(i).hs, shop.fx)
             sale == SalePrice(cost, shop.channel)
  <2>1. i \in Items /\ outcome[i] # NULL /\ outcome[i].quote # NULL /\ order.sale = outcome[i].quote.sale
    BY DEF SalesInv, OrderOK
  <2>2. ResultOK(i, outcome[i]) /\ p # NULL
    BY <2>1 DEF SalesInv, OutcomeOK, ResultOK
  <2>3. /\ Verdict(i).verdict = "pass" /\ ~Unpriceable(i)
        /\ ~TooThin(QuoteOf(i)) /\ order.sale = QuoteOf(i).sale
    BY <2>1, <2>2 DEF ResultOK
  <2>4. /\ shop.channel \in DOMAIN ChannelFees /\ p.price \in Nat /\ p.currency = "USD"
        /\ cost \in Nat /\ QuoteOf(i) \in Quotes
    BY <2>1, <2>2, <2>3, QuoteFacts
  <2>5. Verdict(i).customs = "list" /\ CustomsTypeFor(p.price, p.currency) = "list"
    BY <2>3, VerdictFacts, NoDoubtIsList DEF Verdict
  <2>6. snap.price \in Nat /\ snap.currency = "USD"
    <3>1. market[i].price \in Nat
      BY <2>1, PipelineAssumption DEF SalesInv, MarketOK
    <3>2. p.currency = market[i].good.currency
      BY <2>1, <2>2 DEF SalesInv, BatchOK, SeenOK
    <3>3. QED
      BY <2>4, <3>1, <3>2 DEF Snapshot, Shown
  <2>7. CustomsTypeFor(snap.price, snap.currency) = "list"
    <3>1. p.price <= ListLimit /\ ListLimit \in Nat
      BY <2>5, PipelineAssumption DEF CustomsTypeFor
    <3>2. snap.price <= p.price
      OBVIOUS
    <3> HIDE DEF snap, p
    <3>3. snap.price <= ListLimit
      BY <2>4, <2>6, <3>1, <3>2
    <3>4. QED
      BY <2>6, <3>3 DEF CustomsTypeFor
  <2>8. CostNow(order) = FinalCost(snap.price, "list", order.hs, CostsFx)
    BY <2>7 DEF CostNow
  <2>9. CostNow(order) \in Nat /\ CostNow(order) <= cost
    <3>1. shop.fx \in Nat /\ CostsFx \in Nat /\ CostsFx <= shop.fx
      BY <2>3, AfterSaleAssumption DEF SalesInv, ShopOK, OrderOK, BatchOK
    <3>2. FinalCost(snap.price, "list", order.hs, CostsFx) \in Nat
      BY <2>6, <3>1, CostType
    <3>3. FinalCost(snap.price, "list", order.hs, CostsFx)
            <= FinalCost(p.price, "list", Verdict(i).hs, shop.fx)
      BY <2>4, <2>6, <3>1, ListCostGrows
    <3>4. QED
      BY <2>5, <2>8, <3>2, <3>3
  <2>10. /\ order.sale = sale
         /\ QuoteOf(i).profit = Profit(sale, cost, shop.channel)
         /\ QuoteOf(i).margin = MarginRate(sale, cost, shop.channel)
    BY <2>3 DEF QuoteOf, Quote
  <2> HIDE DEF cost
  <2>11. sale \in Nat
    BY <2>4, SalePriceType
  <2> HIDE DEF sale
  <2>12. /\ Profit(sale, cost, shop.channel) <= Profit(sale, CostNow(order), shop.channel)
         /\ MarginRate(sale, cost, shop.channel) <= MarginRate(sale, CostNow(order), shop.channel)
    BY <2>4, <2>9, <2>11, CheaperEarnsMore
  <2>13. /\ Profit(sale, cost, shop.channel) \in Int /\ Profit(sale, cost, shop.channel) > 0
         /\ MarginRate(sale, cost, shop.channel) \in Int
         /\ MarginRate(sale, cost, shop.channel) >= MinMargin
    <3>1. MinMargin \in Nat
      BY PipelineAssumption
    <3>2. QED
      BY <2>3, <2>4, <2>10, <3>1 DEF TooThin, Quotes
  <2>14. /\ Profit(sale, CostNow(order), shop.channel) \in Int
         /\ MarginRate(sale, CostNow(order), shop.channel) \in Int
    BY <2>4, <2>9, <2>11, RatesType
  <2>15. /\ Profit(sale, CostNow(order), shop.channel) > 0
         /\ MarginRate(sale, CostNow(order), shop.channel) >= MinOrderMargin
    <3>1. MinMargin \in Nat /\ MinOrderMargin \in Nat
      BY PipelineAssumption, AfterSaleAssumption
    <3>2. QED
      BY <2>12, <2>13, <2>14, <3>1
  <2>16. QED
    BY <2>10, <2>15 DEF Guard
<1>2. QED
  BY <1>1, SalesInvariant, PTL
-----------------------------------------------------------------------------
\* A line enters the ledger only by Process, for an order that passed the guard.
LEMMA LineByGuard ==
  ASSUME [SalesNext]_vars, ledger = NULL, ledger' # NULL
  PROVE  order # NULL /\ Guard(order) = "auto_order"
<1>1. \E auto \in BOOLEAN : Process(auto)
  BY DEF SalesNext, vars, TakeOrder, ConfirmPurchase, UpdateShipment
<1>2. QED
  BY <1>1 DEF Process

\* Nothing is ordered by itself unless it earns something at the price just
\* seen, before any rounding (order/processor.py).
THEOREM NoLossOrderedAlways == SalesSpec => NoLossOrdered
<1>1. SalesInv /\ [SalesNext]_vars =>
        [ledger = NULL /\ ledger' # NULL =>
           Snapshot(order.item).stock /\ Earning(order.sale, CostNow(order), shop.channel) > 0]_vars
  <2> SUFFICES ASSUME SalesInv, [SalesNext]_vars, ledger = NULL, ledger' # NULL
               PROVE  Snapshot(order.item).stock /\ Earning(order.sale, CostNow(order), shop.channel) > 0
    OBVIOUS
  <2> DEFINE i == order.item
  <2>1. order # NULL /\ Guard(order) = "auto_order"
    BY LineByGuard
  <2>2. i \in Items /\ outcome[i] # NULL /\ outcome[i].quote # NULL /\ order.sale = outcome[i].quote.sale
    BY <2>1 DEF SalesInv, OrderOK
  <2>3. ResultOK(i, outcome[i]) /\ batch.seen[i] # NULL
    BY <2>2 DEF SalesInv, OutcomeOK, ResultOK
  <2>4. ~Unpriceable(i) /\ outcome[i].quote = QuoteOf(i)
    BY <2>2, <2>3 DEF ResultOK
  <2>5. shop.channel \in DOMAIN ChannelFees /\ order.sale \in Nat
    <3>1. shop.channel \in DOMAIN ChannelFees /\ QuoteOf(i) \in Quotes
      BY <2>2, <2>3, <2>4, QuoteFacts
    <3>2. QED
      BY <2>2, <2>4, <3>1 DEF Quotes
  <2>6. CostNow(order) \in Nat
    <3>1. Snapshot(i).price \in Nat
      <4>1. market[i].price \in Nat
        BY <2>2, PipelineAssumption DEF SalesInv, MarketOK
      <4>2. QED
        BY <4>1 DEF Snapshot, Shown
    <3>2. CostsFx \in Nat
      BY AfterSaleAssumption
    <3>3. QED
      BY <3>1, <3>2, CostType DEF CostNow
  <2>7. Snapshot(i).stock /\ Profit(order.sale, CostNow(order), shop.channel) > 0
    BY <2>1 DEF Guard
  <2>8. QED
    BY <2>5, <2>6, <2>7, ProfitIsEarned
<1>2. QED
  BY <1>1, SalesInvariant, PTL DEF SalesSpec, NoLossOrdered

\* A line that is there is not put back to its beginning (order/manual.py).
THEOREM ReprocessKeepsLedgerAlways == SalesSpec => ReprocessKeepsLedger
<1>1. [SalesNext]_vars => [ledger # NULL /\ ledger' # ledger => ledger' # "awaiting_purchase"]_vars
  BY DEF SalesNext, vars, TakeOrder, Process, ConfirmPurchase, UpdateShipment
<1>2. QED
  BY <1>1, PTL DEF SalesSpec, ReprocessKeepsLedger

\* Keys that are given are used or the start fails (core/settings.py: validate).
THEOREM NoSilentMockAlways == SalesSpec => NoSilentMock
<1> DEFINE Used ==
      /\ env.keys \cap {AliKey, AliSecret, AmazonKey} # {} => shop'.source # "sample"
      /\ env.keys \cap {NaverId, NaverSecret} # {} /\ shop'.channel = "naver"
           => shop'.catalog = "real"
<1>1. SalesInv /\ [SalesNext]_vars => [env # NULL /\ shop' # NULL => Used]_vars
  <2> SUFFICES ASSUME SalesInv, [SalesNext]_vars, env # NULL, shop' # NULL PROVE Used
    OBVIOUS
  <2>1. shop = NULL
    BY DEF SalesInv, ShopOK
  <2>2. Start
    <3>1. ASSUME UNCHANGED shop PROVE FALSE
      BY <2>1, <3>1
    <3>2. QED
      BY <3>1 DEF SalesNext, vars, pipelineVars, PipelineStep, Fetch, Finish, Abort, RunEnds,
                  SourceMoves, Blocked, PricingRaises, Doubtful, MarginRejected, Skipped,
                  CategoryRaises, Drafted, PublishRaises, TakeOrder, Process, ConfirmPurchase,
                  UpdateShipment
  <2>3. Consistent(env) /\ shop' = Assembled(env)
    BY <2>2 DEF Start
  <2>4. env.keys \cap {AliKey, AliSecret, AmazonKey} # {} => SourceName(env) # "sample"
    BY <2>3 DEF Consistent, SourceName
  <2>5. env.keys \cap {NaverId, NaverSecret} # {} => ChannelMode(env, "naver") = "real"
    BY <2>3 DEF Consistent, ChannelMode, Mode
  <2>6. QED
    BY <2>3, <2>4, <2>5 DEF Assembled
<1>2. QED
  BY <1>1, SalesInvariant, PTL DEF SalesSpec, NoSilentMock
=============================================================================
