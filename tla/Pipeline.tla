------------------------------ MODULE Pipeline ------------------------------
(***************************************************************************)
(* The sourcing pipeline (jikgugom/pipeline/runner.py) on the sources that *)
(* a start may choose (adapters/aliexpress.py, adapters/amazon.py,         *)
(* samples.py), with the engines it asks: compliance, margin, the          *)
(* evaluation agent (jikgugom/evaluation) and the content agent.           *)
(*                                                                         *)
(* A run is one sequential call: it fetches the products and takes each    *)
(* through _process, which has one action for each of its exits.  What a   *)
(* run knows of a product is what the adapter made of it when it was       *)
(* fetched; the source moves on meanwhile.                                 *)
(***************************************************************************)
EXTENDS Margin, Compliance, Wiring

CONSTANTS
  Items,            \* what the source sells
  Goods,            \* what an item may be: [title, body: words some rule looks
                    \* for; path; brand, hs: NoCode if not given; currency; list:
                    \* price in the catalogue; rating in tenths; count of reviews;
                    \* crowd: competition, in percent, derived from the id]
  Prices,           \* what the source may ask, in the price unit
  Category,         \* settings.sourcing_category
  Demand,           \* estimate_demand, in 1/10000, by the number of reviews
  ModelScores,      \* scores the model may answer; int() of anything
  MinMargin         \* PipelineConfig.min_margin_rate, in 1/10000

ASSUME PipelineAssumption ==
  /\ \A g \in Goods : g.rating \in 0..50 /\ g.crowd \in 0..99 /\ g.count \in DOMAIN Demand
  /\ \A g \in Goods : g.list \in Prices
  /\ Prices \subseteq Nat
  /\ DOMAIN Demand \subseteq Nat /\ 0 \in DOMAIN Demand
  /\ \A n \in DOMAIN Demand : Demand[n] \in Nat /\ Demand[n] <= 10000
  /\ ModelScores \subseteq Int /\ MinMargin \in Nat /\ ListLimit \in Nat
  /\ \A f \in FxChoices : f \in {NULL, Junk} \/ f \in Int
  /\ DefaultFx \in Nat \ {0}
  /\ \A c \in ChannelLists : c = NULL \/ c \in Seq(STRING)

VARIABLES
  env,      \* the environment of the process, NULL once it has been read
  shop,     \* what the start assembled: NULL before, and for ever if it failed
  market,   \* the source: [Items -> [good, price, shown, stock]]
  batch,    \* the run: [pc, auto, seen: [Items -> product or NULL]]
  outcome   \* [Items -> PipelineOutcome or NULL]

pipelineVars == <<env, shop, market, batch, outcome>>

NoBatch == [pc |-> "idle", auto |-> FALSE, seen |-> [i \in Items |-> NULL]]

PipelineInit ==
  /\ env \in Environment
  /\ shop = NULL
  /\ market \in [Items -> {[good |-> g, price |-> g.list, shown |-> TRUE, stock |-> TRUE] : g \in Goods}]
  /\ batch = NoBatch
  /\ outcome = [i \in Items |-> NULL]

\* The start: ConfigError ends it, and nothing is served.
Start ==
  /\ env # NULL
  /\ env' = NULL
  /\ shop' = IF Readable(env) /\ Consistent(env) THEN Assembled(env) ELSE NULL
  /\ UNCHANGED <<market, batch, outcome>>
-----------------------------------------------------------------------------
\* A price that the source does not show is 0 to the adapters.
Shown(i) == IF market[i].shown THEN market[i].price ELSE 0

\* fetch_bestsellers: the sample source has whole products, at the price of
\* its catalogue; AliExpress has no description, brand or code; the list of
\* best sellers of Amazon has the title, the price and the category asked for.
Fetched(i) ==
  LET g == market[i].good
  IN  CASE shop.source = "sample" ->
             [title |-> g.title, body |-> g.body, path |-> g.path, brand |-> g.brand,
              hs |-> g.hs, price |-> g.list, currency |-> g.currency,
              rating |-> g.rating, count |-> g.count, crowd |-> g.crowd]
        [] shop.source = "aliexpress" ->
             [title |-> g.title, body |-> {}, path |-> IF g.path = <<>> THEN <<Category>> ELSE g.path,
              brand |-> NoCode, hs |-> NoCode, price |-> Shown(i), currency |-> g.currency,
              rating |-> g.rating, count |-> g.count, crowd |-> g.crowd]
        [] shop.source = "amazon" ->
             [title |-> g.title, body |-> {}, path |-> <<Category>>, brand |-> NoCode,
              hs |-> NoCode, price |-> Shown(i), currency |-> g.currency,
              rating |-> 0, count |-> 0, crowd |-> g.crowd]

\* The sample source falls back on its whole catalogue.
Answers ==
  LET hits == {i \in Items : Category \in Elements(market[i].good.path)}
  IN  IF shop.source = "sample" THEN {IF hits = {} THEN Items ELSE hits} ELSE SUBSET Items

Fetch ==
  /\ shop # NULL /\ batch.pc = "idle"
  /\ \E found \in Answers, auto \in BOOLEAN :
       batch' = [pc |-> "run", auto |-> auto,
                 seen |-> [i \in Items |-> IF i \in found THEN Fetched(i) ELSE NULL]]
  /\ outcome' = [i \in Items |-> NULL]
  /\ UNCHANGED <<env, shop, market>>

Current(i) == batch.pc = "run" /\ batch.seen[i] # NULL /\ outcome[i] = NULL

Verdict(i) == Evaluate(batch.seen[i])

QuoteOf(i) == Quote(batch.seen[i].price, Verdict(i).customs, Verdict(i).hs, shop.channel, shop.fx)

Unpriceable(i) ==
  QuoteRaises(batch.seen[i].price, batch.seen[i].currency, Verdict(i).customs, shop.channel)

Aside(status, quote) == [status |-> status, quote |-> quote, score |-> NULL, draft |-> NULL]

Finish(i, result) ==
  /\ outcome' = [outcome EXCEPT ![i] = result]
  /\ UNCHANGED <<env, shop, market, batch>>

Blocked(i) ==
  /\ Current(i) /\ Verdict(i).verdict = "block"
  /\ Finish(i, Aside("blocked", NULL))

\* Nothing catches: run() raises, and the outcomes it had so far are lost.
Abort ==
  /\ batch' = NoBatch
  /\ outcome' = [i \in Items |-> NULL]
  /\ UNCHANGED <<env, shop, market>>

PricingRaises(i) ==
  /\ Current(i) /\ Verdict(i).verdict # "block" /\ Unpriceable(i)
  /\ Abort

Priced(i) == Current(i) /\ Verdict(i).verdict # "block" /\ ~Unpriceable(i)

\* A product that a person has to look at is priced for them.
Doubtful(i) ==
  /\ Priced(i) /\ Verdict(i).verdict = "review"
  /\ Finish(i, Aside("review", QuoteOf(i)))

TooThin(quote) == quote.profit <= 0 \/ quote.margin < MinMargin

MarginRejected(i) ==
  /\ Priced(i) /\ Verdict(i).verdict = "pass" /\ TooThin(QuoteOf(i))
  /\ Finish(i, Aside("margin_rejected", QuoteOf(i)))

Passed(i) == Priced(i) /\ Verdict(i).verdict = "pass" /\ ~TooThin(QuoteOf(i))
-----------------------------------------------------------------------------
\* The signals, in 1/10000, and the score computed from them without a model.
Sentiment(p) ==
  LET reviews == IF p.count < 200 THEN p.count ELSE 200
  IN  5000 + (p.rating - 25) * reviews

\* Mutant: the model's score is taken as it is.
ClampNothing(score) == score

Clamp(score) == IF score < 0 THEN 0 ELSE IF score > 100 THEN 100 ELSE score

\* round(): ties to the even neighbour.
RoundHalfEven(a, b) ==
  LET q == a \div b
  IN  IF 2 * (a % b) > b \/ (2 * (a % b) = b /\ q % 2 = 1) THEN q + 1 ELSE q

HeuristicScore(p) ==
  Clamp(RoundHalfEven(45 * Sentiment(p) + 40 * Demand[p.count] + 15 * (10000 - 100 * p.crowd), 10000))

\* Without a key the score is the heuristic's; with one it is the model's,
\* brought into range, and the heuristic's whenever the call or its answer fails.
Scores(p) ==
  {HeuristicScore(p)} \cup (IF shop.llm = "real" THEN {Clamp(s) : s \in ModelScores} ELSE {})

Recommendation(score) ==
  IF score >= 70 THEN "strong" ELSE IF score >= 45 THEN "consider" ELSE "skip"

Skipped(i) ==
  /\ Passed(i)
  /\ \E score \in Scores(batch.seen[i]) :
       /\ Recommendation(score) = "skip"
       /\ Finish(i, [Aside("review", QuoteOf(i)) EXCEPT !.score = score])

\* The scores that take a product on to the shop.
Wanted(i) == {score \in Scores(batch.seen[i]) : Recommendation(score) # "skip"}

\* map_category asks the shop, which may find no category or not answer.
CategoryRaises(i) ==
  /\ Passed(i) /\ Wanted(i) # {} /\ shop.catalog = "real"
  /\ Abort

\* The title is the model's, or the template's whenever that fails; the body
\* falls back on the glossary likewise.  The price is taken as it is.
Drafts(quote) ==
  {[price |-> quote.sale, title |-> title] :
     title \in {"template"} \cup (IF shop.llm = "real" THEN {"model"} ELSE {})}

\* The sample channels list every draft.
PublishStatuses ==
  IF ~batch.auto THEN {"ready"}
  ELSE IF shop.catalog = "real" THEN {"published", "publish_failed"} ELSE {"published"}

\* Mutant: the price follows the score.
DraftedByScore(i) ==
  /\ Passed(i)
  /\ \E score \in Wanted(i), draft \in Drafts(QuoteOf(i)), status \in PublishStatuses :
       Finish(i, [status |-> status, quote |-> QuoteOf(i), score |-> score,
                  draft |-> [draft EXCEPT !.price = @ + score]])

Drafted(i) ==
  /\ Passed(i)
  /\ \E score \in Wanted(i), draft \in Drafts(QuoteOf(i)), status \in PublishStatuses :
       Finish(i, [status |-> status, quote |-> QuoteOf(i), score |-> score, draft |-> draft])

\* publish() turns an AdapterError into a result; what is not one gets through.
PublishRaises(i) ==
  /\ Passed(i) /\ Wanted(i) # {} /\ batch.auto /\ shop.catalog = "real"
  /\ Abort

RunEnds ==
  /\ batch.pc = "run"
  /\ \A i \in Items : ~Current(i)
  /\ batch' = [batch EXCEPT !.pc = "done"]
  /\ UNCHANGED <<env, shop, market, outcome>>

\* The source goes its own way; the sample source by dev_simulate.  What it did
\* before the start nobody has seen.
SourceMoves(i) ==
  /\ env = NULL
  /\ \E price \in Prices, shown, stock \in BOOLEAN :
       market' = [market EXCEPT ![i].price = price, ![i].shown = shown, ![i].stock = stock]
  /\ UNCHANGED <<env, shop, batch, outcome>>

PipelineStep ==
  \/ Start
  \/ Fetch
  \/ \E i \in Items :
       \/ Blocked(i) \/ PricingRaises(i) \/ Doubtful(i) \/ MarginRejected(i)
       \/ Skipped(i) \/ CategoryRaises(i) \/ Drafted(i) \/ PublishRaises(i)
       \/ SourceMoves(i)
  \/ RunEnds
=============================================================================
