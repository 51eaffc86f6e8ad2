# A TLA+ model of jikgugom

jikgugom is a drop-shipping back office: it sources products abroad, screens
them (compliance, margin, evaluation), writes a Korean listing, publishes the
listing on several sales channels after a human approval, watches the source's
price and stock, and turns channel orders into purchases that an operator makes
by hand. This directory holds a formal model of the parts in which order,
concurrency, failure and money meet, the TLC runs that check it and the TLAPS
proofs of what must hold at any size.

## 1. Inventory

| component | source | state it keeps | operations | interacts with |
|---|---|---|---|---|
| Order handlers | `api/service.py` 106-160, routes in `api/main.py` | table `orders` | `approve_order`, `confirm_purchase`, `reject_order`, `_seed_orders` | ledger, page |
| Fulfilment ledger and `ManualFulfiller` | `jikgugom/order/manual.py`, `ledger.py`, `api/ledger_sql.py` | table `fulfillments`, keyed by order id | `place_order`, `confirm_purchase`, `update_shipment`, `track_shipment` | order handlers |
| Admin page and login | `dashboard/app/page.tsx`, `Login.tsx`, `lib/api.ts` | what it last loaded, `busy`, the open modal; the token in the browser | `load`, `act`, `runMonitor`, the buttons, `onCredential` | routes; the operator |
| Session tokens and the gate | `api/auth.py`, `api/main.py` 59-103 | the process's secret | create, verify, `require_admin`, `auth_google` | routes, page, Google |
| Listings | `api/service.py` 64-104, `api/db.py`, `api/repository.py` | tables `listings`, `publications` | `run_sourcing`, `approve_listing` | pipeline, publisher, monitor |
| Multi-channel publisher and channels | `jikgugom/pipeline/multichannel.py`, `jikgugom/adapters/` | the shops' products; naver's token | `publish`, `update_price`, `pause`, `resume`, `map_category` | listings, monitor, HTTP |
| Monitor and scheduler | `api/service.py` 163-192, `jikgugom/monitor/worker.py`, `api/scheduler.py` | `last_run`; acts on listings and shops | `monitor_sweep`, `decide`, `run`, `_apply`, `_tick` | listings, channels, margin, source |
| Margin engine | `jikgugom/margin/` | none (configuration) | `quote`, `profit_at` | pipeline, monitor, guard |
| Compliance engine | `jikgugom/compliance/` | none (rules) | `evaluate`, `customs_type_for`, `classify` | pipeline, monitor, guard |
| Evaluation, content and LLM clients | `jikgugom/evaluation/`, `content/`, `core/gemini.py` | none | `evaluate`, `recommend`, `build` | pipeline |
| Pipeline runner | `jikgugom/pipeline/runner.py` | none | `run`, `_process` | source, compliance, margin, evaluation, content, channel |
| Order guard | `jikgugom/order/processor.py` | none | `evaluate_guard`, `process` | source, margin, ledger; only the demo and tests run `process` |
| CS agent | `jikgugom/cs/` | none | `handle`, `classify` | ledger; no route calls it |
| HTTP client and naver's token | `jikgugom/adapters/_http.py`, `naver.py` 36-84 | `_token`, `_token_exp` | `request_json` with retries, `_access_token`, `_api` | all real adapters |
| Settings and wiring | `jikgugom/core/settings.py`, `adapters/factory.py` | none (read once) | `load_settings`, `validate`, `build_adapters` | everything |
| Demo, sample data, API schemas | `jikgugom/demo.py`, `samples.py`, `api/schemas.py` | the sample channels' products and the counters of their numbers, in memory | `publish`, `update_price`, `pause`, `resume` | publisher, monitor |

How they interact. FastAPI runs each synchronous route in a thread of its pool,
so handlers of different requests overlap. The scheduler adds one background
thread that runs the monitor sweep; `max_instances=1` keeps its own ticks apart,
and nothing keeps it apart from the route that runs a sweep by hand. There is no
lock anywhere: threads meet in the database, in the one naver adapter with its
token, and every repository or ledger method opens a session, commits and closes
it, so a handler is a sequence of small transactions that works on copies it read
earlier. The database survives a restart; threads, the session secret that is not
configured, and what the sample channels sell and have counted, do not.

What is hard here: two transactions that belong together and are not one (the
ledger and the order row; a shop and the listing row); copies that are stale when
they are written back; a page that shows an old status and still offers its
buttons; an answer that is lost while the server goes on, or comes so late that it
speaks of a token that is no longer the one in use; a crash between any two
commits; three components that compute a margin at rates, codes and floors of their
own and must not contradict each other. `PROJECT.json` lists these hazards line by
line.

What makes each component correct:

* **Orders and ledger**: an order is entered in the ledger once and bought once;
  an order row never shows what the ledger does not have; a purchase that was
  made is recorded or can still be.
* **Listings and shops**: a listing shown as published has its product in a shop,
  a product in a shop is known to a row, a paused listing cannot be bought.
* **Monitor**: what a sweep did to the shop is what the row says; a product that
  is out of stock is eventually paused; no source change, no change.
* **Margin**: the price is the least that covers the costs at the target rate.
* **Pipeline**: what a rule forbids is not priced, what is in doubt is not drafted,
  and no model's answer changes a price or lifts a verdict.
* **Guard**: nothing is ordered by itself at a loss, and what was just offered is
  not stopped without a reason.
* **HTTP client**: a first attempt carries a live token, a broken network does not
  repeat what the shop has done, every call returns.
* **Access**: handlers run only for recent administrators; the page does not leave
  its user stranded with a dead token, and throws a good one away only at a sign-out
  or, which it should not, on a late 401 that was meant for another.

## 2. Modules

| module | models | extends |
|---|---|---|
| `PurchaseBook` | what the ledger promises: place once, then record, never back | |
| `OrderDesk` | the three order handlers over the two tables, one step per SELECT and per flush | |
| `AdminConsole` | the page's tabs and the operator who buys | `OrderDesk` |
| `OrderDeskProofs` | types, `LedgerBacksOrders` and that no line is lost, any number of threads; `OrdersFollowLedger` and the refinement of `PurchaseBook`, handlers that do not overlap | `OrderDesk` |
| `AdminConsoleProofs` | the page implements the desk; `MoneyTrail`, any number of tabs; `NoPurchaseLost`, `PaidOnce` and a serial desk, one tab | `AdminConsole`, `OrderDeskProofs` |
| `MonitorSweep` | the monitor's sweeps, the rows, the shop and the source | |
| `MonitorSweepProofs` | type correctness and `NoAutomaticRaise`, any number of sweeps; `RowsTellTheShop`, one sweep; `StableSourceNoChange` | `MonitorSweep` |
| `PublishDesk` | sourcing runs and approvals over listings, publications and channels | |
| `PublishDeskProofs` | type correctness and `NumbersAreReal`, any number of threads; `KeyedByPrimary` and `ApprovalHasDraft`, one thread | `PublishDesk` |
| `Margin` | `quote` and `profit_at`, exact | |
| `MarginProofs` | the price is the least that meets the target; it clears every floor with room | `Margin` |
| `Wiring` | what a start makes of the environment | |
| `Compliance` | the rule chain and the HS classifier | |
| `Pipeline` | `run` and `_process` over three sources, with evaluation and content | `Margin`, `Compliance`, `Wiring` |
| `AfterSale` | guard, processor and ledger in memory, behind the pipeline | `Pipeline` |
| `SalesProofs` | every property of the run `sales` | `AfterSale`, `MarginProofs` |
| `NaverClient` | the shared token and the HTTP call with retries, in time | |
| `ClientProofs` | the token cache's invariant and the client's safety | `NaverClient` |
| `AdminAccess` | tokens, the gate, the page's flows and the login | |
| `AccessProofs` | every safety property of the run `access` | `AdminAccess` |
| `MCOrderDesk`, `MCAdminConsole`, `MCMonitorSweep`, `MCPublishDesk`, `MCAfterSale`, `MCNaverClient`, `MCAdminAccess` | symmetry and sample values for TLC | |

### OrderDesk

`orders` is the table of the same name reduced to the columns that decide a
branch: the status, whether there is a fulfilment id (it is a hash of the order
id, so which one it is says nothing), and the Amazon number. `ledger` is the
table `fulfillments`, indexed by the order for the same reason. `worker` holds
one handler per thread: its program counter, the request, its own copies of the
rows (`rec`, `led`), and what its open session has read (`seenOrder`,
`seenLedger`).

| step | code |
|---|---|
| `ApproveOrder`, `ConfirmPurchase`, `RejectOrder` | the handler up to its first ledger or save call: `get_order`, and the 409 of a confirm without a fulfilment id |
| `FindFulfillment` | `place_order`: `ledger.get`, the early return |
| `RequireFulfillment` | `ManualFulfiller.confirm_purchase`: `_require`, the edits of the record |
| `LoadFulfillment`, `FlushFulfillment` | `SqlFulfillmentLedger.save`: the SELECT, and the flush, which commits (`SaveFulfillment`) or breaks the unique key (`InsertCollides`; it takes two threads, as in `console_lossy`) |
| `LoadOrder`, `SaveOrder` | `SqlRepository.save_order`: the SELECT and the UPDATE of the columns that differ from it |
| `DatabaseError` | any statement raises; the route answers 500 and nothing more is written |
| `Respond` | the answer leaves |
| `Crash` | the process restarts: the tables stay, the handlers are gone |

A session writes only the columns it changed with respect to the row it read
(SQLAlchemy's unit of work). `Column` models that: it is why overlapping handlers
can leave a row that no single one of them wrote.

### AdminConsole

`view` is what each tab last loaded, `tab` the request it waits for. A tab offers
approve and reject on what it shows as pending and confirm on what it shows as
awaiting a purchase, sends one request at a time, reloads after an answer and not
after an error (`act`). The operator (`Buy`, `receipt`, `paid`) is outside the
program and is modelled as the careful person the design counts on: refreshes the
tab before paying, pays only for what it shows as awaiting a purchase, does not
pay again while a receipt is still to be entered, and types the number of a
purchase that was really made. What goes wrong in this module therefore goes wrong
for a careful operator. `GiveUp` is a connection that breaks while the server's
thread goes on; `LossyLink` switches it on. `MaxFaults` bounds crashes, database
errors and lost answers together.

### MonitorSweep

`row` is the part of the listings table a sweep reads and writes, `shop` what the
primary channel shows, `source` what the marketplace would answer, and `sweep` the
sweeps in progress: the scheduler's and those asked for by
`POST /api/monitor/run`. The rows go by different numbers, and the shop outlives the
process, as a real channel does; what a restart leaves of a sample channel's numbers is
in `PublishDesk`. A sweep carries its snapshot of the rows, the decisions so
far (`plan`) and what the open session has read (`seen`).

| step | code |
|---|---|
| `StartSweep` | `monitor_sweep`: the one SELECT the snapshot comes from |
| `Poll` | `MonitorWorker.run`: `check_availability`, then `decide` |
| `ApplyPause`, `ApplyPrice`, `ApplyResume` | `_apply`: one call to the shop each; a resume is two |
| `PollsDone` | `run` returns; only now are rows saved |
| `LoadListing`, `SaveListing` | `save_listing` of the snapshot's record with the decision's edits |
| `EndSweep` | `monitor_sweep` returns |
| `CallRaises`, `Restart` | any call raises (nothing catches it); the process dies |
| `SourceMoves` | external: stock and price change at any time |

`Decide` is `decide()` branch by branch; the quote is the constant `Quote`, a
function from source prices to sale prices, and `ThinMargin` the prices whose quote
falls below the margin floor. The sample values are what `MarginEngine.quote` gives
with `config/costs.yaml` for the 29-dollar sample product: 20, 29, 30 and 38 dollars
sell at 62,500, 82,900, 85,200 and 103,300 won. 38 is a rise the monitor calls a
spike, 30 one it absorbs, 20 a drop of more than the drift threshold.

### PublishDesk

`listings` and `pubs` are the two tables, `shop` what the channels sell, `worker` the
handlers in progress. A listing row is reduced to its status, the monitor's number and
whether it has a draft; the verdict of the pipeline is the constant `Sellable`.

A number is a channel and a count: `samples.py` gives each channel a prefix and counts
from 1, and of a real channel only that much matters, that it never gives a number
twice. `Samples` are the channels without keys, which are classes of `samples.py`:
coupang always, naver without its keys. Their products and counters are attributes of
an object, so a restart empties them and starts the numbers again (`Forgotten`), while
the rows in the tables keep the old ones; `lost` remembers how many a channel had given.

| step | code |
|---|---|
| `RunSourcing`, `ClearListings` | `clear_listings`: the rows to delete are read, then deleted together with all publications |
| `RunPipeline` | `PipelineRunner.run`: every item is processed before the first is saved |
| `ApproveListing`, `GetDraft` | `get_listing` with the 404 and the 409, and `get_draft`, a transaction of its own |
| `Listed`, `NotListed` | one round of `MultiChannelPublisher.publish` with a real channel; without a draft the adapter raises before it posts |
| `SampleListed` | the same with a sample channel, which lists whatever it is given, a missing draft as well |
| `LoadPublication`, `SavePublication` | `save_publication`, channel by channel; the last one decides (`Published`) whether the listing is published and by which number (`MonitorKey`) |
| `LoadRow`, `SaveRow`, `RowCollides` | `save_listing` for both handlers: update, insert, or the error of a taken key or a vanished row |
| `AnswerLost` | the product exists and no usable answer comes (a read that times out, a 4xx, no JSON): nothing is sent again |
| `PostedTwice` | the shop answered a POST it had acted on with a 5xx, and `request_json` sends it again |
| `Raises`, `Restart` | an exception ends the handler; the process dies, its sample channels with it, and seeds an empty table when it starts |

`booting` is the time `__init__` seeds the table and nobody is served.

### Margin, Compliance, Wiring

Pure operators. `Margin` counts in a fraction of a won that holds every
intermediate result of the code exactly (`RateOfWon`, `Won`), so that only the
three roundings of `engine.py` are left: the price up to the price unit (`CeilDiv`),
the profit to a won and the rate to four digits (`HalfUp`, ties away from zero).
`FinalCost` is `_raw_costs` with duty, import VAT and the return reserve;
`QuoteRaises` the conditions under which `quote` raises. `Compliance` reduces a text
to the words some rule looks for; `Evaluate` is the chain in its order, `Doubts` the
rules that collect. `Wiring` turns an environment, which keys are given and what
`FX_RATE`, `SALES_CHANNELS` and `MONITOR_INTERVAL_SECONDS` hold, into a shop
(`Assembled`) or a start that fails (`Readable`, `Consistent`).

### Pipeline

`env` is the environment a start will read, `shop` what it assembled, `market` the
source, `batch` the run with the products as they were fetched, `outcome` what it
made of each. A run is one call, and a product leaves `_process` by one of the
actions below; the quantified score, draft and status are the answers of a model or
a shop.

| step | code |
|---|---|
| `Start` | `load_settings`, `validate`, `build_adapters` |
| `Fetch` | `fetch_bestsellers` of the source chosen, with what its adapter can know of a product (`Fetched`) |
| `Blocked`, `Doubtful`, `MarginRejected`, `Skipped`, `Drafted` | the exits of `_process`, with the evaluation's score (`Scores`, `Recommendation`), the draft (`Drafts`) and, with `auto`, the publish |
| `PricingRaises`, `CategoryRaises`, `PublishRaises` | `quote`, `map_category` or `publish` raises and the whole run ends (`Abort`) |
| `RunEnds` | the list of outcomes is returned |
| `SourceMoves` | external: price, stock, and whether a price is shown |

### AfterSale

| step | code |
|---|---|
| `TakeOrder` | an order for a product at the price of its quote (`demo.main`) |
| `Process` | `process`: the snapshot, the guard (`Guard`), `place_order`; any number of times |
| `ConfirmPurchase`, `UpdateShipment` | the operator's calls of `ManualFulfiller`; neither looks at the status |

The guard's customs code is the source's (`order.hs`), its rate `costs.yaml`'s
(`CostsFx`), its floor `MinOrderMargin`; the quote's are the classifier's, the
settings' and `MinMargin`.

### NaverClient

Time is a countdown: `token` and `exp` hold how long the cached token lives and is
believed to live, `call` per thread the request it waits for, with what is left of
its timer, the life of the token in its header (`held`), the time since `now` was
read (`age`), and whether the shop has acted and not been heard (`unheard`).

| step | code |
|---|---|
| `Call` | `_api`: the header with the cached token if it is `Reusable`, else a request for one |
| `Connected`, `ConnectFails` | `urlopen` up to the connection; a refusal is a `URLError` and is retried |
| `Act`, `Answered` | external: the shop does it; its answer arrives |
| `Busy`, `Refused`, `AnswerBreaks` | 429 or 5xx; any other error; a read that times out, which is no `URLError` and is not retried |
| `TokenReceived`, `StoreToken`, `StoreExp` | `_access_token`'s two assignments, apart, and the header built from what is cached by then |
| `Wake`, `Tick` | the end of a sleep; time, which no thread with something to do lets pass |

Every token is assumed to live `TokenLife` from its issue. The shop refuses a token
that has ended, and the adapter does not drop it then: that is the code.

### AdminAccess

`server` is the running process's secret, whether it is configured, and whitelist;
`stored` the token in the browser; `page` what each tab knows and shows; `requests`
everything under way, with the flow it belongs to: the `load` on mount, the button
that was clicked, a sign-in, or nobody (a `load` that already failed). Sending, serving
and taking the answer are three steps, so that anything may happen between them.
`window.location.reload()` returns at once: it only marks the page as `leaving`, and
until the browser has unloaded the document its requests go on and their answers are
taken, a 401 among them. Google's button is never disabled, so several sign-ins of a
tab may be under way; `MaxOpen` bounds a tab's requests.

| step | code |
|---|---|
| `Serve` | `require_admin` and the handler; `get_config`; `auth_google` |
| `Take` | `handle`, which logs out on any 401 (`Kept`), and then what waits: `ConfigOk`, `ReadOk`, `LoadFails` of `load`, `CallOk`, `CallFails` of `act` and `runMonitor`, `setToken` and the call of `reload` after a sign-in |
| `Unload` | external: the browser replaces the document (`Reload`), and its requests are dropped |
| `Click`, `SignIn`, `SignOut`, `Refresh` | the buttons, Google's callback, a page refresh |
| `Restart`, `Break`, `Tick` | a new secret unless configured, another whitelist; a connection breaks; time |

Signatures are not forged and `GOOGLE_CLIENT_ID` is set. `who = NULL` stands for every
refusal of Google's answer: another client, an address that is not verified or
missing, no connection. "fail" is any other error status or a broken connection.
Upper and lower case of an address are not told apart. An answer nobody waits for
is dropped unless it is a 401, the only one that still does something; so is a failed
sign-in, which only shows why it failed, unless it is a 401 as well.

## 3. Runs

| run | instance | shows |
|---|---|---|
| `desk_serial` | 2 orders, 2 numbers, 1 thread | `TypeOK`, `OrdersFollowLedger`, `BookSpec` hold under any sequence of requests, errors and crashes |
| `console_one_tab` | 2 orders, 2 threads, 1 tab, 2 faults, no lost answers | `PaidOnce`, `NoPurchaseLost` and, with fairness, `ConfirmIsRecorded` |
| `console_lossy` | 1 order, 2 threads, 2 tabs, 1 fault, lost answers, symmetry | `MoneyTrail` and `LedgerBacksOrders` hold even so |
| `console_two_tabs` | 1 order, 1 thread, 2 tabs, no faults | **violated** `PaidOnce`: a stale approve re-opens a bought order |
| `sweep_solo` | 2 listings, 3 prices, the scheduler alone, no faults | rows tell the shop between sweeps, the offer follows the source, no change without a change at the source |
| `sweep_hard` | 1 listing, scheduler and route, 1 fault | no spike is ever passed on; the rows heal by themselves |
| `sweep_abort` | 1 listing, the scheduler alone, 1 fault | **violated** `SoldOutIsPulled`: an exception after a resume leaves the row paused, and the product on sale for good |
| `publish_solo` | 2 items (one sellable), a real and a sample channel, 1 thread, 2 faults | `KeyedByPrimary`, `ApprovalHasDraft` |
| `publish_threads` | 2 items, a real and a sample channel, 2 threads, 1 fault, symmetry | `NumbersAreReal`: whatever overlaps, a number in a table is that item's product, or one a sample channel gave before a restart |
| `sales` | every environment, 1 item of 9 kinds, 3 prices, rates below, at and above `costs.yaml`'s | the properties of `AfterSale`, below |
| `client` | 2 threads, 3 attempts, a unit of 15 s | `FirstTryIsFresh`, `NetworkNeverDoubles` and, with fairness, `CallReturns` |
| `access` | 1 tab with 2 requests at a time, 1 account, 2 reads, 1 fault, 3 whitelists, a reload that takes its time | `OnlyRecentAdminsServed`, `KeepsGoodToken` and, with fairness, `BackToLogin` |

`KeepsGoodToken` says what the page does keep: a token that is still good goes only when
the administrator signs out or when a 401 is taken that answers a request which did not
carry it. The second case is a flaw the page has (`OnlyDeadTokenDropped`, below).

The properties of `sales`: half a pair of keys, a key where its layer would go to the
mock all the same, or an unknown channel ends the start (`NoSilentMock`; keys that decide
no layer are not complained of: Rainforest's beside AliExpress's, naver's with
`SALES_CHANNELS=coupang`); what a rule forbids is never priced and what is in doubt never
drafted (`OnlyCleanIsDrafted`); a price is the least that meets the target
(`PricesCover`); models only demote (`AdviserOnlyDemotes`); an order for what was
offered passes the guard while the source is no dearer and the settings' rate not
below `costs.yaml`'s (`FreshOrderPasses`); nothing is ordered at a loss at the price
just seen (`NoLossOrdered`); processing again resets nothing (`ReprocessKeepsLedger`).

What the models show beyond the runs. Each of the first group is one change of an
instance away, and TLC then gives the trace:

* `PurchasedIsFinal` of `OrderDesk` with two threads and one order: two overlapping
  approvals and a confirm, and the slower `place_order` overwrites a purchased line,
  where `order/fulfiller.py:26` asks that a repeat return the existing result.
* `OnlyGuardedOrdersPlaced` of `OrderDesk`: approve places an order whatever the
  guard said, though `order/manual.py:7` says that only guarded orders arrive.
* `RepeatReturnsExisting` of `OrderDesk` with two threads: two overlapping first
  approvals, and the second INSERT breaks the unique key and is answered with a 500.
* `SoldOutIsPulled` with `Routes = {r1}` and `MaxFaults = 0` in `sweep_abort.cfg`:
  a sweep from the route beside the scheduler's needs no fault for the same end.
* `StableSourceNoChange` with `ListedAt = 886` in `sweep_solo.cfg`: `FX_RATE=1500`
  prices the listing at 88,600 won, `_requote` uses the rate of `costs.yaml`, and the
  first sweep re-prices a product whose source never moved.
* `SoldIsWatched` with `MaxFaults = 0` in `publish_solo.cfg`: a second sourcing run
  drops the published rows, their products stay on sale and nobody watches them.
* `NoDuplicateProduct` in `publish_threads.cfg`: two overlapping approvals both
  publish, where `adapters/base.py:78` asks that a repeat be recognised.
* `CatalogueIsThere` with `Restarts = FALSE` in `publish_solo.cfg`: one exception
  ends the sourcing run after the table was cleared, where `pipeline/runner.py:7`
  says that one product's failure does not stop the batch. `PricingRaises` and
  `CategoryRaises` are how: a price that is missing or not in dollars, a primary
  channel `costs.yaml` does not know (`SALES_CHANNELS=coupang` passes `validate`), a
  category naver has no match for.
* `KeyedByPrimary` and `ApprovalHasDraft` in `publish_threads.cfg`: a sourcing run clears
  the tables between an approval's transactions; it takes the publications away before
  the row is saved as published, or the draft between `get_listing` and `get_draft`.
* `NoPurchaseLost` and `PaidOnce` with `LossyLink = TRUE` in `console_one_tab.cfg`: a tab
  that gave up on a request sends the next one while the first still runs.
* `KeysDiffer` in `publish_threads.cfg`, or with one thread and `Sellable = {i1, i2}` in
  `publish_solo.cfg`: an item is listed by coupang alone, the process restarts, and the
  next item is listed there as number 1 once more. Two published rows go by one number,
  and `monitor_sweep` keeps only one of them in the dictionary of `service.py:171`.
* `OnlyDeadTokenDropped` in `access.cfg`, with one tab: a click before the config has come
  is refused for want of a token, the user signs in, and the late 401 is taken between
  `setToken` and the end of the old document. `handle` logs out, and the next document asks
  to sign in again, where the comment in `lib/api.ts:77` speaks of an expired or invalid
  token. Two tabs reach the same without a reload in between.

And what the definitions say outright, which a reader of the code may want to know:

* `runMonitor` has no `catch`: a 401 there removes the token and shows no login, where
  `lib/api.ts:77` says it does; `BackToLogin` therefore speaks of `act` and the reads.
  A 403 leaves the token and shows that the server cannot be reached.
* `api/auth.py:7` speaks of several instances without shared storage: that needs
  `SESSION_SECRET`, since otherwise each start draws a secret of its own.
* A third attempt of a request may carry a token that has ended (the header is built
  once; 30 s of slack cover the first attempt only); the 401 is then an `AdapterError`,
  and `publish` calls it REJECTED. So it calls an answer that is no JSON, although
  the product exists. A 5xx after the shop acted is retried.
* `_http.py` says (lines 6 and 83) that network failures are retried. A connection that
  fails is; a read that times out raises `TimeoutError`, which is no `URLError`, and is
  neither retried nor turned into an `AdapterError`.
* Amazon may show a buy box in stock without a price: the observed price is 0, `quote`
  raises, which ends a sweep, while the guard's `profit_at` says AUTO_ORDER.
  `NoLossOrdered` speaks of the price that was observed.
* `process()` called again after the source moved reports `pending_approval` for an
  order that was placed.
* The confidence of `map_category` is looked at nowhere (`adapters/base.py:74`); the
  Rainforest key is ignored when AliExpress keys are given; a best seller of Amazon's
  under the default category has no HS code and always waits for a review.

Bounds. Handlers of different orders share no row, so one order shows every
interleaving of the tables; the second order in `desk_serial` and
`console_one_tab` is there for what one operator does across orders. Two threads
are the least that overlap, and every race found needs only two. Two Amazon
numbers let a confirm be repeated with another number and an order be bought
twice. Two faults let the repair of a first fault fail as well. A sweep couples its
listings only by polling all before saving any: two show that. Three source prices
are a drop, the baseline and a spike; the source may move without bound, in every
state. In `PublishDesk` the second item is what makes a sourcing run save more than
one row, lets an unsellable item be asked for and lets two items meet at one number. No
approval starts once a channel sells `MaxProducts` products; those under way finish. Two
let two approvals overlap, or a second follow the first; three in `publish_solo` let one
user publish, source again and publish once more after a double post. Its two faults can
be a failure and a restart, or two of a kind. `Samples` is coupang: with naver a sample as
well no answer is ever lost, which leaves less to go wrong. In `sales` the products of
a batch do not see each other, except that an exception loses all outcomes, so one
item of every kind shows each path; prices are 3, 14 and 16 price units of about ten
dollars with the list clearance limit at 15, a rate is a number of twentieths, and
`MinMargin` is 26 % where the code ships 10 %, because with the shipped values no
product can be rejected for its margin (theorem `MarginGateStaysOpen`). In `client` a
unit is 15 seconds: a timeout is 1 and the slack of 30 seconds is 2, as in the code,
and a token lives four units, so that it ends within a call and its retries. In
`access` a token lives one unit of two, so that it may end before, while and after a
request is served; one fault restarts the server, breaks a connection or lets the
user refresh in the middle of a load; two reads are the least of which one can fail
while another is still under way; two open requests (`MaxOpen` stops the user, not the
reads of a load) are a refused call beside a sign-in, or two sign-ins.

Deadlock is checked in every run: the desk can always take a request or crash, a page
can always be refreshed, a sweep can always start, a sourcing run can always be
asked for, the source always moves, a thread can always ask the adapter for
something.

Fairness. `FairConsoleSpec`: the thread pool gives every request that arrived a
thread, every handler that can take a step takes one, and every answer arrives.
Nothing is assumed of the operator: `ConfirmIsRecorded` starts from a confirm
that was sent. It is stated for the time after the last fault, because no code
retries a confirm that a fault cut short; the operator does. `FairSweepSpec`: the
interval job keeps ticking and a sweep that was started goes on. Nobody has to use
the route, no call has to fail, and the source does not have to move or to rest: the
liveness properties start from a source that happens to rest. `NaverClient`'s `Spec`:
threads are scheduled and clocks run; the fairness of `Tick` is strong because other
threads may keep having something to do at once. Whether the shop acts or answers is
left to it: a timeout ends the wait. Each wait is taken to be finite. The code does not
ensure as much: the socket's timeout is per receive, so that an answer that trickles in may
take longer than it, and a `Retry-After` is slept through however long it is.
`AdminAccess`'s `Spec`: requests are served and
their answers taken, per tab and flow, and the browser carries out a reload that was
asked for; the administrator need not do anything, and
`BackToLogin` is stated for the time after the last fault.

## 4. Proofs

TLAPS checks the following for every value of the constants.

* `DeskTypeCorrect`: `DeskSpec => []TypeOK`. The work is in `SaveFulfillment` and
  `SaveOrder`, where each column is either the table's or the handler's
  (`ColumnChoice`).
* `LedgerAlwaysBacksOrders`: `DeskSpec => []LedgerBacksOrders` for any number of
  threads. The invariant is not inductive as it stands: a handler about to save an
  order row must already know that the ledger has its line. `BackedInv` adds that
  for every thread past its ledger save, in its copy and in what its session read;
  a ledger line is never deleted, so other threads cannot take the fact away.
  `LedgerNeverForgets` states that last fact as an action property of its own.
* `SerialOrdersFollowLedger`, `SerialLedgerIsPurchaseBook`, `SerialPurchasedIsFinal` and
  `SerialRepeatReturnsExisting`: with one thread (`OneThread`) the order rows follow the
  ledger, the ledger implements `PurchaseBook`, and the two promises of
  `order/fulfiller.py` that section 3 shows broken by two threads are kept. The
  invariant `SerialInv` says that the handler's copy of a row is still the row. All four
  are false with two threads, so the assumption is needed; but the step lemma
  `SerialStep` asks only that of two threads one is idle (`OneBusy`), a fact about the
  state, so that it serves the console below as well.
* `ConsoleTypeCorrect` and `ConsoleImplementsDesk`: `ConsoleSpec => DeskSpec`. The page,
  its operator and its faults are clients of the desk (`ConsoleIsDeskStep`), so what is
  proved of the desk for arbitrary clients holds under them.
* `MoneyTrailAlways`: `ConsoleSpec => []MoneyTrail` for any number of tabs and threads,
  with lost answers. `MoneyInv` follows a number on its way: the receipt in the
  operator's hands and the request (`NumbersInHand`), the handler's copies of both rows
  (`ThreadGiven`), the tables. Each may hold only a number paid for that order, and
  since a flush leaves either the table's or the handler's value, overlapping saves can
  mix rows but not orders. When the operator pays, the line is there by `BackedInv`, and
  it stays by `LineStays`.
* `OneTabLosesNothing` and `OneTabPaysOnce`: `ConsoleSpec => [](NoPurchaseLost /\
  PaidOnce)` with one tab (`OneTab`) whose requests are all waited for (`~LossyLink`),
  for any number of threads, orders, crashes and database errors. `NoPurchaseLost` is far
  from inductive. `OneTabInv` adds that a busy thread works for the request the tab waits
  for (`Awaited`), which makes the page's `busy` flag the lock the service does not have
  and gives `OneBusy` and with it `SerialInv`; that a tab shows what is paid for as bought
  or to be bought (`PagesShowPaid`), so that a request under way on such an order is its
  confirm with its number (`OnlyConfirms`); and that a confirm past its ledger save holds
  for the order row what the ledger has (`ConfirmInHand`). `PaidOnce` then follows,
  because a purchase is on record as bought or its receipt is held for an order that
  waits, never both (`PurchaseKinds`). Both assumptions are needed: a second tab
  falsifies `PaidOnce` (`console_two_tabs`), and so does a request that was given up
  (section 3).
* `OneTabSerialisesDesk`: under the same assumptions the desk is serial however large the
  thread pool: `BookSpec`, `PurchasedIsFinal`, `OrdersFollowLedger` and
  `RepeatReturnsExisting` hold of `ConsoleSpec`.
* `SweepTypeCorrect` and `NoSpikePassedOn`: `SweepSpec => [](TypeOK /\
  NoAutomaticRaise)` for any number of sweeps, faults and listings. The shop's price
  says nothing of a decision that is still to be applied, so `SweepInv` adds that
  every decision a sweep carries is `Sound`: it has a price exactly when it reprices
  or resumes, and that price is the quote of a source price `decide` does not call a
  spike. The proof therefore rests on the order of `decide`'s branches
  (`DecideSound`).
* `SoloRowsTellTheShop`: `SweepSpec => []RowsTellTheShop` under `Undisturbed` (no
  sweep from the route, no faults), for any number of listings. Between the polls and
  the saves shop and rows do disagree; `SoloInv` says by how much: the rows are the
  snapshot until they are saved, and the shop is where the sweep's `Outlook`, the
  snapshot edited by the decisions so far, will bring them. Either disturbance
  falsifies it (`sweep_abort`).
* `StableSourceStays`: `SweepSpec => StableSourceNoChange` for any listings and any number
  of sweeps, faults and restarts, under `PricedAlike`: the price a listing was published at
  is within the drift threshold of what the monitor quotes for the same source price, and
  that quote clears the floor. Without it the first sweep re-prices (`FX_RATE`, section 3).
  `CalmInv` says that as long as nothing moved every row, snapshot and copy is the row as
  it was published, on which `decide` finds nothing to do (`NothingDecided`). The property
  is an implication between two temporal formulas; the invariant is proved under the
  premise that the source rests.
* `PublishTypeCorrect` and `NumbersStayReal`: `PublishSpec => [](TypeOK /\
  NumbersAreReal)` for any items and channels, samples or not, and any number of threads,
  lost answers and restarts. `NumbersAreReal` excepts the numbers a sample channel gave
  before a restart (`Gone`), so it says of a real channel that every number in a table is
  that item's product, and of a sample one what is true of it. `PublishInv`
  adds that the results and the record a handler carries name products that were
  sold as its item (`Carries`). No step but a restart takes a product away or renames it
  (`Keeps`, `SoldStays`), so what one thread carries stays true while others sell; a
  restart leaves no handler, and counts what it takes among the lost (`ForgottenOK`); and
  a sourcing run, which moves from item to item, carries no results. That the monitor's key is one of the
  results needs the least listed channel to exist (`MonitorKeyCarried`).
* `SoloKeyedByPrimary` and `SoloApprovalHasDraft`: `PublishSpec => [](KeyedByPrimary /\
  ApprovalHasDraft)` with one thread, for any items and channels, lost answers, double
  posts and restarts. `SerialInv` says how far an approval has come: its row is still
  ready, the publications before the current channel are its results, and the record it
  will save is keyed as they say (`ApprovingThread`); and that a sourcing run publishes
  nothing and meets no published row once it has cleared the table (`SourcingThread`).
  Both are false with two threads (section 3).
* `SalePriceIsLeast`: for any cost and channel the price is the least multiple of the
  price unit that meets the target (`CeilDivLeast` is the arithmetic).
  `TargetClearsFloor`: under `RoomAbove(floor)` the profit and the rate, after both
  their roundings, stay above the floor. The shipped values (a unit of 100 won, a
  target of 25 %, floors of 10 % and 3 %) have that room, so the monitor's margin
  branch and the pipeline's margin gate cannot stop a price the engine has just set;
  they guard against other configurations.
* `SalesInvariant`: `SalesSpec => []SalesInv`, and from it every property of the run
  `sales` for any goods, rules, prices, rates, scores and number of items. `SalesInv` says of
  each product seen that it is one the source could show, and of each outcome which
  exit of `_process` it came from: its verdict, its quote recomputed, its price the
  least. The order then inherits the quote. `FreshOrderPassesAlways` needs
  `MinOrderMargin <= MinMargin` and the monotonicity of cost in price and rate
  (`ListCostGrows`, `CheaperEarnsMore`); `MarginGateStaysOpen` needs `RoomAbove(MinMargin)`.
* `TokenInvariant`: `Spec => []TokenInv` of `NaverClient` for any number of threads
  and any times with two timeouts within the slack (`ClientAssumption`). `TokenInv`
  says that a stored token is never believed to live more than one timeout longer than
  it does (`BeliefIsClose`), although a second thread may come between the two
  assignments of `_access_token`, and what follows for the requests under way. `FirstTryIsFreshAlways` and
  `NetworkNeverDoublesAlways` follow.
* `AccessInvariant`: `Spec => []AccessInv` of `AdminAccess`. Every token in play is
  `Backed`: it was issued under its secret, and if that is the one in force, Google
  vouched for its account no earlier than its issue; `SecretsAreFresh` keeps a new
  secret apart from all tokens. `OnlyRecentAdminsServedAlways` follows for any tabs,
  accounts and restarts. `KeepsGoodTokenAlways` holds for any
  number of tabs. It adds that every answer `Fits` its request: a 401 was given to a
  request whose token is dead by now, and dead tokens stay dead, whatever restarts and
  clocks do (`DeadStaysDead`); so a 401 that takes a good token away answered a request
  that carried another (`OneAnswerForgets`). What it cannot exclude is that case itself.

The assumptions are those the modules name: `NullAssumption`, `MonitorAssumption`,
`PublishAssumption`, `MarginAssumption`, `PipelineAssumption`, `AfterSaleAssumption`,
`ClientAssumption` and `AccessAssumption` say that the parameters have their types,
that `NULL` is none of the values it stands beside, and, for `Margin`, what the start-up
check of the configuration enforces. TLC evaluates them in every run.

## 5. Left to TLC, and not modelled

`ConfirmIsRecorded`, `OfferFollowsSource`, `RowsFollowSource`, `SoldOutIsPulled`,
`CallReturns` and `BackToLogin` are liveness properties under fairness, which this prover
does not reach, and stay with TLC. Every invariant, every action property and the
refinement that a run finds to hold is proved. Induction over data and RECURSIVE operators
are out of this prover's reach; no module uses either.

Not modelled: markup and style of the page, the wording of notes and reasons,
HTTP schemas, the text the LLM clients write and its cleaning, the signing of
requests, Docker files; the customer's agent (`jikgugom/cs/`), which keeps no state and
which no route calls: a keyword table or the model names the intent, one condition
escalates, and otherwise what is sent is the model's own text, or the ledger's facts when
there is no model, so there is no order of events in it to check; the demand curve, a
logarithm that enters as a table; DeepL, which only chooses between two translations of
the body; `fetch_orders`, which nobody calls; the in-memory repository that is used
without a `DATABASE_URL`. The monitor's `Quote` and `ThinMargin` and the publishing
model's `Sellable` stay parameters: their modules are about interleavings, and the
values they can take are what `Margin` and `Pipeline` compute.

## 6. What could follow

* The composition of `PublishDesk` and `MonitorSweep`: a sourcing run under a sweep, a
  row keyed by a secondary channel's number, two rows with one number of a restarted
  sample channel.
* What the orders would keep with several tabs if `approve_order` refused an order that
  is not pending.
* A batch of several products that share a source and the model's quota.
