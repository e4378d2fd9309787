# A TLA+ model of bancod

`bancod` is a bot that watches an Ark server's transaction stream, recognises
swap offers that fit its configured pairs and prices, and fulfils them through
an introspector that co-signs the swap. This directory holds TLA+ modules
translated from its Go source, the TLC configurations that check them on small
instances, and theorems that TLAPS checks for instances of every size.

    tlc -workers 2 -config MCSolver.cfg MCSolver     # one run of the table below
    tlapm DaemonProofs.tla                           # one module of proofs

## 1. The system

| Component | State it keeps | Operations | Modelled in |
|---|---|---|---|
| solver runtime (`pkg/solver/solver.go`) | the WaitGroup, the loop's position | `Run`, `safeMatch`, `safeSolve` | `Solver` |
| arkd source (`pkg/solver/arkdsource`) | a channel of capacity 1 | the goroutine of `Subscribe` | `Solver` |
| plugin builder (`pkg/solver/builder`) | the Builder's stages, the plugins' copies | `ForExtension`, `Filter` ... `Build`, `Match`, `Solve` | `PluginBuilder` |
| transaction predicates (`pkg/solver/txmatch`) | criteria set by options | constructors, options, combinators | `TxMatch` |
| taker service (`internal/core/application/service.go`) | `cancel`, `done`, `running` | `Start`, `Stop`, `Status` | `Daemon` |
| `main` (`cmd/bancod/main.go`) | database, connection, ark client | start-up, signal, deferred closes | `Startup`, `Daemon` |
| configuration (`internal/config`) | none | `LoadConfig` | `Startup` |
| database (`sqlite/db.go`) | the file and its schema | `OpenDB`, migrations | `Startup` |
| API server (`internal/interface/grpc`) | listeners, requests in flight | `Start`, `Stop`, gateway, handlers | `Daemon`, `Api`, `TradeLog` |
| pair configuration (`service.go`, `sqlite/repo.go`, `sqlc`) | the table `banco_pair` | `AddPair`, `UpdatePair`, `RemovePair`, `List` | `Pairs`, `Api` |
| command line client (`cmd/banco`) | one request | the commands, `printResponse` | `Api` |
| matching (`pkg/banco`) | the price cache | `decode`, three validators, `priceCache.get` | `Matching` |
| price feed client (`pricefeed/coingecko.go`) | one request | `Fetch` | `PriceFeed` |
| fulfillment (`plugin.fulfill`, `contract.FulfillOffer`) | locals of each goroutine | service calls, transaction and asset packet | `Fulfillment`, `FulfillTx` |
| swap contract and offer packet (`pkg/contract/offer.go`) | none | `FulfillScript`, `VtxoScript`, TLV codec | `FulfillTx`, `OfferCodec` |
| maker helpers (`pkg/contract/maker.go`) | none | `CreateOffer`, `GetOffers` | `OfferFlow`, `Fulfillment` |
| trade listener and table | the table `trade` | `OnFulfill`, insert, list | `Fulfillment`, `TradeLog` |
| dashboard (`web/static/app.js`) | `pairsCache`, the page, toasts | load, save, delete, Undo | `Dashboard` (pairs section) |
| generated protobuf code | none | | not modelled, section 8 |

How they interact. `main` calls `TakerService.Start`, which subscribes to arkd
and starts a goroutine for `Solver.Run`. The source goroutine and `Run` share
one buffered channel and one context. `Run` calls the plugin's `Match` for one
packet after the other; an accepted packet gets a goroutine for `Solve`. `Match`
reads the pair table, which API requests change at the same time, the price
feed and the wallet. A `Solve` talks to arkd's indexer, to the wallet and to the
introspector, shares the taker's coins with all other Solves and the swap
coin with the rest of the world, and ends with an insert into the trade table.
On a signal `main` cancels the context, waits for `Run`, which waits for the
Solves, stops the servers, and closes what everybody was using. Operators reach
the pair table from the command line client and from the dashboard, both over
the HTTP gateway. Makers publish their offers as packets in transactions; the
bot decodes whatever packet it finds and trusts nothing in it but the script
that it can rebuild from it.

What is hard about it, and what makes each part correct:

* **runtime and source**: no packet lost or overtaken between the goroutines,
  nobody left blocked, `Run` never back before its Solves, nothing done twice;
* **service, main, server**: `Status` is true, nothing is closed while in use,
  a signal ends the process as soon as the gRPC handlers under way return;
* **matching**: what passes meets the owner's limits, under a row that was
  configured, with a price as fresh as promised, whatever the feed does;
* **offer packet**: a maker's offer arrives unchanged, and no packet makes the
  bot treat a funded script under terms that are not the script's;
* **builder and predicates**: a plugin runs the stages it was built with, in the
  order promised, and a predicate accepts what its constructor's comment says;
* **start-up**: what was started has its database and its gRPC port, whatever
  failed or crashed before, and start-up gives up only for a cause;
* **API and clients**: an answer is true, a repeated command is harmless, amounts
  survive the signed columns, the page shows no row that never was;
* **trade list**: newest first and cut at the old end, though rows come late;
* **fulfillment**: transactions balance and satisfy the contract they spend,
  a maker gets what the deposit's script names or keeps the deposit, the trade table tells the
  truth under lost answers, failures, crashes and shutdown.

`PROJECT.json` lists the hazards line by line with the properties that watch
them.

## 2. Modules

| Module | What it is |
|---|---|
| `SolverContract` | abstract: what `Run` promises (work taken on only while running, once each, none unfinished at return) |
| `Solver` | the source goroutine, `Run`, the Solves; implements `SolverContract` |
| `Daemon` | EXTENDS `Solver`: service, `main`, API server, requests; composes them around the solver's steps |
| `Pairs` | the pair table and the service's operations on it; also the abstract specification of `Api` |
| `Matching` | EXTENDS `Pairs`: `Match` step by step, with clock, cache, feed and wallet |
| `PriceFeed` | `CoinGecko.Fetch` with its timeout |
| `AtomicSwap` | abstract: what a contract promises its maker |
| `FulfillTx` | pure: the covenant and the amounts of the fulfillment transaction |
| `Fulfillment` | EXTENDS `FulfillTx`: concurrent Solves against ledger, introspector and trade table; implements `AtomicSwap` |
| `OfferCodec` | pure: the packet's fields, both directions, and the script an offer stands for |
| `OfferFlow` | EXTENDS `OfferCodec`: makers publish, the bot decodes field by field and compares scripts |
| `Api` | client, gateway, handler, service, repository and SQL of requests; implements `Pairs` |
| `TradeLog` | timestamps, inserts and lists of the trade table |
| `TxMatch` | predicates, built up by an author, against what the comments of their constructors say |
| `PluginBuilder` | a Builder and the plugins built from it |
| `Startup` | configuration, database, listeners; crashes and restarts |
| `Dashboard` | the pairs page and its requests |
| `DaemonProofs` | theorems about `Solver`, its refinement of `SolverContract`, and `Daemon` |
| `MatchingProofs`, `StartupProofs`, `DashboardProofs` | theorems about the module of that name |
| `FulfillmentProofs` | theorems about `Fulfillment` and its refinement of `AtomicSwap`; the laws of sums over coins |
| `OfferProofs` | theorems about `OfferFlow` and the codec |
| `ClientProofs` | theorems about `Api`, its refinement of `Pairs`, `PriceFeed` and `TradeLog` |
| `LibraryProofs` | theorems about `TxMatch` and `PluginBuilder` |
| `MCSolver`, `MCMatching`, `MCFulfillment` | instances of one specification for TLC |
| `MCDaemon` | `Startup` and `Daemon`, the two stretches of the process's life |
| `MCHttp` | `Dashboard`, `Api`, `TradeLog` and `PriceFeed` side by side |
| `MCLibraries` | `OfferFlow`, `PluginBuilder` and `TxMatch` side by side |

The parts in `MCDaemon`, in `MCHttp` and in `MCLibraries` share no state. The variable `part` is
chosen in the initial state and says whose steps a behaviour takes, so that one
run checks each part alone without multiplying their states.

An operator whose comment begins with "Mutant" is a plausible bug in the
definition after it. No specification uses one: it shows that a property can
fail (the list is in `PROJECT.json`).

### Solver

An event is its position in arkd's stream; `stream` holds its kind, `tx` when
it decodes to a packet and `junk` for the three `continue`s of `Subscribe`.
`src` and `run` are the program counters of the two goroutines, `out` the
channel (closed when `src = "closed"`), `wg` the WaitGroup's counter, `job`
what became of each plugin's work on each event. The two arms of each `select`
are two actions, since Go may take either when both are ready. Match and Solve
are abstract: Match answers yes or no, where a recovered panic is a no; Solve
takes a while, and a panic ends it as a return does. A plugin's view of the
packet is left out, and so is the nil packet `Run` skips (the source sends
none).

### Daemon

`main` is main's program counter, `running` and `epilogue` are the service's
flag and the deferred calls of its goroutine, `open` the resources not yet
closed, `req` the API requests. `Solver`'s steps are enabled only between the
statement that starts their goroutine and the exit of the process. The HTTP
gateway calls the handler directly (`newHTTPGateway` ignores its connection),
so HTTP requests are not the gRPC server's and `GracefulStop` does not wait for
them. `httpServer.Shutdown` waits at most five seconds: time is left out, so it
may return with requests still running, and `httpLate` remembers that it did.
`log.Fatal` in `main` exits on the spot. Reads by handlers change nothing and
are a request's start and end. How long a handler takes is left open: it may wait on
arkd with the request's context, which the shutdown does not cancel.

### Pairs and Matching

A pair's name is the tuple of its two sides. Refused requests change nothing
and are guards. `Matching` has one action per call `Match` makes that can
interleave with a change of the table or the clock. `priceCache.get` is three:
the look at the cache, and the fetch with its two ends. Prices are exact
fractions where the code has `float64`; `1/0` is a denominator of zero. History
variables: `quotedAt` (when the feed quoted the price in hand) and `live` (the
rows the table held since this Match began). Feed and wallet answer anything
in their constant sets. Transactions that carry no offer are left out; so is
everything in the offer that no check reads. The limits of a pair are compared with
the wanted amount in base units of the wanted asset, as `checkAmountInRange` does it;
that the repository calls them satoshis is the run `limits`. The table may start with a row
written past the service's validation, as the end-to-end test does it.

### FulfillTx and Fulfillment

A coin is an outpoint, a script, sats and units of each asset. An asset is the
transaction that issued it and an index, a maker's script a witness version and a
program of 32 bytes (the decoder demands the length and nothing else). A contract's
script is the record of what its fulfill script holds, which is less than the
offer: the program and not the version, the issuance and not the index, and the
amount as an `int64`. Equal records, equal script. `FulfillScript` is what the
arkade script checks of a transaction: a taproot output 0 with the program and at
least the amount, so an amount of `Half` (2^63) and more, negative there, asks for
nothing in sats and for a single unit of an asset. What `INSPECTOUTASSETLOOKUP`
returns is taken from how `offer.go` uses it: the group at index 0, with its units
for output 0. `FulfillmentTx` is what `FulfillOffer` builds: output 0 has the
maker's script as the offer gives it, and the asset packet the totals of
`buildFulfillAssetPacket` and the group that comes first (any, when Go's map
order decides).

`Fulfillment` gives every call to a service a step: `CheckScript`,
`GetSwapVtxo`, `ListTakerVtxos`, `BuildTx` (from `NewOffchainAddress` to the
last signature: what it reads is local), `SubmitTx`. A submission travels on
`wire`; the ledger settles or refuses it in one step whether or not the sender
still waits, and the answer comes back or is lost. `Faults` chooses what the
world may do: failing calls (`rpc`), lost answers (`reply`), a failing insert
(`db`), a crash with restart, the shutdown's cancellation, a rival taker, a
maker's refund, an expiring coin. External, modelled from how the code uses
them: arkd's ledger and stream, the introspector, other takers, the kill of the
process. The wallet's view of its own coins is taken to be the ledger's.
`Match` is one step here (`Accepts` says which offer and deposit pass); it is
opened up in `Matching`. `GetOffers` reads the ledger as the indexer shows it,
spent coins included.

### OfferCodec and OfferFlow

A packet is a sequence of fields, a field a tag and a value; `Malformed` is a
value its case refuses. Integers keep their widths (`Max64`, `Max32`, scaled
down): the exit delay is cut to 32 bits by the decoder, and the cancel time when
it enters the closure. Keys are an x coordinate and a parity, and lose the
parity on the wire. A maker's script is a version and a program, or short. The
script of a contract is the record of all that enters its closures, so equal
scripts mean equal closures. `Find` takes the maker's packet or starts one that
`Incoming` makes up field by field from a set of fields, the maker's own script
among them, which is how two offers can name one script. The script holds the
issuance transaction of the asset and not its index within it, and the maker's
program and not its version;
`ConsistentPinsTerms` says no more than that. A packet that pays the same program
under another version therefore passes the comparison of scripts; the contract
then refuses the payment (run `covenant`). That a value longer than 65535
bytes wraps its length is not modelled: no field of an offer is that long.

### Api and Dashboard

`Api` follows each invocation from the command to the statement: `cli` is the
client, `srv` the daemon's side, and the two come apart when the client gives
up. `rows` has the signed columns; `ListPairs`, the table as the rest of the
daemon reads it, is the refinement mapping to `Pairs`. `effect` is history: the
table before and after the statement of an invocation, if it had one. `Dashboard` keeps the
page's `cache` and what is drawn (`view`), which differ after a load that
failed. An operation is sent, served or failed, answered and handled; the page's
functions run from await to await, so each handler is one step. `form` is the
disabled submit button. `disturbed` remembers what makes a stale page
unavoidable, so that `QuietViewIsTrue` demands the truth of all other pages.

### TradeLog, PriceFeed

Ticks stand for time, `Second` of them make one second of the column. `since`
remembers which trades had a row when a solve took its timestamp, which is
what "newer" can mean to an observer. `ORDER BY ... LIMIT` is a numbering: the
k-th row of a list is the one with k - 1 rows before it. The clock is not set
back; a daemon whose clock is may list trades out of order. In `PriceFeed` a body is the sequence of
its keys in the order of the text; decoding keeps the last of equal keys and makes
a zero of `null`, and the iteration over the decoded maps takes any entry.

### TxMatch and PluginBuilder

A predicate is a function on the transactions of the instance. An author applies
options and constructors up to a bound; `means` is computed beside it, over all
transactions, nil and unparsed ones included, from the comment on each constructor
and the sequence of options given (the last of a kind counts), never from the
criteria. Output values are `int64` and compared as `uint64`, so a negative one is
a huge amount. In `PluginBuilder` the answers of decoders and validators are chosen
when they are called, and what a plugin has to ask is read off the history of
the author's calls.

### Startup

`pc` walks through `main`. Calls that only may fail share `Proceed` and `Fatal`
(`Follows` is their order); the database has actions of its own. golang-migrate
is external: it marks a version before it runs it and refuses a marked one, so a
crash between the two leaves a file that `OpenDB` refuses until someone repairs
it. `GivesUpForCause` lists that cause among the others. The gRPC port is bound by
`Start` itself, and an error ends the process; the HTTP port is bound by a
goroutine whose error, whatever it is, is only logged. `struck` remembers that a
call of this process has failed. `Restart` is somebody starting the process again,
which may happen and need not.

## 3. Runs

Passing runs (worker count 2; `solver`, `daemon` and `matching` take seconds, the
others one to four minutes):

| Run | Instance | What it shows |
|---|---|---|
| `solver` | 2 plugins, 3 events | `TypeOK`, `DrainBeforeReturn`, `CleanEndCoversStream`, `OfferedInOrder`, `JobsMoveForward`, the refinement `KeepsContract`, and the liveness `CancelStops` |
| `daemon`, start-up | 1600 environments, 2 faults, 2 crashes | `StartedSoundly`, `GivesUpForCause` |
| `daemon`, the rest | 1 plugin, 2 events, 2 requests | `SolvesHaveResources`, `HandlersHaveResources`, `StatusHonest`, and `SignalExits` |
| `matching` | 2 assets, 1 feed, 3 prices, TTL 2 of 3 ticks | `PriceFresh`, `MatchMeetsPolicy`, `MatchedPairWasListed`, `OnePairPerOffer` |
| `fulfillment` | 2 fundings; rival, refund | `TypeOK`, `BuiltTxBalanced`, `SubmitsAcceptableTx`, `SwapIsExact`, `MakerSeesOutcome`, refinement `IsAtomicSwap` |
| `faults` | 2 fundings; rpc, reply, db, crash, cancel, expiry | `RowsBacked`: rows name real fulfillments, none twice |
| `live` | 2 fundings; cancel, refund | `SolvesEnd`, `AnsweredIsRecorded`, `MatchedIsFulfilled` |
| `libraries`, offer packet | every packet over the fields of the instance, 2 server keys | `CreatedOfferArrives`, `ConsistentPinsTerms`, `ReencodesToSame` |
| `libraries`, builder | 5 calls of the author, 1 match | `PluginsRunAsBuilt` |
| `libraries`, predicates | 5 options and constructors, 8 transactions | `PredicatesMeanWhatTheySay` |
| `http`, dashboard | 2 names, 2 values, 3 operations, 1 other change | `ShownWasThere`, `QuietViewIsTrue` |
| `http`, commands | 3 invocations of 5 commands, 3-bit amounts, 2 tables at the start | `OutcomeIsTrue`, `RetriedAddIsSafe`, refinement `ImplementsPairs`, and `ClientsEnd` |
| `http`, trades | 3 solves, limits 0 to 3 | `ListIsRight` |
| `http`, price feed | 8 bodies, 3 fetches | `PriceWasSent`, and `ClientsEnd` |

Runs that find a disagreement between the code and what the repository says of
it (`PROJECT.json` quotes the lines):

| Run | Property | What happens |
|---|---|---|
| `policy` | `SettledWithinPolicy` | `FulfillOffer` takes the first coin at the swap script, not the matched deposit; another deposit under the same terms, one the checks reject, is settled instead |
| `quote` | `ConfiguredPairMatches` | a pair `A/BTC` passes validation and never matches, because the quote of an offer that wants BTC is `""` |
| `covenant` | `CovenantAcceptsPayment` | the bot pays the maker's script as it is, the contract demands a taproot script: for a 34-byte script of another version the transaction is submitted and always refused |
| `limits` | `LimitsAreSats` | the limits of a pair, satoshis according to `pair.go`, the command line and the dashboard, are compared with base units of the wanted asset |

Met while modelling, and kept as behaviour of the modules, without a run:

* When the context is cancelled while `SubmitTx` is awaited, the swap may settle
  and its trade is not recorded. `AnsweredIsRecorded` speaks of answered
  submissions for that reason.
* Two Solves may use the same coins; the refused one is not tried again though the
  rest of the wallet would do. `MatchedIsFulfilled` excuses such a Solve.
* The balance check applies to offers that want BTC, not to those that deposit it.
* The decoder accepts a cancel or exit path without the maker's key; the Solve
  panics and is recovered.
* A contract for 2^63 or more is satisfied by one unit of the asset, or by no sat at
  all (`Owed`), since the script holds `int64(WantAmount)`.
* Decimals given on the command line are dropped.
* `Not`, an empty `All`, `Always` and `HasUnknownGlobalField` accept a nil or unparsed
  transaction, though `txmatch.go:14-15` and `pkg/solver/README.md:179` promise
  false of every constructor. `PredicatesMeanWhatTheySay` holds them to their own
  comments, under which they do accept it.
* When the HTTP port cannot be bound the daemon still says that it started, though
  `server.go:50` says that `Start` starts both servers.
* `CoinGecko.Fetch` may return any price of the answer, not the first key's as
  `coingecko.go:28-29` says, and zero for a price of `null`.
* A gRPC handler that waits on arkd for ever keeps `GracefulStop`, and with it the
  process, from ending after a signal.
* A crash or failure in the middle of the migration leaves a file with which no
  restart succeeds.

### Bounds and why they are enough

* `MaxEvents = 3` with `OutCap = 1`: one packet in match, one in the channel and
  one in the source's hand, so the channel is full with a sender blocked.
  `NPlugins = 2` lets one plugin miss and the next hit. In the daemon one plugin,
  as `main` installs, and two events: a Solve in flight during the next match.
* Two requests: one over HTTP and one over gRPC at once. `MaxFunds = 2`: two Solves in
  flight, which share the wallet and can share a script.
* Amounts of 0 to 3 with `Dust = 1`: change of zero and above, a wanted asset the
  swap coin carries itself, an asset nobody asks for (so the order of groups
  matters), a wallet short of sats, of the asset, or with a recoverable coin
  beside others or alone. Two
  assets of one issuance, two witness versions with one program, and `Half = 8` with
  an amount beyond it.
* `BtcDecimals = 1` and decimals 0 for the asset make the scales differ; offers
  lie on and next to the one percent limits and the edges of the range.
  `TTL = 2`, `MaxClock = 3`: entries are fresh, expire, and are refetched.
* `Max64 = 8`, `Max32 = 4` and fields of 1 and 5: a delay wraps onto one that is in
  use. Packets have no bound of their length: the decoder's state is finite.
* `Half64 = 4` with amounts up to 7: columns turn negative. Three invocations: an
  add, its retry, and a removal or an update between them. The table is empty or
  holds one pair at the start.
* Three trades with limits of 1 (default) and 2 (largest): lists are cut by either.
  Two ticks to the second, three ticks: equal and different seconds.
* Five calls reach every pair of options under a combinator; five calls of the
  author reach a second Build after a further stage.
* Two faults and two crashes: a failure at one start and another at the next.
* Three operations of the page: a save or an Undo over two others under way.
* Transaction ids, trades and fundings are bounded by `MaxFunds`; the clock by
  `MaxClock`. `CHECK_DEADLOCK FALSE` stands where the system may stop: a
  returned solver, an exited process, finished Solves.

### Fairness

Goroutines are scheduled (weak fairness of their own steps). In `Solver` and
`Daemon` a step that waits for a service (subscribe, Match, Solve) is fair only
once the context is cancelled, because only then is its end guaranteed: every
call it makes takes that context, except the trade insert, which has a timeout
of its own. Signals, requests and arkd's events are never assumed to happen, and
nothing is assumed of a handler: `SignalExits` has as its hypothesis that no gRPC
handler runs for ever (`GrpcHandlersReturn`), which nothing in the code ensures. In
`Fulfillment` the run `live` also assumes that the introspector handles what is on
the wire and that calls return. `ApiFairness` and `FeedFairness` assume nothing of
the other side: only the client's own timer and, for the feed, the end of a
cancelled request are fair. `Startup` has no fairness: `Init` and `Unlock` of the
ark client have no deadline, and nothing in the repository starts the process
again. What it says instead of progress is that it fails only for a cause.

## 4. Proofs

Every safety property of the passing runs is also a theorem, for every value of the
constants under the named `ASSUME`s; what is only model-checked is liveness. The
assumptions are of three kinds:

* types: counts, widths, amounts and clock bounds are natural numbers, names are
  pairs of sides, wallets are finite sets of the taker's coins, an option of
  `TxMatch` sets one part of the criteria
  and nil is none of the values beside it (`NilAssumption`, `AbsentAssumption`);
* what the code before or around the module has established. `AcceptsAssumption`:
  an offer that passed Match wants more than nothing (`Offer.ComputePrice`
  returns an error for a want amount of zero). Without it `Acceptability` is
  false: for zero units of an asset nobody holds, `FulfillOffer` builds a
  transaction without an asset packet, and the covenant looks into one.
  `ApiRequestsAssumption` and `ApiSeedsAssumption`: amounts are `uint64` and
  names are primary keys. `DraftsAssumption`: an offer that is published has the
  fields its contract needs, as `CreateOffer` fills them and `VtxoScript` would
  panic without;
* what the owner answers for. `SeedRowsAssumption`: a row written into the table
  past the service, as the end-to-end test does it, carries its assets' decimals.
  Rows the service writes do, which is part of the proof (`ResolvedRowIsRight`).

TLC evaluates all of them on the instances of the runs. The inductive invariants
were model-checked on small instances before they were proved, up to quantifiers
that TLC cannot evaluate (`IsColumns`) and a set of sequences that mix names and
pairs (`Matches`).

`DaemonProofs`, of `Solver`: `IndInv` is `TypeOK` with four parts.

* `Pipeline` locates packets: what is in the source's hand, in the channel and in
  `Run` are events in stream order, each unseen by the plugins from a certain
  one on. Needed to know that a job about to be offered is still `none`.
* `Covered`: a packet the source has read is in one of these three places or was
  offered to every plugin, unless a cancellation intervened.
* `Ends`: how `Run` and the source came to their end, which ties `result = "nil"`
  to a closed, empty channel and a drained WaitGroup to a return.
* `WgCounts`: `wg` is the number of Solves in flight. `DrainBeforeReturn` is not
  inductive without it.

From `IndInv` follow `TypeCorrect`, `Drains`, `CleanEndIsComplete`, `InOrder`,
the action property `MovesForward` and the refinement `ImplementsContract`.

`DaemonProofs`, of `Daemon`: `DaemonRunsSolver` shows that every step of the daemon is a step
of the solver or leaves it alone, so `Drains` holds in the daemon. `DaemonInv`
adds that the deferred calls follow Run's return (`Epilogue`), that nothing
closes before them (`Shutdown`), and which requests the server's Stop leaves
(`Handlers`). `SolvesKeepResources`, `HandlersKeepResources` and `StatusIsHonest`
combine the two.

`MatchingProofs`: `CachedPriceIsFresh` rests on `CacheStamps`, an entry's time is
never after its quote, because `get` takes the time before it fetches.
`MatchUsesListedPair` rests on the table being part of `live` while Match runs.
`OfferHasOnePair` rests on `IsTable`: names are pairs of sides and primary keys,
which the operations of `Pairs` preserve, so two rows with the sides of one offer
are one row. `MatchedMeetsPolicy` rests on `PolicyInv`: the table and the row in
hand have the decimals of their assets, the cache has prices, and each validator
that was passed still holds of the offer and row in hand. The row may meanwhile
have changed or gone in the table, so nothing is said of the table's limits.
That `ComputePrice` on scaled amounts is the price in whole units is the
arithmetic at the end (`PolicyMet`).

`FulfillmentProofs`: `IndInv` has seven parts.

* `LedgerInv`, `FlagInv`, `FundInv`: types; ids are never used twice.
* `SolveInv`: what a Solve at each statement has found out. From the comparison
  of scripts on, its swap coin lies at the script of its own offer; from `BuildTx`
  on, its transaction is `Built` for that offer. `Built` speaks of the
  transaction's own inputs, as they were when they were read, and not of the
  ledger, which has moved on.
* `SentInv`: the same of what is on the wire, where the sender may have crashed or
  given up; and of the ledger's entries, which the contract and arkd approved.
* `RowsInv`: a row is one of a Solve that is over and names the answer it got. That
  a Solve inserts at most once is what makes rows unique.
* `DepositInv`: a deposit's coin is unspent exactly until it is swapped or
  refunded, never both. `MakerInformed` and the refinement need it.

From these `TypeCorrect`, `Balance`, `Acceptability`, `Exactness`, `RowsTellTruth` and
`MakerInformed` follow, and `ImplementsAtomicSwap`, one step of `AtomicSwap` or a
stutter for every step. The amounts are sums over sets of coins, folds by a
recursive function over subsets; the lemmas on sums (`SumExists` and those after
it) show that this function exists and that sums of disjoint sets add up, by
looking at a smallest counterexample, which needs no induction theorem with an
operator parameter.

`OfferProofs`: `SerializedFields` says what a packet is (one field for each tag
that is present), from `RankIsBijective`: counting the present tags from below
numbers them without gaps. `DecodedReencodes` is the round trip of one field:
a value that was decoded is already cut to its width and has lost its parity, so
a second trip changes nothing. `IndInv` has three parts: `MakerInv` (what is
published is an offer with its own script, and its packet), `DecodeInv` (every
field of the offer being decoded is empty or survives the round trip), and
`OwnInv` (of the maker's own packet, exactly the fields before `next` are in the
offer). `DecodedCanBePassedOn` follows from the second, `MadeOfferArrives` from
the third, `ScriptPinsTerms` from the equality of the two scripts, closure by
closure; it names what the closures hold and no more.

`StartupProofs`: `DatabaseInv` says from which statement on the handle is open and
the file migrated; `ServingHasDatabase` alone is not inductive, as it knows nothing
of the steps before. `PortsInv` carries the inequality that `LoadConfig` checked to
the listeners, together with the reasons for which one of them may be down.
`StartsSoundly` combines the two. `GivesUpOnlyForCause` rests on `CauseInv`: the
configuration in hand is the one the environment gives, a step that ends the process
leaves its reason in the state, and a file is half migrated only during the
migration or after a fault or a crash.

`ClientProofs`: `AmountRoundTrip` shows that the conversions to a signed column
and back are inverse on the whole width. `Inv` says of the table that its rows
are columns of pairs with distinct names (`IsRows`), and of each invocation what
its statement did to the table (`AnswerInv`) and that what reaches the statement
was validated (`RequestInv`). `OutcomesAreTrue` and the refinement
`StatementsImplementPairs` follow. `RetriedAddsAreSafe` needs a count on top of
it (`Balanced`): adds that wrote minus removals that wrote follow the presence of
the row. `PriceWasSent` is inductive as it stands.

`ClientProofs`, of `TradeLog`: `PlaceIsOne` shows that counting the rows before a
row numbers the table without gaps, so that a list is well defined; it rests on
`Before` being a strict order, ids telling rows of one second apart. `LogInv`
follows a timestamp from the solve to the row. A row that was there when a solve
took its timestamp is not of a later second (`Pending`, which needs that the clock
is not set back) and its id will be smaller, so once both are rows the newer one
stands first (`Ordered`). `ListInv` says of an answer that it holds the rows that
were there, ranked, down to the limit; rows inserted later do not disturb it.
`ListsAreRight` follows.

`LibraryProofs`, of `TxMatch`: `CriteriaInv` says that the criteria hold exactly
the last option given of each kind. That is what makes a search by criteria one by
options (`SearchMeans`, for `HasOutput` and `HasInput` alike). `ArgsInv` says of
every predicate so far that it is right, which
`All`, `Any` and `Not` preserve; `PredicatesAreRight` is a conjunct of it. Nil
is part of the argument: a nil predicate accepts nothing, negated or not.

`LibraryProofs`, of `PluginBuilder`: `PluginBuilderInv` ties the Builder to the
history of the author's calls (`BuilderOK`: its lists are what was registered, its
decoder and its action those of the last call that set one) and a plugin to the
calls before its Build (`PluginsOK`). Later calls only extend the history
(`GivenKept`), so they leave the second alone. `MatchOK` places a match on the
line of its plugin's stages: what was asked is the beginning of the line, as long
as its program counter says (`FarAs`), and every stage asked has let it pass.
`Registered` is a recursive function of the history; the lemmas on it
(`UpToExists` and those after it) prove its equation from a smallest
counterexample, as for the sums of `FulfillmentProofs`. `PluginsAreAsBuilt`
follows for any number of stages and calls.

`DashboardProofs`: `Inv` types the operations under way and says of everything
that may yet be shown (the cache, the list kept for a rollback, the answer of a
load) that its rows were in the table (`RowsInv`). `QuietInv` says of an
undisturbed page that at most one operation is under way and how cache, page and
rollback list relate to the table in each of its phases; `QuietPageIsTrue`
follows.

Only model-checked: all liveness (`CancelStops`, `SignalExits`, `SolvesEnd`,
`AnsweredIsRecorded`, `MatchedIsFulfilled`, `ClientsEnd`), which the
prover does not handle.

## 5. Plan

1. Done: the runtime and its contract, the daemon around it, matching over the
   pair table, concurrent fulfillment with faults, the offer's way from maker to
   taker, the API down to its SQL, start-up with crashes, and the libraries
   (builder, predicates, price feed) and clients; the theorems above.
2. Later: `Bancod`, which composes `Daemon`, `Matching` and `Fulfillment`: Match and
   Solve of the solver become those of the plugin, so that cancellation, drain
   and recording are one behaviour.

## 6. Abstractions a reader should know

* Scripts, keys, signatures, PSBT and taproot details are opaque; errors in
  building them end the Solve like any other error.
* Integer widths: where a conversion narrows or changes the sign (`FulfillTx`,
  `OfferCodec`, `Api`, `TxMatch`) the width is a constant. Sums of coins are taken not
  to wrap: the sats and units that exist stay far below 2^63.
* `Accepts` stands for the range and price checks in `Fulfillment`.
* After a crash the restarted process has forgotten what it had seen; the stream
  does not replay.

## 7. What the checks do not say

TLC's results are for the instances above. The `live` run assumes
responsive services. A passing `RowsBacked` says rows are true, not that every
fulfillment has one: a submission whose answer is lost or no longer awaited
settles without one.

## 8. Not modelled

* The generated protobuf code: messages, client stubs, registration, and a
  generated gateway that the server does not use.
* Of the dashboard, the sections that show the status, the balance and the
  history (each replaces what it shows by the last answer), formatting and
  escaping; and the serving of its files (`embed.go`).
* Rounding of `float64` prices next to the limits: `Matching` is exact.
* Logging, the wording of errors, and the layout of JSON.
