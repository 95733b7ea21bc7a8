# Verification of muser-console

TLA+ models of muser-console, the TLC runs that check them on small instances,
and theorems about them that TLAPS proves for every instance. `PROJECT.json`
lists the runs, the source lines each definition stands for, the hazards the
properties are aimed at, and the places where the code and what it says of
itself disagree.

## The system

muser-console is a small server between browsers and one or more muser engines.

| part | state it keeps | operations | talks to |
|---|---|---|---|
| credential tables (`state.rs`, handlers in `routes.rs`, `ws.rs`, `auth.rs`) | stream tickets, dashboard sessions, device pairings, each behind its own mutex | mint, check, spend, revoke; every one sweeps expired entries first | browsers |
| history sampler (`history/sampler.rs`) | per instance: the last token count and transfer receipt, health flags | one tick per interval: fetch metrics, snapshot and agents together, gate, hand over a batch | engines, agents, store, fleet states |
| history store (`history/store.rs`) | one SQLite table, a channel of commands | write a batch, query a range, one maintenance pass (expire, downsample) | sampler, query API |
| history query API (`history/api.rs`) | none | refuse or check the parameters, ask the store through the channel the sampler uses, wait for the answer | browsers, store |
| WebSocket bridge (`ws.rs`) | the socket of a browser and that of an engine, for one stream | fetch the engine's ticket, connect, forward one frame at a time, close both sides | browsers, engines |
| router and reverse proxy (`lib.rs`, `routes.rs`, `proxy.rs`, `ca_bundle.rs`) | one HTTP client per instance, made at the start | refuse a request, or send it on with its headers rewritten and pass the answer back, buffered or as a stream | browsers, engines |
| fleet listing (`routes.rs`) | last scrape outcome per agent | read | browsers |
| mac exporter (`agents/mac-exporter`) | a supervised powermetrics process, the last frame it completed, one cached reading | scrape; supervise, restart | sampler |
| gx10 exporter (`agents/gx10-exporter`) | the NVML library behind a mutex, opened when a scrape needs it | scrape: open, count, probe each device, write the exposition | sampler |
| exposition parser (`history/prom.rs`) | none | the samples and labels of a text | sampler |
| configuration (`config.rs`) | the configuration in force | check a file and the key files it names, or refuse it whole | everything above |
| start and shutdown (`main.rs`) | how far the process is | load, open, listen; on a signal drain, and exit after a grace period | everything above |
| dashboard page, release scripts | none | | |

What makes it hard, part by part:

* **Credential tables.** Handlers of different connections interleave between
  any two locks, and each reads the clock *before* it takes a lock. A redeem
  spends the pairing under one lock and mints the session under another, and
  can fail in between. Correct means: a ticket opens one stream of its own
  instance; a pairing gives one session, of its issuer's origin; a revocation
  is the truth; a refusal is final; nothing goes before its time.
* **Store.** A sample carries the time its tick began and arrives later, perhaps
  after a pass; the clock can step back or jump; the process can be killed
  between the two transactions of a pass. Correct means: nothing is averaged
  twice, the last 24 hours stay raw, nothing is invented and nothing is lost
  but by rule.
* **mac exporter.** Scrapes share one process that can stall, die and restart;
  they wait behind one lock with a timeout each, and their clients may leave.
  Correct means: one frame is not two samples, no failure is reported while a
  fresh reading exists, and every scrape is answered.
* **Sampler.** Several sources under different timeouts contribute to one batch;
  two values are latches the engine never clears. Correct means: a latched value
  is stored exactly when it is news, the zero of an absent runtime never, and no
  source that is slow or silent costs more than its own timeout.
* **Query API.** Its parameters are 64-bit integers from the outside; its answer
  is computed in the writer's thread, behind whatever was sent before. Correct
  means: an answer is what the store holds at that moment, without a point or a
  tag that no row vouches for, and parameters, however extreme, do not get past the cap.
* **Bridge.** Two sockets, either of which can close, vanish or stop reading at
  any moment, served by one task that forwards one direction at a time. Correct
  means: nothing is lost, repeated or reordered, each side gets at most one
  close and nothing after it, and a side that does nothing keeps neither the
  other nor the bridge.
* **Proxy and configuration.** Whom a credential reaches is decided far from
  where it is sent: in a file, by the loader, in a map of clients by name, and in
  the order in which headers are dropped and put in. Correct means: an engine
  gets its own key and nothing of the browser's, over a connection its own entry
  vouches for, and the browser no cookie of an engine.
* **gx10 exporter.** A foreign library whose driver comes, goes and is reloaded
  under it, with several candidates each of which may fail half-way. Correct
  means: each handle is given back once, the numbers and strings of the driver
  arrive at the console as they were, and the exporter recovers by itself.
* **Shutdown.** Streams and requests may never end by themselves; the process must.

## Modules

| module | what it is |
|---|---|
| `Credentials` | the three tables and all handlers, one step per clock reading and per lock |
| `OneUse` | what the console promises about a one-use credential, without tables, locks or clocks |
| `MCCredentials` | the instance of `Credentials` for TLC, with symmetry |
| `CredentialsProofs` | what one step of one handler does to each table and log; the inductive invariant and the theorems |
| `HistoryStore` | the writer thread, the channel, the sampler's time stamps, the maintenance task, the clock |
| `MCHistoryStore` | instances of `HistoryStore` for TLC |
| `HistoryStoreProofs` | its inductive invariant and the theorems |
| `HistoryQuery` | the query API composed with `HistoryStore` through the shared channel |
| `MCHistoryQuery` | the queries asked, and bounds, for TLC |
| `HistoryQueryProofs` | what the loops of a query compute, that its answers are faithful, and how far they go past the cap |
| `Induction` | induction over an initial segment of the naturals, and recursion along it |
| `MacExporter` | supervisor, published frames, cache, sampling lock, scrapes |
| `MCMacExporter` | instances of `MacExporter` for TLC |
| `MacExporterProofs` | its types and safety |
| `Sampler` | one instance's tick: ticker, concurrent fetches, budgets, latches, gates, agent states, and the engine it watches |
| `MCSampler` | instances of `Sampler` for TLC |
| `SamplerProofs` | its types and safety |
| `Config` | the checks of the loader, and what it makes of an accepted file |
| `Proxy` | routes, refusals, the rewriting of headers, one exchange with an engine |
| `WsBridge` | one bridge, from the engine's ticket to two closed sockets |
| `Console` | the process from its arguments to its exit, composing the three above |
| `MCConsole` | the files, requests and answers tried, for TLC |
| `ConsoleProofs` | the relay is faithful; credentials stay apart |
| `Exposition` | escapes and the parser, over tokens |
| `Gx10Exporter` | NVML behind its mutex, the exposition, and the rows the console makes of it |
| `MCGx10` | devices with awkward names, for TLC |
| `Gx10Proofs` | the handles are balanced; what is stored is what was probed, through the exposition and the parser |

### Credentials

A request is a record in `req[r]`; `pc` says which lock its handler takes next
and `now` is the clock it read for it. `ReadClock` is `let now = Instant::now()`;
every action after it is one critical section with the sweep (`retain`) that
opens it. So the model has the interleavings of the code: another handler or a
tick of the clock can come between the two. `consume_pairing` alone reads the
clock inside its lock, and so does `ConsumePairing`. `SessionRevalidated` is the
second `valid_session` of `mint_pairing` and `revoke_pairing`. `EntropyFails` is
a failing `getrandom`.

Tokens are 256-bit random values; the model names a credential by its position
in the log of its table, so no token is ever guessed, and a request can present
any credential that was handed out, at any origin or instance, with the right
csrf token or another. Header, cookie and base64 parsing are abstracted to the
credential they yield; the check of the peer's address is abstracted away (a
request that fails it changes nothing). `bridges`, `consumed`, `revoked` and the
`refused` sets are history: what the console answered.

### HistoryStore

`queue` is the channel, `rows` the table, `expiring` the pass between its two
transactions. A row carries the samples its value was computed from, instead of
a number: `exact` says whether a gauge is still the plain mean of them, which it
is not once a mean was averaged with something of another weight. `SetClock`
moves the wall clock on, lets it jump (a suspended machine) or steps it back by
up to `MaxBack`; a tick may take up to `MaxLag`. `Restart` is a kill at any
point. Batches that the database refuses and passes that fail are `WriteFails`
and `PassFails`; `NothingElseIsLost` says of both batches and rows what may become
of them, a batch being one transaction (`BatchesAreWhole`).

`LatenessAssumption` says that no tick takes longer than the raw window of 24
hours and that nobody sets the clock back by as much. It is needed: a machine
suspended for a day in the middle of a tick writes a sample into a bucket that
has been collapsed, and the next pass averages it with the mean.

### HistoryQuery

The module extends `HistoryStore`: `Ask` puts a query behind what is in `queue`
(`ahead` counts it), `WriterWorks` takes what is before it, `Answer` reads the
rows as they are then. A read changes no row, so one query at a time shows what
queries see. `ParamsAccepted` is `Params::parse` with its `checked_sub` and
`checked_mul`: a result outside `Int64` refuses, and the cap is the floor division
of the code; `QueryAssumption` says that the parameters themselves fit. `Ordered` is the
ORDER BY of the query; `SlicesOf` and `TagsOf` are the values of the two loops after
the first rows, and `bucket` walks over the ordered rows as the code does. A point has
the samples behind it in place of a number, like a row, and `exact` says whether
the unweighted mean of the rows is their plain mean; `AggregateOf` and
`PlainMean` are those of `HistoryStore`.

The comment at `store.rs:32` speaks of a hard cap on the points returned
(`PointsWithinCap`). It is exceeded, because both ends of a range count and neither
need be the edge of a bucket: that is a finding, shown by `point_cap`. What does
hold is `CapExceededAtEdgesOnly`: the points of an answer fall into at most two
steps more than the cap allows, or one if the range begins with a step, whatever
integers were asked for. At the native step rows are answered as they are, and the
cap counts seconds; how many rows a second has is left to the sampler. `PointsAreMeans`
has an exception, as the code has: a step that does not divide the minute, over
rows older than a day, weighs a minute's mean like a second's sample.

### MacExporter

Times are ages: how long ago each frame was completed, how long the process has
been silent, how long the scrape that holds the lock has waited. They saturate
at `Horizon`, above every threshold, so time never ends and liveness can be
checked. `line` is the FIFO queue of the sampling lock. A header line completes
the frame before it (`FrameAssembler::push`). A scrape is dropped at any await
(`Disconnect`). powermetrics is external: it prints or does not, exits or does
not.

### Sampler

A tick is `StartTick`, one step per fetch that comes to something, and `EndTick`,
which is everything after the `join!`: the two documents are collected, the
batch is gated, the agents' outcomes are listed, the batch is handed over.
`status` is the outcome of each fetch; `BudgetExpires` is the timeout around
`join_all`, which also throws away what had been answered (`dropped`). `page`
holds the documents as they were when they were answered, each at its own
moment, so the engine can complete a request or restart in between.

The engine is external: `run` tells its restarts apart, `count` is its token
counter, which also numbers its requests, `receipt` the state of its last
transfer, `drafting` whether `specdec.draft_len` is there. The counter may be
absent from an exposition. Series that are stored whenever they are present are
left out. `recorded`, `seen` and `engineLate` are history.

Timers fire when they are due: no time passes while the loop has something to
do. On a loaded machine they fire later, so what `AgentsCostNoCadence` says is
that nothing in the tick itself delays the next one, and `NoStorm` holds up to
the few milliseconds within which tokio takes a tick to be on time.

### Config, Proxy, WsBridge and Console

`Config` says which files are `Accepted` and what is `Parsed` from one. A file on
disk is what its checks look at: kind, mode, what it holds, and an identity for
its content; a base URL is its scheme, its authority and the parts an origin must
not have. `Clients` is the map of HTTP clients by name.

In `Proxy`, a header map is a function from names to values. `Arrive` is a request
through the router to a refusal (400, 405, 401 or 403, 404, in the order of the
code) or to `Outbound`, what the engine gets. `HeadArrives` and `BodyArrives` are
the engine's answer; a streaming route passes it on at the head.
`ExchangeTimesOut` is the one timeout around what is awaited, `BrowserLeaves` the
drop of a handler. Exchanges share nothing but the configuration, so one slot
stands for all.

In `WsBridge`, what one side sent is in `inbox` until the bridge reads it, in `out`
while the socket library has it, in `wire` while it is in the socket's buffers
(`WireRoom` frames of them), and then in `got`. `Read` and `Sent` are one turn of
the loop: no other frame is read until the one at hand is written. `SendExpires`
is `SEND_TIMEOUT`, possible when there is no room; `Break` leaves the loop, and
`CloseWrites` and `CloseEnds` close the two sockets one after the other, each under
the same timeout. `ReadEnds` is a side that is gone when all it sent was read,
`ReadFails` a read that gives an error: of a frame that breaks the protocol, from a
side that is still there, or of a connection that was reset. The socket library adds a close frame unless one went out, and
may still write a frame whose send was given up.

`Console` puts both into the process: `LoadConfig` or `RefuseConfig`, `Listen` or
`OpeningFails`, `Interrupt` at each stage (before the listener has its handler the
signal kills), `Drained` and `GraceElapses`. `Exit` takes all connections with it.

### Gx10Exporter and Exposition

`Open` tries one candidate (`dlopen`), `Resolve` is its symbols and `nvmlInit`, or
`dlclose`; `CountDevices` starts a scrape or gives up the library, so that the next
scrape opens it anew; `ProbeDevice` reads one device, each of its probes with an
outcome of its own. `DriverChanges` is external: it can come between any two of
these, it says which names of the library there are and which of them work, and a
library opened before it answers nothing after it. `Leave` is a
client that goes; the blocking task goes on (`Proceed`), and the mutex with it.

What a scrape found is written by `render`, read back by `parse` and stored by
`collect_agent`, all over tokens: a character where the grammar looks at
characters, one token for a name or a number. A text is read as the code reads it,
from left to right (`Scan`): `BraceStep` is one step to the end of the labels,
`LabelStep` one step through them. Lines and samples are functions of the places where
lines end, whose order is that of the text, so that the first sample of a metric is
the one at the least place. `Found` is what a scrape may have found, device by device.
Units are kept in thousandths of the published ones, where NVML's percent and
milliwatts are whole.

## Runs

| run | what it asks | result |
|---|---|---|
| `credentials` | sessions, tickets and pairings: every handler, two at a time | holds |
| `history_store` | a gauge and a counter through everything that can happen to the store | holds |
| `mixed_honesty` | do all the honesty tags of a range survive a pass? | violated |
| `late_expiry` | does a pass leave only rows within the retention? | violated |
| `mac_exporter` | two scrapers and a bad process | holds |
| `stale_frame` | is no reading past its age served? | violated |
| `sampler` | an engine that works, hangs and restarts, an agent that does or does not answer | holds |
| `fleet_states` | is an agent that answered listed as live? | violated |
| `console` | the process from its file to its exit, with requests and streams of two engines | holds |
| `gx10` | two scrapes of a library that comes, goes and is reloaded, up to the rows of the console | holds |
| `history_query` | queries between ticks, writes and passes | holds |
| `point_cap` | is the cap on points a hard cap? | violated |

Bounds. `credentials`: two requests in flight are enough for every race between
two critical sections; five arrivals let a credential be minted, used, refused
and presented again; lifetimes of one and two units against a clock of two let
each credential expire between any two steps; the logs have room for two
tickets, two sessions and three pairings, against a cap of two, so that eviction
happens. Two origins and two instances give a wrong one of each. The console
listens on the LAN with TLS, where sessions and pairings exist, or on plain
loopback, where tickets are minted for the access key; loopback with TLS, which
has sessions and both ways to a ticket but no pairings, is covered by the proofs.
`history_store`: buckets of two units, a raw window of one bucket, a retention
of three buckets, a clock of seven: a sample passes through raw, collapsed and
expired, passes follow one another, and three ticks put two rows into a bucket
and one next to it. `mac_exporter`: two scrapers (a holder and a waiter), three
generations (a frame, a failure, a frame), thresholds of one to three units of
half a second. `sampler`: the agents' budget is one unit, the period two, a fetch
three, so that a slow engine takes the tick past its period and a slow agent
does not; two runs of the engine with a request and a transfer each give a
counter that stays, advances, is reset and is absent, with any of the scrapes
between missed. `fleet_states` needs two agents and an idle engine.
`console`: one connection at a time (`MaxOpen`), because exchanges and bridges
share nothing but the configuration and the process; one frame in each direction
and room for one in each socket, so that a second one, the close, meets a full
buffer. The files are one complete configuration of two engines and two agents and
those that differ from it in one or two keys, most of which the loader must
refuse; the requests include one that lists `authorization` in `Connection`.
`gx10`: two scrapes (one with the mutex, one waiting), two candidates, two devices
of which the catalog names one, with strings full of what must be escaped, and
two changes of the driver: one can take it away and one bring it back.
`history_query`: two sorts of series, a bucket and a raw window of two units and a
retention of two windows, a clock of four, a cap of one point, a default window of
one unit, so that a query without parameters is accepted at the native step, and
64-bit integers shrunk to -8..7, so that `checked_sub` can overflow. A second is one
unit, so `checked_mul` cannot: the theorem is for any second. `point_cap` has the same
bounds. No late ticks and no
clock steps: those are in `history_store`. The counter is sampled with the gauge
(`CounterGoesAlong`), since queries treat series apart. Answers that are refusals
are one state (`VIEW Given200`), about which the properties say nothing. History is
enabled, so the 503 of a console without it is not reached. `MaxRun`, `MaxRequest`,
`MaxReceipt`, `MaxClock`, `MaxArrivals`, `MaxTickets`, `MaxSessions`, `MaxPaired`,
`MaxTicks`, `MaxQueue`, `MaxOpen`, `MaxFrames`, `MaxReloads`, `Horizon` and
`MaxGeneration` are bounds of the models only; the proofs hold for every value of
them.

Fairness. `MacExporter` and `Sampler`: time passes, and the runtime eventually
polls a scrape or a tick that can go on. `Console`: timers fire (`TimesOut`,
`GraceElapses`) and the bridge's task runs (`BridgeWorks`). `Gx10Exporter`: a scrape
in progress goes on (`Proceed`), as a blocking task does whose library calls
return, with or without a client; the mutex is handed to somebody each time it is
freed. Nothing is assumed of powermetrics, of the driver, of engines, agents,
clients and browsers, and nobody has to interrupt the console. The lock of the mac
exporter is FIFO, as tokio's is documented to be. The credential handlers wait for
nothing but mutexes that are held for a few instructions, and the store promises
nothing about time, so their specifications are safety only, and so is
`HistoryQuery`.

The five violations are in `PROJECT.json` under `findings`: a collapsed bucket
keeps one of its honesty tags; an accepted range is answered with more points
than the cap; a late pass leaves a row older than the retention; the first scrape after a pause is given a frame of any age; and one
slow agent makes every agent of its instance look unreachable.

## Proofs

`CredentialsProofs` proves every property the run `credentials` checks, for any
number of requests, origins, instances and credentials, any lifetimes and any
cap, from `LifetimeAssumption`, `BoundAssumption`, `ListenAssumption` and
`NameAssumption`.

None of the properties is inductive alone. The invariant is `FullInv`:

* `TypeOK`;
* `RequestOK`: what earlier steps established for a handler that is about to take
  a lock (its clock is not ahead of the real one, the session a mint uses exists
  and has the request's origin, a redeem has its pairing in `consumed`);
* for pairings, `PairingsGone` (what was consumed or revoked is out of the
  table), `PairingSingleUse`, `RevokedNeverRedeemed`, `SessionProvenance`;
* for tickets, `TicketsGone` (a ticket that opened a stream is out of the
  table), `TicketSingleUse`, `RefusedNotPending` (what was refused is out of the
  table);
* `PairingCap`.

The heart of `RefusalIsFinal` is that every refusal sweeps with the clock it
refuses by: an expired entry leaves the table in the step that refuses it, so a
handler with an older clock cannot find it any more. `NoEarlyDrop` is the
converse and needs `now <= clock`. There is one lemma per handler
and table (what the step appends, keeps or removes), so that the preservation
proofs cite facts instead of expanding actions; the cap is a count of the
issuer's newest entries, proved with the library's theorems on finite
cardinalities. Both tables are shown to implement `OneUse`: every step is a
mint, a spend or a withdrawal of the abstract credential, or leaves it alone.

The other theorems are, for every value of the constants too:

* `HistoryStoreProofs`, everything `history_store` checks, from `WindowAssumption`,
  `LatenessAssumption` and `BoundAssumption`. A pass averages whole buckets of raw
  rows only, because its cutoff is the start of a bucket; and no sample still to be
  written belongs to a bucket it averaged, because the channel is read in the
  order it was filled, so that a sample behind a pass is at most a raw window
  older than the pass. `IInv` says so: `ClockNear`, `StampNear`, `ChannelOrdered` of
  the clock and the channel; `OneRowPerKey`, `RowsOlder`, `RowsKept`, `RowsSettled` of
  the rows. That a bucket has a newest row is by well-founded induction. That a batch
  is whole follows from the order too: what is still in the channel is of later
  ticks than what is in the rows, so that a step stores nothing but the first batch.
* `HistoryQueryProofs`, everything `history_query` checks, from these three and
  `QueryAssumption`: for any rows the store can hold, any query, step and cap. First,
  `QueriesLeaveTheStore`: the store with queries in its channel implements the store
  without, so that all of the above holds beside queries. Then the loops. What is
  proved of one is a relation between its value and the rows it has taken
  (`SlicesOfRange`, `TagsOfRange`), one row at a time; that the loops have values at all
  is `Recursion`. From there on `FaithfulPoints` and `Tagged` of an answer say all
  that the properties need. `PointsAreMeans` has the arithmetic: a bucket whose
  mean of means is no plain mean has two rows with different numbers of samples, one
  of them made by a pass; when the step divides the minute the bucket of the query
  is within the one the pass collapsed, so that it has one row. `ExcessIsAtEdges`
  counts the starts of steps in a range (`StepsCounted`) against what the check
  of the parameters leaves of it (`StepsCapped`). `QInv` is the store's invariant with what
  the checks leave of a query (`AskGood`), whatever the store does until it is read, and
  with an answer being a reading of the rows as they are (`AnswerRead`).
* `SamplerProofs`, everything `sampler` checks but `EveryTickEnds`, from
  `TimingAssumption`, `BoundsAssumption` and `AgentAssumption`. A run and a count (or a
  receipt) order what an engine does, and what was stored is at most what was
  carried, that at most what is on the page, that at most what the engine is at;
  so what is after the carried one was never stored. For time: the ticker and the
  time since the tick began add up to the period, and a tick goes past it only
  while the engine is awaited.
* `MacExporterProofs`, everything `mac_exporter` checks but `EveryScrapeIsAnswered`,
  from `TimeAssumption` and `GenerationAssumption`. A scrape that samples is the head
  of the line, which has everyone once, so nobody else takes a frame meanwhile; a
  frame that was handed out is not newer than the last one served, and was complete
  before.
* `Gx10Proofs`, `HandlesBalanced`, from `Gx10Assumption`. The invariant says of the
  scrape between `dlopen` and `nvmlInit` that it has the mutex, which replaces the
  count of such scrapes.
* `Gx10Proofs`, `StoredAsProbed`, for any devices, any strings of the driver of any
  length, any readings and any size of the catalog, from `Gx10Assumption`,
  `AnswerAssumption` (what a probe answers: a string, an unsigned number, or nothing),
  `WordAssumption` (names and punctuation are strings) and `PrintAssumption` (a number
  prints as a numeral, no two alike, and only 0 as `0`). It is a round trip. `Reads` says that a
  scanner gets from one state to another over a text, and joins for two texts
  (`ReadsThen`). An escaped character is read as that character by both scanners,
  whatever it is (`EscapedBraces`, `EscapedLabels`), hence a value (`EscapeReads`), a
  label, the labels of a device (`EncodesDevice`) and a line (`LineReads`): the brace
  that ends the labels is the exporter's, whatever braces and quotes are in a name.
  No line has a NEWLINE of its own, so that a text of lines tells the samples of its lines
  (`Tells`, `TellsThen`, `FamilyTells`, `AnswerTells`). No outcome has a device twice
  (`FoundHas`), so that the sample found for an index is that device's (`SeriesIs`) and the
  rows are the readings (`RowsAre`). `OutcomesOK` carries this through the steps of a
  scrape.
* `ConsoleProofs`, `CredentialsStayApart`, from `ConfigAssumption`
  and `ConsoleAssumption`. `Loaded` says the process serves what
  the loader made of an accepted file, `ExchangeOK` and `BridgeOK` that what was
  sent was made from that; names are unique in an accepted file, so the entry of
  the file, the first entry of that name and the last client of that name are one.
* `ConsoleProofs`, `RelayFaithful`. While the bridge relays, what it
  passed to a side and what it has not read make up what the other sent
  (`NothingMissing`); afterwards what was passed is a beginning of that, and at most
  one close. Nothing follows a close because a side sends nothing after its own.

Only model-checked: liveness (`EveryScrapeIsAnswered`, `EveryTickEnds`,
`RequestsAnswered`, `BridgesEnd`, `ShutdownEnds`, `RecoversWithoutRestart`), which is
out of the prover's reach. Every safety property of a passing run is proved.

The library's induction theorems take an operator as a parameter, which no prover
here can instantiate. `Induction` states what the proofs about loops, scanners and
texts need about sets and functions: a set of numbers has a least element, so a set that has 0 and with
every number the next one has them all (`UpTo`).

## Not modelled

* Text: TOML, JSON, cookies, base64, the syntax of URLs, the parsing of frames and
  the exposition of the mac exporter (pure functions of one text, without state).
* Bodies of requests and answers, their size limits, TLS itself (only which roots
  are trusted), automatic pongs of the socket library.
* Handlers that only read: the health and fleet listings and the page. The
  states the fleet listing shows are in `Sampler`.
* The file system below what the loader looks at, SQLite below a transaction, the
  FFI types of NVML, command lines of the exporters, logging, the dashboard page,
  the release scripts and the engine.
* The series catalog is a constant table: only the entries whose sampling depends
  on a state, and the names of the GPU series, are in a model.

## Plan

What would come next, in this order:

1. The composition of `Sampler` with `HistoryStore`. They meet in one message, the
   batch with the time its tick began, which both models have; it would show
   more only if a batch could be split.
2. The parsing of powermetrics frames, over tokens like `Exposition`.
3. Two queries in the channel at once, if a read ever changes a row.
