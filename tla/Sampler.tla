------------------------------ MODULE Sampler ------------------------------
(***************************************************************************)
(* The sampler of one instance: a ticker, and per tick one concurrent      *)
(* scrape of the engine's two documents and of every agent, each under a   *)
(* timeout.  When the last fetch has come to something, what may honestly  *)
(* be stored goes to the store as one batch.                               *)
(*                                                                         *)
(* Of the series, those are modelled whose storing depends on more than    *)
(* their own presence: the decode speed of the last request, which the     *)
(* engine never clears; the receipt of the last transfer, which it keeps;  *)
(* the DFlash counters, which it publishes as zeros when no such runtime   *)
(* exists; and the readings of the agents.                                 *)
(*                                                                         *)
(* Timers fire when they are due: time does not pass over a deadline.      *)
(***************************************************************************)
EXTENDS Integers, FiniteSets

CONSTANTS
    Agent,          \* the agents attached to the instance
    Period,         \* sample_interval_ms
    AgentBudget,    \* AGENT_FETCH_BUDGET
    FetchTimeout,   \* FETCH_TIMEOUT
    MaxRun,         \* bound: how often the engine is started
    MaxRequest,     \* bound: requests it completes in a run
    MaxReceipt      \* bound: changes of its last transfer in a run

ASSUME TimingAssumption ==
    /\ AgentBudget \in Nat \ {0} /\ Period \in Nat /\ FetchTimeout \in Nat
    /\ AgentBudget < Period /\ Period <= FetchTimeout

ASSUME BoundsAssumption ==
    MaxRun \in Nat \ {0} /\ MaxRequest \in Nat /\ MaxReceipt \in Nat

VARIABLES
    engine,     \* what the engine would answer now
    pc,         \* the loop: waiting for the ticker, or scraping
    elapsed,    \* time since the tick began
    due,        \* time until the ticker's next tick; 0 or less: overdue
    status,     \* per source: asked, or what its fetch came to
    page,       \* the engine's two documents, as they were answered
    carry,      \* what the previous ticks saw of the two latches
    listed,     \* agent_states: what the fleet listing shows
    batch,      \* the samples of the last tick
    recorded,   \* history: the latched samples of the ticks before it
    seen,       \* history: the last page whose counter was read
    engineLate  \* history: an engine's fetch of the tick ended after the period

outcome == <<carry, listed, batch, recorded, seen>>
sampler == <<pc, elapsed, due, status, page, outcome, engineLate>>
vars == <<engine, sampler>>

-----------------------------------------------------------------------------
(* The engine: the counter of a run numbers its requests, and the speed it *)
(* latches is the one of the last of them.                                 *)

Document == {"metrics", "snapshot"}
Source == Document \union Agent

ASSUME AgentAssumption == Agent \intersect Document = {}

NoCount == -1       \* the counter is absent
NoReceipt == 0      \* the list of transfers is empty

Started(run, drafting) ==
    [run |-> run, count |-> 0, receipt |-> NoReceipt, tagged |-> FALSE,
     drafting |-> drafting]

Metrics(e, count) == [run |-> e.run, count |-> count, drafting |-> e.drafting]
Snapshot(e) == [run |-> e.run, receipt |-> e.receipt, tagged |-> e.tagged,
                drafting |-> e.drafting]

Nothing == Started(0, FALSE)
NoPages == [metrics |-> Metrics(Nothing, NoCount), snapshot |-> Snapshot(Nothing)]

RequestCompletes ==
    /\ engine.count < MaxRequest
    /\ engine' = [engine EXCEPT !.count = @ + 1]
    /\ UNCHANGED sampler

\* A transfer begins or makes progress, under a storable tag or another.
TransferChanges ==
    /\ engine.receipt < MaxReceipt
    /\ \E tagged \in BOOLEAN :
          engine' = [engine EXCEPT !.receipt = @ + 1, !.tagged = tagged]
    /\ UNCHANGED sampler

EngineRestarts ==
    /\ engine.run < MaxRun
    /\ \E drafting \in BOOLEAN : engine' = Started(engine.run + 1, drafting)
    /\ UNCHANGED sampler

-----------------------------------------------------------------------------
(* The samples *)

Speed(e) == [series |-> "request_decode_tok_s", of |-> <<e.run, e.count>>]
Dflash(drafting) == [series |-> "dflash", of |-> drafting]
Receipt(e) == [series |-> "last_transfer", of |-> <<e.run, e.receipt>>]
Reading(a) == [series |-> "agent", of |-> a]

Latched == {"request_decode_tok_s", "last_transfer"}

-----------------------------------------------------------------------------
(* The ticker and the fetches *)

Init ==
    /\ \E drafting \in BOOLEAN : engine = Started(1, drafting)
    /\ pc = "waiting" /\ elapsed = Period /\ due = 0
    /\ status = [s \in Source |-> "none"]
    /\ page = NoPages
    /\ carry = [count |-> NoCount, receipt |-> <<0, NoReceipt>>]
    /\ listed = [a \in Agent |-> "unknown"]
    /\ batch = {} /\ recorded = {}
    /\ seen = NoPages.metrics
    /\ engineLate = FALSE

\* Mutation: the ticks that were missed are made up for.
Burst == due + Period

\* MissedTickBehavior::Delay: a late tick moves the ones after it.
NextDue == Period

StartTick ==
    /\ pc = "waiting" /\ due <= 0
    /\ pc' = "scraping"
    /\ elapsed' = 0
    /\ due' = NextDue
    /\ status' = [s \in Source |-> "asked"]
    /\ engineLate' = FALSE
    /\ batch' = {}
    /\ recorded' = recorded \union {s \in batch : s.series \in Latched}
    /\ UNCHANGED <<engine, page, carry, listed, seen>>

\* Mutation: an answer counts although its fetch has ended.
StillScraping(s) == pc = "scraping" /\ status[s] # "none"

Asked(s) == pc = "scraping" /\ status[s] = "asked"

\* The exposition need not have the counter.
ReadMetrics ==
    /\ Asked("metrics")
    /\ status' = [status EXCEPT !["metrics"] = "ok"]
    /\ \E count \in {engine.count, NoCount} :
          page' = [page EXCEPT !.metrics = Metrics(engine, count)]
    /\ engineLate' = (elapsed > Period)
    /\ UNCHANGED <<engine, pc, elapsed, due, outcome>>

ReadSnapshot ==
    /\ Asked("snapshot")
    /\ status' = [status EXCEPT !["snapshot"] = "ok"]
    /\ page' = [page EXCEPT !.snapshot = Snapshot(engine)]
    /\ engineLate' = (elapsed > Period)
    /\ UNCHANGED <<engine, pc, elapsed, due, outcome>>

\* Mutation: no timeout on a fetch.
NeverExpired == FALSE

Expired == elapsed >= FetchTimeout

\* The engine cannot be reached, answers an error or what cannot be read, or
\* does not answer in time.
ReadFails(d) ==
    /\ Asked(d)
    /\ status' = [status EXCEPT ![d] = "failed"]
    /\ engineLate' = (elapsed > Period)
    /\ UNCHANGED <<engine, pc, elapsed, due, page, outcome>>

ReadExpires(d) == Expired /\ ReadFails(d)

\* An exporter answers with readings, or that its own source did not answer.
AgentAnswers(a) ==
    /\ Asked(a)
    /\ \E readings \in {"ok", "mute"} : status' = [status EXCEPT ![a] = readings]
    /\ UNCHANGED <<engine, pc, elapsed, due, page, outcome, engineLate>>

AgentFails(a) ==
    /\ Asked(a)
    /\ status' = [status EXCEPT ![a] = "failed"]
    /\ UNCHANGED <<engine, pc, elapsed, due, page, outcome, engineLate>>

\* Mutation: the agents are given what the engine is given.
FullTimeout == elapsed >= FetchTimeout

OverBudget == elapsed >= AgentBudget

\* One budget for all agents of the tick: what had been answered goes with it.
BudgetExpires ==
    /\ pc = "scraping"
    /\ OverBudget
    /\ \E a \in Agent : status[a] = "asked"
    /\ status' = [s \in Source |->
          IF s \in Document THEN status[s]
          ELSE IF status[s] \in {"ok", "mute"} THEN "dropped" ELSE "failed"]
    /\ UNCHANGED <<engine, pc, elapsed, due, page, outcome, engineLate>>

-----------------------------------------------------------------------------
(* What a tick stores *)

\* Mutation: a counter that did not move counts.
NotBelow(previous, current) == previous # NoCount /\ current >= previous

\* No evidence without two counts, and none in a counter that was reset.
CompletedSince(previous, current) ==
    previous # NoCount /\ current # NoCount /\ current > previous

\* Mutation: the highest count is carried, a reset one is not.
HighestCount(previous, current) ==
    IF current > previous THEN current ELSE previous

CarriedCount(previous, current) == IF current # NoCount THEN current ELSE previous

MetricsSamples ==
    LET e == page.metrics
    IN  IF status["metrics"] # "ok" THEN {}
        ELSE {Dflash(e.drafting)} \union
             (IF CompletedSince(carry.count, e.count) THEN {Speed(e)} ELSE {})

\* Mutation: a receipt is news while there is one.
Present(previous, e) == e.receipt # NoReceipt

IsNews(previous, e) ==
    e.receipt # NoReceipt /\ <<e.run, e.receipt>> # previous

SnapshotSamples ==
    LET e == page.snapshot
    IN  IF status["snapshot"] = "ok" /\ IsNews(carry.receipt, e) /\ e.tagged
        THEN {Receipt(e)} ELSE {}

AgentSamples == {Reading(a) : a \in {x \in Agent : status[x] = "ok"}}

\* Mutation: only a snapshot without the marker drops the DFlash series.
NotRuledOut == status["snapshot"] = "ok" => page.snapshot.drafting

DflashConfigured == status["snapshot"] = "ok" /\ page.snapshot.drafting

Gated(samples) == {s \in samples : s.series = "dflash" => DflashConfigured}

EndTick ==
    /\ pc = "scraping"
    /\ \A s \in Source : status[s] # "asked"
    /\ pc' = "waiting"
    /\ batch' = Gated(MetricsSamples \union SnapshotSamples) \union AgentSamples
    /\ carry' = [count |-> IF status["metrics"] = "ok"
                           THEN CarriedCount(carry.count, page.metrics.count)
                           ELSE carry.count,
                 receipt |-> LET e == page.snapshot
                             IN  IF status["snapshot"] = "ok" /\ e.receipt # NoReceipt
                                 THEN <<e.run, e.receipt>> ELSE carry.receipt]
    /\ listed' = [a \in Agent |-> IF status[a] \in {"failed", "dropped"} THEN "unreachable"
                                  ELSE "live"]
    /\ seen' = IF status["metrics"] = "ok" /\ page.metrics.count # NoCount
               THEN page.metrics ELSE seen
    /\ status' = [s \in Source |-> "none"]
    /\ page' = NoPages
    /\ UNCHANGED <<engine, elapsed, due, recorded, engineLate>>

-----------------------------------------------------------------------------
(* Time *)

Horizon == FetchTimeout + 1

\* A timer is due, or the loop has something to do.
Urgent ==
    \/ pc = "waiting" /\ due <= 0
    \/ pc = "scraping" /\ \A s \in Source : status[s] # "asked"
    \/ pc = "scraping" /\ OverBudget /\ \E a \in Agent : status[a] = "asked"
    \/ pc = "scraping" /\ Expired /\ \E d \in Document : status[d] = "asked"

Tick ==
    /\ ~Urgent
    /\ elapsed' = IF elapsed < Horizon THEN elapsed + 1 ELSE elapsed
    /\ due' = IF due > -Horizon THEN due - 1 ELSE due
    /\ UNCHANGED <<engine, pc, status, page, outcome, engineLate>>

Engine == RequestCompletes \/ TransferChanges \/ EngineRestarts

Answer ==
    \/ ReadMetrics \/ ReadSnapshot
    \/ \E d \in Document : ReadFails(d)
    \/ \E a \in Agent : AgentAnswers(a) \/ AgentFails(a)

Loop ==
    \/ StartTick \/ EndTick \/ BudgetExpires
    \/ \E d \in Document : ReadExpires(d)

Next == Engine \/ Answer \/ Loop \/ Tick

\* Time goes on and the runtime runs what is due.  Nothing is assumed of the
\* engine, nor of the agents.
Spec == Init /\ [][Next]_vars /\ WF_vars(Tick) /\ WF_vars(Loop)

-----------------------------------------------------------------------------
(* Properties *)

\* Besides the types: a document is held exactly while a tick that read it is
\* scraping, and no source is still asked between two ticks.
TypeOK ==
    /\ engine \in [run: 1..MaxRun, count: 0..MaxRequest, receipt: 0..MaxReceipt,
                   tagged: BOOLEAN, drafting: BOOLEAN]
    /\ pc \in {"waiting", "scraping"}
    /\ elapsed \in 0..Horizon /\ due \in -Horizon..Period
    /\ status \in [Source -> IF pc = "waiting" THEN {"none"}
                             ELSE {"asked", "ok", "mute", "failed", "dropped"}]
    /\ page.metrics \in [run: 0..MaxRun, count: NoCount..MaxRequest,
                         drafting: BOOLEAN]
    /\ page.snapshot \in [run: 0..MaxRun, receipt: 0..MaxReceipt,
                          tagged: BOOLEAN, drafting: BOOLEAN]
    /\ \A d \in Document : status[d] = "ok" <=> page[d] # NoPages[d]
    /\ carry \in [count: NoCount..MaxRequest,
                  receipt: (0..MaxRun) \X (0..MaxReceipt)]
    /\ listed \in [Agent -> {"unknown", "live", "unreachable"}]
    /\ seen.run \in 0..engine.run /\ seen.count \in NoCount..MaxRequest
    /\ engineLate \in BOOLEAN

\* The speed of a request and the state of a transfer are stored at most once,
\* however often the engine repeats them, through missed scrapes, absent
\* counters and restarts: the charts never draw a flat line of an old event.
SpeedStoredOnce ==
    \A s \in batch : s.series = "request_decode_tok_s" => s \notin recorded

ReceiptStoredOnce ==
    \A s \in batch : s.series = "last_transfer" => s \notin recorded

\* And the evidence is not asked too much: when two counters of one run of the
\* engine were read one after the other and a request completed in between,
\* the speed of the last one is stored.
NewSpeedIsStored ==
    [][LET e == page.metrics
       IN  EndTick /\ e.run > 0 /\ e.run = seen.run /\ e.count > seen.count
              => Speed(e) \in batch']_vars

\* A zero of an engine without a DFlash runtime is never stored, unless the
\* engine was restarted with one between the two answers of the tick.
NoInventedZero ==
    [][EndTick /\ Dflash(FALSE) \in batch'
          => /\ status["snapshot"] = "ok"
             /\ page.metrics.run # page.snapshot.run]_vars

\* An agent never costs the engine its cadence: when the engine's own fetches
\* ended within the period, the next tick begins one period after this one.
AgentsCostNoCadence ==
    [][StartTick /\ ~engineLate => elapsed = Period]_vars

\* A slow engine is not scraped in a storm afterwards: ticks are never closer
\* than the period.
NoStorm == [][StartTick => elapsed >= Period]_vars

\* Every tick ends, whatever the engine and the agents do not answer.
EveryTickEnds == pc = "scraping" ~> pc = "waiting"

-----------------------------------------------------------------------------
(* What the documentation says *)

\* The fleet lists an agent that answered the last scrape as live.
ListedAsItAnswered ==
    [][\A a \in Agent :
          EndTick /\ status[a] \in {"ok", "mute", "dropped"}
             => listed'[a] = "live"]_vars
=============================================================================
