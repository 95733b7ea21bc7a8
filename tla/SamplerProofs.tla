---------------------------- MODULE SamplerProofs ----------------------------
(***************************************************************************)
(* Proofs about Sampler, for any agents, any period and timeouts that meet *)
(* TimingAssumption, and any engine.                                       *)
(*                                                                         *)
(* A run and a count, or a run and a receipt, order what an engine does.   *)
(* What was stored is not after what the tick before carried over, that is *)
(* not after the page that was read, and that is not after the engine: a   *)
(* sample is taken only when the page is after the carried one, so it was  *)
(* never stored before.  The other half is about time: the ticker and the  *)
(* time since the tick began add up to the period, and a tick goes past it *)
(* only while a document of the engine is awaited.                         *)
(***************************************************************************)
EXTENDS Sampler, TLAPS

-----------------------------------------------------------------------------
(* Types *)

\* TypeOK says what is in a page, and this that nothing else is, nor any run
\* that has not been yet.
Typed == TypeOK /\ DOMAIN page = Document /\ page.metrics.run <= engine.run

\* The first page is none.
LEMMA InitTyped == Init => Typed
<1> SUFFICES ASSUME Init PROVE Typed
  OBVIOUS
<1> USE TimingAssumption, BoundsAssumption
<1>1. engine \in [run: 1..MaxRun, count: 0..MaxRequest, receipt: 0..MaxReceipt,
                  tagged: BOOLEAN, drafting: BOOLEAN]
  BY DEF Init, Started, NoReceipt
<1>2. /\ elapsed \in 0..Horizon /\ due \in -Horizon..Period
      /\ pc = "waiting" /\ engineLate \in BOOLEAN
      /\ status = [s \in Source |-> "none"]
      /\ listed \in [Agent -> {"unknown", "live", "unreachable"}]
  <2>1. elapsed = Period /\ due = 0
    BY DEF Init
  <2>2. elapsed \in 0..Horizon /\ due \in -Horizon..Period
    BY <2>1 DEF Horizon
  <2>3. /\ pc = "waiting" /\ engineLate \in BOOLEAN
        /\ status = [s \in Source |-> "none"]
        /\ listed \in [Agent -> {"unknown", "live", "unreachable"}]
    BY DEF Init
  <2> QED
    BY <2>2, <2>3
<1>3. /\ page.metrics = [run |-> 0, count |-> NoCount, drafting |-> FALSE]
      /\ page.snapshot = [run |-> 0, receipt |-> NoReceipt, tagged |-> FALSE, drafting |-> FALSE]
      /\ DOMAIN page = Document /\ page = NoPages
  BY DEF Init, NoPages, Metrics, Snapshot, Nothing, Started, Document
<1>4. /\ page.metrics \in [run: 0..MaxRun, count: NoCount..MaxRequest, drafting: BOOLEAN]
      /\ page.snapshot \in [run: 0..MaxRun, receipt: 0..MaxReceipt,
                            tagged: BOOLEAN, drafting: BOOLEAN]
  BY <1>3 DEF NoCount, NoReceipt
<1>5. carry \in [count: NoCount..MaxRequest, receipt: (0..MaxRun) \X (0..MaxReceipt)]
  BY DEF Init, NoCount, NoReceipt
<1>6. seen.run \in 0..engine.run /\ seen.count \in NoCount..MaxRequest
  <2>1. seen = page.metrics
    BY <1>3 DEF Init
  <2> QED
    BY <1>1, <1>3, <1>4, <2>1
<1>7. \A d \in Document : status[d] = "ok" <=> page[d] # NoPages[d]
  BY <1>2, <1>3 DEF Source
<1>8. page.metrics.run <= engine.run
  BY <1>1, <1>3
<1> QED
  BY <1>1, <1>2, <1>3, <1>4, <1>5, <1>6, <1>7, <1>8 DEF Typed, TypeOK

\* The engine goes on by itself.
LEMMA EngineTyped == ASSUME Typed, Engine PROVE Typed'
<1> USE BoundsAssumption
<1>1. UNCHANGED sampler
  BY DEF Engine, RequestCompletes, TransferChanges, EngineRestarts
<1>2. /\ engine' \in [run: 1..MaxRun, count: 0..MaxRequest, receipt: 0..MaxReceipt,
                      tagged: BOOLEAN, drafting: BOOLEAN]
      /\ engine.run <= engine'.run
  <2>1. CASE RequestCompletes
    BY <2>1 DEF RequestCompletes, Typed, TypeOK
  <2>2. CASE TransferChanges
    <3>1. PICK tagged \in BOOLEAN :
             engine.receipt < MaxReceipt
             /\ engine' = [engine EXCEPT !.receipt = engine.receipt + 1, !.tagged = tagged]
      BY <2>2 DEF TransferChanges
    <3>2. engine.receipt + 1 \in 0..MaxReceipt
      BY <3>1 DEF Typed, TypeOK
    <3>3. /\ engine'.run = engine.run
          /\ engine' \in [run: 1..MaxRun, count: 0..MaxRequest, receipt: 0..MaxReceipt,
                          tagged: BOOLEAN, drafting: BOOLEAN]
      BY <3>1, <3>2 DEF Typed, TypeOK
    <3> QED
      BY <3>3 DEF Typed, TypeOK
  <2>3. CASE EngineRestarts
    BY <2>3 DEF EngineRestarts, Typed, TypeOK, Started, NoReceipt
  <2> QED
    BY <2>1, <2>2, <2>3 DEF Engine
<1>3. /\ UNCHANGED <<pc, elapsed, due, status, page, carry, listed, batch, recorded, seen, engineLate>>
  BY <1>1 DEF sampler, outcome
<1>4. seen.run \in 0..engine'.run /\ page.metrics.run <= engine'.run
  BY <1>2 DEF Typed, TypeOK
<1> QED
  BY <1>2, <1>3, <1>4 DEF Typed, TypeOK

\* A tick begins with every source asked.
LEMMA StartTyped == ASSUME Typed, StartTick PROVE Typed'
<1> USE TimingAssumption
<1>1. /\ UNCHANGED <<engine, page, carry, listed, seen>>
      /\ pc' = "scraping" /\ elapsed' = 0 /\ due' = Period /\ engineLate' = FALSE
      /\ status' = [s \in Source |-> "asked"] /\ pc = "waiting"
  BY DEF StartTick, NextDue
<1>2. \A d \in Document : status[d] = "none" /\ status'[d] = "asked"
  BY <1>1 DEF Typed, TypeOK, Source
<1>3. elapsed' \in 0..Horizon /\ due' \in -Horizon..Period
  BY <1>1 DEF Horizon
<1> QED
  BY <1>1, <1>2, <1>3 DEF Typed, TypeOK

\* Steps that change what a fetch came to, or the time, and that neither read
\* a document nor take one back.
Quiet ==
    \/ \E d \in Document : ReadFails(d) \/ ReadExpires(d)
    \/ \E a \in Agent : AgentAnswers(a) \/ AgentFails(a)
    \/ BudgetExpires \/ Tick

\* Such a step leaves the pages alone, and what their fetches came to.
LEMMA QuietStep ==
    ASSUME Typed, Quiet
    PROVE  /\ UNCHANGED <<engine, pc, page, carry, listed, batch, recorded, seen>>
           /\ \A d \in Document : status'[d] = "ok" <=> status[d] = "ok"
           /\ status' \in [Source -> IF pc = "waiting" THEN {"none"}
                                     ELSE {"asked", "ok", "mute", "failed", "dropped"}]
<1> USE DEF Typed, TypeOK, outcome, Source
<1>1. CASE \E d \in Document : ReadFails(d) \/ ReadExpires(d)
  BY <1>1 DEF ReadFails, ReadExpires, Asked
<1>2. CASE \E a \in Agent : AgentAnswers(a) \/ AgentFails(a)
  BY <1>2, AgentAssumption DEF AgentAnswers, AgentFails, Asked
<1>3. CASE BudgetExpires
  BY <1>3 DEF BudgetExpires
<1>4. CASE Tick
  BY <1>4 DEF Tick
<1> QED
  BY <1>1, <1>2, <1>3, <1>4 DEF Quiet

\* Time stays within its bounds.
LEMMA Within ==
    ASSUME NEW e \in 0..Horizon, NEW d \in -Horizon..Period
    PROVE  /\ (IF e < Horizon THEN e + 1 ELSE e) \in 0..Horizon
           /\ (IF d > -Horizon THEN d - 1 ELSE d) \in -Horizon..Period
BY TimingAssumption DEF Horizon

\* Such a step keeps the types.
LEMMA QuietTyped == ASSUME Typed, Quiet PROVE Typed'
<1>1. /\ UNCHANGED <<engine, pc, page, carry, listed, batch, recorded, seen>>
      /\ \A d \in Document : status'[d] = "ok" <=> status[d] = "ok"
      /\ status' \in [Source -> IF pc = "waiting" THEN {"none"}
                                ELSE {"asked", "ok", "mute", "failed", "dropped"}]
  BY QuietStep
<1>2. /\ elapsed' \in 0..Horizon /\ due' \in -Horizon..Period
  <2>1. CASE UNCHANGED <<elapsed, due>>
    BY <2>1 DEF Typed, TypeOK
  <2>2. CASE Tick
    BY <2>2, Within DEF Tick, Typed, TypeOK
  <2> QED
    BY <2>1, <2>2 DEF Quiet, ReadExpires, ReadFails, AgentAnswers, AgentFails, BudgetExpires
<1>3. engineLate' \in BOOLEAN
  <2>1. CASE engineLate' = engineLate
    BY <2>1 DEF Typed, TypeOK
  <2>2. CASE engineLate' = (elapsed > Period)
    BY <2>2
  <2> QED
    BY <2>1, <2>2
    DEF Quiet, ReadExpires, ReadFails, AgentAnswers, AgentFails, BudgetExpires, Tick
<1> QED
  BY <1>1, <1>2, <1>3 DEF Typed, TypeOK

\* A document is answered as it is at that moment.
LEMMA ReadStep ==
    ASSUME Typed, NEW d \in Document, (ReadMetrics /\ d = "metrics") \/ (ReadSnapshot /\ d = "snapshot")
    PROVE  /\ UNCHANGED <<engine, pc, elapsed, due, carry, listed, batch, recorded, seen>>
           /\ pc = "scraping" /\ status[d] = "asked" /\ engineLate' = (elapsed > Period)
           /\ status' = [status EXCEPT ![d] = "ok"]
           /\ status'["metrics"] = (IF d = "metrics" THEN "ok" ELSE status["metrics"])
           /\ status'["snapshot"] = (IF d = "snapshot" THEN "ok" ELSE status["snapshot"])
           /\ DOMAIN page' = Document
           /\ page'.metrics = page.metrics \/ \E count \in {engine.count, NoCount} :
                                                   page'.metrics = Metrics(engine, count)
           /\ d = "metrics" => /\ page'.snapshot = page.snapshot
                               /\ \E count \in {engine.count, NoCount} :
                                     page'.metrics = Metrics(engine, count)
           /\ d = "snapshot" => page'.metrics = page.metrics /\ page'.snapshot = Snapshot(engine)
BY DEF Typed, TypeOK, ReadMetrics, ReadSnapshot, Asked, outcome, Document, Source

\* The fields of the documents.
LEMMA Fields ==
    ASSUME NEW e, NEW count
    PROVE  /\ Metrics(e, count).run = e.run /\ Metrics(e, count).count = count
           /\ Metrics(e, count).drafting = e.drafting
           /\ Snapshot(e).run = e.run /\ Snapshot(e).receipt = e.receipt
           /\ Snapshot(e).tagged = e.tagged /\ Snapshot(e).drafting = e.drafting
           /\ NoPages["metrics"].run = 0 /\ NoPages["snapshot"].run = 0
BY DEF Metrics, Snapshot, NoPages, Nothing, Started

\* A document that was read is the page of a run that has begun.
LEMMA ReadTyped == ASSUME Typed, ReadMetrics \/ ReadSnapshot PROVE Typed'
<1> USE BoundsAssumption
<1>0. PICK d \in Document : (ReadMetrics /\ d = "metrics") \/ (ReadSnapshot /\ d = "snapshot")
  BY DEF Document
<1>1. /\ UNCHANGED <<engine, pc, elapsed, due, carry, listed, batch, recorded, seen>>
      /\ pc = "scraping" /\ engineLate' = (elapsed > Period)
      /\ status' = [status EXCEPT ![d] = "ok"]
      /\ DOMAIN page' = Document
      /\ d = "metrics" => /\ page'.snapshot = page.snapshot
                          /\ \E count \in {engine.count, NoCount} :
                                page'.metrics = Metrics(engine, count)
      /\ d = "snapshot" => page'.metrics = page.metrics /\ page'.snapshot = Snapshot(engine)
  BY <1>0, ReadStep
<1>2. /\ engine.run \in 1..MaxRun /\ engine.count \in 0..MaxRequest
      /\ engine.receipt \in 0..MaxReceipt /\ engine.tagged \in BOOLEAN /\ engine.drafting \in BOOLEAN
  BY DEF Typed, TypeOK
<1>3. \A count \in {engine.count, NoCount} :
         /\ Metrics(engine, count) \in [run: 0..MaxRun, count: NoCount..MaxRequest, drafting: BOOLEAN]
         /\ Metrics(engine, count) # NoPages["metrics"]
  <2>1. \A count \in {engine.count, NoCount} : count \in NoCount..MaxRequest
    BY <1>2 DEF NoCount
  <2>2. \A count : Metrics(engine, count) # NoPages["metrics"]
    BY <1>2, Fields
  <2> QED
    BY <1>2, <2>1, <2>2 DEF Metrics
<1>4. /\ Snapshot(engine) \in [run: 0..MaxRun, receipt: 0..MaxReceipt,
                               tagged: BOOLEAN, drafting: BOOLEAN]
      /\ Snapshot(engine) # NoPages["snapshot"]
  <2>1. Snapshot(engine) # NoPages["snapshot"]
    BY <1>2, Fields
  <2> QED
    BY <1>2, <2>1 DEF Snapshot
<1>5. /\ page'.metrics \in [run: 0..MaxRun, count: NoCount..MaxRequest, drafting: BOOLEAN]
      /\ page'.snapshot \in [run: 0..MaxRun, receipt: 0..MaxReceipt,
                             tagged: BOOLEAN, drafting: BOOLEAN]
  BY <1>1, <1>3, <1>4 DEF Typed, TypeOK, Document
<1>6. status' \in [Source -> {"asked", "ok", "mute", "failed", "dropped"}]
  BY <1>1 DEF Typed, TypeOK
<1>7. \A c \in Document : status'[c] = "ok" <=> page'[c] # NoPages[c]
  <2>1. CASE d = "metrics"
    <3>1. status'["metrics"] = "ok" /\ status'["snapshot"] = status["snapshot"]
      BY <1>1, <2>1 DEF Typed, TypeOK, Source, Document
    <3> QED
      BY <1>1, <1>3, <2>1, <3>1 DEF Typed, TypeOK, Document
  <2>2. CASE d = "snapshot"
    <3>1. status'["snapshot"] = "ok" /\ status'["metrics"] = status["metrics"]
      BY <1>1, <2>2 DEF Typed, TypeOK, Source, Document
    <3> QED
      BY <1>1, <1>4, <2>2, <3>1 DEF Typed, TypeOK, Document
  <2> QED
    BY <2>1, <2>2 DEF Document
<1>8. engineLate' \in BOOLEAN
  BY <1>1
<1>9. page'.metrics.run <= engine.run
  <2>1. \A count : Metrics(engine, count).run <= engine.run
    BY <1>2, Fields
  <2> QED
    BY <1>1, <2>1 DEF Typed, Document
<1> QED
  BY <1>1, <1>5, <1>6, <1>7, <1>8, <1>9 DEF Typed, TypeOK

\* What a tick carries over and lists when it ends.
LEMMA EndStep ==
    ASSUME Typed, EndTick
    PROVE  /\ UNCHANGED <<engine, elapsed, due, recorded, engineLate>>
           /\ pc = "scraping" /\ pc' = "waiting"
           /\ \A s \in Source : status[s] # "asked" /\ status'[s] = "none"
           /\ status' \in [Source -> {"none"}] /\ page' = NoPages
           /\ listed' \in [Agent -> {"unknown", "live", "unreachable"}]
           /\ batch' = Gated(MetricsSamples \union SnapshotSamples) \union AgentSamples
           /\ carry' \in [count: NoCount..MaxRequest, receipt: (0..MaxRun) \X (0..MaxReceipt)]
           /\ carry'.count = IF status["metrics"] = "ok" /\ page.metrics.count # NoCount
                             THEN page.metrics.count ELSE carry.count
           /\ carry'.receipt =
                 IF status["snapshot"] = "ok" /\ page.snapshot.receipt # NoReceipt
                 THEN <<page.snapshot.run, page.snapshot.receipt>> ELSE carry.receipt
           /\ seen' = IF status["metrics"] = "ok" /\ page.metrics.count # NoCount
                      THEN page.metrics ELSE seen
<1> DEFINE count == IF status["metrics"] = "ok" /\ page.metrics.count # NoCount
                    THEN page.metrics.count ELSE carry.count
           receipt == IF status["snapshot"] = "ok" /\ page.snapshot.receipt # NoReceipt
                      THEN <<page.snapshot.run, page.snapshot.receipt>> ELSE carry.receipt
<1>1. count \in NoCount..MaxRequest /\ receipt \in (0..MaxRun) \X (0..MaxReceipt)
  BY DEF Typed, TypeOK
<1>2. carry' = [count |-> count, receipt |-> receipt]
  BY DEF EndTick, CarriedCount
<1> HIDE DEF count, receipt
<1>3. /\ carry'.count = count /\ carry'.receipt = receipt
      /\ carry' \in [count: NoCount..MaxRequest, receipt: (0..MaxRun) \X (0..MaxReceipt)]
  BY <1>1, <1>2
<1>4. /\ status' \in [Source -> {"none"}] /\ \A s \in Source : status[s] # "asked" /\ status'[s] = "none"
      /\ listed' \in [Agent -> {"unknown", "live", "unreachable"}]
  BY DEF EndTick
<1> QED
  BY <1>3, <1>4 DEF EndTick, count, receipt

\* When a tick ends, its pages are gone and nothing is asked.
LEMMA EndTyped == ASSUME Typed, EndTick PROVE Typed'
<1> USE BoundsAssumption
<1>1. /\ UNCHANGED <<engine, elapsed, due, recorded, engineLate>>
      /\ pc' = "waiting" /\ \A s \in Source : status'[s] = "none"
      /\ status' \in [Source -> {"none"}] /\ page' = NoPages
      /\ listed' \in [Agent -> {"unknown", "live", "unreachable"}]
      /\ carry' \in [count: NoCount..MaxRequest, receipt: (0..MaxRun) \X (0..MaxReceipt)]
      /\ seen' = IF status["metrics"] = "ok" /\ page.metrics.count # NoCount
                 THEN page.metrics ELSE seen
  BY EndStep
<1>2. DOMAIN page' = Document
  BY <1>1 DEF NoPages, Document
<1>3. /\ page'.metrics \in [run: 0..MaxRun, count: NoCount..MaxRequest, drafting: BOOLEAN]
      /\ page'.snapshot \in [run: 0..MaxRun, receipt: 0..MaxReceipt,
                             tagged: BOOLEAN, drafting: BOOLEAN]
  BY <1>1 DEF NoPages, Nothing, Started, Metrics, Snapshot, NoCount, NoReceipt
<1>4. \A d \in Document : status'[d] = "ok" <=> page'[d] # NoPages[d]
  BY <1>1 DEF Source
<1>5. seen'.run \in 0..engine.run /\ seen'.count \in NoCount..MaxRequest
  BY <1>1 DEF Typed, TypeOK
<1>6. page'.metrics.run <= engine.run
  BY <1>1, Fields DEF Typed, TypeOK, NoPages, Nothing, Started
<1> QED
  BY <1>1, <1>2, <1>3, <1>4, <1>5, <1>6 DEF Typed, TypeOK

\* The steps of Next, as these proofs divide them.
LEMMA Steps ==
    Next <=> Engine \/ StartTick \/ ReadMetrics \/ ReadSnapshot \/ EndTick \/ Quiet
BY DEF Next, Answer, Loop, Quiet

\* Types are kept by every step.
LEMMA TypedStep == Typed /\ [Next]_vars => Typed'
<1> SUFFICES ASSUME Typed, [Next]_vars PROVE Typed'
  OBVIOUS
<1>1. CASE UNCHANGED vars
  BY <1>1 DEF vars, sampler, outcome, Typed, TypeOK
<1>2. CASE Next
  BY <1>2, Steps, EngineTyped, StartTyped, ReadTyped, EndTyped, QuietTyped
<1> QED
  BY <1>1, <1>2

\* Every state of the sampler is typed, its pages are those of the tick that
\* read them, and no run of the engine is seen before it began.
THEOREM TypesHold == Spec => []TypeOK
<1>1. Typed => TypeOK
  BY DEF Typed
<1> QED
  BY <1>1, InitTyped, TypedStep, PTL DEF Spec

-----------------------------------------------------------------------------
(* Time *)

\* The ticker and the tick are one clock.  Past the period, a tick goes on
\* only for the documents of the engine, and no further than their timeout.
OnTime ==
    /\ elapsed \in 0..FetchTimeout
    /\ elapsed + due = Period
    /\ pc = "waiting" /\ ~engineLate => elapsed <= Period
    /\ pc = "scraping" /\ elapsed > Period
          => engineLate \/ \E d \in Document : status[d] = "asked"

\* The first tick is due at once.
LEMMA InitOnTime == Init => OnTime
BY TimingAssumption DEF Init, OnTime

\* A fetch of the engine ends: when it does so late, that is noted.
LEMMA ReadOnTime ==
    ASSUME Typed, OnTime,
           UNCHANGED <<pc, elapsed, due>>, pc = "scraping", engineLate' = (elapsed > Period)
    PROVE  OnTime'
<1>1. elapsed > Period => engineLate'
  OBVIOUS
<1> QED
  BY <1>1 DEF OnTime

\* An agent's fetch changes nothing about the documents.
LEMMA AgentsOnTime ==
    ASSUME Typed, OnTime, \/ \E a \in Agent : AgentAnswers(a) \/ AgentFails(a)
                         \/ BudgetExpires
    PROVE  OnTime'
<1>1. UNCHANGED <<pc, elapsed, due, engineLate>>
  BY DEF AgentAnswers, AgentFails, BudgetExpires
<1>2. \A d \in Document : status'[d] = status[d]
  <2>1. CASE \E a \in Agent : AgentAnswers(a) \/ AgentFails(a)
    BY <2>1, AgentAssumption DEF AgentAnswers, AgentFails, Typed, TypeOK, Source
  <2>2. CASE BudgetExpires
    BY <2>2 DEF BudgetExpires, Source
  <2> QED
    BY <2>1, <2>2
<1> QED
  BY <1>1, <1>2 DEF OnTime

\* Time passes up to a deadline and not over it.
LEMMA TickOnTime == ASSUME Typed, OnTime, Tick PROVE OnTime'
<1> USE TimingAssumption
<1>1. /\ UNCHANGED <<pc, status, engineLate>> /\ ~Urgent
      /\ elapsed \in 0..FetchTimeout /\ due \in Int /\ elapsed + due = Period
      /\ pc \in {"waiting", "scraping"}
  BY DEF Tick, OnTime, Typed, TypeOK
<1>2. elapsed' = elapsed + 1 /\ due' = due - 1
  BY <1>1 DEF Tick, Horizon
<1>3. CASE pc = "waiting"
  <2>1. due > 0
    BY <1>1, <1>3 DEF Urgent
  <2>2. elapsed < Period
    BY <1>1, <2>1
  <2> QED
    BY <1>1, <1>2, <1>3, <2>2 DEF OnTime
<1>4. CASE pc = "scraping"
  <2>1. PICK s \in Source : status[s] = "asked"
    BY <1>1, <1>4 DEF Urgent
  <2>2. (elapsed >= Period) => \E d \in Document : status[d] = "asked"
    <3> SUFFICES ASSUME elapsed >= Period PROVE \E d \in Document : status[d] = "asked"
      OBVIOUS
    <3>1. OverBudget
      BY <1>1 DEF OverBudget
    <3> QED
      BY <1>1, <1>4, <2>1, <3>1 DEF Urgent, Source
  <2>3. elapsed < FetchTimeout
    <3> SUFFICES ASSUME elapsed >= FetchTimeout PROVE FALSE
      BY <1>1
    <3>1. Expired /\ elapsed >= Period
      BY <1>1 DEF Expired
    <3> QED
      BY <1>1, <1>4, <2>2, <3>1 DEF Urgent
  <2> QED
    BY <1>1, <1>2, <1>4, <2>2, <2>3 DEF OnTime
<1> QED
  BY <1>1, <1>3, <1>4

\* The clock is kept by every step.
LEMMA OnTimeStep == Typed /\ OnTime /\ [Next]_vars => OnTime'
<1> SUFFICES ASSUME Typed, OnTime, [Next]_vars PROVE OnTime'
  OBVIOUS
<1> USE TimingAssumption
<1>1. CASE UNCHANGED vars \/ Engine
  <2>1. UNCHANGED <<pc, elapsed, due, status, engineLate>>
    BY <1>1 DEF vars, sampler, Engine, RequestCompletes, TransferChanges, EngineRestarts
  <2> QED
    BY <2>1 DEF OnTime
<1>2. CASE StartTick
  BY <1>2 DEF StartTick, NextDue, OnTime
<1>3. CASE ReadMetrics \/ ReadSnapshot \/ \E d \in Document : ReadFails(d) \/ ReadExpires(d)
  BY <1>3, ReadOnTime DEF ReadMetrics, ReadSnapshot, ReadFails, ReadExpires, Asked
<1>4. CASE BudgetExpires \/ \E a \in Agent : AgentAnswers(a) \/ AgentFails(a)
  BY <1>4, AgentsOnTime
<1>5. CASE EndTick
  <2>1. /\ UNCHANGED <<elapsed, due, engineLate>> /\ pc' = "waiting" /\ pc = "scraping"
        /\ \A d \in Document : status[d] # "asked"
    BY <1>5 DEF EndTick, Source
  <2>2. elapsed > Period => engineLate
    BY <2>1 DEF OnTime
  <2> QED
    BY <2>1, <2>2 DEF OnTime
<1>6. CASE Tick
  BY <1>6, TickOnTime
<1> QED
  BY <1>1, <1>2, <1>3, <1>4, <1>5, <1>6 DEF Next, Answer, Loop

\* Whatever the agents do, an engine that answered within the period is scraped
\* again one period later: they never cost it its cadence.
THEOREM AgentsAreCheap == Spec => AgentsCostNoCadence
<1>1. Typed /\ OnTime => [StartTick /\ ~engineLate => elapsed = Period]_vars
  <2> SUFFICES ASSUME Typed, OnTime, StartTick, ~engineLate PROVE elapsed = Period
    OBVIOUS
  <2> QED
    BY TimingAssumption DEF OnTime, StartTick, Typed, TypeOK
<1> QED
  BY <1>1, InitTyped, TypedStep, InitOnTime, OnTimeStep, PTL DEF Spec, AgentsCostNoCadence

\* However late a tick was, the next one is a period away: missed ticks are not
\* made up for.
THEOREM NeverAStorm == Spec => NoStorm
<1>1. Typed /\ OnTime => [StartTick => elapsed >= Period]_vars
  <2> SUFFICES ASSUME Typed, OnTime, StartTick PROVE elapsed >= Period
    OBVIOUS
  <2> QED
    BY TimingAssumption DEF OnTime, StartTick, Typed, TypeOK
<1> QED
  BY <1>1, InitTyped, TypedStep, InitOnTime, OnTimeStep, PTL DEF Spec, NoStorm

-----------------------------------------------------------------------------
(* What an engine does, in order *)

\* The c-th event of run r is not after the d-th of run q.
NotAfter(r, c, q, d) == r < q \/ (r = q /\ c <= d)

\* A later event than that of which another is not after is another event.
LEMMA NotAfterIsAnOrder ==
    ASSUME NEW r \in Int, NEW c \in Int, NEW q \in Int, NEW d \in Int
    PROVE  /\ NotAfter(r, c, r, c)
           /\ NotAfter(r, c, q, d) /\ NotAfter(q, d, r, c) => r = q /\ c = d
           /\ \A p, b \in Int :
                 NotAfter(r, c, q, d) /\ NotAfter(q, d, p, b) => NotAfter(r, c, p, b)
BY DEF NotAfter

\* The counts that were read are those of the engine, in the order of its
\* events, and the count carried over is the last of them.
CountsInOrder ==
    /\ carry.count = seen.count
    /\ seen.run > 0 => seen.count # NoCount
    /\ NotAfter(seen.run, seen.count, engine.run, engine.count)
    /\ NotAfter(page.metrics.run, page.metrics.count, engine.run, engine.count)
    /\ page.metrics.count # NoCount
          => NotAfter(seen.run, seen.count, page.metrics.run, page.metrics.count)

\* A stored speed is that of a request which was counted by then.
SpeedsInOrder ==
    \A s \in batch \union recorded : s.series = "request_decode_tok_s"
       => \E r, c \in Nat : /\ s.of = <<r, c>>
                           /\ NotAfter(r, c, seen.run, seen.count)

\* The same of receipts, of which the last one that was there is carried over.
ReceiptsInOrder ==
    LET last == carry.receipt
        now == page.snapshot
    IN  /\ NotAfter(last[1], last[2], engine.run, engine.receipt)
        /\ NotAfter(now.run, now.receipt, engine.run, engine.receipt)
        /\ now.receipt # NoReceipt => NotAfter(last[1], last[2], now.run, now.receipt)
        /\ \A s \in batch \union recorded : s.series = "last_transfer"
              => \E r, c \in Nat : /\ s.of = <<r, c>>
                                  /\ NotAfter(r, c, last[1], last[2])

\* One run of an engine drafts or does not.
DraftsAgree ==
    /\ page.metrics.run = engine.run => page.metrics.drafting = engine.drafting
    /\ page.snapshot.run = engine.run => page.snapshot.drafting = engine.drafting
    /\ page.metrics.run = page.snapshot.run
          => page.metrics.drafting = page.snapshot.drafting

\* The invariant behind what is stored once.
Ordered ==
    /\ CountsInOrder /\ SpeedsInOrder /\ SpeedStoredOnce
    /\ ReceiptsInOrder /\ ReceiptStoredOnce /\ DraftsAgree

\* Numbers and pages, as the lemmas below need them.
LEMMA Numbers ==
    ASSUME Typed
    PROVE  /\ engine.run \in Nat \ {0} /\ engine.count \in Nat /\ engine.receipt \in Nat
           /\ seen.run \in Nat /\ seen.count \in Int /\ seen.count >= NoCount
           /\ page.metrics.run \in Nat /\ page.metrics.count \in Int
           /\ page.metrics.count >= NoCount /\ page.metrics.run <= engine.run
           /\ page.snapshot.run \in Nat /\ page.snapshot.receipt \in Nat
           /\ carry.receipt[1] \in Nat /\ carry.receipt[2] \in Nat
           /\ page.metrics.count # NoCount => page.metrics.count \in Nat
           /\ carry.receipt = <<carry.receipt[1], carry.receipt[2]>>
BY BoundsAssumption DEF Typed, TypeOK, NoCount

\* Before the first tick nothing is carried over, and nothing stored.
LEMMA InitOrdered == Init => Ordered
<1> SUFFICES ASSUME Init PROVE Ordered
  OBVIOUS
<1>1. /\ engine.run = 1 /\ engine.count = 0 /\ engine.receipt = 0
      /\ page.metrics.run = 0 /\ page.metrics.count = NoCount /\ page.metrics.drafting = FALSE
      /\ page.snapshot.run = 0 /\ page.snapshot.receipt = 0 /\ page.snapshot.drafting = FALSE
      /\ seen.run = 0 /\ seen.count = NoCount /\ carry.count = NoCount
      /\ carry.receipt[1] = 0 /\ carry.receipt[2] = 0 /\ batch = {} /\ recorded = {}
  BY DEF Init, NoPages, Nothing, Started, Metrics, Snapshot, NoReceipt
<1>2. CountsInOrder
  BY <1>1 DEF CountsInOrder, NotAfter
<1>3. ReceiptsInOrder
  BY <1>1 DEF ReceiptsInOrder, NotAfter, NoReceipt
<1>4. DraftsAgree
  <2>1. page.metrics.run # engine.run /\ page.snapshot.run # engine.run
    BY <1>1
  <2>2. page.metrics.drafting = page.snapshot.drafting
    BY DEF Init, NoPages, Metrics, Snapshot
  <2> QED
    BY <2>1, <2>2 DEF DraftsAgree
<1>5. SpeedsInOrder /\ SpeedStoredOnce /\ ReceiptStoredOnce
  BY <1>1 DEF SpeedsInOrder, SpeedStoredOnce, ReceiptStoredOnce
<1> QED
  BY <1>2, <1>3, <1>4, <1>5 DEF Ordered

\* A step that leaves what was read and stored alone, while the engine goes on.
LEMMA GoesOnOrdered ==
    ASSUME Typed, Typed', Ordered,
           UNCHANGED <<page, carry, batch, recorded, seen>>,
           NotAfter(engine.run, engine.count, engine'.run, engine'.count),
           NotAfter(engine.run, engine.receipt, engine'.run, engine'.receipt),
           engine'.run = engine.run => engine'.drafting = engine.drafting
    PROVE  Ordered'
<1>1. /\ engine'.run \in Nat \ {0} /\ engine'.count \in Nat /\ engine'.receipt \in Nat
  BY BoundsAssumption DEF Typed, TypeOK
<1>2. CountsInOrder'
  BY <1>1, Numbers DEF Ordered, CountsInOrder, NotAfter
<1>3. SpeedsInOrder' /\ SpeedStoredOnce' /\ ReceiptStoredOnce'
  BY DEF Ordered, SpeedsInOrder, SpeedStoredOnce, ReceiptStoredOnce
<1>4. ReceiptsInOrder'
  <2>1. /\ NotAfter(carry.receipt[1], carry.receipt[2], engine'.run, engine'.receipt)
        /\ NotAfter(page.snapshot.run, page.snapshot.receipt, engine'.run, engine'.receipt)
    BY <1>1, Numbers DEF Ordered, ReceiptsInOrder, NotAfter
  <2> QED
    BY <2>1 DEF Ordered, ReceiptsInOrder
<1>5. DraftsAgree'
  <2>1. page.metrics.run <= engine.run /\ page.snapshot.run <= engine.run /\ engine.run <= engine'.run
    BY <1>1, Numbers DEF Ordered, ReceiptsInOrder, NotAfter
  <2>2. /\ engine'.run = page.metrics.run => engine'.run = engine.run
        /\ engine'.run = page.snapshot.run => engine'.run = engine.run
    BY <1>1, <2>1, Numbers
  <2> QED
    BY <2>2 DEF Ordered, DraftsAgree
<1> QED
  BY <1>2, <1>3, <1>4, <1>5 DEF Ordered

\* The engine counts on, or begins again as another run.
LEMMA EngineOrdered == ASSUME Typed, Ordered, Engine PROVE Ordered'
<1>1. UNCHANGED <<page, carry, batch, recorded, seen>>
  BY DEF Engine, RequestCompletes, TransferChanges, EngineRestarts, sampler, outcome
<1>2. engine \in [run: 1..MaxRun, count: 0..MaxRequest, receipt: 0..MaxReceipt,
                  tagged: BOOLEAN, drafting: BOOLEAN]
  BY DEF Typed, TypeOK
<1>3. /\ NotAfter(engine.run, engine.count, engine'.run, engine'.count)
      /\ NotAfter(engine.run, engine.receipt, engine'.run, engine'.receipt)
      /\ engine'.run = engine.run => engine'.drafting = engine.drafting
  <2>1. CASE RequestCompletes
    BY <1>2, <2>1, BoundsAssumption DEF RequestCompletes, NotAfter
  <2>2. CASE TransferChanges
    <3>1. PICK tagged \in BOOLEAN :
             engine' = [engine EXCEPT !.receipt = engine.receipt + 1, !.tagged = tagged]
      BY <2>2 DEF TransferChanges
    <3>2. /\ engine'.run = engine.run /\ engine'.count = engine.count
          /\ engine'.receipt = engine.receipt + 1 /\ engine'.drafting = engine.drafting
      BY <1>2, <3>1
    <3> QED
      BY <3>2, Numbers DEF NotAfter
  <2>3. CASE EngineRestarts
    <3>1. engine'.run = engine.run + 1
      BY <2>3 DEF EngineRestarts, Started
    <3> QED
      BY <3>1, Numbers DEF NotAfter
  <2> QED
    BY <2>1, <2>2, <2>3 DEF Engine
<1> QED
  BY <1>1, <1>3, EngineTyped, GoesOnOrdered

\* What is kept of the tick before was stored then; nothing else is.
LEMMA StartOrdered == ASSUME Typed, Ordered, StartTick PROVE Ordered'
<1>1. /\ UNCHANGED <<engine, page, carry, seen>> /\ batch' = {}
      /\ \A s \in batch' \union recorded' : s \in batch \union recorded
  BY DEF StartTick
<1>2. CountsInOrder' /\ DraftsAgree'
  BY <1>1 DEF Ordered, CountsInOrder, DraftsAgree
<1>3. SpeedsInOrder' /\ SpeedStoredOnce' /\ ReceiptStoredOnce'
  BY <1>1 DEF Ordered, SpeedsInOrder, SpeedStoredOnce, ReceiptStoredOnce
<1>4. ReceiptsInOrder'
  BY <1>1 DEF Ordered, ReceiptsInOrder
<1> QED
  BY <1>2, <1>3, <1>4 DEF Ordered

\* A page is the engine at that moment, and the engine is not before anything.
LEMMA ReadOrdered == ASSUME Typed, Ordered, ReadMetrics \/ ReadSnapshot PROVE Ordered'
<1>0. PICK d \in Document : (ReadMetrics /\ d = "metrics") \/ (ReadSnapshot /\ d = "snapshot")
  BY DEF Document
<1>1. /\ UNCHANGED <<engine, carry, batch, recorded, seen>>
      /\ d = "metrics" => /\ page'.snapshot = page.snapshot
                          /\ \E count \in {engine.count, NoCount} :
                                page'.metrics = Metrics(engine, count)
      /\ d = "snapshot" => page'.metrics = page.metrics /\ page'.snapshot = Snapshot(engine)
  BY <1>0, ReadStep
<1>2. CountsInOrder'
  <2>1. CASE d = "metrics"
    <3>1. PICK count \in {engine.count, NoCount} : page'.metrics = Metrics(engine, count)
      BY <1>1, <2>1
    <3>2. page'.metrics.run = engine.run /\ page'.metrics.count = count
      BY <3>1, Fields
    <3>3. /\ NotAfter(engine.run, count, engine.run, engine.count)
          /\ count # NoCount => NotAfter(seen.run, seen.count, engine.run, count)
      BY <3>1, Numbers DEF NotAfter, NoCount, Ordered, CountsInOrder
    <3> QED
      BY <1>1, <3>2, <3>3 DEF Ordered, CountsInOrder
  <2>2. CASE d = "snapshot"
    BY <1>1, <2>2 DEF Ordered, CountsInOrder
  <2> QED
    BY <2>1, <2>2 DEF Document
<1>3. SpeedsInOrder' /\ SpeedStoredOnce' /\ ReceiptStoredOnce'
  BY <1>1 DEF Ordered, SpeedsInOrder, SpeedStoredOnce, ReceiptStoredOnce
<1>4. ReceiptsInOrder'
  <2>1. CASE d = "metrics"
    BY <1>1, <2>1 DEF Ordered, ReceiptsInOrder
  <2>2. CASE d = "snapshot"
    <3>1. page'.snapshot.run = engine.run /\ page'.snapshot.receipt = engine.receipt
      BY <1>1, <2>2, Fields
    <3>2. NotAfter(engine.run, engine.receipt, engine.run, engine.receipt)
      BY Numbers DEF NotAfter
    <3> QED
      BY <1>1, <3>1, <3>2 DEF Ordered, ReceiptsInOrder
  <2> QED
    BY <2>1, <2>2 DEF Document
<1>5. DraftsAgree'
  <2>1. CASE d = "metrics"
    <3>1. PICK count \in {engine.count, NoCount} : page'.metrics = Metrics(engine, count)
      BY <1>1, <2>1
    <3>2. page'.metrics.run = engine.run /\ page'.metrics.drafting = engine.drafting
      BY <3>1, Fields
    <3> QED
      BY <1>1, <2>1, <3>2 DEF Ordered, DraftsAgree
  <2>2. CASE d = "snapshot"
    <3>1. page'.snapshot.run = engine.run /\ page'.snapshot.drafting = engine.drafting
      BY <1>1, <2>2, Fields
    <3> QED
      BY <1>1, <2>2, <3>1 DEF Ordered, DraftsAgree
  <2> QED
    BY <2>1, <2>2 DEF Document
<1> QED
  BY <1>2, <1>3, <1>4, <1>5 DEF Ordered

\* A speed is new when its request was counted since.
NewSpeed ==
    /\ status["metrics"] = "ok" /\ carry.count # NoCount
    /\ page.metrics.count # NoCount /\ page.metrics.count > carry.count

\* A receipt is new when it is another one than the last.
NewReceipt ==
    /\ status["snapshot"] = "ok" /\ page.snapshot.receipt # NoReceipt
    /\ <<page.snapshot.run, page.snapshot.receipt>> # carry.receipt

\* What a tick may store.
LEMMA Stored ==
    ASSUME EndTick
    PROVE  /\ \A s \in batch' :
                 /\ s.series = "request_decode_tok_s"
                       => NewSpeed /\ s.of = <<page.metrics.run, page.metrics.count>>
                 /\ s.series = "last_transfer"
                       => NewReceipt /\ s.of = <<page.snapshot.run, page.snapshot.receipt>>
                 /\ s.series = "dflash"
                       => DflashConfigured /\ s.of = page.metrics.drafting
           /\ NewSpeed => Speed(page.metrics) \in batch'
<1>1. batch' = Gated(MetricsSamples \union SnapshotSamples) \union AgentSamples
  BY DEF EndTick
<1>2. \A s \in MetricsSamples :
         \/ s = Dflash(page.metrics.drafting)
         \/ s = Speed(page.metrics) /\ NewSpeed
  BY DEF MetricsSamples, NewSpeed, CompletedSince
<1>3. \A s \in SnapshotSamples : s = Receipt(page.snapshot) /\ NewReceipt
  BY DEF SnapshotSamples, NewReceipt, IsNews
<1>4. NewSpeed => Speed(page.metrics) \in MetricsSamples
  BY DEF MetricsSamples, NewSpeed, CompletedSince
<1>5. \A s \in AgentSamples : s.series = "agent"
  BY DEF AgentSamples, Reading
<1>6. \A e, drafting :
         /\ Speed(e).series = "request_decode_tok_s" /\ Speed(e).of = <<e.run, e.count>>
         /\ Dflash(drafting).series = "dflash" /\ Dflash(drafting).of = drafting
         /\ Receipt(e).series = "last_transfer" /\ Receipt(e).of = <<e.run, e.receipt>>
  BY DEF Speed, Dflash, Receipt
<1>7. \A s \in batch' :
         \/ s \in MetricsSamples /\ (s.series = "dflash" => DflashConfigured)
         \/ s \in SnapshotSamples
         \/ s \in AgentSamples
  BY <1>1 DEF Gated
<1>8. NewSpeed => Speed(page.metrics) \in batch'
  BY <1>1, <1>4, <1>6 DEF Gated
<1> SUFFICES ASSUME NEW s \in batch'
             PROVE  /\ s.series = "request_decode_tok_s"
                          => NewSpeed /\ s.of = <<page.metrics.run, page.metrics.count>>
                    /\ s.series = "last_transfer"
                          => NewReceipt /\ s.of = <<page.snapshot.run, page.snapshot.receipt>>
                    /\ s.series = "dflash"
                          => DflashConfigured /\ s.of = page.metrics.drafting
  BY <1>8
<1>9. CASE s = Speed(page.metrics) /\ NewSpeed
  BY <1>6, <1>9
<1>10. CASE s = Dflash(page.metrics.drafting) /\ DflashConfigured
  BY <1>6, <1>10
<1>11. CASE s = Receipt(page.snapshot) /\ NewReceipt
  BY <1>6, <1>11
<1>12. CASE s.series = "agent"
  BY <1>12
<1>13. CASE s \in MetricsSamples
  BY <1>2, <1>3, <1>5, <1>6, <1>7, <1>9, <1>10, <1>13
<1> QED
  BY <1>3, <1>5, <1>7, <1>9, <1>10, <1>11, <1>12, <1>13

\* A new speed is that of a later request than any stored before, and so are
\* the receipts: the tick stores neither again.
LEMMA EndOrdered == ASSUME Typed, Ordered, EndTick PROVE Ordered'
<1> DEFINE read == status["metrics"] = "ok" /\ page.metrics.count # NoCount
           there == status["snapshot"] = "ok" /\ page.snapshot.receipt # NoReceipt
<1>1. /\ engine' = engine /\ recorded' = recorded /\ page' = NoPages
      /\ carry'.count = IF read THEN page.metrics.count ELSE carry.count
      /\ carry'.receipt = IF there THEN <<page.snapshot.run, page.snapshot.receipt>>
                          ELSE carry.receipt
      /\ seen' = IF read THEN page.metrics ELSE seen
  BY EndStep
<1>2. /\ page'.metrics.run = 0 /\ page'.metrics.count = NoCount
      /\ page'.snapshot.run = 0 /\ page'.snapshot.receipt = NoReceipt
      /\ page'.metrics.drafting = page'.snapshot.drafting
  BY <1>1 DEF NoPages, Nothing, Started, Metrics, Snapshot, NoReceipt
<1>3. CountsInOrder'
  <2>1. NotAfter(0, NoCount, engine.run, engine.count)
    BY Numbers DEF NotAfter
  <2>2. CASE read
    <3>1. carry'.count = page.metrics.count /\ seen' = page.metrics
      BY <1>1, <2>2
    <3> QED
      BY <1>1, <1>2, <2>1, <2>2, <3>1 DEF Ordered, CountsInOrder
  <2>3. CASE ~read
    <3>1. carry'.count = carry.count /\ seen' = seen
      BY <1>1, <2>3
    <3> QED
      BY <1>1, <1>2, <2>1, <3>1 DEF Ordered, CountsInOrder
  <2> QED
    BY <2>2, <2>3
<1>4. SpeedsInOrder' /\ SpeedStoredOnce'
  <2>1. NotAfter(seen.run, seen.count, seen'.run, seen'.count)
    BY <1>1, Numbers DEF Ordered, CountsInOrder, NotAfter
  <2>2. seen'.run \in Nat /\ seen'.count \in Int
    BY <1>1, Numbers
  <2>3. \A s \in recorded : s.series = "request_decode_tok_s"
           => \E r, c \in Nat : s.of = <<r, c>> /\ NotAfter(r, c, seen'.run, seen'.count)
    <3> SUFFICES ASSUME NEW s \in recorded, s.series = "request_decode_tok_s"
                 PROVE  \E r, c \in Nat :
                           s.of = <<r, c>> /\ NotAfter(r, c, seen'.run, seen'.count)
      OBVIOUS
    <3>1. PICK r \in Nat, c \in Nat : s.of = <<r, c>> /\ NotAfter(r, c, seen.run, seen.count)
      BY DEF Ordered, SpeedsInOrder
    <3>2. NotAfter(r, c, seen'.run, seen'.count)
      BY <2>1, <2>2, <3>1, Numbers DEF NotAfter
    <3> QED
      BY <3>1, <3>2
  <2>4. \A s \in batch' : s.series = "request_decode_tok_s"
           => /\ NewSpeed /\ s.of = <<page.metrics.run, page.metrics.count>>
              /\ seen' = page.metrics /\ page.metrics.count \in Nat
    BY <1>1, Stored, Numbers DEF NewSpeed
  <2>5. \A s \in batch' : s.series = "request_decode_tok_s"
           => \E r, c \in Nat : s.of = <<r, c>> /\ NotAfter(r, c, seen'.run, seen'.count)
    BY <2>4, Numbers DEF NotAfter
  <2>6. \A s \in batch' : s.series = "request_decode_tok_s" => s \notin recorded
    <3> SUFFICES ASSUME NEW s \in batch', s.series = "request_decode_tok_s", s \in recorded
                 PROVE  FALSE
      OBVIOUS
    <3>1. PICK r \in Nat, c \in Nat : s.of = <<r, c>> /\ NotAfter(r, c, seen.run, seen.count)
      BY DEF Ordered, SpeedsInOrder
    <3>2. r = page.metrics.run /\ c = page.metrics.count
      BY <2>4, <3>1
    <3>3. c > seen.count /\ NotAfter(seen.run, seen.count, r, c)
      BY <2>4, <3>2 DEF NewSpeed, Ordered, CountsInOrder
    <3> QED
      BY <3>1, <3>3, Numbers DEF NotAfter
  <2> QED
    BY <1>1, <2>3, <2>5, <2>6 DEF SpeedsInOrder, SpeedStoredOnce
<1>5. ReceiptsInOrder' /\ ReceiptStoredOnce'
  <2> DEFINE last == carry.receipt
             now == page.snapshot
             next == carry'.receipt
  <2>1. /\ next[1] \in Nat /\ next[2] \in Nat
        /\ NotAfter(last[1], last[2], next[1], next[2])
        /\ NotAfter(next[1], next[2], engine.run, engine.receipt)
        /\ there => next[1] = now.run /\ next[2] = now.receipt
    <3>1. CASE there
      <4>1. next[1] = now.run /\ next[2] = now.receipt
        BY <1>1, <3>1
      <4> QED
        BY <3>1, <4>1, Numbers DEF Ordered, ReceiptsInOrder
    <3>2. CASE ~there
      <4>1. next = last
        BY <1>1, <3>2
      <4> QED
        BY <3>2, <4>1, Numbers DEF Ordered, ReceiptsInOrder, NotAfter
    <3> QED
      BY <3>1, <3>2
  <2>2. NotAfter(page'.snapshot.run, page'.snapshot.receipt, engine.run, engine.receipt)
    BY <1>2, Numbers DEF NotAfter
  <2>3. \A s \in recorded : s.series = "last_transfer"
           => \E r, c \in Nat : s.of = <<r, c>> /\ NotAfter(r, c, next[1], next[2])
    <3> SUFFICES ASSUME NEW s \in recorded, s.series = "last_transfer"
                 PROVE  \E r, c \in Nat : s.of = <<r, c>> /\ NotAfter(r, c, next[1], next[2])
      OBVIOUS
    <3>1. PICK r \in Nat, c \in Nat : s.of = <<r, c>> /\ NotAfter(r, c, last[1], last[2])
      BY DEF Ordered, ReceiptsInOrder
    <3> HIDE DEF next, last
    <3>2. NotAfter(r, c, next[1], next[2])
      BY <2>1, <3>1, Numbers DEF NotAfter, last
    <3> QED
      BY <3>1, <3>2
  <2>4. \A s \in batch' : s.series = "last_transfer"
           => /\ NewReceipt /\ there /\ s.of = <<now.run, now.receipt>>
    BY Stored DEF NewReceipt
  <2>5. \A s \in batch' : s.series = "last_transfer"
           => \E r, c \in Nat : s.of = <<r, c>> /\ NotAfter(r, c, next[1], next[2])
    <3> HIDE DEF next
    <3> QED
      BY <2>1, <2>4, Numbers DEF NotAfter
  <2>6. \A s \in batch' : s.series = "last_transfer" => s \notin recorded
    <3> SUFFICES ASSUME NEW s \in batch', s.series = "last_transfer", s \in recorded
                 PROVE  FALSE
      OBVIOUS
    <3>1. PICK r \in Nat, c \in Nat : s.of = <<r, c>> /\ NotAfter(r, c, last[1], last[2])
      BY DEF Ordered, ReceiptsInOrder
    <3>2. r = now.run /\ c = now.receipt
      BY <2>4, <3>1
    <3>3. NotAfter(last[1], last[2], r, c)
      BY <2>4, <3>2 DEF Ordered, ReceiptsInOrder
    <3>4. last[1] = r /\ last[2] = c
      BY <3>1, <3>3, Numbers DEF NotAfter
    <3>5. <<now.run, now.receipt>> = last
      BY <3>2, <3>4, Numbers
    <3> QED
      BY <2>4, <3>5 DEF NewReceipt
  <2> HIDE DEF next
  <2>7. ReceiptsInOrder'
    BY <1>1, <1>2, <2>1, <2>2, <2>3, <2>5 DEF ReceiptsInOrder, next
  <2> QED
    BY <1>1, <2>6, <2>7 DEF ReceiptStoredOnce
<1>6. DraftsAgree'
  <2>1. page'.metrics.run # engine.run /\ page'.snapshot.run # engine.run
    BY <1>2, Numbers
  <2> QED
    BY <1>1, <1>2, <2>1 DEF DraftsAgree
<1> QED
  BY <1>3, <1>4, <1>5, <1>6 DEF Ordered

\* The order is kept by every step.
LEMMA OrderedStep == Typed /\ Ordered /\ [Next]_vars => Ordered'
<1> SUFFICES ASSUME Typed, Ordered, [Next]_vars PROVE Ordered'
  OBVIOUS
<1>1. CASE UNCHANGED <<engine, page, carry, batch, recorded, seen>>
  <2>1. CountsInOrder' /\ SpeedsInOrder' /\ SpeedStoredOnce'
    BY <1>1 DEF Ordered, CountsInOrder, SpeedsInOrder, SpeedStoredOnce
  <2>2. ReceiptsInOrder' /\ ReceiptStoredOnce' /\ DraftsAgree'
    BY <1>1 DEF Ordered, ReceiptsInOrder, ReceiptStoredOnce, DraftsAgree
  <2> QED
    BY <2>1, <2>2 DEF Ordered
<1>2. CASE UNCHANGED vars
  BY <1>1, <1>2 DEF vars, sampler, outcome
<1>3. CASE Quiet
  BY <1>1, <1>3, QuietStep
<1>4. CASE Next
  BY <1>3, <1>4, Steps, EngineOrdered, StartOrdered, ReadOrdered, EndOrdered
<1> QED
  BY <1>2, <1>4

\* The invariant holds throughout.
LEMMA OrderHolds == Spec => [](Typed /\ Ordered)
BY InitTyped, TypedStep, InitOrdered, OrderedStep, PTL DEF Spec

\* No request's decode speed is stored twice, over any number of ticks, missed
\* scrapes, absent counters and restarts of the engine.
THEOREM SpeedsAreStoredOnce == Spec => []SpeedStoredOnce
<1>1. Typed /\ Ordered => SpeedStoredOnce
  BY DEF Ordered
<1> QED
  BY <1>1, OrderHolds, PTL

\* No state of a transfer is stored twice.
THEOREM ReceiptsAreStoredOnce == Spec => []ReceiptStoredOnce
<1>1. Typed /\ Ordered => ReceiptStoredOnce
  BY DEF Ordered
<1> QED
  BY <1>1, OrderHolds, PTL

\* A request that completed between two counts of one run has its speed stored.
THEOREM NewSpeedsAreStored == Spec => NewSpeedIsStored
<1>1. Typed /\ Ordered =>
         [LET e == page.metrics
          IN  EndTick /\ e.run > 0 /\ e.run = seen.run /\ e.count > seen.count
                 => Speed(e) \in batch']_vars
  <2> SUFFICES ASSUME Typed, Ordered, EndTick, page.metrics.run > 0,
                      page.metrics.run = seen.run, page.metrics.count > seen.count
               PROVE  Speed(page.metrics) \in batch'
    OBVIOUS
  <2>1. page["metrics"] # NoPages["metrics"]
    BY Fields DEF Typed
  <2>2. status["metrics"] = "ok"
    BY <2>1 DEF Typed, TypeOK, Document
  <2>3. carry.count = seen.count /\ seen.count # NoCount
    BY Numbers DEF Ordered, CountsInOrder
  <2>4. page.metrics.count # NoCount /\ page.metrics.count > carry.count
    BY <2>3, Numbers DEF NoCount
  <2> QED
    BY <2>2, <2>3, <2>4, Stored DEF NewSpeed
<1> QED
  BY <1>1, OrderHolds, PTL DEF NewSpeedIsStored

\* The zeros of an engine without a DFlash runtime are stored by no tick whose
\* two pages are of one run.
THEOREM ZerosAreNotInvented == Spec => NoInventedZero
<1>1. Typed /\ Ordered =>
         [EndTick /\ Dflash(FALSE) \in batch'
            => /\ status["snapshot"] = "ok"
               /\ page.metrics.run # page.snapshot.run]_vars
  <2> SUFFICES ASSUME Typed, Ordered, EndTick, Dflash(FALSE) \in batch'
               PROVE  status["snapshot"] = "ok" /\ page.metrics.run # page.snapshot.run
    OBVIOUS
  <2>1. Dflash(FALSE).series = "dflash" /\ Dflash(FALSE).of = FALSE
    BY DEF Dflash
  <2>2. DflashConfigured /\ page.metrics.drafting = FALSE
    BY <2>1, Stored
  <2>3. status["snapshot"] = "ok" /\ page.snapshot.drafting
    BY <2>2 DEF DflashConfigured
  <2>4. page.metrics.run = page.snapshot.run => page.metrics.drafting = page.snapshot.drafting
    BY DEF Ordered, DraftsAgree
  <2> QED
    BY <2>2, <2>3, <2>4
<1> QED
  BY <1>1, OrderHolds, PTL DEF NoInventedZero
=============================================================================
