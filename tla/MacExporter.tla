---------------------------- MODULE MacExporter ----------------------------
(***************************************************************************)
(* The mac exporter: one supervised powermetrics process that publishes    *)
(* completed frames, and any number of scrapes that share them.  A scrape  *)
(* serves the cached reading while it is fresh; otherwise it queues for    *)
(* the sampling lock, looks at the cache again, and waits for a frame that *)
(* no scrape was given yet.  A scrape is dropped when its client goes.     *)
(*                                                                         *)
(* Time is measured from the events that matter: how long ago a frame was  *)
(* completed, how long the process has been silent, how long a scrape has  *)
(* been waiting.  A time that is at Horizon is Horizon or more.            *)
(***************************************************************************)
EXTENDS Integers, Sequences, SequencesExt

CONSTANTS
    Client,         \* scrapers
    MaxAge,         \* MAX_READING_AGE
    Budget,         \* MAX_BUDGET
    StallBudget,    \* sample_ms + STALL_ALLOWANCE
    RestartDelay,   \* RESTART_DELAY
    Horizon,        \* bound of the times
    MaxGeneration   \* bound of the generations

ASSUME TimeAssumption ==
    /\ MaxAge \in Nat
    /\ Budget \in Nat \ {0}
    /\ StallBudget \in Nat \ {0}
    /\ RestartDelay \in Nat \ {0}
    /\ Horizon \in Nat
    /\ \A t \in {MaxAge, Budget, StallBudget, RestartDelay} : t < Horizon

ASSUME GenerationAssumption == MaxGeneration \in Nat

VARIABLES
    process,    \* the supervisor: not started, running powermetrics, or pausing
    silent,     \* time since the process printed a line, or since the pause began
    assembling, \* a frame has begun: the next header completes it
    published,  \* what the watch channel holds
    completed,  \* per generation: time since its frame was completed
    served,     \* served_generation
    cached,     \* the generation of the cached reading
    line,       \* the scrapes that hold or wait for the sampling lock
    pc,         \* where each scrape is
    waited,     \* time the holder of the lock has spent in sample()
    lastServed, \* the served generation the holder read when it began
    handed,     \* history, per generation: time since a scrape was given it
    answer      \* history: the last answer of a scrape: the reading, its age when
                \* the scrape asked for it, and since when it is handed out

vars == <<process, silent, assembling, published, completed, served, cached,
          line, pc, waited, lastServed, handed, answer>>
supervisor == <<process, silent, assembling>>

-----------------------------------------------------------------------------
(* Values *)

Generation == 1..MaxGeneration
NoReading == 0
Time == 0..Horizon
NotYet == -1

Later(t) == IF t \in 0..(Horizon - 1) THEN t + 1 ELSE t

Reading(g, wait) ==
    [reading |-> g,
     age |-> IF completed[g] > wait THEN completed[g] - wait ELSE 0,
     apart |-> IF handed[g] = NotYet THEN 0 ELSE handed[g]]

Down == [reading |-> NoReading, age |-> 0, apart |-> 0]

Init ==
    /\ process = "off" /\ silent = 0 /\ assembling = FALSE
    /\ published = [generation |-> 0, outcome |-> "none"]
    /\ completed = [g \in Generation |-> NotYet]
    /\ served = 0
    /\ cached = NoReading
    /\ line = <<>>
    /\ pc = [c \in Client |-> "idle"]
    /\ waited = 0 /\ lastServed = 0
    /\ handed = [g \in Generation |-> NotYet]
    /\ answer = Down

Tick ==
    /\ silent' = Later(silent)
    /\ waited' = IF \E c \in Client : pc[c] = "sampling" THEN Later(waited) ELSE 0
    /\ completed' = [g \in Generation |-> Later(completed[g])]
    /\ handed' = [g \in Generation |-> Later(handed[g])]
    /\ UNCHANGED <<process, assembling, published, served, cached, line, pc,
                   lastServed, answer>>

-----------------------------------------------------------------------------
(* The supervisor and its process *)

Publish(outcome) ==
    /\ published.generation < MaxGeneration
    /\ published' = [generation |-> published.generation + 1,
                     outcome |-> outcome]

\* The header of a frame completes the frame before it.
Header ==
    /\ process = "running"
    /\ silent' = 0
    /\ assembling' = TRUE
    /\ IF assembling
       THEN /\ Publish("frame")
            /\ completed' = [completed EXCEPT ![published'.generation] = 0]
       ELSE UNCHANGED <<published, completed>>
    /\ UNCHANGED <<process, served, cached, line, pc, waited, lastServed,
                   handed, answer>>

OtherLine ==
    /\ process = "running"
    /\ silent' = 0
    /\ UNCHANGED <<process, assembling, published, completed, served, cached,
                   line, pc, waited, lastServed, handed, answer>>

\* The process cannot be spawned, exits, fails to be read, or prints what is
\* not text or too long a frame.  What was being assembled is dropped.
RunEnds ==
    /\ process = "running"
    /\ Publish("error")
    /\ process' = "pausing"
    /\ silent' = 0
    /\ assembling' = FALSE
    /\ UNCHANGED <<completed, served, cached, line, pc, waited, lastServed,
                   handed, answer>>

\* It printed nothing for too long: it is killed.
Stall == silent >= StallBudget /\ RunEnds

RunAgain ==
    /\ process = "pausing"
    /\ silent >= RestartDelay
    /\ process' = "running"
    /\ silent' = 0
    /\ UNCHANGED <<assembling, published, completed, served, cached, line, pc,
                   waited, lastServed, handed, answer>>

-----------------------------------------------------------------------------
(* A scrape *)

Fresh == cached # NoReading /\ completed[cached] <= MaxAge

Serve(g, wait) ==
    /\ answer' = Reading(g, wait)
    /\ handed' = [handed EXCEPT ![g] = IF @ = NotYet THEN 0 ELSE @]

\* Mutation: whoever goes, the head of the line goes.
HeadReleased(c) ==
    /\ line' = Tail(line)
    /\ pc' = [pc EXCEPT ![c] = "idle"]

Release(c) ==
    /\ \E i \in DOMAIN line : line[i] = c /\ line' = RemoveAt(line, i)
    /\ pc' = [pc EXCEPT ![c] = "idle"]

ServeCached(c) ==
    /\ pc[c] = "idle"
    /\ Fresh
    /\ Serve(cached, 0)
    /\ UNCHANGED <<supervisor, published, completed, served, cached, line, pc,
                   waited, lastServed>>

Enqueue(c) ==
    /\ pc[c] = "idle"
    /\ ~Fresh
    /\ line' = Append(line, c)
    /\ pc' = [pc EXCEPT ![c] = "queued"]
    /\ UNCHANGED <<supervisor, published, completed, served, cached, waited,
                   lastServed, handed, answer>>

HasLock(c) == line # <<>> /\ Head(line) = c

\* Mutation: the cache is not looked at again under the lock.
NeverRefreshed == FALSE

\* Another scrape refreshed the cache while this one waited for the lock.
Refreshed == Fresh

ServeRefreshed(c) ==
    /\ HasLock(c) /\ pc[c] = "queued"
    /\ Refreshed
    /\ Serve(cached, 0)
    /\ Release(c)
    /\ UNCHANGED <<supervisor, published, completed, served, cached, waited,
                   lastServed>>

\* The first sample starts the supervisor.
BeginSample(c) ==
    /\ HasLock(c) /\ pc[c] = "queued"
    /\ ~Refreshed
    /\ pc' = [pc EXCEPT ![c] = "sampling"]
    /\ waited' = 0
    /\ lastServed' = served
    /\ IF process = "off"
       THEN process' = "running" /\ silent' = 0
       ELSE UNCHANGED <<process, silent>>
    /\ UNCHANGED <<assembling, published, completed, served, cached, line,
                   handed, answer>>

\* Mutation: the frame that was served last is good enough.
AnyFrame == published.outcome = "frame" /\ published.generation >= lastServed

NewFrame == published.outcome = "frame" /\ published.generation > lastServed

TakeFrame(c) ==
    /\ pc[c] = "sampling"
    /\ NewFrame
    /\ served' = published.generation
    /\ cached' = published.generation
    /\ Serve(published.generation, waited)
    /\ Release(c)
    /\ UNCHANGED <<supervisor, published, completed, waited, lastServed>>

TakeError(c) ==
    /\ pc[c] = "sampling"
    /\ published.outcome = "error"
    /\ answer' = Down
    /\ Release(c)
    /\ UNCHANGED <<supervisor, published, completed, served, cached, waited,
                   lastServed, handed>>

\* Mutation: the wait for a frame has no timeout.
NeverOverdue == FALSE

Overdue == waited >= Budget

\* The wait is polled once more before the timer is.
GiveUp(c) ==
    /\ pc[c] = "sampling"
    /\ Overdue
    /\ ~NewFrame /\ published.outcome # "error"
    /\ answer' = Down
    /\ Release(c)
    /\ UNCHANGED <<supervisor, published, completed, served, cached, waited,
                   lastServed, handed>>

\* The client closes its connection and the server drops the scrape.
Disconnect(c) ==
    /\ pc[c] # "idle"
    /\ Release(c)
    /\ UNCHANGED <<supervisor, published, completed, served, cached, waited,
                   lastServed, handed, answer>>

-----------------------------------------------------------------------------
Supervisor == Header \/ OtherLine \/ RunEnds \/ Stall \/ RunAgain

\* What the runtime does of itself once a scrape has begun.
Scrape(c) ==
    \/ ServeRefreshed(c) \/ BeginSample(c)
    \/ TakeFrame(c) \/ TakeError(c) \/ GiveUp(c)

Next ==
    \/ Tick
    \/ Supervisor
    \/ \E c \in Client :
          ServeCached(c) \/ Enqueue(c) \/ Scrape(c) \/ Disconnect(c)

\* Time goes on and the runtime polls what is ready.  Nothing is assumed of
\* powermetrics, nor of the clients.
Fairness == WF_vars(Tick) /\ \A c \in Client : WF_vars(Scrape(c))

Spec == Init /\ [][Next]_vars /\ Fairness

-----------------------------------------------------------------------------
(* Properties *)

\* A scrape is in line from its question to its answer, at one place.
InLineOnce ==
    /\ line \in Seq(Client)
    /\ \A i, j \in DOMAIN line : line[i] = line[j] => i = j
    /\ \A c \in Client : pc[c] = "idle" <=> \A i \in DOMAIN line : line[i] # c

TypeOK ==
    /\ process \in {"off", "running", "pausing"}
    /\ silent \in Time /\ waited \in Time
    /\ assembling \in BOOLEAN
    /\ published \in [generation: Generation \union {0},
                      outcome: {"none", "frame", "error"}]
    /\ completed \in [Generation -> Time \union {NotYet}]
    /\ handed \in [Generation -> Time \union {NotYet}]
    /\ served \in 0..published.generation
    /\ lastServed \in 0..served
    /\ cached \in {NoReading, served}
    /\ pc \in [Client -> {"idle", "queued", "sampling"}]
    /\ InLineOnce
    /\ \A c \in Client : pc[c] = "sampling" => HasLock(c)
    /\ answer \in [reading: Generation \union {NoReading}, age: Time,
                   apart: Time]

\* Two scrapes that are more than MaxAge apart are never given the same
\* measurement, whatever scrapes, failures and disconnections come between:
\* a console that scrapes once a second never stores one frame as two samples.
ScrapesApartRemeasure == answer.apart <= MaxAge

\* A scrape reports that the source is down only when no fresh reading is
\* cached; a burst that shares a frame is never told both things.  It is what
\* lets the failure branch leave the cache alone.
DownMeansNothingFresh ==
    [][\A c \in Client : TakeError(c) \/ GiveUp(c) => ~Fresh]_vars

\* Every scrape is answered, or its client has gone, however long powermetrics
\* says nothing and however many scrapes wait before it.
EveryScrapeIsAnswered ==
    \A c \in Client : pc[c] = "queued" ~> pc[c] = "idle"

-----------------------------------------------------------------------------
(* What the documentation says *)

\* A reading past MaxAge is not served at all.  The time a reading aged while
\* its scrape was already sampling is not held against it: this is about one
\* that was too old before the scrape asked.
NoStaleReading == answer.age <= MaxAge
=============================================================================
