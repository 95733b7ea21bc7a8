----------------------------- MODULE Gx10Exporter -----------------------------
(***************************************************************************)
(* The exporter of the GPUs, from the driver to the rows of the console:   *)
(* NVML is opened when a scrape needs it and kept until it fails, scrapes  *)
(* queue for it, its answers are written as an exposition, and the console *)
(* reads that and stores what is in its catalog.                           *)
(*                                                                         *)
(* The driver and its library are external: they come, go and are reloaded *)
(* at any moment, and any probe may fail.  A library opened before a       *)
(* reload answers no call after it.  A scrape runs to its end on the       *)
(* blocking pool even when its client has left.                            *)
(***************************************************************************)
EXTENDS Exposition, FiniteSets, TLC

CONSTANTS
    Scrapes,        \* slots for scrapes in progress at the same time
    Candidates,     \* the names the library may have, in the order tried
    Count,          \* devices of the driver
    Answers,        \* what the probes of one device may answer
    MAX_AGENT_GPUS, \* devices the catalog has names for
    NoScrape,       \* nobody, where a scrape may be
    Down, Unread,   \* a scrape without an answer, a probe that failed
    MaxReloads      \* Bound: changes of the driver

ASSUME Gx10Assumption ==
    /\ NoScrape \notin Scrapes
    /\ Count \in Nat /\ MAX_AGENT_GPUS \in Nat /\ MaxReloads \in Nat
    /\ Candidates \in Seq(STRING)
    /\ Numerals \subseteq STRING /\ Numerals \cap Punctuation = {}
    /\ Unread \notin Nat
    /\ NoSample \notin STRING \cup Seq(STRING)
    /\ NoSample \notin [metric : STRING, labels : Seq(STRING \X Seq(STRING)), value : STRING]

\* Strings are the driver's, of any length and content; numbers are unsigned.
ASSUME AnswerAssumption ==
    Answers \subseteq
        [uuid : Seq(STRING) \cup {Unread}, name : Seq(STRING) \cup {Unread},
         percent : Nat \cup {Unread}, milliwatts : Nat \cup {Unread},
         celsius : Nat \cup {Unread}, memory : [used : Nat, total : Nat] \cup {Unread}]

VARIABLES
    driver,         \* its library's names, those that work, and its generation
    library,        \* the generation the library was opened at; 0 when it is not open
    opened, inits,  \* dlopen and nvmlInit calls that were not undone
    lock,           \* the scrape that holds the source, NoScrape when it is free
    scrape          \* where each scrape is

vars == <<driver, library, opened, inits, lock, scrape>>

\* next is the candidate to open, and later the device to probe.
Idle ==
    [at |-> "idle", next |-> 1, heard |-> FALSE, outcome |-> <<>>, rows |-> {}]

Init ==
    /\ \E names \in {{}, Range(Candidates)} :
          driver = [names |-> names, works |-> names, generation |-> 1]
    /\ library = 0 /\ opened = 0 /\ inits = 0 /\ lock = NoScrape
    /\ scrape = [t \in Scrapes |-> Idle]

At(t, point) == scrape[t].at = point
Go(t, point) == scrape' = [scrape EXCEPT ![t].at = point]

-----------------------------------------------------------------------------
(* The driver *)

DriverChanges ==
    /\ driver.generation <= MaxReloads
    /\ \E names \in SUBSET Range(Candidates) : \E works \in SUBSET names :
          driver' = [names |-> names, works |-> works, generation |-> driver.generation + 1]
    /\ UNCHANGED <<library, opened, inits, lock, scrape>>

\* Calls through the library are answered: it worked when it was opened.
Answering == library = driver.generation

-----------------------------------------------------------------------------
(* NvmlSource::scrape, under its mutex *)

Begin(t) ==
    /\ At(t, "idle")
    /\ scrape' = [scrape EXCEPT ![t] = [Idle EXCEPT !.at = "waiting", !.heard = TRUE]]
    /\ UNCHANGED <<driver, library, opened, inits, lock>>

Acquire(t) ==
    /\ At(t, "waiting") /\ lock = NoScrape
    /\ lock' = t
    /\ Go(t, IF library = 0 THEN "opening" ELSE "counting")
    /\ UNCHANGED <<driver, library, opened, inits>>

\* The outcome, a sequence of devices or Down, is known and the mutex is free again.
Finish(t, outcome) ==
    /\ lock' = NoScrape
    /\ scrape' = [scrape EXCEPT ![t].at = "answered", ![t].outcome = outcome]

\* dlopen of the next candidate, or of none.
Open(t) ==
    /\ At(t, "opening")
    /\ IF scrape[t].next > Len(Candidates)
       THEN Finish(t, Down) /\ UNCHANGED opened
       ELSE /\ IF Candidates[scrape[t].next] \in driver.names
               THEN Go(t, "resolving") /\ opened' = opened + 1
               ELSE scrape' = [scrape EXCEPT ![t].next = @ + 1] /\ UNCHANGED opened
            /\ UNCHANGED lock
    /\ UNCHANGED <<driver, library, inits>>

\* Mutation: the next candidate is tried without a dlclose of this one.
ResolveLeaking(t) ==
    /\ At(t, "resolving")
    /\ \/ /\ Candidates[scrape[t].next] \in driver.works
          /\ library' = driver.generation /\ inits' = inits + 1
          /\ Go(t, "counting")
       \/ /\ UNCHANGED <<library, inits>>
          /\ scrape' = [scrape EXCEPT ![t].at = "opening", ![t].next = @ + 1]
    /\ UNCHANGED <<driver, lock, opened>>

\* Every symbol, then nvmlInit: all of it, or the handle is closed again.
Resolve(t) ==
    /\ At(t, "resolving")
    /\ IF Candidates[scrape[t].next] \in driver.works
       THEN /\ library' = driver.generation /\ inits' = inits + 1
            /\ Go(t, "counting")
            /\ UNCHANGED opened
       ELSE /\ opened' = opened - 1
            /\ scrape' = [scrape EXCEPT ![t].at = "opening", ![t].next = @ + 1]
            /\ UNCHANGED <<library, inits>>
    /\ UNCHANGED <<driver, lock>>

Start(t) == scrape' = [scrape EXCEPT ![t].at = "probing", ![t].next = 0]

\* Mutation: a library that does not answer is kept.
CountKeeping(t) ==
    /\ At(t, "counting")
    /\ IF Answering THEN Start(t) /\ UNCHANGED lock
       ELSE Finish(t, Down)
    /\ UNCHANGED <<driver, library, opened, inits>>

\* nvmlDeviceGetCount.  When it fails the library is shut down and closed, and
\* the next scrape opens it anew.
CountDevices(t) ==
    /\ At(t, "counting")
    /\ IF Answering
       THEN Start(t) /\ UNCHANGED <<library, opened, inits, lock>>
       ELSE /\ Finish(t, Down)
            /\ library' = 0 /\ opened' = opened - 1 /\ inits' = inits - 1
    /\ UNCHANGED driver

\* A device: its index, and what its probes answered.
Device(index, answer) ==
    [field \in DOMAIN answer \cup {"index"} |-> IF field = "index" THEN index ELSE answer[field]]

\* One device, each of its probes by itself; without a handle it is left out.
ProbeDevice(t) ==
    /\ At(t, "probing") /\ scrape[t].next < Count
    /\ scrape' = [scrape EXCEPT ![t].next = @ + 1]
       \/ /\ Answering
          /\ \E answer \in Answers :
                scrape' = [scrape EXCEPT ![t].next = @ + 1,
                    ![t].outcome = Append(@, Device(scrape[t].next, answer))]
    /\ UNCHANGED <<driver, library, opened, inits, lock>>

EndProbes(t) ==
    /\ At(t, "probing") /\ scrape[t].next = Count
    /\ Finish(t, scrape[t].outcome)
    /\ UNCHANGED <<driver, library, opened, inits>>

-----------------------------------------------------------------------------
(* The exposition.  Every unit is kept in thousandths of the published one. *)

Metric == [utilization |-> "muser_gpu_utilization_ratio", power |-> "muser_gpu_power_watts",
           temperature |-> "muser_gpu_temperature_celsius",
           used |-> "muser_gpu_memory_used_bytes", total |-> "muser_gpu_memory_total_bytes"]

\* The words there are in an exposition, strings like all text.
Words == {"n", "HELP", "TYPE", "gpu", "uuid", "name", "agent", "gx10",
          "muser_agent_up", "muser_agent_scrape_duration_seconds"}
             \cup {Metric[field] : field \in DOMAIN Metric}

ASSUME WordAssumption == Words \cup Punctuation \subseteq STRING

\* The families in the order they are written.
Families == <<"utilization", "power", "temperature", "used", "total">>

\* NVML's percent, milliwatts, degrees and bytes, as what is published.
Reading(device, field) ==
    CASE field = "utilization" /\ device.percent # Unread    -> device.percent * 10
      [] field = "power" /\ device.milliwatts # Unread       -> device.milliwatts
      [] field = "temperature" /\ device.celsius # Unread    -> device.celsius * 1000
      [] field = "used" /\ device.memory # Unread            -> device.memory.used * 1000
      [] field = "total" /\ device.memory # Unread           -> device.memory.total * 1000
      [] OTHER                                               -> Unread

\* The numbers an exposition may hold, or the console may ask for.
Printed == 0..(Count + MAX_AGENT_GPUS) \cup {1} \cup
           ({Reading(a, f) : a \in Answers, f \in DOMAIN Metric} \ {Unread})

\* A number prints as a numeral, and no two print alike.
ASSUME PrintAssumption ==
    /\ ToString(0) = "0"
    /\ \A m \in Printed : ToString(m) \in Numerals
    /\ \A m, n \in Printed : ToString(m) = ToString(n) => m = n

Label(key, text) == <<key, "=", QUOTE>> \o text \o <<QUOTE>>

labels(device) ==
    Label("gpu", <<ToString(device.index)>>)
        \o (IF device.uuid = Unread THEN <<>> ELSE <<",">> \o Label("uuid", escape(device.uuid)))
        \o (IF device.name = Unread THEN <<>> ELSE <<",">> \o Label("name", escape(device.name)))

Line(metric, text, number) == <<metric, "{">> \o text \o <<"}", SPACE, ToString(number)>>

\* Without an answer, that and nothing else.
render(outcome) ==
    LET agent == Label("agent", <<"gx10">>)
        Published(d, field) ==
            IF Reading(d, field) = Unread THEN <<>>
            ELSE <<Line(Metric[field], labels(d), Reading(d, field))>>
    IN  IF outcome = Down THEN family("muser_agent_up", <<Line("muser_agent_up", agent, 0)>>)
        ELSE family("muser_agent_up", <<Line("muser_agent_up", agent, 1)>>)
             \o family("muser_agent_scrape_duration_seconds",
                        <<Line("muser_agent_scrape_duration_seconds", agent, 1)>>)
             \o FlattenSeq([f \in DOMAIN Families |->
                    family(Metric[Families[f]],
                           FlattenSeq([i \in DOMAIN outcome |->
                               Published(outcome[i], Families[f])]))])

-----------------------------------------------------------------------------
(* The console *)

\* The series there are names for.
AGENT_CATALOG == (0..(MAX_AGENT_GPUS - 1)) \X DOMAIN Metric

\* collect_agent: nothing of an exporter whose source did not answer, and of
\* the others the series of the catalog that are there.
collect_agent(samples) ==
    IF value(samples, "muser_agent_up") = "0" THEN {}
    ELSE {row \in {<<c[1], c[2],
                     labeled_value(samples, Metric[c[2]], "gpu", <<ToString(c[1])>>)>> :
                      c \in AGENT_CATALOG} : row[3] # NoSample}

\* What was found, and that with one device more.
Further(found, index) ==
    found \cup {Append(o, Device(index, answer)) : o \in found, answer \in Answers}

\* What a scrape may have found when n devices were probed, in their order.
Found[n \in 0..Count] == IF n = 0 THEN {<<>>} ELSE Further(Found[n - 1], n - 1)

\* All that a scrape may find, and what the console reads of it.
Outcomes == Found[Count] \cup {Down}

Received == [outcome \in Outcomes |-> parse(render(outcome))]

\* The document is written; who asked for it may not be there any more.
Respond(t) ==
    /\ At(t, "answered")
    /\ scrape' = [scrape EXCEPT ![t] =
          IF ~ @.heard THEN Idle
          ELSE [@ EXCEPT !.at = "stored",
                         !.rows = collect_agent(Received[scrape[t].outcome])]]
    /\ UNCHANGED <<driver, library, opened, inits, lock>>

Forget(t) ==
    /\ At(t, "stored")
    /\ scrape' = [scrape EXCEPT ![t] = Idle]
    /\ UNCHANGED <<driver, library, opened, inits, lock>>

Leave(t) ==
    /\ scrape[t].heard /\ ~ At(t, "stored")
    /\ scrape' = [scrape EXCEPT ![t].heard = FALSE]
    /\ UNCHANGED <<driver, library, opened, inits, lock>>

\* The blocking task and the response, once asked for.
Proceed(t) ==
    \/ Acquire(t) \/ Open(t) \/ Resolve(t) \/ CountDevices(t)
    \/ ProbeDevice(t) \/ EndProbes(t) \/ Respond(t) \/ Forget(t)

Next == DriverChanges \/ \E t \in Scrapes : Begin(t) \/ Leave(t) \/ Proceed(t)

\* Scrapes in progress go on: NVML's calls return, and the mutex is handed on.
\* Nobody has to scrape, and nothing is assumed of the driver.
Spec == Init /\ [][Next]_vars /\ \A t \in Scrapes : WF_vars(Proceed(t))

-----------------------------------------------------------------------------
(* Properties *)

Holding == {"opening", "resolving", "counting", "probing"}

\* Each dlopen is undone by a dlclose and each nvmlInit by an nvmlShutdown,
\* but for the one library that is held, however the driver comes and goes
\* and at whatever candidate or call an attempt fails; and only the scrape
\* with the mutex is between them.
HandlesBalanced ==
    /\ inits = (IF library = 0 THEN 0 ELSE 1)
    /\ opened = inits + Cardinality({t \in Scrapes : At(t, "resolving")})
    /\ \A t \in Scrapes : scrape[t].at \in Holding <=> lock = t
    /\ \A t \in Scrapes : scrape[t].at \in {"counting", "probing"} => library # 0

\* What is stored for a scrape is what the driver answered in this scrape, by
\* device and field, in the units of the series, for the devices the catalog
\* names: no field filled in for a probe that failed, nothing at all when the
\* source did not answer, and the strings of the driver read back as it gave
\* them.  The way there is the exposition, its escapes and the parser.
StoredAsProbed ==
    \A t \in Scrapes : At(t, "stored") =>
        LET outcome == scrape[t].outcome
            samples == Received[outcome]
            Asked(name, k) == label(samples[k], name)
        IN  IF outcome = Down THEN scrape[t].rows = {}
            ELSE /\ scrape[t].rows =
                     UNION {{<<d.index, f, ToString(Reading(d, f))>> :
                                f \in {g \in DOMAIN Metric : Reading(d, g) # Unread}} :
                            d \in {e \in Range(outcome) : e.index < MAX_AGENT_GPUS}}
                 /\ \A k \in DOMAIN samples :
                        Asked("gpu", k) # NoSample =>
                        \E d \in Range(outcome) :
                            /\ Asked("gpu", k) = <<ToString(d.index)>>
                            /\ d.name # Unread => Asked("name", k) = d.name
                            /\ d.uuid # Unread => Asked("uuid", k) = d.uuid

\* When the driver comes to stay with a library that works under some name (it
\* changes MaxReloads times at most, so that working for ever is working
\* unchanged), there comes a time when no scrape has Down for its outcome any
\* more, with the exporter as it was: a library of an earlier driver is given
\* up, and one that fails does not keep a later name from being tried.
RecoversWithoutRestart ==
    <>[](driver.works # {}) => <>[](\A t \in Scrapes : scrape[t].outcome # Down)
=============================================================================
