---------------------------- MODULE HistoryStore ----------------------------
(***************************************************************************)
(* The rolling history store: one database, one writer thread, one channel *)
(* of commands.  The sampler stamps a tick with the wall clock, fetches,   *)
(* and sends its batch without waiting; the maintenance task sends a pass  *)
(* with the clock it read and waits for the answer.  The writer takes the  *)
(* commands in order: a batch is one transaction; a pass is a retention    *)
(* delete, committed by itself, and then one transaction that replaces     *)
(* every old bucket of rows with their aggregate.                          *)
(*                                                                         *)
(* The wall clock may be stepped back, and a suspended machine makes it    *)
(* jump ahead.  The process may be killed between any two steps; it loses  *)
(* what is in the channel and starts again on the same file.               *)
(*                                                                         *)
(* A stored value is abstracted to the samples it was computed from: a     *)
(* gauge to the set it averages and whether it is their plain mean, a      *)
(* counter to the one sample whose value it is.                            *)
(***************************************************************************)
EXTENDS Integers, Sequences, FiniteSets

CONSTANTS
    Series,         \* the (instance, series) pairs
    Counter,        \* the ones whose kind is counter; the others are gauges
    Tag,            \* honesty tags
    Width,          \* BUCKET_MS
    RawWindow,      \* RAW_WINDOW_MS
    Retention,      \* retention_days
    MaxBack,        \* how far below its highest reading the clock may step
    MaxLag,         \* how long a tick may take, by the clock
    MaxClock, MaxTicks, MaxQueue    \* bounds of the clock, the ticks, the channel

\* A day is a whole number of buckets, and retention_days is at least one.
ASSUME WindowAssumption ==
    /\ Width \in Nat \ {0}
    /\ RawWindow \in Nat
    /\ Retention \in Nat
    /\ RawWindow <= Retention

\* No tick takes a day, and nobody sets the clock back by a day.
ASSUME LatenessAssumption ==
    /\ MaxBack \in 0..RawWindow
    /\ MaxLag \in 0..RawWindow

ASSUME BoundAssumption ==
    /\ MaxClock \in Nat
    /\ MaxTicks \in Nat
    /\ MaxQueue \in Nat
    /\ Counter \subseteq Series

VARIABLES
    clock,      \* the wall clock
    peak,       \* history: the highest it has been
    stamp,      \* the time of the sampler's tick in progress
    ticks,      \* how many ticks sent a batch
    queue,      \* the commands in the channel
    rows,       \* the table
    expiring,   \* the pass that has done its retention delete, if any
    passed      \* history: the pass that was the writer's last command

vars == <<clock, peak, stamp, ticks, queue, rows, expiring, passed>>

-----------------------------------------------------------------------------
(* Values *)

NoTime == -1

Sample == [series: Series, tick: 1..MaxTicks, ts: 0..MaxClock, tag: Tag]
Row == [series: Series, ts: 0..MaxClock, of: SUBSET Sample, exact: BOOLEAN,
        tag: Tag]

Write(batch) == [op |-> "write", batch |-> batch, now |-> NoTime]
Maintain(now) == [op |-> "maintain", batch |-> {}, now |-> now]

Commands ==
    [op: {"write"}, batch: SUBSET Sample, now: {NoTime}]
        \union [op: {"maintain"}, batch: {{}}, now: 0..MaxClock]

Stored(s) ==
    [series |-> s.series, ts |-> s.ts, of |-> {s}, exact |-> TRUE,
     tag |-> s.tag]

Bucket(ts) == (ts \div Width) * Width

Held == UNION {r.of : r \in rows}

Init ==
    /\ clock = 0 /\ peak = 0
    /\ stamp = NoTime
    /\ ticks = 0
    /\ queue = <<>>
    /\ rows = {}
    /\ expiring = NoTime
    /\ passed = NoTime

-----------------------------------------------------------------------------
(* The clock, the sampler and the maintenance task *)

\* The clock goes on, jumps ahead over a suspension, or is stepped back.
SetClock ==
    /\ clock' \in 0..MaxClock
    /\ clock' # clock
    /\ clock' >= peak - MaxBack
    /\ stamp # NoTime => clock' <= stamp + MaxLag
    /\ peak' = IF clock' > peak THEN clock' ELSE peak
    /\ UNCHANGED <<stamp, ticks, queue, rows, expiring, passed>>

\* One timestamp for every source in the tick.
StartTick ==
    /\ stamp = NoTime
    /\ ticks < MaxTicks
    /\ stamp' = clock
    /\ UNCHANGED <<clock, peak, ticks, queue, rows, expiring, passed>>

\* The sources that answered gave at most one sample of each series.
EndTick ==
    /\ stamp # NoTime
    /\ Len(queue) < MaxQueue
    /\ \E measured \in SUBSET Series :
          \E tag \in [measured -> Tag] :
             LET batch == {[series |-> s, tick |-> ticks + 1, ts |-> stamp,
                            tag |-> tag[s]] : s \in measured}
             IN  /\ measured # {}
                 /\ queue' = Append(queue, Write(batch))
                 /\ ticks' = ticks + 1
    /\ stamp' = NoTime
    /\ UNCHANGED <<clock, peak, rows, expiring, passed>>

\* Nothing measured: nothing is sent.
EndEmptyTick ==
    /\ stamp # NoTime
    /\ stamp' = NoTime
    /\ UNCHANGED <<clock, peak, ticks, queue, rows, expiring, passed>>

\* Mutation: the answer to a pass is not awaited.
NotAwaited == TRUE

Answered == \A c \in DOMAIN queue : queue[c].op # "maintain"

\* The maintenance task waits for the answer to its pass before the next one.
StartPass ==
    /\ Answered
    /\ Len(queue) < MaxQueue
    /\ queue' = Append(queue, Maintain(clock))
    /\ UNCHANGED <<clock, peak, stamp, ticks, rows, expiring, passed>>

-----------------------------------------------------------------------------
(* The writer thread *)

Take(op) == queue # <<>> /\ Head(queue).op = op

SameKey(r, s) == r.series = s.series /\ r.ts = s.ts

\* INSERT OR REPLACE of every sample, in one transaction.
WriteBatch ==
    /\ Take("write")
    /\ LET batch == Head(queue).batch
       IN  rows' = {r \in rows : ~ \E s \in batch : SameKey(r, s)}
                      \union {Stored(s) : s \in batch}
    /\ queue' = Tail(queue)
    /\ passed' = NoTime
    /\ UNCHANGED <<clock, peak, stamp, ticks, expiring>>

\* The database refuses the batch (a full disk): the batch is gone, the
\* failure is logged, and the next command is taken.
WriteFails ==
    /\ Take("write")
    /\ queue' = Tail(queue)
    /\ passed' = NoTime
    /\ UNCHANGED <<clock, peak, stamp, ticks, rows, expiring>>

\* Retention first, in a transaction of its own.
Expire ==
    /\ Take("maintain")
    /\ expiring = NoTime
    /\ rows' = {r \in rows : r.ts >= Head(queue).now - Retention}
    /\ expiring' = Head(queue).now
    /\ passed' = NoTime
    /\ UNCHANGED <<clock, peak, stamp, ticks, queue>>

\* Mutation: the cutoff is aligned up.
CutoffAbove(now) == ((now - RawWindow) \div Width) * Width + Width

Cutoff(now) == ((now - RawWindow) \div Width) * Width

\* The rows the pass groups into the bucket b of series s.
Group(s, b, now) ==
    {r \in rows : r.series = s /\ r.ts < Cutoff(now) /\ Bucket(r.ts) = b}

\* Mutation: any single row counts as collapsed.
SingleRow(b, group) == Cardinality(group) = 1

\* A single aligned row is left as it is.
Collapsed(b, group) == Cardinality(group) = 1 /\ \A r \in group : r.ts = b

Newest(group) == CHOOSE r \in group : \A q \in group : q.ts <= r.ts

\* Mutation: the counter keeps the first value of the bucket.
FirstValue(s, group) ==
    IF s \in Counter
    THEN (CHOOSE r \in group : \A q \in group : q.ts >= r.ts).of
    ELSE UNION {r.of : r \in group}

\* The samples the new value is computed from: the mean of a gauge, the last
\* of a counter.
AggregateOf(s, group) ==
    IF s \in Counter THEN Newest(group).of ELSE UNION {r.of : r \in group}

\* The mean of the rows is the mean of their samples if every row counts for
\* as many samples as the others.
PlainMean(group) ==
    \A r, q \in group : r.exact /\ Cardinality(r.of) = Cardinality(q.of)

\* Its source and honesty are those of the newest row.
Aggregate(s, b, group) ==
    [series |-> s, ts |-> b, of |-> AggregateOf(s, group),
     exact |-> s \in Counter \/ PlainMean(group), tag |-> Newest(group).tag]

\* Mutation: the last row of the bucket is not deleted.
DeletedShort(s, b) == {r \in rows : r.series = s /\ b <= r.ts /\ r.ts < b + Width - 1}

Deleted(s, b) == {r \in rows : r.series = s /\ b <= r.ts /\ r.ts < b + Width}

Candidates(now) ==
    {k \in Series \X (0..MaxClock) :
        LET group == Group(k[1], k[2], now)
        IN  group # {} /\ ~ Collapsed(k[2], group)}

Collapse ==
    /\ expiring # NoTime
    /\ rows' = (rows \ UNION {Deleted(k[1], k[2]) : k \in Candidates(expiring)})
                  \union {Aggregate(k[1], k[2], Group(k[1], k[2], expiring)) :
                             k \in Candidates(expiring)}
    /\ queue' = Tail(queue)
    /\ passed' = expiring
    /\ expiring' = NoTime
    /\ UNCHANGED <<clock, peak, stamp, ticks>>

\* The database refuses the delete, or the transaction after it.
PassFails ==
    /\ Take("maintain")
    /\ queue' = Tail(queue)
    /\ expiring' = NoTime
    /\ passed' = NoTime
    /\ UNCHANGED <<clock, peak, stamp, ticks, rows>>

\* The process is killed, and started again later: the channel and the tick
\* in progress are lost, the file is what the last commit left.
Restart ==
    /\ queue' = <<>>
    /\ stamp' = NoTime
    /\ expiring' = NoTime
    /\ passed' = NoTime
    /\ UNCHANGED <<clock, peak, ticks, rows>>

-----------------------------------------------------------------------------
Sampler == StartTick \/ EndTick \/ EndEmptyTick
Writer == WriteBatch \/ WriteFails \/ Expire \/ Collapse \/ PassFails

Next == SetClock \/ Sampler \/ StartPass \/ Writer \/ Restart

Spec == Init /\ [][Next]_vars

-----------------------------------------------------------------------------
(* Properties *)

TypeOK ==
    /\ clock \in 0..MaxClock
    /\ peak \in 0..MaxClock
    /\ stamp \in 0..MaxClock \union {NoTime}
    /\ ticks \in 0..MaxTicks
    /\ queue \in Seq(Commands)
    /\ \A c, d \in DOMAIN queue :      \* one maintenance task, one pass at a time
          queue[c].op = "maintain" /\ queue[d].op = "maintain" => c = d
    /\ rows \subseteq Row
    /\ expiring # NoTime => Take("maintain") /\ Head(queue).now = expiring
    /\ expiring \in 0..MaxClock \union {NoTime}
    /\ passed \in 0..MaxClock \union {NoTime}

\* Nothing is invented and nothing counts twice: a row stands for samples of
\* its own series that were measured within its bucket, no two rows have the
\* same key, and no sample is part of two rows.
RowsAreMeasured ==
    /\ \A r \in rows :
          /\ r.of # {}
          /\ \A s \in r.of : s.series = r.series /\ Bucket(s.ts) = Bucket(r.ts)
    /\ \A r, q \in rows : r # q => ~ SameKey(r, q) /\ r.of \intersect q.of = {}

\* However passes, restarts, failures and clock steps are interleaved with
\* the ticks, no gauge is ever averaged twice: each stored gauge is the plain
\* mean of the samples it stands for.
MeansAreExact == \A r \in rows : r.exact

\* A sample of the last 24 hours is stored as it was measured, with its own
\* timestamp and honesty.
RawWindowIntact ==
    \A r \in rows : \A s \in r.of :
        s.ts >= peak - RawWindow => r = Stored(s)

\* What the writer has when a pass is over: below the cutoff one row, at the
\* start of its bucket, for each bucket, and nothing older than the retention
\* but for what shares its bucket.
PassIsThorough ==
    passed # NoTime => \A r \in rows :
        /\ r.ts < Cutoff(passed) =>
              /\ r.ts = Bucket(r.ts)
              /\ \A q \in rows : q.series = r.series /\ Bucket(q.ts) = r.ts
                                    => q = r
        /\ r.ts > passed - Retention - Width

\* Why a sample may leave the table: its bucket reached past the retention,
\* another measurement at its very millisecond replaced it, or it is a value
\* of a counter and a later value of the same bucket stands for it.
Expired(s) == s.ts < peak - Retention + Width
Replaced(s) ==
    \E r \in rows' : SameKey(r, s) /\ \E n \in r.of : n.tick > s.tick
Superseded(s) ==
    /\ s.series \in Counter
    /\ \E r \in rows' : r.series = s.series /\ \E n \in r.of :
          n.ts > s.ts /\ Bucket(n.ts) = Bucket(s.ts)

LeavesForAReason ==
    \A s \in Held \ UNION {r.of : r \in rows'} :
        Expired(s) \/ Replaced(s) \/ Superseded(s)

\* A batch is one transaction: what was in the channel is in the table whole, or
\* not at all.
BatchesAreWhole ==
    \A c \in DOMAIN queue :
        queue[c].batch \subseteq Held' \/ queue[c].batch \intersect Held' = {}

\* Downsampling and retention lose nothing else that was ever stored, and a
\* database that refuses a batch, or a process that is killed with it, nothing
\* less than all of it.
NothingElseIsLost == [][LeavesForAReason /\ BatchesAreWhole]_vars

-----------------------------------------------------------------------------
(* What the documentation says *)

\* read_range: the tags of the rows of a series from one time to another.
TagsInRange(s, from, to) ==
    {r.tag : r \in {q \in rows : q.series = s /\ from <= q.ts /\ q.ts <= to}}

\* The whole store is a range: its tags are all the tags of the samples whose
\* values are in it.
EveryTagTravels ==
    \A s \in Series :
        {m.tag : m \in {h \in Held : h.series = s}}
            \subseteq TagsInRange(s, 0, MaxClock)

\* A pass leaves no row that is older than the retention.
RetentionHonoured ==
    passed # NoTime => \A r \in rows : r.ts >= passed - Retention
=============================================================================
