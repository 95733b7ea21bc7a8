---------------------------- MODULE HistoryQuery ----------------------------
(***************************************************************************)
(* The history query API on top of the store.  A handler checks the        *)
(* browser's parameters, sends the query down the channel the sampler and  *)
(* the maintenance task use, and waits; the writer answers it in its turn, *)
(* from the rows as they are then.                                         *)
(*                                                                         *)
(* A read changes no row, so one query at a time shows what queries see.   *)
(***************************************************************************)
EXTENDS HistoryStore, SequencesExt

CONSTANTS
    Absent,         \* a parameter that is not given
    Second,         \* a second, in the unit of the timestamps
    DefaultWindow,  \* DEFAULT_WINDOW_MS
    MaxPoints,      \* MAX_POINTS_PER_SERIES
    IntMax,         \* the greatest i64
    HistoryEnabled, \* whether this console has a store
    Queries         \* Bound: what browsers ask

Int64 == (-IntMax - 1)..IntMax

\* Ends and steps are given as integers, or not at all, or the query is garbled.
ASSUME QueryAssumption ==
    /\ Second \in Nat \ {0}
    /\ {DefaultWindow, MaxPoints, IntMax} \subseteq Nat
    /\ MaxClock <= IntMax
    /\ HistoryEnabled \in BOOLEAN
    /\ \A q \in Queries : {q.from, q.to} \subseteq Int64 \cup {Absent} /\ q.step \in Int64

VARIABLES
    ask,        \* the query in the channel, if any
    answer      \* the response the last step gave, if it gave one

queryVars == <<vars, ask, answer>>

NATIVE_STEP == 1
Given(x) == x # Absent

Response(status) == [status |-> status, query |-> Absent, data |-> <<>>]

-----------------------------------------------------------------------------
(* Params::parse *)

To(q) == IF Given(q.to) THEN q.to ELSE clock
From(q) == IF Given(q.from) THEN q.from ELSE To(q) - DefaultWindow

\* Mutation: the subtraction wraps around.
SpanWraps(q) == ((To(q) - From(q) + IntMax + 1) % (2 * (IntMax + 1))) - IntMax - 1

Span(q) == To(q) - From(q)
StepWidth(q) == q.step * Second

\* A garbled query has a parameter nobody knows, or one that is no integer.
ParamsAccepted(q) ==
    /\ ~ q.garbled
    /\ Given(q.series) => q.series # {} /\ q.series \subseteq Series
    /\ From(q) \in Int64
    /\ From(q) < To(q)
    /\ q.step >= 1
    /\ Span(q) \in Int64 /\ StepWidth(q) \in Int64
    /\ Span(q) \div StepWidth(q) <= MaxPoints

Params(q) ==
    [series |-> IF Given(q.series) THEN q.series ELSE Series,
     from |-> From(q), to |-> To(q), step |-> q.step]

-----------------------------------------------------------------------------
(* What the writer reads *)

\* Epoch-anchored, whatever the range starts at.
Start(r, width) == (r.ts \div width) * width

\* The rows come in order: each joins the slice of its bucket, or begins one.
Slice(slices, r, width) ==
    IF slices # <<>> /\ Start(Head(Last(slices)), width) = Start(r, width)
    THEN ReplaceAt(slices, Len(slices), Append(Last(slices), r))
    ELSE Append(slices, <<r>>)

SlicesOf(read, width) ==
    LET upTo[i \in 0..Len(read)] ==
            IF i = 0 THEN <<>> ELSE Slice(upTo[i - 1], read[i], width)
    IN  upTo[Len(read)]

bucket(read, width, s) ==
    LET slices == SlicesOf(read, width)
        Value(slice) ==
            IF s \in Counter THEN Last(slice).of ELSE UNION {r.of : r \in ToSet(slice)}
    IN  [i \in DOMAIN slices |->
            [ts |-> Start(Head(slices[i]), width), of |-> Value(slices[i]),
             exact |-> s \in Counter \/ PlainMean(ToSet(slices[i]))]]

\* Mutation: the newest row speaks for the range.
NewestTag(tags, r) == <<r.tag>>

\* Every tag once, oldest first.
AddTag(tags, r) == IF Contains(tags, r.tag) THEN tags ELSE Append(tags, r.tag)

TagsOf(read) ==
    LET upTo[i \in 0..Len(read)] == IF i = 0 THEN <<>> ELSE AddTag(upTo[i - 1], read[i])
    IN  upTo[Len(read)]

InRange(s, p) == {r \in rows : r.series = s /\ p.from <= r.ts /\ r.ts <= p.to}

\* ORDER BY ts
Ordered(found) ==
    CHOOSE read \in [1..Cardinality(found) -> found] :
        \A i, j \in DOMAIN read : i < j => read[i].ts < read[j].ts

read_range(s, p) ==
    LET read == Ordered(InRange(s, p))
        untouched == [i \in DOMAIN read |->
                        [ts |-> read[i].ts, of |-> read[i].of, exact |-> read[i].exact]]
    IN  [points |-> IF p.step > NATIVE_STEP THEN bucket(read, StepWidth(p), s)
                    ELSE untouched,
         honesty |-> TagsOf(read)]

sole_honesty(tags) == IF Len(tags) = 1 THEN Head(tags) ELSE Absent

\* What is answered for one series.
Entry(s, p) ==
    LET data == read_range(s, p)
    IN  [points |-> data.points, honesty_tags |-> data.honesty,
         honesty |-> sole_honesty(data.honesty)]

-----------------------------------------------------------------------------
(* The handler and the channel *)

QueryInit == Init /\ ask = Absent /\ answer = Absent

Resolved(q) == q.authorized /\ q.known /\ HistoryEnabled

\* Bearer first, then the instance, then the history plane, then the query.
Refusal(q) ==
    CASE ~ q.authorized -> 401
      [] q.authorized /\ ~ q.known -> 404
      [] q.authorized /\ q.known /\ ~ HistoryEnabled -> 503
      [] OTHER -> 400

Refuse ==
    /\ \E q \in Queries :
          /\ ~ (Resolved(q) /\ ParamsAccepted(q))
          /\ answer' = Response(Refusal(q))
    /\ UNCHANGED <<vars, ask>>

\* The channel is shared: the query is behind everything sent before it.
Ask ==
    /\ ~ Given(ask)
    /\ \E q \in Queries :
          /\ Resolved(q) /\ ParamsAccepted(q)
          /\ ask' = [query |-> Params(q), ahead |-> Len(queue)]
    /\ answer' = Absent
    /\ UNCHANGED vars

Turn == Given(ask) /\ ask.ahead = 0

Answer ==
    /\ Turn
    /\ answer' = [status |-> 200, query |-> ask.query,
                  data |-> [s \in ask.query.series |-> Entry(s, ask.query)]]
    /\ ask' = Absent
    /\ UNCHANGED vars

\* The database does not give the rows.
ReadFails ==
    /\ Turn
    /\ answer' = Response(500)
    /\ ask' = Absent
    /\ UNCHANGED vars

\* What the others send goes behind the query; what was sent before is taken
\* first.
OthersSend ==
    /\ SetClock \/ Sampler \/ StartPass
    /\ answer' = Absent
    /\ UNCHANGED ask

WriterWorks ==
    /\ ~ Turn
    /\ Writer
    /\ ask' = IF Given(ask)
              THEN [ask EXCEPT !.ahead = @ - (Len(queue) - Len(queue'))]
              ELSE ask
    /\ answer' = Absent

\* The connection and the query are gone with the process.
RestartQuery == Restart /\ ask' = Absent /\ answer' = Absent

QueryNext ==
    Refuse \/ Ask \/ Answer \/ ReadFails \/ OthersSend \/ WriterWorks \/ RestartQuery

QuerySpec == QueryInit /\ [][QueryNext]_queryVars

-----------------------------------------------------------------------------
(* Properties *)

Answering == Given(answer) /\ answer.status = 200

\* The samples of a series in range that fall into the bucket of point p.
Behind(s, p, width) == {r \in InRange(s, answer.query) : Start(r, width) = p.ts}

\* The times and values of the rows of the range, whatever the writer and
\* the maintenance pass did before: one point for each bucket that has a row
\* and none for a gap, oldest first, the mean of a gauge's rows and the last
\* of a counter's; every tag of the range in the order of its first row, and
\* one tag for all of them only if they agree.
AnswersAreFaithful ==
    Answering => \A s \in answer.query.series :
        LET p == answer.query
            width == IF p.step > NATIVE_STEP THEN StepWidth(p) ELSE 1
            points == answer.data[s].points
            tags == answer.data[s].honesty_tags
            First(tag) == CHOOSE r \in InRange(s, p) :
                             r.tag = tag /\ \A o \in InRange(s, p) : o.tag = tag => r.ts <= o.ts
        IN  /\ {k.ts : k \in ToSet(points)} = {Start(r, width) : r \in InRange(s, p)}
            /\ \A i, j \in DOMAIN points : i < j => points[i].ts < points[j].ts
            /\ \A k \in ToSet(points) : k.of = AggregateOf(s, Behind(s, k, width))
            /\ ToSet(tags) = TagsInRange(s, p.from, p.to)
            /\ \A i, j \in DOMAIN tags : i < j => First(tags[i]).ts < First(tags[j]).ts
            /\ Given(answer.data[s].honesty) =>
                  \A r \in InRange(s, p) : r.tag = answer.data[s].honesty

\* A point is the mean of the samples behind it when all of them are of the
\* last 24 hours, or when the step divides the minute; a coarser step over
\* older rows weighs a minute like a second.
PointsAreMeans ==
    Answering => \A s \in answer.query.series :
        \A k \in ToSet(answer.data[s].points) :
            ~ k.exact => /\ Width % StepWidth(answer.query) # 0
                         /\ \E m \in k.of : m.ts < peak - RawWindow

\* How far an accepted range goes past the cap: the division drops what is
\* left of a step, the end of the range counts, and a start inside a bucket
\* adds the bucket it cuts.  No ends and no step, however extreme, wrap to a
\* range that holds points of more steps than that.
CapExceededAtEdgesOnly ==
    Answering => \A s \in answer.query.series :
        LET p == answer.query
            width == StepWidth(p)
            points == answer.data[s].points
            most == MaxPoints + (IF p.from % width = 0 THEN 1 ELSE 2)
        IN  /\ Cardinality({Start(k, width) : k \in ToSet(points)}) <= most
            /\ p.step > NATIVE_STEP => Len(points) <= most

-----------------------------------------------------------------------------
(* What the documentation says *)

\* MAX_POINTS_PER_SERIES is a hard cap on the points returned per series.
PointsWithinCap ==
    Answering => \A s \in answer.query.series : Len(answer.data[s].points) <= MaxPoints
=============================================================================
