--------------------------- MODULE MCHistoryQuery ---------------------------
(***************************************************************************)
(* Ranges with and without ends, one that is as wide as integers allow,    *)
(* and steps below, at and across the width of a stored bucket, up to the  *)
(* widest there is.                                                        *)
(***************************************************************************)
EXTENDS HistoryQuery

Symmetry == Permutations(Tag)

\* Bound: the counter is sampled together with the gauge, under one tag.
CounterGoesAlong ==
    LET sampled == UNION {r.of : r \in rows} \union UNION {queue[c].batch : c \in DOMAIN queue}
    IN  /\ \A s, o \in sampled : {s.series, o.series} \subseteq Counter => s.tag = o.tag
        /\ \A c \in DOMAIN queue : queue[c].batch # {} =>
              \E s \in queue[c].batch : s.series \notin Counter

\* States that differ in how a query was refused go on alike.
Given200 == <<vars, ask, IF Answering THEN answer ELSE Absent>>

Plain ==
    [authorized |-> TRUE, known |-> TRUE, garbled |-> FALSE, series |-> Absent,
     from |-> Absent, to |-> Absent, step |-> NATIVE_STEP]

Refused ==
    {[Plain EXCEPT !.authorized = FALSE], [Plain EXCEPT !.known = FALSE],
     [Plain EXCEPT !.garbled = TRUE], [Plain EXCEPT !.series = {}],
     [Plain EXCEPT !.series = {"made_up"}], [Plain EXCEPT !.step = 0],
     [Plain EXCEPT !.to = -IntMax - 1], [Plain EXCEPT !.from = IntMax]}

MCQueries ==
    Refused
    \union {[Plain EXCEPT !.from = -IntMax - 1, !.to = IntMax, !.step = k] : k \in 1..2}
    \union {Plain, [Plain EXCEPT !.step = IntMax]}
    \union {[Plain EXCEPT !.from = 0, !.step = k] : k \in 2..3}
    \union {[Plain EXCEPT !.from = 1, !.step = 2]}
=============================================================================
