----------------------------- MODULE Gx10Proofs -----------------------------
(***************************************************************************)
(* Proofs about Gx10Exporter, for any number of scrapes, devices and       *)
(* candidates, whatever the driver answers and however often it changes.   *)
(*                                                                         *)
(* What makes HandlesBalanced inductive is to say of the scrape between    *)
(* dlopen and nvmlInit that it is the one with the mutex: then there is    *)
(* one such scrape at most, and counting them is a case distinction.       *)
(*                                                                         *)
(* StoredAsProbed is a round trip.  The parser's two scanners are followed *)
(* through what the exporter writes: through one escaped character, a      *)
(* label value, a label, the labels of a device, a line (LineReads).  A    *)
(* text of whole lines then tells the samples of its lines, and two texts  *)
(* one after the other tell what both do (TellsThen), so that what render  *)
(* writes of an outcome tells the samples of its devices (AnswerTells) and *)
(* the rows picked from them are their readings (RowsAre).  What makes it  *)
(* inductive is to say that an outcome has no device twice, which Found    *)
(* says of it, probe by probe.                                             *)
(***************************************************************************)
EXTENDS Gx10Exporter, FiniteSetTheorems, SequenceTheorems, Induction, TLAPS

-----------------------------------------------------------------------------
(* The invariant *)

\* The shape of the state, as far as the handles depend on it.
ShapeOK ==
    /\ library \in Nat /\ opened \in Int /\ inits \in Int
    /\ lock \in Scrapes \cup {NoScrape}
    /\ driver.generation \in Nat \ {0}
    /\ DOMAIN scrape = Scrapes
    /\ \A t \in Scrapes : DOMAIN scrape[t] = {"at", "next", "heard", "outcome", "rows"}

\* A scrape is past a dlopen that is not settled yet.
Unsettled == lock \in Scrapes /\ scrape[lock].at = "resolving"

\* HandlesBalanced, with the mutex in place of the count.
HandlesCounted ==
    /\ inits = (IF library = 0 THEN 0 ELSE 1)
    /\ opened = inits + (IF Unsettled THEN 1 ELSE 0)
    /\ \A t \in Scrapes : scrape[t].at \in Holding <=> lock = t
    /\ \A t \in Scrapes : scrape[t].at \in {"counting", "probing"} => library # 0
    /\ \A t \in Scrapes : scrape[t].at \in {"opening", "resolving"} => library = 0

IInv == ShapeOK /\ HandlesCounted

\* With the mutex at one scrape at most, one is unsettled at most.
LEMMA CountedIsBalanced == IInv => HandlesBalanced
<1> SUFFICES ASSUME IInv PROVE HandlesBalanced
  OBVIOUS
<1> DEFINE open == {t \in Scrapes : At(t, "resolving")}
<1>1. CASE Unsettled
  <2>1. open = {lock}
    BY <1>1 DEF IInv, HandlesCounted, Unsettled, At, Holding
  <2>2. Cardinality(open) = 1
    BY <2>1, FS_Singleton
  <2> QED
    BY <1>1, <2>2 DEF IInv, HandlesCounted, HandlesBalanced
<1>2. CASE ~ Unsettled
  <2>1. open = {}
    BY <1>2 DEF IInv, HandlesCounted, Unsettled, At, Holding
  <2>2. Cardinality(open) = 0
    BY <2>1, FS_EmptySet
  <2> QED
    BY <1>2, <2>2 DEF IInv, HandlesCounted, HandlesBalanced
<1> QED
  BY <1>1, <1>2

-----------------------------------------------------------------------------
(* The invariant is inductive *)

\* Nothing is open before the first scrape.
LEMMA InitInv == Init => IInv
BY Gx10Assumption DEF Init, Idle, IInv, ShapeOK, HandlesCounted, Unsettled, Holding

\* A driver that changes is found out by the next call, not by the handles.
LEMMA DriverInv == IInv /\ DriverChanges => IInv'
BY DEF DriverChanges, IInv, ShapeOK, HandlesCounted, Unsettled

\* What a client does, and what is done without the mutex.
LEMMA OutsideInv ==
    ASSUME IInv, NEW t \in Scrapes, Begin(t) \/ Leave(t) \/ Respond(t) \/ Forget(t)
    PROVE  IInv'
<1>1. /\ UNCHANGED <<driver, library, opened, inits, lock>>
      /\ DOMAIN scrape' = Scrapes
      /\ \A u \in Scrapes \ {t} : scrape'[u] = scrape[u]
      /\ DOMAIN scrape'[t] = {"at", "next", "heard", "outcome", "rows"}
      /\ \/ scrape'[t].at = scrape[t].at
         \/ scrape'[t].at \notin Holding /\ scrape[t].at \notin Holding
  <2> USE DEF IInv, ShapeOK, At, Holding
  <2>1. DOMAIN Idle = {"at", "next", "heard", "outcome", "rows"} /\ Idle.at = "idle"
    BY DEF Idle
  <2>2. CASE Begin(t)
    BY <2>1, <2>2 DEF Begin
  <2>3. CASE Leave(t)
    BY <2>3 DEF Leave
  <2>4. CASE Respond(t)
    <3> HIDE DEF Idle
    <3>1. CASE scrape'[t] = Idle
      BY <2>1, <2>4, <3>1 DEF Respond
    <3>2. CASE scrape[t].heard
      BY <2>4, <3>2 DEF Respond
    <3> QED
      BY <2>4, <3>1, <3>2 DEF Respond
  <2>5. CASE Forget(t)
    BY <2>1, <2>5 DEF Forget
  <2> QED
    BY <2>2, <2>3, <2>4, <2>5
<1>2. ShapeOK'
  BY <1>1 DEF IInv, ShapeOK
<1>3. Unsettled' <=> Unsettled
  BY <1>1 DEF Unsettled, Holding
<1>4. HandlesCounted'
  BY <1>1, <1>3 DEF IInv, HandlesCounted, Holding
<1> QED
  BY <1>2, <1>4 DEF IInv

\* The mutex is taken.
LEMMA AcquireInv == ASSUME IInv, NEW t \in Scrapes, Acquire(t) PROVE IInv'
<1>1. /\ UNCHANGED <<driver, library, opened, inits>>
      /\ lock = NoScrape /\ lock' = t /\ t # NoScrape
      /\ DOMAIN scrape' = Scrapes
      /\ \A u \in Scrapes \ {t} : scrape'[u] = scrape[u]
      /\ DOMAIN scrape'[t] = {"at", "next", "heard", "outcome", "rows"}
      /\ scrape'[t].at = IF library = 0 THEN "opening" ELSE "counting"
  BY Gx10Assumption DEF Acquire, Go, IInv, ShapeOK
<1>2. ShapeOK'
  BY <1>1 DEF IInv, ShapeOK
<1>3. ~ Unsettled /\ ~ Unsettled'
  BY <1>1, Gx10Assumption DEF Unsettled
<1>4. HandlesCounted'
  BY <1>1, <1>3, Gx10Assumption DEF IInv, HandlesCounted, Holding
<1> QED
  BY <1>2, <1>4 DEF IInv

\* What the scrape with the mutex does: its handles and the place it goes to.
LEMMA InsideInv ==
    ASSUME IInv, NEW t \in Scrapes,
           Open(t) \/ Resolve(t) \/ CountDevices(t) \/ ProbeDevice(t) \/ EndProbes(t)
    PROVE  IInv'
<1>1. lock = t /\ t # NoScrape
  BY Gx10Assumption
  DEF Open, Resolve, CountDevices, ProbeDevice, EndProbes, At, Holding, IInv, HandlesCounted
<1>2. /\ UNCHANGED driver
      /\ DOMAIN scrape' = Scrapes
      /\ \A u \in Scrapes \ {t} : scrape'[u] = scrape[u]
      /\ DOMAIN scrape'[t] = {"at", "next", "heard", "outcome", "rows"}
  BY DEF Open, Resolve, CountDevices, ProbeDevice, EndProbes, Start, Finish, Go, IInv, ShapeOK
<1>3. /\ library' \in Nat /\ opened' \in Int /\ inits' \in Int
      /\ inits' = (IF library' = 0 THEN 0 ELSE 1)
      /\ opened' = inits' + (IF lock' = t /\ scrape'[t].at = "resolving" THEN 1 ELSE 0)
      /\ \/ lock' = t /\ scrape'[t].at \in Holding
         \/ lock' = NoScrape /\ scrape'[t].at \notin Holding
      /\ scrape'[t].at \in {"counting", "probing"} => library' # 0
      /\ scrape'[t].at \in {"opening", "resolving"} => library' = 0
  <2> USE <1>1 DEF IInv, ShapeOK, HandlesCounted, Unsettled, Holding, At
  <2>1. CASE Open(t)
    BY <2>1 DEF Open, Finish, Go
  <2>2. CASE Resolve(t)
    BY <2>2 DEF Resolve, Go
  <2>3. CASE CountDevices(t)
    BY <2>3 DEF CountDevices, Finish, Start
  <2>4. CASE ProbeDevice(t)
    BY <2>4 DEF ProbeDevice
  <2>5. CASE EndProbes(t)
    BY <2>5 DEF EndProbes, Finish
  <2> QED
    BY <2>1, <2>2, <2>3, <2>4, <2>5
<1>4. ShapeOK'
  BY <1>1, <1>2, <1>3 DEF IInv, ShapeOK
<1>5. \A u \in Scrapes \ {t} : scrape'[u].at \notin Holding
  BY <1>1, <1>2 DEF IInv, HandlesCounted
<1>6. Unsettled' <=> lock' = t /\ scrape'[t].at = "resolving"
  BY <1>1, <1>3, Gx10Assumption DEF Unsettled
<1>7. HandlesCounted'
  BY <1>1, <1>3, <1>5, <1>6, Gx10Assumption DEF HandlesCounted, Holding
<1> QED
  BY <1>4, <1>7 DEF IInv

\* The handles are counted in every reachable state.
THEOREM HandlesAreCounted == Spec => []IInv
<1>1. IInv /\ [Next]_vars => IInv'
  <2> SUFFICES ASSUME IInv, [Next]_vars PROVE IInv'
    OBVIOUS
  <2>1. CASE DriverChanges
    BY <2>1, DriverInv
  <2>2. ASSUME NEW t \in Scrapes, Begin(t) \/ Leave(t) \/ Proceed(t) PROVE IInv'
    BY <2>2, OutsideInv, AcquireInv, InsideInv DEF Proceed
  <2>3. CASE UNCHANGED vars
    BY <2>3 DEF vars, IInv, ShapeOK, HandlesCounted, Unsettled
  <2> QED
    BY <2>1, <2>2, <2>3 DEF Next
<1> QED
  BY InitInv, <1>1, PTL DEF Spec

\* Library::open and NvmlSource::scrape leak no handle and no initialisation,
\* whatever candidate or call fails and however the driver comes and goes.
THEOREM HandlesAreBalanced == Spec => []HandlesBalanced
BY HandlesAreCounted, CountedIsBalanced, PTL

-----------------------------------------------------------------------------
(* Texts and their parts *)

\* The parts up to one after the other, for each number of parts.
Joins(F, parts) ==
    /\ F[0] = <<>>
    /\ \A i \in 1..Len(parts) : F[i] = F[i - 1] \o parts[i]
    /\ F[Len(parts)] = FlattenSeq(parts)

\* FlattenSeq appends one part after the other.
LEMMA Flattened ==
    ASSUME NEW S, NEW parts \in Seq(Seq(S))
    PROVE  \E F \in [0..Len(parts) -> Seq(S)] : Joins(F, parts)
<1> DEFINE n == Len(parts)
           Add == [x \in Seq(S) \X (1..n) |-> x[1] \o parts[x[2]]]
<1>1. n \in Nat /\ DOMAIN parts = 1..n /\ \A i \in 1..n : parts[i] \in Seq(S)
  OBVIOUS
<1>2. Add \in [Seq(S) \X (1..n) -> Seq(S)]
  <2>1. \A x \in Seq(S) \X (1..n) : x[1] \o parts[x[2]] \in Seq(S)
    BY <1>1
  <2> QED
    BY <2>1
<1>3. <<>> \in Seq(S)
  OBVIOUS
<1>4. PICK F \in Computations(n, Seq(S), <<>>, Add) : TRUE
  <2> HIDE DEF Add, n
  <2> QED
    BY <1>1, <1>2, <1>3, Recursion
<1>5. /\ F \in [0..n -> Seq(S)] /\ F[0] = <<>>
      /\ \A i \in 1..n : F[i] = F[i - 1] \o parts[i]
  <2>1. /\ F \in [0..n -> Seq(S)] /\ F[0] = <<>>
        /\ \A i \in 1..n : F[i] = Add[<<F[i - 1], i>>]
    <3> HIDE DEF Add, n
    <3> QED
      BY <1>4 DEF Computations
  <2> SUFFICES ASSUME NEW i \in 1..n PROVE F[i] = F[i - 1] \o parts[i]
    BY <2>1
  <2>2. i - 1 \in 0..n
    BY <1>1
  <2>3. F[i - 1] \in Seq(S)
    BY <2>1, <2>2, Zenon
  <2>4. Add[<<F[i - 1], i>>] = F[i - 1] \o parts[i]
    BY <2>3
  <2> QED
    BY <2>1, <2>4, Zenon
<1>6. F[n] = FlattenSeq(parts)
  <2>1. CASE n = 0
    BY <1>1, <1>5, <2>1 DEF FlattenSeq
  <2>2. CASE n # 0
    <3> DEFINE Is(h) == h = [i \in 1..n |-> IF i = 1 THEN parts[i] ELSE h[i - 1] \o parts[i]]
               g == [i \in 1..n |-> F[i]]
               flat == CHOOSE h : Is(h)
    <3>1. Is(g)
      <4>1. ASSUME NEW i \in 1..n
            PROVE  F[i] = IF i = 1 THEN parts[i] ELSE g[i - 1] \o parts[i]
        <5>1. CASE i = 1
          <6>1. F[1] = F[0] \o parts[1]
            <7>1. 1 - 1 = 0 /\ 1 \in 1..n
              BY <5>1
            <7> QED
              BY <1>5, <7>1
          <6>2. parts[1] \in Seq(S)
            BY <1>1, <5>1
          <6> QED
            BY <1>5, <5>1, <6>1, <6>2
        <5>2. CASE i # 1
          <6>1. i - 1 \in 1..n
            BY <1>1, <5>2
          <6> QED
            BY <1>5, <5>2, <6>1
        <5> QED
          BY <5>1, <5>2
      <4> QED
        BY <4>1
    <3>2. Is(flat)
      <4> HIDE DEF Is
      <4> QED
        BY <3>1, Zenon
    <3>3. \A i \in 1..n : flat[i] = IF i = 1 THEN parts[i] ELSE flat[i - 1] \o parts[i]
      <4> HIDE DEF flat
      <4> QED
        BY <3>2
    <3>4. FlattenSeq(parts) = flat[n]
      BY <2>2, Zenon DEF FlattenSeq
    <3> DEFINE T == {i \in 0..n : i = 0 \/ flat[i] = F[i]}
    <3> HIDE DEF flat, Is
    <3>5. ASSUME NEW i \in 0..(n - 1), i \in T PROVE i + 1 \in T
      <4>1. i + 1 \in 1..n /\ (i + 1) - 1 = i
        BY <1>1
      <4>2. F[i + 1] = F[i] \o parts[i + 1]
        BY <1>5, <4>1
      <4>3. CASE i = 0
        <5>1. parts[1] \in Seq(S)
          BY <1>1, <4>1, <4>3
        <5>2. F[1] = <<>> \o parts[1] /\ 1 \in 1..n
          <6>1. i + 1 = 1
            BY <4>3
          <6> QED
            BY <1>5, <4>1, <4>2, <4>3, <6>1, Zenon
        <5>3. F[1] = parts[1]
          BY <5>1, <5>2
        <5>4. flat[1] = parts[1]
          BY <3>3, <5>2
        <5>5. i + 1 = 1 /\ i + 1 \in 0..n
          BY <4>1, <4>3
        <5> QED
          BY <5>3, <5>4, <5>5
      <4>4. CASE i # 0
        <5>1. i + 1 # 1 /\ flat[i] = F[i]
          BY <3>5, <4>4
        <5>2. flat[i + 1] = flat[i] \o parts[i + 1]
          BY <3>3, <4>1, <5>1
        <5>3. i + 1 \in 0..n
          BY <4>1
        <5> QED
          BY <4>2, <5>1, <5>2, <5>3
      <4> QED
        BY <4>3, <4>4
    <3>6. 0 \in T
      BY <1>1
    <3>7. \A i \in 0..n : i \in T
      <4> HIDE DEF T, n
      <4> QED
        BY <1>1, <3>5, <3>6, UpTo
    <3> QED
      BY <1>1, <2>2, <3>4, <3>7
  <2> QED
    BY <2>1, <2>2
<1> QED
  BY <1>5, <1>6 DEF Joins

\* What a flattened sequence consists of.
LEMMA FlattenedSet ==
    ASSUME NEW S, NEW parts \in Seq(Seq(S))
    PROVE  /\ FlattenSeq(parts) \in Seq(S)
           /\ Range(FlattenSeq(parts)) = UNION {Range(parts[i]) : i \in DOMAIN parts}
<1> DEFINE n == Len(parts)
<1>1. PICK F \in [0..n -> Seq(S)] : Joins(F, parts)
  BY Flattened
<1>2. n \in Nat /\ DOMAIN parts = 1..n /\ \A i \in 1..n : parts[i] \in Seq(S)
  OBVIOUS
<1> DEFINE T == {i \in 0..n : Range(F[i]) = UNION {Range(parts[j]) : j \in 1..i}}
<1>3. 0 \in T
  BY <1>1, <1>2 DEF Joins, Range
<1>4. ASSUME NEW i \in 0..(n - 1), i \in T PROVE i + 1 \in T
  <2>1. i + 1 \in 1..n /\ i + 1 \in 0..n /\ i \in 0..n /\ (i + 1) - 1 = i
    BY <1>2
  <2>2. F[i + 1] = F[i] \o parts[i + 1] /\ F[i] \in Seq(S) /\ parts[i + 1] \in Seq(S)
    BY <1>1, <1>2, <2>1 DEF Joins
  <2>3. Range(F[i + 1]) = Range(F[i]) \cup Range(parts[i + 1])
    BY <2>2, RangeConcatenation
  <2>4. 1..(i + 1) = (1..i) \cup {i + 1}
    BY <2>1
  <2>5. (UNION {Range(parts[j]) : j \in 1..(i + 1)})
          = (UNION {Range(parts[j]) : j \in 1..i}) \cup Range(parts[i + 1])
    BY <2>4
  <2> QED
    BY <1>4, <2>1, <2>3, <2>5
<1>5. n \in T
  <2>1. \A i \in 0..n : i \in T
    <3> HIDE DEF T, n
    <3> QED
      BY <1>2, <1>3, <1>4, UpTo
  <2> QED
    BY <1>2, <2>1
<1> QED
  BY <1>1, <1>2, <1>5 DEF Joins

-----------------------------------------------------------------------------
(* Reading from left to right *)

\* The two scanners of the parser, by name.
Move(scanner, at, token) ==
    IF scanner = "braces" THEN BraceStep(at, token) ELSE LabelStep(at, token)

\* The states of a scanner on its way through a text.
Follows(f, scanner, from, text) ==
    /\ f[0] = from
    /\ \A i \in 1..Len(text) : f[i] = Move(scanner, f[i - 1], text[i])

Way(f, scanner, from, text, to) ==
    /\ f = [i \in 0..Len(text) |-> f[i]]
    /\ Follows(f, scanner, from, text)
    /\ f[Len(text)] = to

\* A scanner that starts in one state is in the other after the text.
Reads(scanner, from, text, to) == \E f : Way(f, scanner, from, text, to)

\* Nothing to read.
LEMMA ReadsNone == ASSUME NEW scanner, NEW x PROVE Reads(scanner, x, <<>>, x)
<1> DEFINE f == [i \in 0..0 |-> x]
<1>1. f = [i \in 0..0 |-> f[i]] /\ f[0] = x /\ Len(<<>>) = 0 /\ 1..0 = {}
  OBVIOUS
<1>2. Way(f, scanner, x, <<>>, x)
  <2> HIDE DEF f
  <2> QED
    BY <1>1 DEF Way, Follows
<1> QED
  BY <1>2, Zenon DEF Reads

\* One token.
LEMMA ReadsOne ==
    ASSUME NEW scanner, NEW x, NEW token
    PROVE  Reads(scanner, x, <<token>>, Move(scanner, x, token))
<1> DEFINE y == Move(scanner, x, token)
           f == [i \in 0..1 |-> IF i = 0 THEN x ELSE y]
<1> HIDE DEF y
<1>1. f = [i \in 0..1 |-> f[i]] /\ f[0] = x /\ f[1] = y
  OBVIOUS
<1>2. Len(<<token>>) = 1 /\ <<token>>[1] = token /\ 1..1 = {1} /\ 1 - 1 = 0
  OBVIOUS
<1>3. f[1] = Move(scanner, f[1 - 1], <<token>>[1])
  <2> HIDE DEF f
  <2> QED
    BY <1>1, <1>2, Zenon DEF y
<1>4. \A i \in 1..1 : f[i] = Move(scanner, f[i - 1], <<token>>[i])
  <2> HIDE DEF f
  <2> SUFFICES ASSUME NEW i \in 1..1 PROVE f[i] = Move(scanner, f[i - 1], <<token>>[i])
    OBVIOUS
  <2>1. i = 1
    OBVIOUS
  <2> QED
    BY <1>3, <2>1, Zenon
<1>5. Way(f, scanner, x, <<token>>, y)
  <2> HIDE DEF f
  <2> QED
    BY <1>1, <1>2, <1>4, Zenon DEF Way, Follows
<1> QED
  <2> HIDE DEF f
  <2> QED
    BY <1>5, Zenon DEF Reads, y

\* One text and then another.
LEMMA ReadsThen ==
    ASSUME NEW S, NEW a \in Seq(S), NEW b \in Seq(S), NEW scanner, NEW x, NEW y, NEW z,
           Reads(scanner, x, a, y), Reads(scanner, y, b, z)
    PROVE  Reads(scanner, x, a \o b, z)
<1> DEFINE m == Len(a)
           n == Len(b)
           text == a \o b
<1>1. PICK f : Way(f, scanner, x, a, y)
  BY DEF Reads
<1>2. PICK g : Way(g, scanner, y, b, z)
  BY DEF Reads
<1> DEFINE h == [i \in 0..(m + n) |-> IF i <= m THEN f[i] ELSE g[i - m]]
<1>3. /\ m \in Nat /\ n \in Nat /\ Len(text) = m + n
      /\ \A i \in 1..m : text[i] = a[i]
      /\ \A i \in 1..n : text[m + i] = b[i]
  OBVIOUS
<1> HIDE DEF m, n, text
<1>4. /\ \A i \in 0..m : h[i] = f[i]
      /\ \A i \in 0..n : h[m + i] = g[i]
  <2>1. \A i \in 0..m : h[i] = f[i]
    BY <1>3
  <2>2. ASSUME NEW i \in 0..n PROVE h[m + i] = g[i]
    <3>1. m + i \in 0..(m + n) /\ (m + i) - m = i
      BY <1>3
    <3>2. CASE i = 0
      <4>1. m + i = m /\ m <= m
        BY <1>3, <3>2
      <4>2. f[m] = g[0]
        BY <1>1, <1>2 DEF Way, Follows, m
      <4> QED
        BY <3>1, <3>2, <4>1, <4>2
    <3>3. CASE i # 0
      <4>1. ~ (m + i <= m)
        BY <1>3, <3>3
      <4> QED
        BY <3>1, <4>1
    <3> QED
      BY <3>2, <3>3
  <2> QED
    BY <2>1, <2>2
<1>5. h = [i \in 0..(m + n) |-> h[i]]
  BY Zenon
<1> HIDE DEF h
<1>6. h[0] = x /\ h[m + n] = z
  <2>1. 0 \in 0..m /\ n \in 0..n
    BY <1>3
  <2>2. h[0] = f[0] /\ h[m + n] = g[n]
    BY <1>4, <2>1, Zenon
  <2> QED
    BY <1>1, <1>2, <2>2 DEF Way, Follows, n
<1>7. ASSUME NEW i \in 1..(m + n) PROVE h[i] = Move(scanner, h[i - 1], text[i])
  <2>1. CASE i <= m
    <3>1. i \in 1..m /\ i \in 0..m /\ i - 1 \in 0..m
      BY <1>3, <2>1
    <3>2. f[i] = Move(scanner, f[i - 1], a[i])
      BY <1>1, <3>1, Zenon DEF Way, Follows, m
    <3>3. h[i] = f[i] /\ h[i - 1] = f[i - 1] /\ text[i] = a[i]
      BY <1>3, <1>4, <3>1, Zenon
    <3> QED
      BY <3>2, <3>3, Zenon
  <2>2. CASE ~ (i <= m)
    <3> DEFINE k == i - m
    <3>1. k \in 1..n /\ k \in 0..n /\ k - 1 \in 0..n /\ m + k = i /\ m + (k - 1) = i - 1
      BY <1>3, <2>2
    <3> HIDE DEF k
    <3>2. g[k] = Move(scanner, g[k - 1], b[k])
      BY <1>2, <3>1, Zenon DEF Way, Follows, n
    <3>3. h[m + k] = g[k] /\ h[m + (k - 1)] = g[k - 1] /\ text[m + k] = b[k]
      BY <1>3, <1>4, <3>1, Zenon
    <3> QED
      BY <3>1, <3>2, <3>3, Zenon
  <2> QED
    BY <2>1, <2>2
<1>8. Way(h, scanner, x, text, z)
  BY <1>3, <1>5, <1>6, <1>7, Zenon DEF Way, Follows
<1> QED
  BY <1>8, Zenon DEF Reads, text

\* Two ways through one text are one.
LEMMA OneWay ==
    ASSUME NEW text, Len(text) \in Nat, NEW scanner, NEW x, NEW y, NEW f, NEW g,
           Way(f, scanner, x, text, y),
           Follows(g, scanner, x, text)
    PROVE  g[Len(text)] = y
<1> DEFINE n == Len(text)
           T == {i \in 0..n : f[i] = g[i]}
<1>1. n \in Nat
  OBVIOUS
<1> HIDE DEF n
<1>2. 0 \in T
  <2>1. 0 \in 0..n /\ f[0] = g[0]
    BY <1>1 DEF Way, Follows
  <2> QED
    BY <2>1
<1>3. ASSUME NEW i \in 0..(n - 1), i \in T PROVE i + 1 \in T
  <2>1. i + 1 \in 1..n /\ i + 1 \in 0..n /\ (i + 1) - 1 = i
    BY <1>1
  <2>2. f[i + 1] = Move(scanner, f[(i + 1) - 1], text[i + 1])
    BY <2>1, Zenon DEF Way, Follows, n
  <2>3. g[i + 1] = Move(scanner, g[(i + 1) - 1], text[i + 1])
    BY <2>1, Zenon DEF Follows, n
  <2>4. f[i] = g[i]
    BY <1>3
  <2> QED
    BY <2>1, <2>2, <2>3, <2>4, Zenon
<1>4. \A i \in 0..n : i \in T
  <2> HIDE DEF T
  <2> QED
    BY <1>1, <1>2, <1>3, UpTo
<1>5. n \in 0..n
  BY <1>1
<1> QED
  BY <1>4, <1>5, Zenon DEF Way, Follows, n

\* A Scan is where its scanner ends.
LEMMA ScanIs ==
    ASSUME NEW S, NEW text \in Seq(S), NEW x, NEW y
    PROVE  /\ Reads("braces", x, text, y) => Scan(BraceStep, x, text) = y
           /\ Reads("labels", x, text, y) => Scan(LabelStep, x, text) = y
<1> DEFINE n == Len(text)
           Is(f, scanner) ==
               f = [i \in 0..n |-> IF i = 0 THEN x ELSE Move(scanner, f[i - 1], text[i])]
<1>1. n \in Nat
  OBVIOUS
<1>2. ASSUME NEW scanner, Reads(scanner, x, text, y)
      PROVE  (CHOOSE f : Is(f, scanner))[n] = y
  <2>1. PICK f : Way(f, scanner, x, text, y)
    BY <1>2 DEF Reads
  <2>2. Is(f, scanner)
    <3> DEFINE g == [i \in 0..n |-> IF i = 0 THEN x ELSE Move(scanner, f[i - 1], text[i])]
    <3>1. \A i \in 0..n : g[i] = f[i]
      <4> SUFFICES ASSUME NEW i \in 0..n PROVE g[i] = f[i]
        OBVIOUS
      <4>1. CASE i = 0
        BY <2>1, <4>1 DEF Way, Follows
      <4>2. CASE i \in 1..n
        <5>1. i # 0
          BY <4>2
        <5>2. f[i] = Move(scanner, f[i - 1], text[i])
          BY <2>1, <4>2, Zenon DEF Way, Follows
        <5> QED
          BY <5>1, <5>2, Zenon
      <4> QED
        BY <1>1, <4>1, <4>2
    <3>2. f = [i \in 0..n |-> f[i]]
      BY <2>1 DEF Way, Follows
    <3>3. f = g
      BY <3>1, <3>2, Zenon
    <3> QED
      BY <3>3
  <2>3. PICK h : Is(h, scanner) /\ h = CHOOSE g : Is(g, scanner)
    <3> HIDE DEF Is
    <3> QED
      BY <2>2, Zenon
  <2>4. Follows(h, scanner, x, text)
    <3> DEFINE e(i) == IF i = 0 THEN x ELSE Move(scanner, h[i - 1], text[i])
    <3>1. \A i \in 0..n : h[i] = e(i)
      BY <2>3, Zenon
    <3>2. 0 \in 0..n /\ \A i \in 1..n : i \in 0..n /\ i # 0
      BY <1>1
    <3> QED
      BY <3>1, <3>2, Zenon DEF Follows
  <2>5. h[n] = y
    <3> HIDE DEF Is
    <3> QED
      BY <1>1, <2>1, <2>4, OneWay, Zenon
  <2> QED
    BY <2>3, <2>5, Zenon
<1>3. Scan(BraceStep, x, text) = (CHOOSE f : Is(f, "braces"))[n]
  BY Zenon DEF Scan, Move
<1>4. Scan(LabelStep, x, text) = (CHOOSE f : Is(f, "labels"))[n]
  <2>1. "labels" # "braces"
    OBVIOUS
  <2> QED
    BY <2>1, Zenon DEF Scan, Move
<1> HIDE DEF Is
<1> QED
  BY <1>2, <1>3, <1>4, Zenon

-----------------------------------------------------------------------------
(* Labels *)

\* What texts are made of: strings, the literals of the grammar being some.
Token == STRING \cup Punctuation \cup Words

\* A sequence of one.
LEMMA One ==
    ASSUME NEW S, NEW a \in S
    PROVE  <<a>> \in Seq(S) /\ Len(<<a>>) = 1 /\ <<a>>[1] = a /\ Range(<<a>>) = {a}
BY DEF Range

\* What is said of two sequences one after the other.
LEMMA Concat ==
    ASSUME NEW S, NEW s \in Seq(S), NEW t \in Seq(S)
    PROVE  /\ s \o t \in Seq(S) /\ Len(s \o t) = Len(s) + Len(t)
           /\ Len(s) \in Nat /\ Len(t) \in Nat
           /\ \A i \in 1..Len(s) : (s \o t)[i] = s[i]
           /\ \A i \in 1..Len(t) : (s \o t)[Len(s) + i] = t[i]
           /\ Range(s \o t) = Range(s) \cup Range(t)
<1>1. Range(s \o t) = Range(s) \cup Range(t)
  BY RangeConcatenation
<1> QED
  BY <1>1

\* Two tokens one after the other.
LEMMA Two == ASSUME NEW S, NEW a \in S, NEW b \in S PROVE <<a>> \o <<b>> = <<a, b>>
<1>1. /\ <<a>> \in Seq(S) /\ Len(<<a>>) = 1 /\ <<a>>[1] = a
      /\ <<b>> \in Seq(S) /\ Len(<<b>>) = 1 /\ <<b>>[1] = b
  OBVIOUS
<1>2. <<a, b>> \in Seq(S) /\ Len(<<a, b>>) = 2 /\ <<a, b>>[1] = a /\ <<a, b>>[2] = b
  OBVIOUS
<1> DEFINE x == <<a>>
           y == <<b>>
           z == <<a, b>>
           w == x \o y
<1>3. w \in Seq(S) /\ Len(w) = 2 /\ w[1] = a /\ w[2] = b
  <2> HIDE DEF x, y
  <2> QED
    BY <1>1 DEF x, y
<1> HIDE DEF x, y, z, w
<1>4. w = z
  <2>1. /\ w \in Seq(S) /\ z \in Seq(S) /\ Len(w) = Len(z)
        /\ \A i \in 1..Len(w) : w[i] = z[i]
    BY <1>2, <1>3 DEF z
  <2> QED
    BY <2>1, SeqEqual
<1> QED
  BY <1>4 DEF x, y, z, w

\* Between labels and within a value, for the scan of the braces.
Unquoted(k) == [index |-> k, quoted |-> FALSE, skip |-> FALSE, closed |-> FALSE]
Quoted(k)   == [index |-> k, quoted |-> TRUE, skip |-> FALSE, closed |-> FALSE]

\* The states of the scan of the labels.
LabelState(at, key, val, ls) == [at |-> at, key |-> key, value |-> val, labels |-> ls]

\* How a character is written.
Escaped(t) ==
    CASE t \in {QUOTE, BACKSLASH} -> <<BACKSLASH, t>>
      [] t = NEWLINE              -> <<BACKSLASH, "n">>
      [] OTHER                    -> <<t>>

\* The four ways a character is written.
LEMMA EscapedIs ==
    ASSUME NEW t \in Token
    PROVE  \/ t = QUOTE /\ Escaped(t) = <<BACKSLASH, t>>
           \/ t = BACKSLASH /\ Escaped(t) = <<BACKSLASH, t>>
           \/ t = NEWLINE /\ Escaped(t) = <<BACKSLASH, "n">>
           \/ t \notin {QUOTE, BACKSLASH, NEWLINE} /\ Escaped(t) = <<t>>
<1>1. QUOTE # NEWLINE /\ BACKSLASH # NEWLINE
  BY DEF QUOTE, BACKSLASH, NEWLINE
<1> QED
  BY <1>1, Zenon DEF Escaped

\* The scan of the braces goes over a character of a value and stays in it.
LEMMA EscapedBraces ==
    ASSUME NEW t \in Token, NEW k \in Nat
    PROVE  Reads("braces", Quoted(k), Escaped(t), Quoted(k + Len(Escaped(t))))
<1> DEFINE skipping == [index |-> k + 1, quoted |-> TRUE, skip |-> TRUE, closed |-> FALSE]
<1>1. Move("braces", Quoted(k), BACKSLASH) = skipping
  BY DEF Move, BraceStep, Quoted, BACKSLASH, QUOTE
<1>2. ASSUME NEW u PROVE Move("braces", skipping, u) = Quoted(k + 2)
  <2>1. Move("braces", skipping, u)
          = [index |-> (k + 1) + 1, quoted |-> TRUE, skip |-> FALSE, closed |-> FALSE]
    BY Zenon DEF Move, BraceStep
  <2>2. (k + 1) + 1 = k + 2
    OBVIOUS
  <2> QED
    BY <2>1, <2>2, Zenon DEF Quoted
<1>3. ASSUME t \notin {QUOTE, BACKSLASH} PROVE Move("braces", Quoted(k), t) = Quoted(k + 1)
  BY <1>3 DEF Move, BraceStep, Quoted
<1>4. ASSUME NEW u \in Token PROVE Reads("braces", Quoted(k), <<BACKSLASH, u>>, Quoted(k + 2))
  <2> HIDE DEF skipping
  <2>1. Reads("braces", Quoted(k), <<BACKSLASH>>, skipping)
    BY <1>1, ReadsOne
  <2>2. Reads("braces", skipping, <<u>>, Quoted(k + 2))
    BY <1>2, ReadsOne
  <2>3. BACKSLASH \in Token
    BY DEF Token, Words, Punctuation
  <2>4. /\ <<BACKSLASH>> \in Seq(Token) /\ <<u>> \in Seq(Token)
        /\ <<BACKSLASH>> \o <<u>> = <<BACKSLASH, u>>
    BY <2>3, Two
  <2>5. Reads("braces", Quoted(k), <<BACKSLASH>> \o <<u>>, Quoted(k + 2))
    BY <2>1, <2>2, <2>4, ReadsThen
  <2> QED
    BY <2>4, <2>5
<1>5. /\ Len(<<BACKSLASH, t>>) = 2 /\ Len(<<BACKSLASH, "n">>) = 2 /\ Len(<<t>>) = 1
      /\ "n" \in Token
  BY DEF Token, Words
<1>6. CASE Escaped(t) = <<BACKSLASH, t>>
  BY <1>4, <1>5, <1>6
<1>7. CASE Escaped(t) = <<BACKSLASH, "n">>
  BY <1>4, <1>5, <1>7
<1>8. CASE t \notin {QUOTE, BACKSLASH, NEWLINE} /\ Escaped(t) = <<t>>
  <2>1. Move("braces", Quoted(k), t) = Quoted(k + 1)
    BY <1>3, <1>8
  <2>2. Reads("braces", Quoted(k), <<t>>, Quoted(k + 1))
    BY <2>1, ReadsOne
  <2> QED
    BY <1>5, <1>8, <2>2
<1> QED
  BY <1>6, <1>7, <1>8, EscapedIs

\* The scan of the labels makes the character of it again.
LEMMA EscapedLabels ==
    ASSUME NEW t \in Token, NEW key, NEW val, NEW ls
    PROVE  Reads("labels", LabelState("value", key, val, ls), Escaped(t),
                           LabelState("value", key, Append(val, t), ls))
<1> DEFINE from == LabelState("value", key, val, ls)
           to == LabelState("value", key, Append(val, t), ls)
           escaping == LabelState("escape", key, val, ls)
<1>0. /\ QUOTE # BACKSLASH /\ "n" # QUOTE /\ "n" # BACKSLASH /\ "n" \in Token
      /\ "labels" # "braces" /\ "value" # "escape"
  BY DEF QUOTE, BACKSLASH, NEWLINE, Token, Words
<1>1. Move("labels", from, BACKSLASH) = escaping
  <2>1. LabelStep(from, BACKSLASH) = escaping
    BY <1>0, Zenon DEF LabelStep, LabelState
  <2> QED
    BY <1>0, <2>1, Zenon DEF Move
<1>2. ASSUME t \in {QUOTE, BACKSLASH} PROVE Move("labels", escaping, t) = to
  <2>1. t # "n"
    BY <1>0, <1>2
  <2>2. LabelStep(escaping, t) = to
    BY <1>0, <1>2, <2>1, Zenon DEF LabelStep, LabelState
  <2> QED
    BY <1>0, <2>2, Zenon DEF Move
<1>3. ASSUME t = NEWLINE PROVE Move("labels", escaping, "n") = to
  <2>1. LabelStep(escaping, "n") = to
    BY <1>0, <1>3, Zenon DEF LabelStep, LabelState
  <2> QED
    BY <1>0, <2>1, Zenon DEF Move
<1>4. ASSUME t \notin {QUOTE, BACKSLASH} PROVE Move("labels", from, t) = to
  <2>1. LabelStep(from, t) = to
    BY <1>0, <1>4, Zenon DEF LabelStep, LabelState
  <2> QED
    BY <1>0, <2>1, Zenon DEF Move
<1> HIDE DEF from, to, escaping
<1>5. ASSUME NEW u \in Token, Move("labels", escaping, u) = to
      PROVE  Reads("labels", from, <<BACKSLASH, u>>, to)
  <2>1. Reads("labels", from, <<BACKSLASH>>, escaping)
    BY <1>1, ReadsOne
  <2>2. Reads("labels", escaping, <<u>>, to)
    BY <1>5, ReadsOne
  <2>3. BACKSLASH \in Token
    BY DEF Token, Words, Punctuation
  <2>4. /\ <<BACKSLASH>> \in Seq(Token) /\ <<u>> \in Seq(Token)
        /\ <<BACKSLASH>> \o <<u>> = <<BACKSLASH, u>>
    BY <2>3, Two
  <2>5. Reads("labels", from, <<BACKSLASH>> \o <<u>>, to)
    BY <2>1, <2>2, <2>4, ReadsThen
  <2> QED
    BY <2>4, <2>5
<1>6. CASE t \in {QUOTE, BACKSLASH} /\ Escaped(t) = <<BACKSLASH, t>>
  <2>1. Reads("labels", from, <<BACKSLASH, t>>, to)
    BY <1>2, <1>5, <1>6
  <2> QED
    BY <1>6, <2>1 DEF from, to
<1>7. CASE t = NEWLINE /\ Escaped(t) = <<BACKSLASH, "n">>
  <2>1. Reads("labels", from, <<BACKSLASH, "n">>, to)
    BY <1>0, <1>3, <1>5, <1>7
  <2> QED
    BY <1>7, <2>1 DEF from, to
<1>8. CASE t \notin {QUOTE, BACKSLASH, NEWLINE} /\ Escaped(t) = <<t>>
  <2>1. Reads("labels", from, <<t>>, to)
    BY <1>4, <1>8, ReadsOne
  <2> QED
    BY <1>8, <2>1 DEF from, to
<1> QED
  BY <1>6, <1>7, <1>8, EscapedIs

\* An escaped value, the parts of it being the escaped characters.
LEMMA EscapeIs ==
    ASSUME NEW val \in Seq(Token)
    PROVE  LET parts == [i \in 1..Len(val) |-> Escaped(val[i])]
           IN  /\ escape(val) = FlattenSeq(parts)
               /\ parts \in Seq(Seq(Token)) /\ Len(parts) = Len(val)
<1> DEFINE parts == [i \in 1..Len(val) |-> Escaped(val[i])]
<1>1. DOMAIN val = 1..Len(val) /\ Len(val) \in Nat
  OBVIOUS
<1>2. escape(val) = FlattenSeq(parts)
  BY <1>1, Zenon DEF escape, Escaped
<1>3. ASSUME NEW i \in 1..Len(val) PROVE Escaped(val[i]) \in Seq(Token)
  <2>1. BACKSLASH \in Token /\ "n" \in Token
    BY DEF Token, Words, Punctuation
  <2>2. /\ val[i] \in Token /\ <<val[i]>> \in Seq(Token)
        /\ <<BACKSLASH, val[i]>> \in Seq(Token) /\ <<BACKSLASH, "n">> \in Seq(Token)
    BY <2>1
  <2> QED
    BY <2>1, <2>2, EscapedIs
<1>4. parts \in Seq(Seq(Token)) /\ Len(parts) = Len(val)
  BY <1>1, <1>3
<1> QED
  BY <1>2, <1>4

\* What is escaped is of one line, the scan of the braces stays within quotes,
\* and the scan of the labels reads the value it was.
LEMMA EscapeReads ==
    ASSUME NEW val \in Seq(Token)
    PROVE  /\ escape(val) \in Seq(Token) /\ NEWLINE \notin Range(escape(val))
           /\ \A k \in Nat : Reads("braces", Quoted(k), escape(val), Quoted(k + Len(escape(val))))
           /\ \A key, ls : Reads("labels", LabelState("value", key, <<>>, ls), escape(val),
                                          LabelState("value", key, val, ls))
<1> DEFINE n == Len(val)
           parts == [i \in 1..n |-> Escaped(val[i])]
<1>1. /\ escape(val) = FlattenSeq(parts) /\ parts \in Seq(Seq(Token)) /\ Len(parts) = n
      /\ n \in Nat /\ \A i \in 1..n : val[i] \in Token /\ parts[i] = Escaped(val[i])
  BY EscapeIs
<1> HIDE DEF parts
<1>2. PICK F \in [0..n -> Seq(Token)] : Joins(F, parts)
  BY <1>1, Flattened
<1>3. F[0] = <<>> /\ F[n] = escape(val)
  BY <1>1, <1>2 DEF Joins
<1>4. ASSUME NEW i \in 0..(n - 1)
      PROVE  /\ i + 1 \in 1..n /\ i + 1 \in 0..n /\ i \in 0..n
             /\ F[i] \in Seq(Token) /\ val[i + 1] \in Token /\ Escaped(val[i + 1]) \in Seq(Token)
             /\ F[i + 1] = F[i] \o Escaped(val[i + 1])
  <2>1. i + 1 \in 1..n /\ i + 1 \in 0..n /\ i \in 0..n /\ (i + 1) - 1 = i
    BY <1>1
  <2>2. F[i + 1] = F[i] \o parts[i + 1]
    BY <1>1, <1>2, <2>1 DEF Joins
  <2>3. parts[i + 1] \in Seq(Token)
    BY <1>1, <2>1
  <2> QED
    BY <1>1, <2>1, <2>2, <2>3
<1>5. n \in 0..n
  BY <1>1
<1>6. NEWLINE \notin Range(escape(val))
  <2>1. ASSUME NEW i \in 1..n PROVE NEWLINE \notin Range(Escaped(val[i]))
    <3>1. BACKSLASH # NEWLINE /\ QUOTE # NEWLINE /\ "n" # NEWLINE
      BY DEF BACKSLASH, QUOTE, NEWLINE
    <3>2. (\A t : Range(<<t>>) = {t}) /\ (\A t, u : Range(<<t, u>>) = {t, u})
      BY DEF Range
    <3>3. val[i] \in Token
      BY <1>1
    <3> QED
      BY <3>1, <3>2, <3>3, EscapedIs
  <2>2. Range(escape(val)) = UNION {Range(parts[i]) : i \in DOMAIN parts}
    BY <1>1, FlattenedSet
  <2>3. DOMAIN parts = 1..n
    BY <1>1
  <2> QED
    BY <1>1, <2>1, <2>2, <2>3
<1>7. ASSUME NEW k \in Nat
      PROVE  Reads("braces", Quoted(k), escape(val), Quoted(k + Len(escape(val))))
  <2> DEFINE T == {i \in 0..n : Reads("braces", Quoted(k), F[i], Quoted(k + Len(F[i])))}
  <2>1. 0 \in T
    <3>1. k + Len(<<>>) = k /\ 0 \in 0..n
      BY <1>1
    <3>2. Reads("braces", Quoted(k), <<>>, Quoted(k))
      BY ReadsNone
    <3> QED
      BY <1>3, <3>1, <3>2
  <2>2. ASSUME NEW i \in 0..(n - 1), i \in T PROVE i + 1 \in T
    <3> DEFINE part == Escaped(val[i + 1])
               m == k + Len(F[i])
    <3>0. part \in Seq(Token) /\ F[i] \in Seq(Token)
      BY <1>4
    <3>1. part \in Seq(Token) /\ F[i] \in Seq(Token) /\ m \in Nat
      <4> HIDE DEF part
      <4> QED
        BY <3>0
    <3>2. Reads("braces", Quoted(m), part, Quoted(m + Len(part)))
      BY <1>4, <3>1, EscapedBraces
    <3>3. Reads("braces", Quoted(k), F[i], Quoted(m))
      BY <2>2
    <3> HIDE DEF part
    <3>4. m + Len(part) = k + Len(F[i] \o part)
      BY <3>1
    <3> HIDE DEF m
    <3>5. Reads("braces", Quoted(k), F[i] \o part, Quoted(m + Len(part)))
      BY <3>1, <3>2, <3>3, ReadsThen
    <3> QED
      BY <1>4, <3>4, <3>5 DEF part
  <2>3. \A i \in 0..n : i \in T
    <3> HIDE DEF T, n
    <3> QED
      BY <1>1, <2>1, <2>2, UpTo
  <2> QED
    BY <1>3, <1>5, <2>3
<1>8. ASSUME NEW key, NEW ls
      PROVE  Reads("labels", LabelState("value", key, <<>>, ls), escape(val),
                             LabelState("value", key, val, ls))
  <2> DEFINE from == LabelState("value", key, <<>>, ls)
             Until(i) == LabelState("value", key, SubSeq(val, 1, i), ls)
             T == {i \in 0..n : Reads("labels", from, F[i], Until(i))}
  <2>1. 0 \in T
    <3>1. SubSeq(val, 1, 0) = <<>> /\ 0 \in 0..n
      BY <1>1
    <3>2. Reads("labels", from, <<>>, from)
      BY ReadsNone
    <3> QED
      BY <1>3, <3>1, <3>2
  <2>2. ASSUME NEW i \in 0..(n - 1), i \in T PROVE i + 1 \in T
    <3> DEFINE part == Escaped(val[i + 1])
               next == LabelState("value", key, Append(SubSeq(val, 1, i), val[i + 1]), ls)
    <3>1. part \in Seq(Token) /\ F[i] \in Seq(Token)
      BY <1>4
    <3>2. Reads("labels", Until(i), part, next)
      BY <1>4, EscapedLabels
    <3>3. Reads("labels", from, F[i], Until(i))
      BY <2>2
    <3>4. SubSeq(val, 1, i + 1) = Append(SubSeq(val, 1, i), val[i + 1])
      BY <1>1, <1>4
    <3> HIDE DEF part
    <3>5. Reads("labels", from, F[i] \o part, next)
      <4> HIDE DEF from, Until, next
      <4> QED
        BY <3>1, <3>2, <3>3, ReadsThen
    <3>6. next = Until(i + 1)
      BY <3>4, Zenon
    <3> HIDE DEF next, from, Until
    <3> QED
      BY <1>4, <3>5, <3>6 DEF part
  <2>3. \A i \in 0..n : i \in T
    <3> HIDE DEF T, n
    <3> QED
      BY <1>1, <2>1, <2>2, UpTo
  <2>4. SubSeq(val, 1, n) = val
    OBVIOUS
  <2>5. Until(n) = LabelState("value", key, val, ls)
    BY <2>4, Zenon
  <2>6. Reads("labels", from, F[n], Until(n))
    BY <1>5, <2>3
  <2> QED
    BY <1>3, <2>5, <2>6, Zenon
<1>9. escape(val) \in Seq(Token)
  BY <1>1, FlattenedSet
<1> QED
  BY <1>6, <1>7, <1>8, <1>9

\* A text that is read as these labels, one after the other.
Encodes(text, ls) ==
    /\ text \in Seq(Token) /\ NEWLINE \notin Range(text)
    /\ ls \in Seq(Token \X Seq(Token))
    /\ \A k \in Nat : Reads("braces", Unquoted(k), text, Unquoted(k + Len(text)))
    /\ \A key, val : \A before \in Seq(Token \X Seq(Token)) :
          \E key2, val2 :
             Reads("labels", LabelState("key", key, val, before), text,
                             LabelState("after", key2, val2, before \o ls))

\* What begins a label.
LEMMA LabelBegins ==
    ASSUME NEW key \in Token \ Punctuation
    PROVE  /\ <<key, "=", QUOTE>> \in Seq(Token) /\ Len(<<key, "=", QUOTE>>) = 3
           /\ Range(<<key, "=", QUOTE>>) = {key, "=", QUOTE}
           /\ \A k \in Nat :
                 Reads("braces", Unquoted(k), <<key, "=", QUOTE>>, Quoted(k + 3))
           /\ \A key1, val, ls :
                 Reads("labels", LabelState("key", key1, val, ls), <<key, "=", QUOTE>>,
                                 LabelState("value", key, <<>>, ls))
<1> DEFINE two == <<key, "=">>
<1>1. "=" \in Token /\ QUOTE \in Token /\ key \in Token
  BY DEF Token, Words, Punctuation
<1>2. /\ key # QUOTE /\ key # "}" /\ key # SPACE
      /\ "=" # "}" /\ "=" # QUOTE /\ "=" # SPACE /\ QUOTE # "}" /\ QUOTE # SPACE
      /\ "labels" # "braces"
  BY DEF Punctuation, QUOTE, SPACE
<1>3. /\ <<key>> \in Seq(Token) /\ <<"=">> \in Seq(Token) /\ <<QUOTE>> \in Seq(Token)
      /\ two \in Seq(Token) /\ two = <<key>> \o <<"=">>
  BY <1>1, Two
<1>4. /\ <<key, "=", QUOTE>> = two \o <<QUOTE>> /\ <<key, "=", QUOTE>> \in Seq(Token)
      /\ Len(<<key, "=", QUOTE>>) = 3
  BY <1>1
<1>5. ASSUME NEW S, NEW from, NEW x, NEW y, NEW to,
             Reads(S, from, <<key>>, x), Reads(S, x, <<"=">>, y), Reads(S, y, <<QUOTE>>, to)
      PROVE  Reads(S, from, <<key, "=", QUOTE>>, to)
  <2>1. Reads(S, from, two, y)
    BY <1>3, <1>5, ReadsThen
  <2>2. Reads(S, from, two \o <<QUOTE>>, to)
    BY <1>3, <1>5, <2>1, ReadsThen
  <2> QED
    BY <1>4, <2>2
<1>6. ASSUME NEW k \in Nat
      PROVE  Reads("braces", Unquoted(k), <<key, "=", QUOTE>>, Quoted(k + 3))
  <2>1. /\ Move("braces", Unquoted(k), key) = Unquoted(k + 1)
        /\ Move("braces", Unquoted(k + 1), "=") = Unquoted((k + 1) + 1)
        /\ Move("braces", Unquoted((k + 1) + 1), QUOTE) = Quoted(((k + 1) + 1) + 1)
    BY <1>2, Zenon DEF Move, BraceStep, Unquoted, Quoted
  <2>2. ((k + 1) + 1) + 1 = k + 3
    OBVIOUS
  <2> QED
    BY <1>5, <2>1, <2>2, ReadsOne
<1>7. ASSUME NEW key1, NEW val, NEW ls
      PROVE  Reads("labels", LabelState("key", key1, val, ls), <<key, "=", QUOTE>>,
                             LabelState("value", key, <<>>, ls))
  <2> DEFINE x == LabelState("equals", key, <<>>, ls)
             y == LabelState("quote", key, <<>>, ls)
             to == LabelState("value", key, <<>>, ls)
  <2>1. LabelStep(LabelState("key", key1, val, ls), key) = x
    BY <1>2, Zenon DEF LabelStep, LabelState
  <2>2. LabelStep(x, "=") = y
    BY <1>2, Zenon DEF LabelStep, LabelState
  <2>3. LabelStep(y, QUOTE) = to
    BY <1>2, Zenon DEF LabelStep, LabelState
  <2> HIDE DEF x, y, to
  <2>4. Reads("labels", LabelState("key", key1, val, ls), <<key>>, x)
    BY <1>2, <2>1, ReadsOne DEF Move
  <2>5. Reads("labels", x, <<"=">>, y) /\ Reads("labels", y, <<QUOTE>>, to)
    BY <1>2, <2>2, <2>3, ReadsOne DEF Move
  <2> QED
    BY <1>5, <2>4, <2>5 DEF to
<1>8. Range(<<key, "=", QUOTE>>) = {key, "=", QUOTE}
  BY DEF Range
<1> QED
  BY <1>4, <1>6, <1>7, <1>8

\* One label.
LEMMA EncodesLabel ==
    ASSUME NEW key \in Token \ Punctuation, NEW val \in Seq(Token)
    PROVE  Encodes(Label(key, escape(val)), << <<key, val>> >>)
<1> DEFINE begin == <<key, "=", QUOTE>>
           text == escape(val)
           end == <<QUOTE>>
           ls == << <<key, val>> >>
<1>1. /\ begin \in Seq(Token) /\ Len(begin) = 3 /\ Range(begin) = {key, "=", QUOTE}
      /\ text \in Seq(Token) /\ NEWLINE \notin Range(text)
      /\ end \in Seq(Token) /\ Len(end) = 1 /\ Range(end) = {QUOTE}
  <2>1. QUOTE \in Token
    BY DEF Token, Words, Punctuation
  <2> QED
    BY <2>1, LabelBegins, EscapeReads DEF Range
<1>2. Label(key, text) = (begin \o text) \o end
  BY DEF Label
<1>3. ls \in Seq(Token \X Seq(Token))
  OBVIOUS
<1>4. ASSUME NEW S, NEW from, NEW x, NEW y, NEW to,
             Reads(S, from, begin, x), Reads(S, x, text, y), Reads(S, y, end, to)
      PROVE  Reads(S, from, (begin \o text) \o end, to)
  <2> HIDE DEF begin, text, end
  <2>1. Reads(S, from, begin \o text, y)
    BY <1>1, <1>4, ReadsThen
  <2>2. begin \o text \in Seq(Token)
    BY <1>1
  <2> QED
    BY <1>1, <1>4, <2>1, <2>2, ReadsThen
<1>5. ASSUME NEW k \in Nat
      PROVE  Reads("braces", Unquoted(k), (begin \o text) \o end,
                             Unquoted(k + Len((begin \o text) \o end)))
  <2> DEFINE n == Len(text)
             m == (k + 3) + n
  <2>1. n \in Nat /\ k + 3 \in Nat /\ m \in Nat
    BY <1>1
  <2>2. Reads("braces", Unquoted(k), begin, Quoted(k + 3))
    BY LabelBegins
  <2>3. Reads("braces", Quoted(k + 3), text, Quoted(m))
    BY <2>1, EscapeReads
  <2>4. Move("braces", Quoted(m), QUOTE) = Unquoted(m + 1)
    <3>1. QUOTE # BACKSLASH
      BY DEF QUOTE, BACKSLASH
    <3> QED
      BY <3>1, Zenon DEF Move, BraceStep, Quoted, Unquoted
  <2>5. Reads("braces", Quoted(m), end, Unquoted(m + 1))
    BY <2>4, ReadsOne
  <2>6. m + 1 = k + Len((begin \o text) \o end)
    <3> HIDE DEF begin, text, end
    <3> DEFINE most == begin \o text
    <3>0. begin \in Seq(Token) /\ text \in Seq(Token) /\ end \in Seq(Token)
      BY <1>1
    <3>1. most \in Seq(Token) /\ Len(most) = Len(begin) + Len(text) /\ Len(text) \in Nat
      BY <3>0, Concat
    <3>4. most \in Seq(Token) /\ Len(most) = 3 + Len(text)
      BY <1>1, <3>1
    <3> HIDE DEF most
    <3>5. Len(most \o end) = Len(most) + Len(end)
      BY <3>0, <3>1, Concat
    <3>2. Len(most \o end) = (3 + Len(text)) + 1
      <4> DEFINE whole == most \o end
      <4> HIDE DEF whole
      <4>1. Len(whole) = Len(most) + Len(end) /\ Len(most) = 3 + Len(text) /\ Len(end) = 1
        BY <1>1, <3>4, <3>5 DEF whole
      <4> QED
        BY <4>1 DEF whole
    <3>3. m + 1 = k + ((3 + Len(text)) + 1)
      BY <2>1
    <3> QED
      BY <3>2, <3>3 DEF most
  <2> HIDE DEF m, begin, text, end
  <2>7. Reads("braces", Unquoted(k), (begin \o text) \o end, Unquoted(m + 1))
    BY <1>4, <2>2, <2>3, <2>5
  <2> QED
    BY <2>6, <2>7
<1>6. ASSUME NEW key1, NEW val1, NEW before \in Seq(Token \X Seq(Token))
      PROVE  \E key2, val2 :
                Reads("labels", LabelState("key", key1, val1, before), (begin \o text) \o end,
                                LabelState("after", key2, val2, before \o ls))
  <2> DEFINE x == LabelState("value", key, <<>>, before)
             y == LabelState("value", key, val, before)
             to == LabelState("after", key, val, Append(before, <<key, val>>))
  <2>1. Reads("labels", LabelState("key", key1, val1, before), begin, x)
    BY LabelBegins
  <2>2. Reads("labels", x, text, y)
    BY EscapeReads
  <2>3. Reads("labels", y, end, to)
    <3>1. LabelStep(y, QUOTE) = to
      <4>1. QUOTE # BACKSLASH
        BY DEF QUOTE, BACKSLASH
      <4> QED
        BY <4>1, Zenon DEF LabelStep, LabelState
    <3>2. "labels" # "braces"
      OBVIOUS
    <3> HIDE DEF y, to
    <3> QED
      BY <3>1, <3>2, ReadsOne DEF Move
  <2>4. Append(before, <<key, val>>) = before \o ls
    <3> DEFINE one == <<key, val>>
    <3>1. one \in Token \X Seq(Token)
      OBVIOUS
    <3> HIDE DEF one
    <3>2. Append(before, one) = before \o <<one>>
      BY <3>1, AppendIsConcat
    <3> QED
      BY <3>2 DEF one
  <2>5. to = LabelState("after", key, val, before \o ls)
    BY <2>4, Zenon
  <2> HIDE DEF x, y, to, begin, text, end
  <2>6. Reads("labels", LabelState("key", key1, val1, before), (begin \o text) \o end, to)
    BY <1>4, <2>1, <2>2, <2>3
  <2> QED
    BY <2>5, <2>6, Zenon
<1>7. /\ (begin \o text) \o end \in Seq(Token)
      /\ NEWLINE \notin Range((begin \o text) \o end)
  <2>1. NEWLINE # key /\ NEWLINE # "=" /\ NEWLINE # QUOTE
    BY DEF NEWLINE, QUOTE, Punctuation
  <2> HIDE DEF begin, text, end
  <2> DEFINE most == begin \o text
  <2>2. most \in Seq(Token) /\ Range(most) = Range(begin) \cup Range(text)
    BY <1>1, RangeConcatenation
  <2> HIDE DEF most
  <2>3. most \o end \in Seq(Token) /\ Range(most \o end) = Range(most) \cup Range(end)
    BY <1>1, <2>2, RangeConcatenation
  <2> QED
    BY <1>1, <2>1, <2>2, <2>3 DEF most
<1> HIDE DEF begin, text, end, ls
<1>8. Encodes((begin \o text) \o end, ls)
  BY <1>3, <1>5, <1>6, <1>7, Zenon DEF Encodes
<1> QED
  BY <1>2, <1>8 DEF text, ls

\* Labels and further labels, with a comma between them.
LEMMA EncodesMore ==
    ASSUME NEW a, NEW b, NEW x, NEW y, Encodes(a, x), Encodes(b, y)
    PROVE  Encodes(a \o (<<",">> \o b), x \o y)
<1> DEFINE L == Token \X Seq(Token)
           comma == <<",">>
           rest == comma \o b
           text == a \o rest
<1>1. /\ a \in Seq(Token) /\ b \in Seq(Token) /\ comma \in Seq(Token) /\ Len(comma) = 1
      /\ x \in Seq(L) /\ y \in Seq(L) /\ Len(a) \in Nat /\ Len(b) \in Nat
  <2>1. "," \in Token
    BY DEF Token, Words, Punctuation
  <2>2. comma \in Seq(Token) /\ Len(comma) = 1
    BY <2>1, One
  <2>3. a \in Seq(Token) /\ b \in Seq(Token) /\ x \in Seq(L) /\ y \in Seq(L)
    BY Zenon DEF Encodes
  <2> HIDE DEF comma, L
  <2> QED
    BY <2>2, <2>3
<1>2. /\ rest \in Seq(Token) /\ Len(rest) = 1 + Len(b)
      /\ Range(rest) = {","} \cup Range(b)
  <2>1. Range(comma) = {","}
    BY One
  <2>2. comma \in Seq(Token) /\ b \in Seq(Token)
    BY <1>1
  <2> HIDE DEF comma
  <2>3. /\ rest \in Seq(Token) /\ Len(rest) = Len(comma) + Len(b)
        /\ Range(rest) = Range(comma) \cup Range(b)
    BY <2>2, Concat
  <2> HIDE DEF rest
  <2> QED
    BY <1>1, <2>1, <2>3
<1> HIDE DEF comma
<1>3. ASSUME NEW S, NEW from, NEW s1, NEW s2, NEW to,
             Reads(S, from, a, s1), Reads(S, s1, comma, s2), Reads(S, s2, b, to)
      PROVE  Reads(S, from, text, to)
  <2>1. Reads(S, s1, rest, to)
    BY <1>1, <1>3, ReadsThen
  <2> HIDE DEF rest
  <2> QED
    BY <1>1, <1>2, <1>3, <2>1, ReadsThen
<1> HIDE DEF rest
<1>4. text \in Seq(Token) /\ Len(text) = Len(a) + (1 + Len(b)) /\ NEWLINE \notin Range(text)
  <2>0. a \in Seq(Token) /\ rest \in Seq(Token)
    BY <1>1, <1>2
  <2>1. /\ text \in Seq(Token) /\ Len(text) = Len(a) + Len(rest)
        /\ Range(text) = Range(a) \cup Range(rest)
    BY <2>0, Concat
  <2>2. NEWLINE \notin Range(a) /\ NEWLINE \notin Range(b) /\ NEWLINE # ","
    BY DEF Encodes, NEWLINE
  <2> HIDE DEF text
  <2> QED
    BY <1>2, <2>1, <2>2
<1> HIDE DEF text
<1>5. ASSUME NEW k \in Nat PROVE Reads("braces", Unquoted(k), text, Unquoted(k + Len(text)))
  <2> DEFINE m == k + Len(a)
             last == (m + 1) + Len(b)
  <2>1. m \in Nat /\ m + 1 \in Nat /\ last = k + Len(text)
    BY <1>1, <1>4
  <2>2. Reads("braces", Unquoted(k), a, Unquoted(m))
    BY DEF Encodes
  <2>3. Reads("braces", Unquoted(m), comma, Unquoted(m + 1))
    <3>1. Move("braces", Unquoted(m), ",") = Unquoted(m + 1)
      <4>1. "," # QUOTE /\ "," # "}"
        BY DEF QUOTE
      <4> QED
        BY <4>1, Zenon DEF Move, BraceStep, Unquoted
    <3> QED
      BY <3>1, ReadsOne DEF comma
  <2>4. Reads("braces", Unquoted(m + 1), b, Unquoted(last))
    BY <2>1 DEF Encodes
  <2> HIDE DEF m, last
  <2>5. Reads("braces", Unquoted(k), text, Unquoted(last))
    BY <1>3, <2>2, <2>3, <2>4
  <2> QED
    BY <2>1, <2>5
<1>6. ASSUME NEW key, NEW val, NEW before \in Seq(L)
      PROVE  \E key2, val2 : Reads("labels", LabelState("key", key, val, before), text,
                                             LabelState("after", key2, val2, before \o (x \o y)))
  <2>1. PICK key1, val1 : Reads("labels", LabelState("key", key, val, before), a,
                                          LabelState("after", key1, val1, before \o x))
    BY DEF Encodes
  <2> DEFINE more == before \o x
  <2>2. more \in Seq(L)
    <3> HIDE DEF L
    <3> QED
      BY <1>1
  <2> HIDE DEF more
  <2>3. Reads("labels", LabelState("after", key1, val1, more), comma,
                        LabelState("key", key1, val1, more))
    <3>1. LabelStep(LabelState("after", key1, val1, more), ",") = LabelState("key", key1, val1, more)
      <4>1. "," # SPACE
        BY DEF SPACE
      <4> QED
        BY <4>1, Zenon DEF LabelStep, LabelState
    <3>2. "labels" # "braces"
      OBVIOUS
    <3> QED
      BY <3>1, <3>2, ReadsOne DEF Move, comma
  <2>4. PICK key2, val2 : Reads("labels", LabelState("key", key1, val1, more), b,
                                          LabelState("after", key2, val2, more \o y))
    BY <2>2 DEF Encodes
  <2>5. Reads("labels", LabelState("key", key, val, before), text,
                        LabelState("after", key2, val2, more \o y))
    BY <1>3, <2>1, <2>3, <2>4 DEF more
  <2>6. more \o y = before \o (x \o y)
    <3> HIDE DEF L
    <3>1. x \in Seq(L) /\ y \in Seq(L)
      BY <1>1
    <3>2. (before \o x) \o y = before \o (x \o y)
      BY <3>1, ConcatAssociative
    <3> QED
      BY <3>2 DEF more
  <2> QED
    BY <2>5, <2>6, Zenon
<1>7. x \o y \in Seq(L)
  <2> HIDE DEF L
  <2> QED
    BY <1>1
<1> QED
  BY <1>4, <1>5, <1>6, <1>7, Zenon DEF Encodes, text, rest, comma

-----------------------------------------------------------------------------
(* A line *)

\* How three sequences are put together does not matter.
LEMMA Associative ==
    \A S : \A a, b, c \in Seq(S) : (a \o b) \o c = a \o (b \o c)
BY ConcatAssociative

\* What lies between two parts of a sequence.
LEMMA Between ==
    ASSUME NEW S, NEW a \in Seq(S), NEW b \in Seq(S), NEW c \in Seq(S)
    PROVE  SubSeq((a \o b) \o c, Len(a) + 1, Len(a) + Len(b)) = b
<1> DEFINE ab == a \o b
           s == ab \o c
           m == Len(a)
           n == Len(b)
           part == SubSeq(s, m + 1, m + n)
<1>1. /\ ab \in Seq(S) /\ Len(ab) = m + n /\ m \in Nat /\ n \in Nat
      /\ \A i \in 1..n : ab[m + i] = b[i]
  BY Concat
<1> HIDE DEF ab
<1>0. ab \in Seq(S)
  BY <1>1
<1>2. /\ s \in Seq(S) /\ Len(s) = Len(ab) + Len(c) /\ Len(c) \in Nat
      /\ \A i \in 1..Len(ab) : s[i] = ab[i]
  BY <1>0, Concat
<1>3. \A i \in 1..n : s[m + i] = b[i]
  <2> HIDE DEF s, m, n
  <2>1. \A i \in 1..n : m + i \in 1..Len(ab)
    BY <1>1
  <2> QED
    BY <1>1, <1>2, <2>1
<1> HIDE DEF s, m, n
<1>4. m + 1 \in Int /\ m + n \in Int /\ \A i \in (m + 1)..(m + n) : s[i] \in S
  <2>1. \A i \in 1..Len(s) : s[i] \in S
    BY <1>2
  <2>2. \A i \in (m + 1)..(m + n) : i \in 1..Len(s)
    BY <1>1, <1>2
  <2> QED
    BY <1>1, <2>1, <2>2
<1>5. /\ part \in Seq(S)
      /\ Len(part) = IF m + 1 <= m + n THEN (m + n) - (m + 1) + 1 ELSE 0
      /\ \A i \in 1..((m + n) - (m + 1) + 1) : part[i] = s[(m + 1) + i - 1]
  BY <1>4, SubSeqProperties
<1> HIDE DEF part
<1>6. Len(part) = n
  BY <1>1, <1>5
<1>7. ASSUME NEW i \in 1..n PROVE part[i] = b[i]
  <2>1. i \in 1..((m + n) - (m + 1) + 1) /\ (m + 1) + i - 1 = m + i
    BY <1>1
  <2> QED
    BY <1>3, <1>5, <2>1
<1>8. part = b
  <2>1. part \in Seq(S) /\ b \in Seq(S) /\ Len(part) = Len(b)
    BY <1>5, <1>6 DEF n
  <2>2. \A i \in 1..Len(part) : part[i] = b[i]
    BY <1>6, <1>7
  <2> QED
    BY <2>1, <2>2, SeqEqual
<1> QED
  BY <1>8 DEF part, s, ab, m, n

\* What comes after a part of a sequence.
LEMMA Behind ==
    ASSUME NEW S, NEW a \in Seq(S), NEW b \in Seq(S)
    PROVE  SubSeq(a \o b, Len(a) + 1, Len(a \o b)) = b
<1> DEFINE s == a \o b
<1>1. s \in Seq(S) /\ Len(s) = Len(a) + Len(b)
  BY Concat
<1>2. <<>> \in Seq(S)
  OBVIOUS
<1>3. SubSeq(s \o <<>>, Len(a) + 1, Len(a) + Len(b)) = b
  BY <1>2, Between
<1> HIDE DEF s
<1>4. s \o <<>> = s
  <2>1. s \in Seq(S)
    BY <1>1
  <2> QED
    BY <2>1, ConcatEmptySeq
<1> QED
  BY <1>1, <1>3, <1>4 DEF s

\* The least of some places.
LEMMA MinIs ==
    ASSUME NEW S, S \subseteq Int, NEW m \in S, \A i \in S : m <= i
    PROVE  Min(S) = m
<1>1. PICK i \in S : i = Min(S) /\ \A j \in S : i <= j
  BY DEF Min
<1>2. i \in Int /\ m \in Int /\ i <= m /\ m <= i
  BY <1>1
<1> QED
  BY <1>1, <1>2

\* A sequence of two.
LEMMA Pair ==
    ASSUME NEW S, NEW a \in S, NEW b \in S
    PROVE  /\ <<a, b>> \in Seq(S) /\ Len(<<a, b>>) = 2 /\ <<a, b>>[1] = a /\ <<a, b>>[2] = b
           /\ Range(<<a, b>>) = {a, b}
BY DEF Range

\* Three tokens one after the other.
LEMMA Three ==
    ASSUME NEW S, NEW a \in S, NEW b \in S, NEW c \in S
    PROVE  /\ <<a, b, c>> \in Seq(S) /\ <<b, c>> \in Seq(S) /\ <<a>> \in Seq(S)
           /\ <<a, b, c>> = <<a>> \o <<b, c>>
           /\ <<a, b>> \in Seq(S) /\ <<c>> \in Seq(S) /\ <<a, b, c>> = <<a, b>> \o <<c>>
<1>1. /\ <<a, b, c>> \in Seq(S) /\ <<b, c>> \in Seq(S) /\ <<a>> \in Seq(S)
      /\ <<a, b>> \in Seq(S) /\ <<c>> \in Seq(S)
  OBVIOUS
<1>2. <<a, b, c>> = <<a>> \o <<b, c>>
  OBVIOUS
<1>3. <<a, b, c>> = <<a, b>> \o <<c>>
  OBVIOUS
<1> QED
  BY <1>1, <1>2, <1>3

\* A third token after two.
LEMMA TwoAndOne ==
    ASSUME NEW S, NEW a \in S, NEW b \in S, NEW c \in S
    PROVE  <<a, b>> \o <<c>> = <<a, b, c>>
<1> DEFINE x == <<a, b>>
           y == <<c>>
           z == <<a, b, c>>
<1>1. /\ x \in Seq(S) /\ y \in Seq(S) /\ z \in Seq(S)
      /\ Len(x) = 2 /\ Len(y) = 1 /\ Len(z) = 3
      /\ z[1] = x[1] /\ z[2] = x[2] /\ z[3] = y[1]
  OBVIOUS
<1> HIDE DEF x, y, z
<1> DEFINE xy == x \o y
<1>2. x \in Seq(S) /\ y \in Seq(S)
  BY <1>1
<1>3. /\ xy \in Seq(S) /\ Len(xy) = Len(x) + Len(y)
      /\ \A i \in 1..Len(x) : xy[i] = x[i]
      /\ \A i \in 1..Len(y) : xy[Len(x) + i] = y[i]
  BY <1>2, Concat
<1> HIDE DEF xy
<1>4. Len(xy) = 3 /\ xy[1] = x[1] /\ xy[2] = x[2] /\ xy[3] = y[1]
  <2>1. 1 \in 1..2 /\ 2 \in 1..2 /\ 1 \in 1..1 /\ 2 + 1 = 3
    OBVIOUS
  <2> QED
    BY <1>1, <1>3, <2>1
<1>5. xy = z
  <2>1. \A i \in 1..3 : i = 1 \/ i = 2 \/ i = 3
    OBVIOUS
  <2>2. \A i \in 1..Len(xy) : xy[i] = z[i]
    BY <1>1, <1>4, <2>1
  <2>3. xy \in Seq(S) /\ z \in Seq(S) /\ Len(xy) = Len(z)
    BY <1>1, <1>3, <1>4
  <2> QED
    BY <2>2, <2>3, SeqEqual
<1> QED
  BY <1>5, Zenon DEF x, y, z, xy

\* Three tokens read one after the other.
LEMMA ReadsThree ==
    ASSUME NEW S, NEW a \in S, NEW b \in S, NEW c \in S, NEW scanner, NEW x, NEW y, NEW z, NEW to,
           Move(scanner, x, a) = y, Move(scanner, y, b) = z, Move(scanner, z, c) = to
    PROVE  Reads(scanner, x, <<a, b, c>>, to)
<1> DEFINE one == <<a>>
           two == <<b>>
           three == <<c>>
           most == <<b, c>>
<1>1. one \in Seq(S) /\ two \in Seq(S) /\ three \in Seq(S) /\ most \in Seq(S)
  OBVIOUS
<1>2. <<a, b, c>> = one \o most /\ most = two \o three
  <2>1. <<a, b, c>> = <<a>> \o <<b, c>>
    BY Three
  <2>2. <<b, c>> = <<b>> \o <<c>>
    BY Two
  <2> QED
    BY <2>1, <2>2, Zenon
<1>3. Reads(scanner, x, one, y) /\ Reads(scanner, y, two, z) /\ Reads(scanner, z, three, to)
  BY ReadsOne
<1> HIDE DEF one, two, three, most
<1>4. Reads(scanner, y, two \o three, to)
  BY <1>1, <1>3, ReadsThen
<1>5. Reads(scanner, y, most, to)
  BY <1>2, <1>4
<1>6. Reads(scanner, x, one \o most, to)
  BY <1>1, <1>3, <1>5, ReadsThen
<1> QED
  BY <1>2, <1>6

\* The parts of a line, by their places.
HasParts(line, S, metric, open, close, space, v, text) ==
    /\ line \in Seq(S) /\ Len(line) = Len(text) + 5
    /\ line[1] = metric /\ line[2] = open
    /\ Range(line) = Range(text) \cup {metric, open, close, space, v}
    /\ SubSeq(line, 3, Len(line)) = text \o <<close, space, v>>
    /\ SubSeq(line, 3, Len(text) + 2) = text
    /\ SubSeq(line, Len(text) + 4, Len(line)) = <<space, v>>

\* The parts of a line, found again by their places.
LEMMA LineParts ==
    ASSUME NEW S, NEW metric \in S, NEW open \in S, NEW close \in S, NEW space \in S,
           NEW v \in S, NEW text \in Seq(S)
    PROVE  HasParts(<<metric, open>> \o text \o <<close, space, v>>,
                    S, metric, open, close, space, v, text)
<1> DEFINE head == <<metric, open>>
           brace == <<close>>
           end == <<space, v>>
           n == Len(text)
           most == head \o text
           upto == most \o brace
           tail == brace \o end
           rest == text \o tail
<1>1. /\ head \in Seq(S) /\ Len(head) = 2 /\ head[1] = metric /\ head[2] = open
      /\ Range(head) = {metric, open}
  BY Pair
<1>2. brace \in Seq(S) /\ Len(brace) = 1 /\ Range(brace) = {close}
  BY One
<1>3. end \in Seq(S) /\ Len(end) = 2 /\ Range(end) = {space, v}
  BY Pair
<1>4. tail = <<close, space, v>>
  <2>1. <<close, space, v>> = <<close>> \o <<space, v>>
    BY Three
  <2> QED
    BY <2>1, Zenon
<1> DEFINE line == most \o tail
<1> HIDE DEF head, brace, end
<1>6. head \in Seq(S) /\ brace \in Seq(S) /\ end \in Seq(S)
  BY <1>1, <1>2, <1>3
<1>7. /\ most \in Seq(S) /\ Len(most) = Len(head) + n /\ n \in Nat
      /\ Range(most) = Range(head) \cup Range(text)
      /\ \A i \in 1..Len(head) : most[i] = head[i]
  BY <1>6, Concat
<1>8. /\ tail \in Seq(S) /\ Len(tail) = Len(brace) + Len(end)
      /\ Range(tail) = Range(brace) \cup Range(end)
  BY <1>6, Concat
<1> HIDE DEF most, tail
<1>9. most \in Seq(S) /\ tail \in Seq(S)
  BY <1>7, <1>8
<1>10. /\ line \in Seq(S) /\ Len(line) = Len(most) + Len(tail)
       /\ Range(line) = Range(most) \cup Range(tail)
       /\ \A i \in 1..Len(most) : line[i] = most[i]
  BY <1>9, Concat
<1>11. /\ rest \in Seq(S) /\ Len(rest) = n + Len(tail)
  BY <1>9, Concat
<1>12. line = head \o rest /\ line = upto \o end /\ upto \in Seq(S) /\ Len(upto) = Len(most) + Len(brace)
  <2>1. (head \o text) \o tail = head \o (text \o tail)
    <3>1. head \in Seq(S) /\ text \in Seq(S) /\ tail \in Seq(S)
      BY <1>6, <1>9
    <3> HIDE DEF rest, upto, line, n
    <3> QED
      BY <3>1, Associative
  <2>2. (most \o brace) \o end = most \o (brace \o end)
    <3>1. most \in Seq(S) /\ brace \in Seq(S) /\ end \in Seq(S)
      BY <1>6, <1>9
    <3> HIDE DEF rest, upto, line, n
    <3> QED
      BY <3>1, Associative
  <2>3. upto \in Seq(S) /\ Len(upto) = Len(most) + Len(brace)
    BY <1>6, <1>9, Concat
  <2> QED
    BY <2>1, <2>2, <2>3 DEF most, tail
<1> HIDE DEF rest, upto, line
<1>13. n \in Nat /\ Len(line) = n + 5 /\ Len(head) + 1 = 3 /\ Len(head) + n = n + 2
       /\ Len(upto) + 1 = n + 4
  BY <1>1, <1>2, <1>3, <1>7, <1>8, <1>10, <1>12
<1>14. line[1] = metric /\ line[2] = open
  <2>1. 1 \in 1..Len(head) /\ 2 \in 1..Len(head) /\ 1 \in 1..Len(most) /\ 2 \in 1..Len(most)
    BY <1>1, <1>7
  <2> QED
    BY <1>1, <1>7, <1>10, <2>1
<1>15. Range(line) = Range(text) \cup {metric, open, close, space, v}
  BY <1>1, <1>2, <1>3, <1>7, <1>8, <1>10
<1>16. SubSeq(line, 3, Len(line)) = rest
  <2>1. SubSeq(head \o rest, Len(head) + 1, Len(head \o rest)) = rest
    <3>1. rest \in Seq(S)
      BY <1>11
    <3> QED
      BY <1>6, <3>1, Behind
  <2> QED
    BY <1>12, <1>13, <2>1
<1>17. SubSeq(line, 3, n + 2) = text
  <2>1. SubSeq((head \o text) \o tail, Len(head) + 1, Len(head) + n) = text
    BY <1>6, <1>9, Between
  <2> QED
    BY <1>13, <2>1 DEF most, line
<1>18. SubSeq(line, n + 4, Len(line)) = end
  <2>1. SubSeq(upto \o end, Len(upto) + 1, Len(upto \o end)) = end
    <3>1. upto \in Seq(S)
      BY <1>12
    <3> QED
      BY <1>6, <3>1, Behind
  <2> QED
    BY <1>12, <1>13, <2>1
<1> QED
  <2>1. line = <<metric, open>> \o text \o <<close, space, v>>
    BY <1>4 DEF line, most, head
  <2> HIDE DEF line
  <2>2. HasParts(line, S, metric, open, close, space, v, text)
    BY <1>4, <1>10, <1>13, <1>14, <1>15, <1>16, <1>17, <1>18 DEF rest, end, HasParts
  <2> QED
    BY <2>1, <2>2, Zenon

\* The first of some places in a sequence, 0 where there is none.
Place(places) == IF places # {} THEN Min(places) ELSE 0
Having(s, token) == {j \in 1..Len(s) : s[j] = token}
Lacking(s, token) == {j \in 1..Len(s) : s[j] # token}

\* Where the first token of a kind is.
LEMMA SelectIs ==
    ASSUME NEW S, NEW s \in Seq(S), NEW i \in 1..Len(s), NEW token,
           \A j \in 1..(i - 1) : s[j] # token,
           s[i] = token
    PROVE  Place(Having(s, token)) = i
<1> DEFINE T == {j \in 1..Len(s) : s[j] = token}
<1>1. i \in T /\ T \subseteq Int /\ T # {}
  OBVIOUS
<1>2. \A j \in T : i <= j
  OBVIOUS
<1>3. Min(T) = i
  <2> HIDE DEF T
  <2> QED
    BY <1>1, <1>2, MinIs
<1> QED
  BY <1>1, <1>3 DEF Place, Having

\* A line that does not begin with a blank begins with its first word.
LEMMA NoBlankFirst ==
    ASSUME NEW line, 1 \in 1..Len(line), line[1] # SPACE
    PROVE  Place(Lacking(line, SPACE)) = 1
<1> DEFINE T == {j \in 1..Len(line) : line[j] # SPACE}
<1>1. 1 \in T /\ T \subseteq Int /\ T # {} /\ \A j \in T : 1 <= j
  OBVIOUS
<1>2. Min(T) = 1
  <2> HIDE DEF T
  <2> QED
    BY <1>1, MinIs
<1> QED
  BY <1>1, <1>2 DEF Place, Lacking

\* What stands behind the labels: a space and the number.
LEMMA WordIs ==
    ASSUME NEW S, NEW space \in S, NEW v \in S, v # space
    PROVE  Place(Lacking(<<space, v>>, space)) = 2
<1> DEFINE s == <<space, v>>
           T == {j \in 1..Len(s) : s[j] # space}
<1>1. T = {2}
  <2>1. Len(s) = 2 /\ s[1] = space /\ s[2] = v
    OBVIOUS
  <2> HIDE DEF s
  <2> QED
    BY <2>1
<1>2. Min({2}) = 2
  BY MinIs
<1> QED
  BY <1>1, <1>2 DEF Place, Lacking

\* The scan of the braces has come to the end.
Closed(k) == [index |-> k, quoted |-> FALSE, skip |-> FALSE, closed |-> TRUE]

\* Behind the labels it stays where it is.
LEMMA BracesClose ==
    ASSUME NEW k \in Nat, NEW v \in Token
    PROVE  Reads("braces", Unquoted(k), <<"}", SPACE, v>>, Closed(k))
<1>1. "}" \in Token /\ SPACE \in Token
  BY DEF Token, Words, Punctuation
<1>2. Move("braces", Unquoted(k), "}") = Closed(k)
  BY Zenon DEF Move, BraceStep, Unquoted, Closed
<1>3. \A t : Move("braces", Closed(k), t) = Closed(k)
  BY Zenon DEF Move, BraceStep, Closed
<1> QED
  BY <1>1, <1>2, <1>3, ReadsThree

\* A sample's line is read back: its metric, its labels and its number.
THEOREM LineReads ==
    ASSUME NEW metric \in Token \ Punctuation, NEW text, NEW ls, Encodes(text, ls),
           NEW number, ToString(number) \in Numerals
    PROVE  /\ parse_line(Line(metric, text, number))
                 = [metric |-> metric, labels |-> ls, value |-> ToString(number)]
           /\ Line(metric, text, number) \in Seq(Token)
           /\ NEWLINE \notin Range(Line(metric, text, number))
           /\ Line(metric, text, number) # <<>>
<1> DEFINE v == ToString(number)
           n == Len(text)
           line == Line(metric, text, number)
<1>1. /\ v \in Token /\ v \notin Punctuation /\ v \in Numerals
      /\ metric \in Token /\ metric \notin Punctuation
  BY Gx10Assumption DEF Token, Words
<1>2. "{" \in Token /\ "}" \in Token /\ SPACE \in Token
  BY DEF Token, Words, Punctuation
<1>3. text \in Seq(Token) /\ n \in Nat /\ NEWLINE \notin Range(text)
  BY DEF Encodes
<1>4. line = <<metric, "{">> \o text \o <<"}", SPACE, v>>
  BY DEF Line
<1> HIDE DEF v, n, line
<1>5. /\ line \in Seq(Token) /\ Len(line) = n + 5
      /\ line[1] = metric /\ line[2] = "{"
      /\ Range(line) = Range(text) \cup {metric, "{", "}", SPACE, v}
      /\ SubSeq(line, 3, Len(line)) = text \o <<"}", SPACE, v>>
      /\ SubSeq(line, 3, n + 2) = text
      /\ SubSeq(line, n + 4, Len(line)) = <<SPACE, v>>
  <2>1. HasParts(<<metric, "{">> \o text \o <<"}", SPACE, v>>,
                 Token, metric, "{", "}", SPACE, v, text)
    BY <1>1, <1>2, <1>3, LineParts, Zenon
  <2> QED
    BY <1>4, <2>1, Zenon DEF HasParts, n
<1>6. /\ metric # "{" /\ metric # SPACE /\ metric # NEWLINE /\ v # NEWLINE /\ v # SPACE
      /\ NEWLINE # "{" /\ NEWLINE # "}" /\ NEWLINE # SPACE
  <2>1. {"{", SPACE, NEWLINE} \subseteq Punctuation
    BY DEF Punctuation
  <2>2. NEWLINE # "{" /\ NEWLINE # "}" /\ NEWLINE # SPACE
    BY DEF NEWLINE, SPACE
  <2> QED
    BY <1>1, <2>1, <2>2
<1>7. NEWLINE \notin Range(line)
  BY <1>3, <1>5, <1>6
<1>8. Place(Having(line, "{")) = 2
  <2>1. line \in Seq(Token) /\ line[2] = "{" /\ line[1] # "{" /\ Len(line) = n + 5
    BY <1>5, <1>6, Zenon
  <2>2. 2 \in 1..Len(line)
    <3>1. Len(line) = n + 5
      BY <2>1
    <3> QED
      BY <1>3, <3>1
  <2>3. \A j \in 1..(2 - 1) : line[j] # "{"
    <3>1. \A j \in 1..(2 - 1) : j = 1
      OBVIOUS
    <3> QED
      BY <2>1, <3>1, Zenon
  <2>4. line \in Seq(Token) /\ line[2] = "{"
    BY <2>1
  <2> QED
    BY <2>2, <2>3, <2>4, SelectIs
<1>9. close_brace(line, 2) = n + 3
  <2>1. Reads("braces", Unquoted(3), text, Unquoted(3 + n))
    BY DEF Encodes, n
  <2>2. 3 + n \in Nat /\ 3 + n = n + 3 /\ 2 + 1 = 3
    BY <1>3
  <2>3. Reads("braces", Unquoted(3 + n), <<"}", SPACE, v>>, Closed(3 + n))
    BY <1>1, <2>2, BracesClose
  <2>4. <<"}", SPACE, v>> \in Seq(Token)
    BY <1>1, <1>2, Three, Zenon
  <2> DEFINE tail == <<"}", SPACE, v>>
  <2> HIDE DEF tail
  <2>5. Reads("braces", Unquoted(3), text \o tail, Closed(3 + n))
    BY <1>3, <2>1, <2>3, <2>4, ReadsThen DEF tail
  <2>6. text \o tail \in Seq(Token)
    BY <1>3, <2>4, Concat, Zenon DEF tail
  <2>7. Scan(BraceStep, Unquoted(3), text \o tail) = Closed(3 + n)
    BY <2>5, <2>6, ScanIs
  <2>8. SubSeq(line, 2 + 1, Len(line)) = text \o tail
    BY <1>5, <2>2 DEF tail
  <2>9. Scan(BraceStep, Unquoted(2 + 1), SubSeq(line, 2 + 1, Len(line))) = Closed(n + 3)
    BY <2>2, <2>7, <2>8, Zenon
  <2>10. Closed(n + 3).closed /\ Closed(n + 3).index = n + 3
    BY DEF Closed
  <2> QED
    BY <2>9, <2>10, Zenon DEF close_brace, Unquoted
<1>10. parse_labels(text).at = "after" /\ parse_labels(text).labels = ls
  <2>1. <<>> \in Seq(Token \X Seq(Token)) /\ ls \in Seq(Token \X Seq(Token))
    BY DEF Encodes
  <2>2. PICK key2, val2 : Reads("labels", LabelState("key", SPACE, <<>>, <<>>), text,
                                          LabelState("after", key2, val2, <<>> \o ls))
    BY <2>1 DEF Encodes
  <2>3. <<>> \o ls = ls
    BY <2>1
  <2>4. parse_labels(text) = LabelState("after", key2, val2, ls)
    BY <1>3, <2>2, <2>3, ScanIs DEF parse_labels, LabelState
  <2> QED
    BY <2>4 DEF LabelState
<1>11. /\ Place(Lacking(<<SPACE, v>>, SPACE)) = 2
       /\ <<SPACE, v>>[2] = v
  <2>1. Place(Lacking(<<SPACE, v>>, SPACE)) = 2
    BY <1>1, <1>2, <1>6, WordIs, Zenon
  <2> QED
    BY <2>1
<1>12. parse_line(line) = [metric |-> metric, labels |-> ls, value |-> v]
  <2>1. (n + 3) - 1 = n + 2 /\ (n + 3) + 1 = n + 4 /\ n + 3 # 0 /\ 2 + 1 = 3 /\ 2 # 0
    BY <1>3
  <2>0. Len(line) = n + 5
    BY <1>5, Zenon
  <2>2. Place(Lacking(line, SPACE)) = 1
    <3>1. 1 \in 1..Len(line)
      BY <1>3, <2>0
    <3> QED
      BY <1>5, <1>6, <3>1, NoBlankFirst
  <2>3. 1 # 0 /\ 2 # 0 /\ n + 3 # 0 /\ (\A i \in (1 + 1)..(2 - 1) : FALSE)
        /\ "after" \in {"key", "after"}
    BY <2>1
  <2> QED
    BY <1>1, <1>5, <1>8, <1>9, <1>10, <1>11, <2>1, <2>2, <2>3, ZenonT(60)
    DEF parse_line, SelectInSeq, Place, Having, Lacking
<1> QED
  <2>1. line # <<>>
    <3>1. Len(line) = n + 5
      BY <1>5, Zenon
    <3> QED
      BY <1>3, <3>1
  <2> QED
    BY <1>5, <1>7, <1>12, <2>1 DEF line, v

-----------------------------------------------------------------------------
(* The labels of a device *)

\* What is not punctuation is written as it is.
LEMMA EscapeOne == ASSUME NEW t \in Token \ Punctuation PROVE escape(<<t>>) = <<t>>
<1> DEFINE val == <<t>>
           parts == [i \in 1..Len(val) |-> Escaped(val[i])]
<1>1. val \in Seq(Token) /\ Len(val) = 1 /\ val[1] = t
  BY One
<1> HIDE DEF val
<1>2. escape(val) = FlattenSeq(parts) /\ parts \in Seq(Seq(Token)) /\ Len(parts) = 1
  BY <1>1, EscapeIs
<1>3. parts[1] = <<t>>
  <2>1. QUOTE \in Punctuation /\ BACKSLASH \in Punctuation /\ NEWLINE \in Punctuation
    BY DEF Punctuation
  <2>2. Escaped(t) = <<t>>
    BY <2>1, Zenon DEF Escaped
  <2> QED
    BY <1>1, <2>2
<1> HIDE DEF parts
<1>4. PICK H \in [0..1 -> Seq(Token)] : Joins(H, parts)
  BY <1>2, Flattened
<1>5. H[0] = <<>> /\ H[1] = H[1 - 1] \o parts[1] /\ H[1] = FlattenSeq(parts)
  BY <1>2, <1>4 DEF Joins
<1>6. H[1 - 1] = <<>> /\ <<>> \o <<t>> = <<t>>
  <2>1. 1 - 1 = 0
    OBVIOUS
  <2>2. <<t>> \in Seq(Token)
    BY <1>1 DEF val
  <2> QED
    BY <1>5, <2>1, <2>2, ConcatEmptySeq
<1> QED
  BY <1>2, <1>3, <1>5, <1>6 DEF val

\* The keys are names.
LEMMA KeysAreNames == {"gpu", "uuid", "name", "agent"} \subseteq Token \ Punctuation
BY DEF Token, Words, Punctuation, QUOTE, BACKSLASH, NEWLINE, SPACE

\* The labels a device is published with.
LabelsOf(device) ==
    << <<"gpu", <<ToString(device.index)>> >> >>
        \o (IF device.uuid = Unread THEN <<>> ELSE << <<"uuid", device.uuid>> >>)
        \o (IF device.name = Unread THEN <<>> ELSE << <<"name", device.name>> >>)

\* Labels, and one more or none.
LEMMA EncodesPerhaps ==
    ASSUME NEW a, NEW x, Encodes(a, x), NEW key \in Token \ Punctuation,
           NEW val, val # Unread => val \in Seq(Token)
    PROVE  Encodes(a \o (IF val = Unread THEN <<>> ELSE <<",">> \o Label(key, escape(val))),
                   x \o (IF val = Unread THEN <<>> ELSE << <<key, val>> >>))
<1>1. CASE val = Unread
  <2>1. a \in Seq(Token) /\ x \in Seq(Token \X Seq(Token))
    BY DEF Encodes
  <2>2. a \o <<>> = a
    BY <2>1, ConcatEmptySeq
  <2> DEFINE L == Token \X Seq(Token)
  <2> HIDE DEF L
  <2>3. x \o <<>> = x
    <3>1. x \in Seq(L)
      BY <2>1 DEF L
    <3> QED
      BY <3>1, ConcatEmptySeq
  <2> QED
    BY <1>1, <2>2, <2>3, Zenon
<1>2. CASE val # Unread
  <2>1. Encodes(Label(key, escape(val)), << <<key, val>> >>)
    BY <1>2, EncodesLabel
  <2>2. Encodes(a \o (<<",">> \o Label(key, escape(val))), x \o << <<key, val>> >>)
    BY <2>1, EncodesMore, Zenon
  <2> QED
    BY <1>2, <2>2, Zenon
<1> QED
  BY <1>1, <1>2

\* What the labels of a device are read back as.
LEMMA EncodesDevice ==
    ASSUME NEW device, ToString(device.index) \in Numerals,
           device.uuid # Unread => device.uuid \in Seq(STRING),
           device.name # Unread => device.name \in Seq(STRING)
    PROVE  Encodes(labels(device), LabelsOf(device))
<1>1. ToString(device.index) \in Token \ Punctuation
  BY Gx10Assumption DEF Token, Words
<1>2. escape(<<ToString(device.index)>>) = <<ToString(device.index)>>
  BY <1>1, EscapeOne
<1>3. <<ToString(device.index)>> \in Seq(Token)
  BY <1>1
<1>4. Encodes(Label("gpu", <<ToString(device.index)>>), << <<"gpu", <<ToString(device.index)>> >> >>)
  <2>1. "gpu" \in Token \ Punctuation
    BY KeysAreNames
  <2>2. Encodes(Label("gpu", escape(<<ToString(device.index)>>)),
                << <<"gpu", <<ToString(device.index)>> >> >>)
    BY <1>3, <2>1, EncodesLabel, Zenon
  <2> QED
    BY <1>2, <2>2, Zenon
<1>5. \A s : s \in Seq(STRING) => s \in Seq(Token)
  BY DEF Token, Words
<1>6. "uuid" \in Token \ Punctuation /\ "name" \in Token \ Punctuation
  BY KeysAreNames
<1> DEFINE a == Label("gpu", <<ToString(device.index)>>)
           x == << <<"gpu", <<ToString(device.index)>> >> >>
           b == a \o (IF device.uuid = Unread THEN <<>> ELSE <<",">> \o Label("uuid", escape(device.uuid)))
           y == x \o (IF device.uuid = Unread THEN <<>> ELSE << <<"uuid", device.uuid>> >>)
<1>7. Encodes(b, y)
  <2> HIDE DEF a, x
  <2> QED
    BY <1>4, <1>5, <1>6, EncodesPerhaps DEF a, x
<1>8. Encodes(b \o (IF device.name = Unread THEN <<>> ELSE <<",">> \o Label("name", escape(device.name))),
              y \o (IF device.name = Unread THEN <<>> ELSE << <<"name", device.name>> >>))
  <2> HIDE DEF b, y
  <2> QED
    BY <1>5, <1>6, <1>7, EncodesPerhaps
<1> QED
  BY <1>8, Zenon DEF labels, LabelsOf

\* The value of a key among labels, NoSample without.
Labelled(ls, key) ==
    LET i == Place({j \in 1..Len(ls) : ls[j][1] = key})
    IN  IF i = 0 THEN NoSample ELSE ls[i][2]

\* A sample's label is one among its labels.
LEMMA LabelIs == ASSUME NEW sample, NEW key PROVE label(sample, key) = Labelled(sample.labels, key)
BY Zenon DEF label, Labelled, SelectInSeq, Place

\* The labels of a device, one by one.
LEMMA LabelledIs ==
    ASSUME NEW device, NEW n, n = <<ToString(device.index)>>
    PROVE  /\ Labelled(LabelsOf(device), "gpu") = n
           /\ device.uuid # Unread => Labelled(LabelsOf(device), "uuid") = device.uuid
           /\ device.name # Unread => Labelled(LabelsOf(device), "name") = device.name
<1> DEFINE u == device.uuid
           m == device.name
           ls == LabelsOf(device)
           At1(key) == {j \in 1..Len(ls) : ls[j][1] = key}
<1>1. ASSUME NEW i \in Nat, NEW key, i \in At1(key), \A j \in At1(key) : i <= j, i # 0
      PROVE  Labelled(ls, key) = ls[i][2]
  <2>1. At1(key) # {} /\ At1(key) \subseteq Int
    BY <1>1
  <2>2. Min(At1(key)) = i
    <3> HIDE DEF At1
    <3> QED
      BY <1>1, <2>1, MinIs
  <2>3. Place(At1(key)) = i
    <3> HIDE DEF At1
    <3> QED
      BY <2>1, <2>2, Zenon DEF Place
  <2> HIDE DEF ls
  <2> QED
    BY <1>1, <2>3, Zenon DEF Labelled
<1>2. "gpu" # "uuid" /\ "gpu" # "name" /\ "uuid" # "name"
  OBVIOUS
<1> DEFINE gg == <<"gpu", n>>
           uu == <<"uuid", u>>
           mm == <<"name", m>>
           S == {gg, uu, mm}
<1>3. gg \in S /\ uu \in S /\ mm \in S
  OBVIOUS
<1>4. /\ gg[1] = "gpu" /\ gg[2] = n /\ uu[1] = "uuid" /\ uu[2] = u
      /\ mm[1] = "name" /\ mm[2] = m
  OBVIOUS
<1>5. ls = (<<gg>> \o (IF u = Unread THEN <<>> ELSE <<uu>>))
              \o (IF m = Unread THEN <<>> ELSE <<mm>>)
  BY Zenon DEF LabelsOf
<1> HIDE DEF gg, uu, mm, S, u, m, ls
<1>6. /\ <<gg>> \in Seq(S) /\ <<gg, uu>> \in Seq(S) /\ <<gg>> \o <<uu>> = <<gg, uu>>
      /\ <<gg>> \o <<mm>> = <<gg, mm>> /\ <<gg, uu>> \o <<mm>> = <<gg, uu, mm>>
      /\ <<gg>> \o <<>> = <<gg>> /\ <<gg, uu>> \o <<>> = <<gg, uu>>
  <2>1. <<gg>> \in Seq(S) /\ <<gg, uu>> \in Seq(S)
    BY <1>3
  <2>2. <<gg>> \o <<>> = <<gg>> /\ <<gg, uu>> \o <<>> = <<gg, uu>>
    <3>1. \A s \in Seq(S) : s \o <<>> = s
      BY ConcatEmptySeq
    <3> QED
      BY <2>1, <3>1, Zenon
  <2>3. <<gg>> \o <<uu>> = <<gg, uu>> /\ <<gg>> \o <<mm>> = <<gg, mm>>
    BY <1>3, Two
  <2>4. <<gg, uu>> \o <<mm>> = <<gg, uu, mm>>
    BY <1>3, TwoAndOne
  <2> QED
    BY <2>1, <2>2, <2>3, <2>4
<1>7. CASE u = Unread /\ m = Unread
  <2>1. ls = <<gg>>
    BY <1>5, <1>6, <1>7, Zenon
  <2>2. Len(ls) = 1 /\ ls[1] = gg
    BY <2>1
  <2>3. 1 \in At1("gpu") /\ \A j \in At1("gpu") : 1 <= j
    BY <1>4, <2>2
  <2>4. Labelled(ls, "gpu") = n
    BY <1>1, <1>4, <2>2, <2>3
  <2> QED
    BY <1>7, <2>4 DEF u, m, ls
<1>8. CASE u # Unread /\ m = Unread
  <2>1. ls = <<gg, uu>>
    BY <1>5, <1>6, <1>8, Zenon
  <2>2. Len(ls) = 2 /\ ls[1] = gg /\ ls[2] = uu
    BY <2>1
  <2>3. /\ 1 \in At1("gpu") /\ \A j \in At1("gpu") : 1 <= j
        /\ 2 \in At1("uuid") /\ \A j \in At1("uuid") : 2 <= j
    BY <1>2, <1>4, <2>2
  <2>4. Labelled(ls, "gpu") = n /\ Labelled(ls, "uuid") = u
    BY <1>1, <1>4, <2>2, <2>3
  <2> QED
    BY <1>8, <2>4 DEF u, m, ls
<1>9. CASE u = Unread /\ m # Unread
  <2>1. ls = <<gg, mm>>
    BY <1>5, <1>6, <1>9, Zenon
  <2>2. Len(ls) = 2 /\ ls[1] = gg /\ ls[2] = mm
    BY <2>1
  <2>3. /\ 1 \in At1("gpu") /\ \A j \in At1("gpu") : 1 <= j
        /\ 2 \in At1("name") /\ \A j \in At1("name") : 2 <= j
    BY <1>2, <1>4, <2>2
  <2>4. Labelled(ls, "gpu") = n /\ Labelled(ls, "name") = m
    BY <1>1, <1>4, <2>2, <2>3
  <2> QED
    BY <1>9, <2>4 DEF u, m, ls
<1>10. CASE u # Unread /\ m # Unread
  <2>1. ls = <<gg, uu, mm>>
    BY <1>5, <1>6, <1>10, Zenon
  <2>2. Len(ls) = 3 /\ ls[1] = gg /\ ls[2] = uu /\ ls[3] = mm
    BY <2>1
  <2>3. /\ 1 \in At1("gpu") /\ \A j \in At1("gpu") : 1 <= j
        /\ 2 \in At1("uuid") /\ \A j \in At1("uuid") : 2 <= j
        /\ 3 \in At1("name") /\ \A j \in At1("name") : 3 <= j
    BY <1>2, <1>4, <2>2
  <2>4. Labelled(ls, "gpu") = n /\ Labelled(ls, "uuid") = u /\ Labelled(ls, "name") = m
    BY <1>1, <1>4, <2>2, <2>3
  <2> QED
    BY <1>10, <2>4 DEF u, m, ls
<1> QED
  BY <1>7, <1>8, <1>9, <1>10

\* The labels of the exporter itself: none of a device among them.
LEMMA EncodesAgent ==
    LET ls == << <<"agent", <<"gx10">> >> >>
    IN  Encodes(Label("agent", <<"gx10">>), ls) /\ Labelled(ls, "gpu") = NoSample
<1> DEFINE aa == <<"agent", <<"gx10">> >>
           ls == <<aa>>
<1>1. Encodes(Label("agent", <<"gx10">>), ls)
  <2>1. "gx10" \in Token \ Punctuation
    BY DEF Token, Words, Punctuation, QUOTE, BACKSLASH, NEWLINE, SPACE
  <2>2. escape(<<"gx10">>) = <<"gx10">> /\ <<"gx10">> \in Seq(Token)
    BY <2>1, EscapeOne
  <2>3. "agent" \in Token \ Punctuation
    BY KeysAreNames
  <2>4. Encodes(Label("agent", escape(<<"gx10">>)), << <<"agent", <<"gx10">> >> >>)
    BY <2>2, <2>3, EncodesLabel, Zenon
  <2> QED
    BY <2>2, <2>4, Zenon
<1>2. Labelled(ls, "gpu") = NoSample
  <2>1. aa[1] # "gpu"
    OBVIOUS
  <2> HIDE DEF aa
  <2>2. Len(ls) = 1 /\ ls[1] = aa
    OBVIOUS
  <2> HIDE DEF ls
  <2>3. {j \in 1..Len(ls) : ls[j][1] = "gpu"} = {}
    BY <2>1, <2>2
  <2> QED
    BY <2>3, Zenon DEF Labelled, Place
<1> QED
  BY <1>1, <1>2

-----------------------------------------------------------------------------
(* The lines of a text *)

Ends(text) == {i \in 1..Len(text) : text[i] = NEWLINE}

\* A text of whole lines.
Whole(text) == text \in Seq(Token) /\ (text # <<>> => text[Len(text)] = NEWLINE)

\* A line ends at the second place; the first is where the one before it does,
\* or where the text begins.
Gap(text, p, e) ==
    /\ e \in Ends(text) /\ p \in {0} \cup Ends(text) /\ p < e
    /\ \A i \in Ends(text) : i < e => i <= p

\* The samples of a text.
Samples(text) == {parse_line(Lines(text)[e]) : e \in DOMAIN Lines(text)} \ {NoSample}

Tells(text, samples) == Whole(text) /\ Samples(text) = samples

\* The lines of a text of whole lines are its gaps.
LEMMA LineIs ==
    ASSUME NEW text, Whole(text)
    PROVE  /\ DOMAIN Lines(text) = Ends(text)
           /\ \A e \in Ends(text) : \E p : Gap(text, p, e)
           /\ \A p, e : Gap(text, p, e) => Lines(text)[e] = SubSeq(text, p + 1, e - 1)
<1> DEFINE ends == {i \in DOMAIN text : text[i] = NEWLINE}
                     \cup (IF text # <<>> /\ Last(text) # NEWLINE THEN {Len(text) + 1} ELSE {})
           Before(e) == {i \in ends : i < e}
<1>1. ends = Ends(text) /\ ends \subseteq Nat \ {0}
  <2>1. text \in Seq(Token) /\ DOMAIN text = 1..Len(text)
    BY DEF Whole
  <2>2. ~ (text # <<>> /\ Last(text) # NEWLINE)
    BY DEF Whole, Last
  <2>3. ends = {i \in 1..Len(text) : text[i] = NEWLINE}
    BY <2>1, <2>2, Zenon
  <2> QED
    BY <2>3 DEF Ends
<1>2. Lines(text) = [e \in ends |-> SubSeq(text, (IF Before(e) = {} THEN 0 ELSE Max(Before(e))) + 1, e - 1)]
  BY Zenon DEF Lines
<1> HIDE DEF ends
<1>3. ASSUME NEW e \in ends PROVE \E p : Gap(text, p, e)
  <2>1. CASE Before(e) = {}
    <3>1. 0 < e
      BY <1>1
    <3>2. Gap(text, 0, e)
      BY <1>1, <2>1, <3>1 DEF Gap
    <3> QED
      BY <3>2
  <2>2. CASE Before(e) # {}
    <3> DEFINE B == Before(e)
    <3>1. e \in Nat /\ B \subseteq 1..e
      BY <1>1
    <3>2. IsFiniteSet(1..e)
      BY <3>1, FS_Interval
    <3>3. IsFiniteSet(B)
      BY <3>1, <3>2, FS_Subset
    <3>4. \E p \in B : \A i \in B : i <= p
      <4> DEFINE T == {e - i : i \in B}
      <4>1. T \subseteq Nat /\ T # {}
        BY <2>2, <3>1
      <4>2. PICK m \in T : \A n \in T : n >= m
        <5> HIDE DEF T
        <5> QED
          BY <4>1, LeastElement
      <4>3. PICK p \in B : m = e - p
        BY <4>2
      <4>4. \A i \in B : i <= p
        <5> SUFFICES ASSUME NEW i \in B PROVE i <= p
          OBVIOUS
        <5>1. e - i >= e - p
          BY <4>2, <4>3
        <5> QED
          BY <3>1, <5>1
      <4> QED
        BY <4>4
    <3>5. PICK p \in B : \A i \in B : i <= p
      BY <3>4
    <3>6. Gap(text, p, e)
      BY <1>1, <3>5 DEF Gap
    <3> QED
      BY <3>6
  <2> QED
    BY <2>1, <2>2
<1>4. ASSUME NEW p, NEW e, Gap(text, p, e) PROVE Lines(text)[e] = SubSeq(text, p + 1, e - 1)
  <2>1. e \in ends /\ p < e /\ p \in {0} \cup ends /\ \A i \in Before(e) : i <= p
    BY <1>1, <1>4 DEF Gap
  <2>2. CASE p = 0
    <3>1. Before(e) = {}
      BY <1>1, <2>1, <2>2
    <3> QED
      BY <1>2, <2>1, <2>2, <3>1
  <2>3. CASE p # 0
    <3>1. p \in Before(e)
      BY <2>1, <2>3
    <3>2. Max(Before(e)) = p
      <4> DEFINE B == Before(e)
      <4>1. p \in B /\ B \subseteq Int /\ \A i \in B : i <= p
        BY <1>1, <2>1, <3>1
      <4> HIDE DEF B
      <4>2. PICK m \in B : m = Max(B) /\ \A i \in B : m >= i
        BY <4>1 DEF Max
      <4>3. m >= p /\ m <= p /\ m \in Int /\ p \in Int
        BY <4>1, <4>2
      <4>4. m = p
        BY <4>3
      <4> QED
        BY <4>2, <4>4 DEF B
    <3> QED
      BY <1>2, <2>1, <3>1, <3>2, Zenon
  <2> QED
    BY <2>2, <2>3
<1> QED
  BY <1>1, <1>2, <1>3, <1>4

\* Nothing tells nothing.
LEMMA TellsNone == Tells(<<>>, {})
<1>1. <<>> \in Seq(Token) /\ Len(<<>>) = 0
  OBVIOUS
<1>2. Whole(<<>>)
  BY <1>1 DEF Whole
<1>3. Ends(<<>>) = {}
  BY <1>1 DEF Ends
<1>4. DOMAIN Lines(<<>>) = {}
  BY <1>2, <1>3, LineIs
<1> QED
  BY <1>2, <1>4, Zenon DEF Tells, Samples

\* One line tells its sample, if it is one.
LEMMA TellsLine ==
    ASSUME NEW line \in Seq(Token), NEWLINE \notin Range(line)
    PROVE  Tells(line \o <<NEWLINE>>, {parse_line(line)} \ {NoSample})
<1> DEFINE end == <<NEWLINE>>
           text == line \o end
           n == Len(line)
<1>1. end \in Seq(Token) /\ Len(end) = 1 /\ end[1] = NEWLINE
  <2>1. NEWLINE \in Token
    BY DEF Token, Words, Punctuation
  <2> QED
    BY <2>1, One
<1> HIDE DEF end
<1>2. end \in Seq(Token)
  BY <1>1
<1>3. /\ text \in Seq(Token) /\ Len(text) = n + Len(end) /\ n \in Nat
      /\ \A i \in 1..n : text[i] = line[i]
      /\ \A i \in 1..Len(end) : text[n + i] = end[i]
  BY <1>2, Concat
<1>4. <<>> \in Seq(Token) /\ SubSeq((<<>> \o line) \o end, Len(<<>>) + 1, Len(<<>>) + n) = line
  <2>1. <<>> \in Seq(Token)
    OBVIOUS
  <2> QED
    BY <1>2, <2>1, Between
<1>5. <<>> \o line = line /\ Len(<<>>) = 0
  BY ConcatEmptySeq
<1> HIDE DEF text, n
<1>6. SubSeq(text, 1, n) = line
  <2>1. 0 + 1 = 1 /\ 0 + n = n
    BY <1>3
  <2> QED
    BY <1>4, <1>5, <2>1, Zenon DEF text
<1>7. Len(text) = n + 1 /\ text[n + 1] = NEWLINE /\ \A i \in 1..n : text[i] # NEWLINE
  <2>1. \A i \in 1..n : line[i] \in Range(line)
    BY DEF Range, n
  <2> QED
    BY <1>1, <1>3, <2>1
<1>8. Ends(text) = {n + 1}
  BY <1>3, <1>7 DEF Ends
<1>9. Whole(text)
  BY <1>3, <1>7 DEF Whole
<1>10. Gap(text, 0, n + 1)
  BY <1>3, <1>8 DEF Gap
<1>11. Lines(text)[n + 1] = SubSeq(text, 0 + 1, (n + 1) - 1)
  BY <1>9, <1>10, LineIs
<1>12. 0 + 1 = 1 /\ (n + 1) - 1 = n
  BY <1>3
<1>13. DOMAIN Lines(text) = {n + 1} /\ Lines(text)[n + 1] = line
  BY <1>6, <1>8, <1>9, <1>11, <1>12, LineIs
<1>14. Samples(text) = {parse_line(line)} \ {NoSample}
  BY <1>13, Zenon DEF Samples
<1> QED
  BY <1>9, <1>14 DEF Tells, text, end

\* A part that lies within the first or within the second of two sequences.
LEMMA PartOf ==
    ASSUME NEW S, NEW a \in Seq(S), NEW b \in Seq(S), NEW p \in Nat, NEW e \in Nat, p < e
    PROVE  /\ e <= Len(a) => SubSeq(a \o b, p + 1, e - 1) = SubSeq(a, p + 1, e - 1)
           /\ e <= Len(b) => SubSeq(a \o b, Len(a) + p + 1, Len(a) + e - 1) = SubSeq(b, p + 1, e - 1)
<1> DEFINE s == a \o b
           m == Len(a)
           n == Len(b)
<1>1. /\ s \in Seq(S) /\ Len(s) = m + n /\ m \in Nat /\ n \in Nat
      /\ \A i \in 1..m : s[i] = a[i]
      /\ \A i \in 1..n : s[m + i] = b[i]
  BY Concat
<1> HIDE DEF s, m, n
<1>2. ASSUME e <= m PROVE SubSeq(s, p + 1, e - 1) = SubSeq(a, p + 1, e - 1)
  <2> DEFINE x == SubSeq(s, p + 1, e - 1)
             y == SubSeq(a, p + 1, e - 1)
             k == (e - 1) - (p + 1) + 1
  <2>1. /\ p + 1 \in Int /\ e - 1 \in Int /\ k \in Nat
        /\ \A i \in (p + 1)..(e - 1) : i \in 1..m /\ i \in 1..(m + n)
        /\ \A i \in 1..k : (p + 1) + i - 1 \in 1..m
    BY <1>1, <1>2
  <2>2. \A i \in (p + 1)..(e - 1) : s[i] \in S /\ a[i] \in S
    <3>1. \A i \in 1..m : a[i] \in S
      BY DEF m
    <3> QED
      BY <1>1, <2>1, <3>1
  <2>3. /\ x \in Seq(S) /\ Len(x) = IF p + 1 <= e - 1 THEN k ELSE 0
        /\ \A i \in 1..k : x[i] = s[(p + 1) + i - 1]
    BY <2>1, <2>2, SubSeqProperties
  <2>4. /\ y \in Seq(S) /\ Len(y) = IF p + 1 <= e - 1 THEN k ELSE 0
        /\ \A i \in 1..k : y[i] = a[(p + 1) + i - 1]
    BY <2>1, <2>2, SubSeqProperties
  <2>5. Len(x) = k /\ Len(y) = k
    BY <2>1, <2>3, <2>4
  <2> HIDE DEF x, y, k
  <2>6. \A i \in 1..k : x[i] = y[i]
    BY <1>1, <2>1, <2>3, <2>4
  <2>7. x = y
    BY <2>3, <2>4, <2>5, <2>6, SeqEqual
  <2> QED
    BY <2>7 DEF x, y
<1>3. ASSUME e <= n PROVE SubSeq(s, m + p + 1, m + e - 1) = SubSeq(b, p + 1, e - 1)
  <2> DEFINE x == SubSeq(s, m + p + 1, m + e - 1)
             y == SubSeq(b, p + 1, e - 1)
             k == (e - 1) - (p + 1) + 1
  <2>1. /\ p + 1 \in Int /\ e - 1 \in Int /\ k \in Nat
        /\ m + p + 1 \in Int /\ m + e - 1 \in Int /\ (m + e - 1) - (m + p + 1) + 1 = k
        /\ \A i \in (p + 1)..(e - 1) : i \in 1..n
        /\ \A i \in (m + p + 1)..(m + e - 1) : i \in 1..(m + n)
        /\ \A i \in 1..k : (p + 1) + i - 1 \in 1..n /\ (m + p + 1) + i - 1 = m + ((p + 1) + i - 1)
        /\ (m + p + 1 <= m + e - 1) <=> (p + 1 <= e - 1)
    BY <1>1, <1>3
  <2>2. /\ \A i \in (p + 1)..(e - 1) : b[i] \in S
        /\ \A i \in (m + p + 1)..(m + e - 1) : s[i] \in S
    <3>1. \A i \in 1..n : b[i] \in S
      BY DEF n
    <3>2. \A i \in 1..(m + n) : s[i] \in S
      BY <1>1
    <3>3. \A i \in (p + 1)..(e - 1) : b[i] \in S
      BY <2>1, <3>1
    <3>4. \A i \in (m + p + 1)..(m + e - 1) : s[i] \in S
      BY <2>1, <3>2
    <3> QED
      BY <3>3, <3>4
  <2>3. /\ x \in Seq(S)
        /\ Len(x) = IF m + p + 1 <= m + e - 1 THEN (m + e - 1) - (m + p + 1) + 1 ELSE 0
        /\ \A i \in 1..((m + e - 1) - (m + p + 1) + 1) : x[i] = s[(m + p + 1) + i - 1]
    BY <2>1, <2>2, SubSeqProperties
  <2>4. /\ y \in Seq(S) /\ Len(y) = IF p + 1 <= e - 1 THEN k ELSE 0
        /\ \A i \in 1..k : y[i] = b[(p + 1) + i - 1]
    BY <2>1, <2>2, SubSeqProperties
  <2> HIDE DEF x, y
  <2>5. Len(x) = k /\ Len(y) = k
    BY <2>1, <2>3, <2>4
  <2>6. \A i \in 1..k : x[i] = y[i]
    <3> SUFFICES ASSUME NEW i \in 1..k PROVE x[i] = y[i]
      OBVIOUS
    <3> DEFINE j == (p + 1) + i - 1
    <3>1. j \in 1..n /\ (m + p + 1) + i - 1 = m + j
      BY <2>1
    <3>2. x[i] = s[(m + p + 1) + i - 1]
      BY <2>1, <2>3
    <3>3. y[i] = b[j]
      BY <2>4
    <3> HIDE DEF j
    <3> QED
      BY <1>1, <3>1, <3>2, <3>3
  <2>7. x = y
    BY <2>3, <2>4, <2>5, <2>6, SeqEqual
  <2> QED
    BY <2>7 DEF x, y
<1> QED
  BY <1>2, <1>3 DEF s, m, n

\* Whole lines and further whole lines: the ends of lines, and the gaps.
LEMMA GapsJoin ==
    ASSUME NEW a, NEW b, Whole(a), Whole(b)
    PROVE  LET m == Len(a)
           IN  /\ Whole(a \o b)
               /\ Ends(a \o b) = Ends(a) \cup {m + e : e \in Ends(b)}
               /\ \A p, e : Gap(a, p, e) => Gap(a \o b, p, e)
               /\ \A p, e : Gap(b, p, e) => Gap(a \o b, m + p, m + e)
<1> DEFINE m == Len(a)
           n == Len(b)
           s == a \o b
<1>1. a \in Seq(Token) /\ b \in Seq(Token)
  BY DEF Whole
<1>2. /\ s \in Seq(Token) /\ Len(s) = m + n /\ m \in Nat /\ n \in Nat
      /\ \A i \in 1..m : s[i] = a[i]
      /\ \A i \in 1..n : s[m + i] = b[i]
  BY <1>1, Concat
<1>3. (m # 0 => a[m] = NEWLINE) /\ (n # 0 => b[n] = NEWLINE)
  BY <1>1 DEF Whole
<1> HIDE DEF s, m, n
<1>4. Ends(s) = Ends(a) \cup {m + e : e \in Ends(b)}
  <2>1. ASSUME NEW i \in Ends(s) PROVE i \in Ends(a) \cup {m + e : e \in Ends(b)}
    <3>1. i \in 1..(m + n) /\ s[i] = NEWLINE
      BY <1>2 DEF Ends
    <3>2. CASE i <= m
      <4>1. i \in 1..m
        BY <1>2, <3>1, <3>2
      <4> QED
        BY <1>2, <3>1, <4>1 DEF Ends, m
    <3>3. CASE ~ (i <= m)
      <4>1. i - m \in 1..n /\ i = m + (i - m)
        BY <1>2, <3>1, <3>3
      <4>2. b[i - m] = NEWLINE
        BY <1>2, <3>1, <4>1
      <4>3. i - m \in Ends(b)
        BY <4>1, <4>2 DEF Ends, n
      <4> QED
        BY <4>1, <4>3
    <3> QED
      BY <3>2, <3>3
  <2>2. ASSUME NEW i \in Ends(a) PROVE i \in Ends(s)
    <3>1. i \in 1..m /\ a[i] = NEWLINE
      BY DEF Ends, m
    <3>2. i \in 1..(m + n)
      BY <1>2, <3>1
    <3> QED
      BY <1>2, <3>1, <3>2 DEF Ends
  <2>3. ASSUME NEW e \in Ends(b) PROVE m + e \in Ends(s)
    <3>1. e \in 1..n /\ b[e] = NEWLINE
      BY DEF Ends, n
    <3>2. m + e \in 1..(m + n)
      BY <1>2, <3>1
    <3> QED
      BY <1>2, <3>1, <3>2 DEF Ends
  <2> QED
    BY <2>1, <2>2, <2>3
<1>5. Whole(s)
  <2>1. CASE n = 0
    <3>1. b = <<>>
      BY <1>1, <2>1 DEF n
    <3>2. s = a
      BY <1>1, <3>1, ConcatEmptySeq DEF s
    <3> QED
      BY <3>2
  <2>2. CASE n # 0
    <3>1. n \in 1..n
      BY <1>2, <2>2
    <3>2. s[m + n] = NEWLINE
      BY <1>2, <1>3, <2>2, <3>1
    <3> QED
      BY <1>2, <3>2 DEF Whole
  <2> QED
    BY <2>1, <2>2
<1>6. /\ \A e \in Ends(a) : e \in 1..m
      /\ \A e \in Ends(b) : e \in 1..n
      /\ m # 0 => m \in Ends(a)
  BY <1>2, <1>3 DEF Ends, m, n
<1>7. ASSUME NEW p, NEW e, Gap(a, p, e) PROVE Gap(s, p, e)
  <2>1. /\ e \in Ends(a) /\ p \in {0} \cup Ends(a) /\ p < e
        /\ \A i \in Ends(a) : i < e => i <= p
    BY <1>7 DEF Gap
  <2>2. ASSUME NEW i \in Ends(s), i < e PROVE i <= p
    <3>1. \A f \in Ends(b) : ~ (m + f < e)
      BY <1>2, <1>6, <2>1
    <3> QED
      BY <1>4, <2>1, <2>2, <3>1
  <2> QED
    BY <1>4, <2>1, <2>2 DEF Gap
<1>8. ASSUME NEW p, NEW e, Gap(b, p, e) PROVE Gap(s, m + p, m + e)
  <2>1. /\ e \in Ends(b) /\ p \in {0} \cup Ends(b) /\ p < e
        /\ \A i \in Ends(b) : i < e => i <= p
    BY <1>8 DEF Gap
  <2>0. e \in 1..n /\ (p = 0 \/ p \in 1..n) /\ p < e
    BY <1>6, <2>1
  <2>2. e \in Nat /\ p \in Nat /\ m + p < m + e /\ m + p \in Nat /\ m + e \in Nat
    BY <1>2, <2>0
  <2>3. m + p \in {0} \cup Ends(s)
    <3>1. CASE p = 0
      <4>1. m + p = m
        BY <1>2, <3>1
      <4> QED
        BY <1>4, <1>6, <4>1
    <3>2. CASE p # 0
      BY <1>4, <2>1, <3>2
    <3> QED
      BY <3>1, <3>2
  <2>4. ASSUME NEW i \in Ends(s), i < m + e PROVE i <= m + p
    <3>1. CASE i \in Ends(a)
      BY <1>2, <1>6, <2>2, <3>1
    <3>2. CASE i \notin Ends(a)
      <4>1. PICK f \in Ends(b) : i = m + f
        BY <1>4, <3>2
      <4>2. f \in Nat /\ f < e
        BY <1>2, <1>6, <2>2, <2>4, <4>1
      <4>3. f <= p
        BY <2>1, <4>2
      <4> QED
        BY <1>2, <2>2, <4>1, <4>2, <4>3
    <3> QED
      BY <3>1, <3>2
  <2>5. m + e \in Ends(s)
    BY <1>4, <2>1
  <2> QED
    BY <2>2, <2>3, <2>4, <2>5 DEF Gap
<1> QED
  BY <1>4, <1>5, <1>7, <1>8 DEF s, m

\* What whole lines tell, they tell before and after others.
LEMMA TellsThen ==
    ASSUME NEW a, NEW b, NEW x, NEW y, Tells(a, x), Tells(b, y)
    PROVE  Tells(a \o b, x \cup y)
<1> DEFINE m == Len(a)
           s == a \o b
<1>1. Whole(a) /\ Whole(b) /\ a \in Seq(Token) /\ b \in Seq(Token)
  BY DEF Tells, Whole
<1>2. /\ Whole(s) /\ Ends(s) = Ends(a) \cup {m + e : e \in Ends(b)}
      /\ \A p, e : Gap(a, p, e) => Gap(s, p, e)
      /\ \A p, e : Gap(b, p, e) => Gap(s, m + p, m + e)
  BY <1>1, GapsJoin
<1>3. /\ DOMAIN Lines(s) = Ends(s) /\ DOMAIN Lines(a) = Ends(a) /\ DOMAIN Lines(b) = Ends(b)
  BY <1>1, <1>2, LineIs
<1>4. m \in Nat /\ Len(b) \in Nat /\ \A i \in Ends(a) : i \in 1..m
  BY <1>1 DEF Ends
<1>8. \A i \in Ends(b) : i \in 1..Len(b)
  BY <1>1 DEF Ends
<1>5. ASSUME NEW e \in Ends(a) PROVE Lines(s)[e] = Lines(a)[e]
  <2>1. PICK p : Gap(a, p, e)
    BY <1>1, LineIs
  <2>2. p \in {0} \cup Ends(a) /\ p < e
    BY <2>1 DEF Gap
  <2>3. p \in Nat /\ e \in Nat /\ e <= m
    BY <1>4, <2>2
  <2>4. SubSeq(s, p + 1, e - 1) = SubSeq(a, p + 1, e - 1)
    BY <1>1, <2>2, <2>3, PartOf
  <2>5. Lines(a)[e] = SubSeq(a, p + 1, e - 1)
    BY <1>1, <2>1, LineIs
  <2>6. Lines(s)[e] = SubSeq(s, p + 1, e - 1)
    BY <1>2, <2>1, LineIs
  <2> QED
    BY <2>4, <2>5, <2>6
<1>6. ASSUME NEW e \in Ends(b) PROVE Lines(s)[m + e] = Lines(b)[e]
  <2>1. PICK p : Gap(b, p, e)
    BY <1>1, LineIs
  <2>2. p \in {0} \cup Ends(b) /\ p < e
    BY <2>1 DEF Gap
  <2>7. e \in 1..Len(b) /\ (p = 0 \/ p \in 1..Len(b))
    BY <1>8, <2>2
  <2>3. p \in Nat /\ e \in Nat /\ e <= Len(b)
    BY <1>4, <2>7
  <2>4. SubSeq(s, m + p + 1, m + e - 1) = SubSeq(b, p + 1, e - 1)
    BY <1>1, <2>2, <2>3, PartOf
  <2>5. Lines(b)[e] = SubSeq(b, p + 1, e - 1)
    BY <1>1, <2>1, LineIs
  <2>6. Lines(s)[m + e] = SubSeq(s, (m + p) + 1, (m + e) - 1)
    BY <1>2, <2>1, LineIs
  <2>8. (m + e) - 1 = m + e - 1
    BY <1>4, <2>3
  <2> HIDE DEF m, s
  <2> QED
    BY <2>4, <2>5, <2>6, <2>8, Zenon
<1>7. Samples(s) = Samples(a) \cup Samples(b)
  <2> HIDE DEF m, s
  <2> QED
    BY <1>2, <1>3, <1>5, <1>6 DEF Samples
<1> QED
  BY <1>2, <1>7 DEF Tells, s

\* One text after the other.
LEMMA TellsFlat ==
    ASSUME NEW parts \in Seq(Seq(Token)), NEW C, \A i \in 1..Len(parts) : Tells(parts[i], C[i])
    PROVE  Tells(FlattenSeq(parts), UNION {C[i] : i \in 1..Len(parts)})
<1> DEFINE n == Len(parts)
<1>1. PICK H \in [0..n -> Seq(Token)] : Joins(H, parts)
  BY Flattened
<1>2. n \in Nat
  OBVIOUS
<1>3. H[0] = <<>> /\ H[n] = FlattenSeq(parts) /\ \A i \in 1..n : H[i] = H[i - 1] \o parts[i]
  BY <1>1 DEF Joins
<1> DEFINE T == {i \in 0..n : Tells(H[i], UNION {C[j] : j \in 1..i})}
<1>4. 0 \in T
  <2>1. UNION {C[j] : j \in 1..0} = {} /\ 0 \in 0..n
    BY <1>2
  <2> QED
    BY <1>3, <2>1, TellsNone
<1> HIDE DEF n
<1>5. ASSUME NEW i \in 0..(n - 1), i \in T PROVE i + 1 \in T
  <2>1. i + 1 \in 1..n /\ i + 1 \in 0..n /\ (i + 1) - 1 = i
    BY <1>2
  <2>2. H[i + 1] = H[i] \o parts[i + 1]
    BY <1>3, <2>1
  <2>3. Tells(parts[i + 1], C[i + 1])
    BY <2>1 DEF n
  <2>4. Tells(H[i], UNION {C[j] : j \in 1..i})
    BY <1>5
  <2>5. Tells(H[i] \o parts[i + 1], (UNION {C[j] : j \in 1..i}) \cup C[i + 1])
    BY <2>3, <2>4, TellsThen
  <2>6. 1..(i + 1) = (1..i) \cup {i + 1}
    BY <2>1
  <2>7. (UNION {C[j] : j \in 1..(i + 1)}) = (UNION {C[j] : j \in 1..i}) \cup C[i + 1]
    BY <2>6
  <2> QED
    BY <2>1, <2>2, <2>5, <2>7
<1>6. n \in T
  <2>1. \A i \in 0..n : i \in T
    <3> HIDE DEF T
    <3> QED
      BY <1>2, <1>4, <1>5, UpTo
  <2>2. n \in 0..n
    BY <1>2
  <2> QED
    BY <2>1, <2>2, Zenon
<1> QED
  BY <1>3, <1>6 DEF n

\* A comment is no sample.
LEMMA CommentIs ==
    ASSUME NEW line, 1 \in 1..Len(line), line[1] = "#"
    PROVE  parse_line(line) = NoSample
<1>1. line[1] \in Punctuation /\ line[1] # SPACE
  BY DEF Punctuation, SPACE
<1>2. Place(Lacking(line, SPACE)) = 1
  BY <1>1, NoBlankFirst
<1> QED
  BY <1>1, <1>2, Zenon DEF parse_line, SelectInSeq, Place, Lacking

\* The five tokens of a comment, and a line of it.
LEMMA CommentTells ==
    ASSUME NEW kind \in Token, NEW name \in Token, kind # NEWLINE, name # NEWLINE
    PROVE  /\ Tells(<<"#", SPACE, kind, SPACE, name, NEWLINE>>, {})
           /\ <<"#", SPACE, kind, SPACE, name, NEWLINE>> \in Seq(Token)
<1> DEFINE line == <<"#", SPACE, kind, SPACE, name>>
<1>1. "#" \in Token /\ SPACE \in Token /\ NEWLINE \in Token
  BY DEF Token, Words, Punctuation
<1>2. NEWLINE # "#" /\ NEWLINE # SPACE
  BY DEF NEWLINE, SPACE
<1>3. ASSUME NEW S, NEW c \in S, NEW s \in S, NEW k \in S, NEW m \in S, NEW e \in S
      PROVE  /\ <<c, s, k, s, m>> \in Seq(S) /\ Range(<<c, s, k, s, m>>) = {c, s, k, m}
             /\ <<c, s, k, s, m>> \o <<e>> = <<c, s, k, s, m, e>> /\ <<c, s, k, s, m>>[1] = c
             /\ <<c, s, k, s, m, e>> \in Seq(S)
  <2>1. Range(<<c, s, k, s, m>>) = {c, s, k, m}
    BY DEF Range
  <2>2. <<c, s, k, s, m>> \o <<e>> = <<c, s, k, s, m, e>>
    <3> DEFINE x == <<c, s, k, s, m>>
               y == <<e>>
               z == x \o y
               w == <<c, s, k, s, m, e>>
    <3>1. /\ x \in Seq(S) /\ y \in Seq(S) /\ w \in Seq(S)
          /\ Len(x) = 5 /\ Len(y) = 1 /\ Len(w) = 6
          /\ \A i \in 1..5 : w[i] = x[i]
          /\ w[6] = y[1]
      OBVIOUS
    <3> HIDE DEF x, y, w
    <3>2. x \in Seq(S) /\ y \in Seq(S)
      BY <3>1
    <3>3. /\ z \in Seq(S) /\ Len(z) = Len(x) + Len(y)
          /\ \A i \in 1..Len(x) : z[i] = x[i]
          /\ \A i \in 1..Len(y) : z[Len(x) + i] = y[i]
      BY <3>2, Concat
    <3> HIDE DEF z
    <3>4. Len(z) = 6 /\ z[6] = y[1] /\ \A i \in 1..5 : z[i] = x[i]
      <4>1. 1 \in 1..1 /\ 5 + 1 = 6
        OBVIOUS
      <4> QED
        BY <3>1, <3>3, <4>1
    <3>5. \A i \in 1..Len(z) : z[i] = w[i]
      <4>1. \A i \in 1..6 : i \in 1..5 \/ i = 6
        OBVIOUS
      <4> QED
        BY <3>1, <3>4, <4>1
    <3>6. z = w
      <4>1. z \in Seq(S) /\ w \in Seq(S) /\ Len(z) = Len(w)
        BY <3>1, <3>3, <3>4
      <4> QED
        BY <3>5, <4>1, SeqEqual
    <3> QED
      BY <3>6, ZenonT(30) DEF x, y, z, w
  <2>3. <<c, s, k, s, m, e>> \in Seq(S)
    OBVIOUS
  <2> QED
    BY <2>1, <2>2, <2>3
<1>4. /\ line \in Seq(Token) /\ Range(line) = {"#", SPACE, kind, name}
      /\ line \o <<NEWLINE>> = <<"#", SPACE, kind, SPACE, name, NEWLINE>> /\ line[1] = "#"
      /\ <<"#", SPACE, kind, SPACE, name, NEWLINE>> \in Seq(Token)
  BY <1>1, <1>3, Zenon
<1> HIDE DEF line
<1>5. NEWLINE \notin Range(line)
  BY <1>2, <1>4
<1>6. parse_line(line) = NoSample
  <2>1. 1 \in 1..Len(line)
    BY DEF line
  <2> QED
    BY <1>4, <2>1, CommentIs
<1>7. Tells(line \o <<NEWLINE>>, {parse_line(line)} \ {NoSample})
  BY <1>4, <1>5, TellsLine
<1>8. {parse_line(line)} \ {NoSample} = {}
  BY <1>6
<1> QED
  BY <1>4, <1>7, <1>8, Zenon

\* Lines of samples that are read back.
SampleLines(lines) ==
    /\ lines \in Seq(Seq(Token))
    /\ \A i \in 1..Len(lines) : NEWLINE \notin Range(lines[i]) /\ parse_line(lines[i]) # NoSample

\* A family tells its samples.
LEMMA FamilyTells ==
    ASSUME NEW name \in Token \ Punctuation, NEW lines, SampleLines(lines)
    PROVE  /\ Tells(family(name, lines), {parse_line(lines[i]) : i \in 1..Len(lines)})
           /\ family(name, lines) \in Seq(Token)
<1>1. lines \in Seq(Seq(Token)) /\ Len(lines) \in Nat /\ DOMAIN lines = 1..Len(lines)
  BY DEF SampleLines
<1>2. CASE lines = <<>>
  <2>1. family(name, lines) = <<>>
    BY <1>2 DEF family
  <2>2. {parse_line(lines[i]) : i \in 1..Len(lines)} = {}
    BY <1>2
  <2>3. <<>> \in Seq(Token)
    OBVIOUS
  <2> QED
    BY <2>1, <2>2, <2>3, TellsNone, Zenon
<1>3. CASE lines # <<>>
  <2> DEFINE help == <<"#", SPACE, "HELP", SPACE, name, NEWLINE>>
             type == <<"#", SPACE, "TYPE", SPACE, name, NEWLINE>>
             end == <<NEWLINE>>
             parts == [i \in 1..Len(lines) |-> lines[i] \o end]
             C == [i \in 1..Len(lines) |-> {parse_line(lines[i])}]
  <2>1. /\ "HELP" \in Token /\ "TYPE" \in Token /\ "HELP" # NEWLINE /\ "TYPE" # NEWLINE
        /\ NEWLINE \in Token /\ "#" \in Token /\ SPACE \in Token /\ NEWLINE \in Punctuation
    BY DEF Token, Words, Punctuation, NEWLINE
  <2>2. name \in Token /\ name # NEWLINE
    BY <2>1
  <2>3. Tells(help, {}) /\ help \in Seq(Token)
    BY <2>1, <2>2, CommentTells
  <2>4. Tells(type, {}) /\ type \in Seq(Token)
    BY <2>1, <2>2, CommentTells
  <2>5. family(name, lines) = (help \o type) \o FlattenSeq(parts)
    <3>1. ASSUME NEW c, NEW s, NEW h, NEW t, NEW m, NEW e
          PROVE  <<c, s, h, s, m, e, c, s, t, s, m, e>> = <<c, s, h, s, m, e>> \o <<c, s, t, s, m, e>>
      OBVIOUS
    <3>2. <<"#", SPACE, "HELP", SPACE, name, NEWLINE, "#", SPACE, "TYPE", SPACE, name, NEWLINE>>
            = help \o type
      BY <3>1, ZenonT(60)
    <3> QED
      BY <1>1, <1>3, <3>2, ZenonT(30) DEF family
  <2> HIDE DEF help, type
  <2>6. end \in Seq(Token)
    BY <2>1, One
  <2> HIDE DEF end
  <2>7. ASSUME NEW i \in 1..Len(lines)
        PROVE  lines[i] \o end \in Seq(Token) /\ Tells(lines[i] \o end, {parse_line(lines[i])})
    <3>1. lines[i] \in Seq(Token) /\ NEWLINE \notin Range(lines[i]) /\ parse_line(lines[i]) # NoSample
      BY <1>1 DEF SampleLines
    <3>2. Tells(lines[i] \o end, {parse_line(lines[i])} \ {NoSample})
      BY <3>1, TellsLine DEF end
    <3>3. {parse_line(lines[i])} \ {NoSample} = {parse_line(lines[i])}
      BY <3>1
    <3>4. lines[i] \o end \in Seq(Token)
      BY <2>6, <3>1, Concat
    <3> QED
      BY <3>2, <3>3, <3>4, Zenon
  <2>8. parts \in Seq(Seq(Token)) /\ Len(parts) = Len(lines)
    <3>1. \A i \in 1..Len(lines) : lines[i] \o end \in Seq(Token)
      BY <2>7
    <3>2. Len(lines) \in Nat
      BY <1>1
    <3> QED
      BY <3>1, <3>2
  <2>9. \A i \in 1..Len(parts) : Tells(parts[i], C[i])
    BY <2>7, <2>8
  <2> DEFINE X == {parse_line(lines[i]) : i \in 1..Len(lines)}
  <2>10. (UNION {C[i] : i \in 1..Len(parts)}) = X
    BY <2>8
  <2> HIDE DEF parts, C, X
  <2>11. Tells(FlattenSeq(parts), X)
    <3>1. parts \in Seq(Seq(Token))
      BY <2>8
    <3>2. Tells(FlattenSeq(parts), UNION {C[i] : i \in 1..Len(parts)})
      BY <2>9, <3>1, TellsFlat
    <3> QED
      BY <2>10, <3>2
  <2>12. Tells(help \o type, {} \cup {})
    BY <2>3, <2>4, TellsThen
  <2>13. Tells((help \o type) \o FlattenSeq(parts), ({} \cup {}) \cup X)
    BY <2>11, <2>12, TellsThen
  <2>14. ({} \cup {}) \cup X = X
    OBVIOUS
  <2>15. Tells(family(name, lines), X)
    BY <2>5, <2>13, <2>14, Zenon
  <2> QED
    BY <2>15 DEF Tells, Whole, X
<1> QED
  BY <1>2, <1>3

-----------------------------------------------------------------------------
(* What a scrape finds *)

Devices == {Device(k, answer) : k \in 0..(Count - 1), answer \in Answers}

\* A device has its index and, for the rest, what its probes answered.
LEMMA DeviceIs ==
    ASSUME NEW k, NEW answer \in Answers
    PROVE  LET d == Device(k, answer)
           IN  /\ d.index = k
               /\ d.uuid = answer.uuid /\ d.name = answer.name
               /\ \A f : Reading(d, f) = Reading(answer, f)
<1> DEFINE d == Device(k, answer)
<1>1. DOMAIN answer = {"uuid", "name", "percent", "milliwatts", "celsius", "memory"}
  BY AnswerAssumption
<1>2. /\ d.index = k
      /\ d.uuid = answer.uuid /\ d.name = answer.name /\ d.percent = answer.percent
      /\ d.milliwatts = answer.milliwatts /\ d.celsius = answer.celsius /\ d.memory = answer.memory
  BY <1>1 DEF Device
<1> HIDE DEF d
<1>3. ASSUME NEW f PROVE Reading(d, f) = Reading(answer, f)
  <2> DEFINE Of(p, w, c, m) ==
        CASE f = "utilization" /\ p # Unread -> p * 10
          [] f = "power" /\ w # Unread       -> w
          [] f = "temperature" /\ c # Unread -> c * 1000
          [] f = "used" /\ m # Unread        -> m.used * 1000
          [] f = "total" /\ m # Unread       -> m.total * 1000
          [] OTHER                           -> Unread
  <2>1. /\ Reading(d, f) = Of(d.percent, d.milliwatts, d.celsius, d.memory)
        /\ Reading(answer, f) = Of(answer.percent, answer.milliwatts, answer.celsius, answer.memory)
    BY Zenon DEF Reading
  <2> HIDE DEF Of
  <2> QED
    BY <1>2, <2>1, Zenon
<1> QED
  BY <1>2, <1>3 DEF d

\* Found, as it is defined.
LEMMA FoundIs ==
    /\ Found \in [0..Count -> SUBSET Seq(Devices)]
    /\ Found[0] = {<<>>}
    /\ \A n \in 1..Count :
          Found[n] = Further(Found[n - 1], n - 1)
<1> DEFINE S == SUBSET Seq(Devices)
           More(X, n) == Further(X, n - 1)
           Step == [x \in S \X (1..Count) |-> More(x[1], x[2])]
           Is(h) == h = [n \in 0..Count |-> IF n = 0 THEN {<<>>} ELSE More(h[n - 1], n)]
<1>1. Count \in Nat
  BY Gx10Assumption
<1>2. ASSUME NEW X \in S, NEW n \in 1..Count PROVE More(X, n) \in S
  <2> SUFFICES ASSUME NEW o \in X, NEW answer \in Answers
               PROVE  Append(o, Device(n - 1, answer)) \in Seq(Devices)
    BY DEF Further
  <2>1. n - 1 \in 0..(Count - 1)
    BY <1>1
  <2> DEFINE d == Device(n - 1, answer)
  <2>2. d \in Devices
    BY <2>1 DEF Devices
  <2> HIDE DEF d
  <2>3. o \in Seq(Devices)
    OBVIOUS
  <2>4. Append(o, d) \in Seq(Devices)
    BY <2>2, <2>3
  <2> QED
    BY <2>4 DEF d
<1>3. Step \in [S \X (1..Count) -> S]
  <2> HIDE DEF More, S
  <2> QED
    BY <1>2
<1>4. {<<>>} \in S
  OBVIOUS
<1>5. PICK h \in Computations(Count, S, {<<>>}, Step) : TRUE
  <2> HIDE DEF S, Step
  <2> QED
    BY <1>1, <1>3, <1>4, Recursion
<1>6. /\ h \in [0..Count -> S] /\ h[0] = {<<>>}
      /\ \A n \in 1..Count : h[n] = Step[<<h[n - 1], n>>]
  <2> HIDE DEF S, Step
  <2> QED
    BY <1>5 DEF Computations
<1>7. \A n \in 1..Count : h[n] = More(h[n - 1], n)
  <2> HIDE DEF S, More
  <2> SUFFICES ASSUME NEW n \in 1..Count PROVE h[n] = More(h[n - 1], n)
    OBVIOUS
  <2>1. n - 1 \in 0..Count
    BY <1>1
  <2>2. h[n - 1] \in S
    BY <1>6, <2>1, Zenon
  <2> QED
    BY <1>6, <2>2
<1> HIDE DEF S, More, Step
<1>8. Is(h)
  <2> DEFINE g == [n \in 0..Count |-> IF n = 0 THEN {<<>>} ELSE More(h[n - 1], n)]
  <2>1. \A n \in 0..Count : g[n] = h[n]
    <3> SUFFICES ASSUME NEW n \in 0..Count PROVE g[n] = h[n]
      OBVIOUS
    <3>1. CASE n = 0
      BY <1>6, <3>1
    <3>2. CASE n # 0
      <4>1. n \in 1..Count
        BY <1>1, <3>2
      <4> QED
        BY <1>7, <3>2, <4>1, Zenon
    <3> QED
      BY <3>1, <3>2
  <2>2. h = [n \in 0..Count |-> h[n]]
    BY <1>6
  <2>3. h = g
    BY <2>1, <2>2, Zenon
  <2> QED
    BY <2>3
<1>9. Found = CHOOSE f : Is(f)
  BY Zenon DEF Found, More
<1>10. Is(Found)
  <2> HIDE DEF Is
  <2> QED
    BY <1>8, <1>9, Zenon
<1>11. /\ Found[0] = {<<>>} /\ DOMAIN Found = 0..Count
       /\ \A n \in 1..Count : Found[n] = More(Found[n - 1], n)
  <2>1. \A n \in 0..Count : Found[n] = IF n = 0 THEN {<<>>} ELSE More(Found[n - 1], n)
    BY <1>10, Zenon
  <2>2. 0 \in 0..Count /\ \A n \in 1..Count : n \in 0..Count /\ n # 0
    BY <1>1
  <2>3. DOMAIN Found = 0..Count
    BY <1>10, Zenon
  <2> QED
    BY <2>1, <2>2, <2>3, Zenon
<1>12. \A n \in 0..Count : Found[n] \in S
  <2> DEFINE T == {n \in 0..Count : Found[n] \in S}
  <2>1. 0 \in T
    <3>1. 0 \in 0..Count
      BY <1>1
    <3> QED
      BY <1>4, <1>11, <3>1, Zenon
  <2>2. ASSUME NEW n \in 0..(Count - 1), n \in T PROVE n + 1 \in T
    <3>1. n + 1 \in 1..Count /\ n + 1 \in 0..Count /\ (n + 1) - 1 = n
      BY <1>1
    <3>2. Found[n + 1] = More(Found[n], n + 1)
      BY <1>11, <3>1
    <3> QED
      BY <1>2, <2>2, <3>1, <3>2
  <2>3. \A n \in 0..Count : n \in T
    <3> HIDE DEF T
    <3> QED
      BY <1>1, <2>1, <2>2, UpTo
  <2> QED
    BY <2>3
<1>13. Found \in [0..Count -> S]
  <2>1. Found = [n \in 0..Count |-> Found[n]]
    BY <1>10, Zenon
  <2> QED
    BY <1>12, <2>1
<1> QED
  BY <1>11, <1>13 DEF S, More

\* Devices in a sequence, each of an index of its own.
Outcome(o, n) ==
    /\ o \in Seq(Devices)
    /\ \A i \in 1..Len(o) : o[i].index \in Nat /\ o[i].index < n
    /\ \A i, j \in 1..Len(o) : o[i].index = o[j].index => i = j

\* What was found, device by device.
LEMMA FoundHas ==
    ASSUME NEW n \in 0..Count, NEW o \in Found[n]
    PROVE  Outcome(o, n)
<1> DEFINE T == {m \in 0..Count : \A p \in Found[m] : Outcome(p, m)}
<1>1. Count \in Nat
  BY Gx10Assumption
<1>2. 0 \in T
  <2>1. <<>> \in Seq(Devices) /\ Len(<<>>) = 0
    OBVIOUS
  <2> QED
    BY <1>1, <2>1, FoundIs DEF Outcome
<1>3. ASSUME NEW m \in 0..(Count - 1), m \in T PROVE m + 1 \in T
  <2>1. m + 1 \in 1..Count /\ m + 1 \in 0..Count /\ (m + 1) - 1 = m /\ m \in 0..Count /\ m \in Nat
    BY <1>1
  <2>2. Found[m + 1] = Further(Found[m], m)
    <3>1. Found[m + 1] = Further(Found[(m + 1) - 1], (m + 1) - 1)
      BY <2>1, FoundIs
    <3> QED
      BY <2>1, <3>1
  <2>3. ASSUME NEW q \in Found[m] PROVE Outcome(q, m + 1)
    BY <1>3, <2>1, <2>3 DEF Outcome
  <2>4. ASSUME NEW q \in Found[m], NEW answer \in Answers
        PROVE  Outcome(Append(q, Device(m, answer)), m + 1)
    <3> DEFINE d == Device(m, answer)
               p == Append(q, d)
    <3>1. d \in Devices /\ d.index = m
      <4>1. d.index = m
        BY DeviceIs
      <4>2. d \in Devices
        BY <2>1 DEF Devices
      <4> QED
        BY <4>1, <4>2
    <3> HIDE DEF d
    <3>2. /\ q \in Seq(Devices) /\ Len(q) \in Nat
          /\ \A i \in 1..Len(q) : q[i].index \in Nat /\ q[i].index < m
          /\ \A i, j \in 1..Len(q) : q[i].index = q[j].index => i = j
      BY <1>3, <2>4 DEF Outcome
    <3>3. /\ p \in Seq(Devices) /\ Len(p) = Len(q) + 1
          /\ \A i \in 1..Len(q) : p[i] = q[i]
          /\ p[Len(q) + 1] = d
      BY <3>1, <3>2
    <3> HIDE DEF p
    <3>4. \A i \in 1..Len(p) : i \in 1..Len(q) \/ i = Len(q) + 1
      BY <3>2, <3>3
    <3>5. \A i \in 1..Len(p) : p[i].index \in Nat /\ p[i].index < m + 1
      BY <2>1, <3>1, <3>2, <3>3, <3>4
    <3>6. \A i, j \in 1..Len(p) : p[i].index = p[j].index => i = j
      <4>1. \A i \in 1..Len(q) : p[i].index # m /\ p[i].index = q[i].index
        BY <2>1, <3>2, <3>3
      <4>2. p[Len(q) + 1].index = m
        BY <3>1, <3>3
      <4> QED
        BY <3>2, <3>4, <4>1, <4>2
    <3>7. Outcome(p, m + 1)
      BY <3>3, <3>5, <3>6 DEF Outcome
    <3> QED
      BY <3>7 DEF p, d
  <2>5. ASSUME NEW p \in Found[m + 1] PROVE Outcome(p, m + 1)
    <3>1. p \in Found[m] \/ \E q \in Found[m], answer \in Answers : p = Append(q, Device(m, answer))
      BY <2>2 DEF Further
    <3> QED
      BY <2>3, <2>4, <3>1
  <2> QED
    BY <2>1, <2>5
<1>4. \A m \in 0..Count : m \in T
  <2> HIDE DEF T
  <2> QED
    BY <1>1, <1>2, <1>3, UpTo
<1> QED
  BY <1>4

\* What a probe of the next device leads to.
LEMMA FoundMore ==
    ASSUME NEW n \in 0..(Count - 1), NEW o \in Found[n]
    PROVE  /\ n + 1 \in 0..Count /\ o \in Found[n + 1]
           /\ \A answer \in Answers : Append(o, Device(n, answer)) \in Found[n + 1]
<1>1. n + 1 \in 1..Count /\ n + 1 \in 0..Count /\ (n + 1) - 1 = n
  BY Gx10Assumption
<1>2. Found[n + 1] = Further(Found[(n + 1) - 1], (n + 1) - 1)
  BY <1>1, FoundIs
<1>3. Found[n + 1] = Further(Found[n], n)
  BY <1>1, <1>2
<1> QED
  BY <1>1, <1>3 DEF Further

-----------------------------------------------------------------------------
(* What an exposition tells *)

\* Names, numerals and words are strings, like the punctuation.
LEMMA TokensAreStrings == Token = STRING
BY WordAssumption DEF Token

\* What is probed of a device can be printed, and its strings are texts.
LEMMA DevicePrints ==
    ASSUME NEW d \in Devices
    PROVE  /\ d.index \in Nat /\ d.index < Count /\ ToString(d.index) \in Numerals
           /\ d.uuid # Unread => d.uuid \in Seq(STRING)
           /\ d.name # Unread => d.name \in Seq(STRING)
           /\ \A f \in DOMAIN Metric :
                 Reading(d, f) # Unread => ToString(Reading(d, f)) \in Numerals
<1>1. PICK k \in 0..(Count - 1), answer \in Answers : d = Device(k, answer)
  BY DEF Devices
<1>2. /\ d.index = k /\ d.uuid = answer.uuid /\ d.name = answer.name
      /\ \A f : Reading(d, f) = Reading(answer, f)
  BY <1>1, DeviceIs
<1>3. Count \in Nat /\ MAX_AGENT_GPUS \in Nat
  BY Gx10Assumption
<1>4. k \in Nat /\ k < Count /\ k \in 0..(Count + MAX_AGENT_GPUS)
  BY <1>3
<1>5. ToString(k) \in Numerals
  <2>1. k \in Printed
    BY <1>4 DEF Printed
  <2> QED
    BY <2>1, PrintAssumption
<1>6. /\ answer.uuid \in Seq(STRING) \cup {Unread} /\ answer.name \in Seq(STRING) \cup {Unread}
  BY AnswerAssumption
<1>7. ASSUME NEW f \in DOMAIN Metric, Reading(d, f) # Unread
      PROVE  ToString(Reading(d, f)) \in Numerals
  <2>1. Reading(answer, f) \in {Reading(a, g) : a \in Answers, g \in DOMAIN Metric} \ {Unread}
    BY <1>2, <1>7
  <2>2. ToString(Reading(answer, f)) \in Numerals
    <3>1. Reading(answer, f) \in Printed
      BY <2>1 DEF Printed
    <3> QED
      BY <3>1, PrintAssumption
  <2> QED
    BY <1>2, <2>2
<1> QED
  BY <1>2, <1>4, <1>5, <1>6, <1>7

\* The metrics have names, each another one.
LEMMA MetricNames ==
    /\ DOMAIN Metric = {"utilization", "power", "temperature", "used", "total"}
    /\ \A f \in DOMAIN Metric : Metric[f] \in Token \ Punctuation
    /\ \A f, g \in DOMAIN Metric : Metric[f] = Metric[g] => f = g
    /\ \A f \in DOMAIN Metric : /\ Metric[f] # "muser_agent_up"
                                /\ Metric[f] # "muser_agent_scrape_duration_seconds"
    /\ "muser_agent_up" \in Token \ Punctuation
    /\ "muser_agent_scrape_duration_seconds" \in Token \ Punctuation
    /\ "muser_agent_up" # "muser_agent_scrape_duration_seconds"
<1>1. DOMAIN Metric = {"utilization", "power", "temperature", "used", "total"}
  BY DEF Metric
<1>2. \A f \in DOMAIN Metric : Metric[f] \in Token
  BY DEF Token, Words
<1>3. \A f \in DOMAIN Metric : Metric[f] \notin Punctuation
  <2>1. /\ Metric.utilization = "muser_gpu_utilization_ratio"
        /\ Metric.power = "muser_gpu_power_watts"
        /\ Metric.temperature = "muser_gpu_temperature_celsius"
        /\ Metric.used = "muser_gpu_memory_used_bytes"
        /\ Metric.total = "muser_gpu_memory_total_bytes"
    BY DEF Metric
  <2>2. /\ "muser_gpu_utilization_ratio" \notin Punctuation
        /\ "muser_gpu_power_watts" \notin Punctuation
        /\ "muser_gpu_temperature_celsius" \notin Punctuation
        /\ "muser_gpu_memory_used_bytes" \notin Punctuation
        /\ "muser_gpu_memory_total_bytes" \notin Punctuation
    BY DEF Punctuation, QUOTE, BACKSLASH, NEWLINE, SPACE
  <2> QED
    BY <1>1, <2>1, <2>2
<1>4. \A f, g \in DOMAIN Metric : Metric[f] = Metric[g] => f = g
  BY DEF Metric
<1>5. \A f \in DOMAIN Metric : /\ Metric[f] # "muser_agent_up"
                               /\ Metric[f] # "muser_agent_scrape_duration_seconds"
  BY DEF Metric
<1>6. /\ "muser_agent_up" \in Token \ Punctuation
      /\ "muser_agent_scrape_duration_seconds" \in Token \ Punctuation
  BY DEF Token, Words, Punctuation, QUOTE, BACKSLASH, NEWLINE, SPACE
<1> QED
  BY <1>1, <1>2, <1>3, <1>4, <1>5, <1>6

Sample(metric, ls, number) == [metric |-> metric, labels |-> ls, value |-> ToString(number)]

AgentLabels == << <<"agent", <<"gx10">> >> >>

\* A line of a metric is read back, and is a sample.
LEMMA LineSample ==
    ASSUME NEW metric \in Token \ Punctuation, NEW text, NEW ls, Encodes(text, ls),
           NEW number, ToString(number) \in Numerals
    PROVE  /\ parse_line(Line(metric, text, number)) = Sample(metric, ls, number)
           /\ Sample(metric, ls, number) # NoSample
           /\ Line(metric, text, number) \in Seq(Token)
           /\ NEWLINE \notin Range(Line(metric, text, number))
<1>1. ls \in Seq(STRING \X Seq(STRING))
  BY TokensAreStrings DEF Encodes
<1>2. ToString(number) \in STRING /\ metric \in STRING
  BY TokensAreStrings, Gx10Assumption
<1>3. Sample(metric, ls, number) \in [metric : STRING, labels : Seq(STRING \X Seq(STRING)), value : STRING]
  <2> DEFINE L == Seq(STRING \X Seq(STRING))
  <2>1. ls \in L
    BY <1>1
  <2> HIDE DEF L
  <2>2. Sample(metric, ls, number) \in [metric : STRING, labels : L, value : STRING]
    BY <1>2, <2>1 DEF Sample
  <2> QED
    BY <2>2 DEF L
<1>4. Sample(metric, ls, number) # NoSample
  BY <1>3, Gx10Assumption
<1> QED
  BY <1>4, LineReads DEF Sample

\* One line about the exporter itself.
LEMMA AgentTells ==
    ASSUME NEW metric \in Token \ Punctuation, NEW k \in {0, 1}
    PROVE  Tells(family(metric, <<Line(metric, Label("agent", <<"gx10">>), k)>>),
                 {Sample(metric, AgentLabels, k)})
<1> DEFINE line == Line(metric, Label("agent", <<"gx10">>), k)
           lines == <<line>>
<1>1. ToString(k) \in Numerals
  <2>1. 0 \in Printed /\ 1 \in Printed
    BY Gx10Assumption DEF Printed
  <2>2. ToString(0) \in Numerals /\ ToString(1) \in Numerals
    BY <2>1, PrintAssumption
  <2> QED
    BY <2>2
<1>2. Encodes(Label("agent", <<"gx10">>), AgentLabels)
  BY EncodesAgent, Zenon DEF AgentLabels
<1>3. /\ parse_line(line) = Sample(metric, AgentLabels, k)
      /\ parse_line(line) # NoSample
      /\ line \in Seq(Token) /\ NEWLINE \notin Range(line)
  BY <1>1, <1>2, LineSample
<1> HIDE DEF line
<1>4. lines \in Seq(Seq(Token)) /\ Len(lines) = 1 /\ lines[1] = line
  BY <1>3
<1> HIDE DEF lines
<1>5. SampleLines(lines)
  BY <1>3, <1>4 DEF SampleLines
<1>6. Tells(family(metric, lines), {parse_line(lines[i]) : i \in 1..Len(lines)})
  BY <1>5, FamilyTells
<1>7. {parse_line(lines[i]) : i \in 1..Len(lines)} = {Sample(metric, AgentLabels, k)}
  BY <1>3, <1>4
<1> QED
  BY <1>6, <1>7, Zenon DEF line, lines

\* The samples of a field.
DeviceSample(d, f) == Sample(Metric[f], LabelsOf(d), Reading(d, f))

FieldSamples(o, f) ==
    {DeviceSample(o[i], f) : i \in {j \in 1..Len(o) : Reading(o[j], f) # Unread}}

\* A device's line of a field, or none.
Written(d, f) ==
    IF Reading(d, f) = Unread THEN <<>> ELSE <<Line(Metric[f], labels(d), Reading(d, f))>>

\* A device's line is read back as its sample.
LEMMA DeviceLine ==
    ASSUME NEW d \in Devices, NEW f \in DOMAIN Metric, Reading(d, f) # Unread
    PROVE  LET line == Line(Metric[f], labels(d), Reading(d, f))
           IN  /\ parse_line(line) = DeviceSample(d, f) /\ parse_line(line) # NoSample
               /\ line \in Seq(Token) /\ NEWLINE \notin Range(line)
<1>1. Encodes(labels(d), LabelsOf(d))
  BY DevicePrints, EncodesDevice
<1>2. ToString(Reading(d, f)) \in Numerals
  BY DevicePrints
<1>3. Metric[f] \in Token \ Punctuation
  BY MetricNames
<1> QED
  BY <1>1, <1>2, <1>3, LineSample DEF DeviceSample

\* A field's family tells what the devices were probed for.
LEMMA FieldTells ==
    ASSUME NEW o \in Seq(Devices), NEW f \in DOMAIN Metric
    PROVE  LET text == family(Metric[f], FlattenSeq([i \in DOMAIN o |-> Written(o[i], f)]))
           IN  Tells(text, FieldSamples(o, f)) /\ text \in Seq(Token)
<1> DEFINE parts == [i \in DOMAIN o |-> Written(o[i], f)]
           lines == FlattenSeq(parts)
           Good == {line \in Seq(Token) : NEWLINE \notin Range(line) /\ parse_line(line) # NoSample}
<1>1. DOMAIN o = 1..Len(o) /\ Len(o) \in Nat /\ \A i \in 1..Len(o) : o[i] \in Devices
  OBVIOUS
<1>2. ASSUME NEW d \in Devices
      PROVE  /\ Written(d, f) \in Seq(Good)
             /\ Reading(d, f) = Unread => Range(Written(d, f)) = {}
             /\ Reading(d, f) # Unread =>
                   Range(Written(d, f)) = {Line(Metric[f], labels(d), Reading(d, f))}
  <2>1. CASE Reading(d, f) = Unread
    <3>1. Written(d, f) = <<>>
      BY <2>1 DEF Written
    <3>2. <<>> \in Seq(Good) /\ Range(<<>>) = {}
      BY DEF Range
    <3> QED
      BY <2>1, <3>1, <3>2, Zenon
  <2>2. CASE Reading(d, f) # Unread
    <3> DEFINE line == Line(Metric[f], labels(d), Reading(d, f))
    <3>1. line \in Good
      BY <2>2, DeviceLine
    <3>2. Written(d, f) = <<line>>
      BY <2>2 DEF Written
    <3> HIDE DEF line, Good
    <3>3. <<line>> \in Seq(Good) /\ Range(<<line>>) = {line}
      BY <3>1, One
    <3> QED
      BY <2>2, <3>2, <3>3 DEF line
  <2> QED
    BY <2>1, <2>2
<1>3. parts \in Seq(Seq(Good)) /\ DOMAIN parts = 1..Len(o)
      /\ \A i \in 1..Len(o) : parts[i] = Written(o[i], f)
  <2> HIDE DEF Good
  <2>1. parts = [i \in 1..Len(o) |-> Written(o[i], f)]
    BY <1>1
  <2>2. \A i \in 1..Len(o) : Written(o[i], f) \in Seq(Good)
    BY <1>1, <1>2
  <2> QED
    BY <1>1, <2>1, <2>2
<1>4. lines \in Seq(Good) /\ Range(lines) = UNION {Range(parts[i]) : i \in 1..Len(o)}
  <2> HIDE DEF Good, parts
  <2> QED
    BY <1>3, FlattenedSet
<1> HIDE DEF lines
<1>5. Good \subseteq Seq(Token)
  OBVIOUS
<1>6. /\ lines \in Seq(Seq(Token)) /\ Len(lines) \in Nat
      /\ \A i \in 1..Len(lines) : lines[i] \in Good
      /\ Range(lines) = {lines[i] : i \in 1..Len(lines)}
  <2> HIDE DEF Good
  <2> QED
    BY <1>4, <1>5 DEF Range
<1>7. SampleLines(lines)
  BY <1>6 DEF SampleLines
<1>8. /\ Tells(family(Metric[f], lines), {parse_line(lines[i]) : i \in 1..Len(lines)})
      /\ family(Metric[f], lines) \in Seq(Token)
  <2>1. Metric[f] \in Token \ Punctuation
    BY MetricNames
  <2> QED
    BY <1>7, <2>1, FamilyTells
<1> DEFINE Pub == {j \in 1..Len(o) : Reading(o[j], f) # Unread}
           TheLine(i) == Line(Metric[f], labels(o[i]), Reading(o[i], f))
<1>9. Range(lines) = {TheLine(i) : i \in Pub}
  <2>1. ASSUME NEW i \in 1..Len(o)
        PROVE  /\ i \notin Pub => Range(parts[i]) = {}
               /\ i \in Pub => Range(parts[i]) = {TheLine(i)}
    <3>1. parts[i] = Written(o[i], f)
      BY <1>3
    <3>2. o[i] \in Devices
      BY <1>1
    <3>3. /\ Reading(o[i], f) = Unread => Range(Written(o[i], f)) = {}
          /\ Reading(o[i], f) # Unread => Range(Written(o[i], f)) = {TheLine(i)}
      BY <1>2, <3>2
    <3> HIDE DEF Good, parts, TheLine
    <3> QED
      BY <3>1, <3>3
  <2>2. Pub \subseteq 1..Len(o)
    OBVIOUS
  <2>3. \A x : x \in Range(lines) <=> \E i \in 1..Len(o) : x \in Range(parts[i])
    <3> HIDE DEF Good, parts
    <3> QED
      BY <1>4
  <2> HIDE DEF Good, parts, Pub, TheLine
  <2>4. \A x : x \in Range(lines) <=> \E i \in Pub : x = TheLine(i)
    <3>1. ASSUME NEW x \in Range(lines) PROVE \E i \in Pub : x = TheLine(i)
      <4>1. PICK i \in 1..Len(o) : x \in Range(parts[i])
        BY <2>3
      <4> QED
        BY <2>1, <4>1
    <3>2. ASSUME NEW i \in Pub PROVE TheLine(i) \in Range(lines)
      BY <2>1, <2>2, <2>3
    <3> QED
      BY <3>1, <3>2
  <2> QED
    BY <2>4
<1>10. \A i \in Pub : parse_line(TheLine(i)) = DeviceSample(o[i], f)
  BY <1>1, DeviceLine
<1>11. {parse_line(lines[i]) : i \in 1..Len(lines)} = FieldSamples(o, f)
  <2>1. {parse_line(lines[i]) : i \in 1..Len(lines)} = {parse_line(l) : l \in Range(lines)}
    BY <1>6
  <2>2. {parse_line(l) : l \in Range(lines)} = {parse_line(TheLine(i)) : i \in Pub}
    <3> HIDE DEF TheLine, Good, Pub
    <3> QED
      BY <1>9
  <2>3. {parse_line(TheLine(i)) : i \in Pub} = {DeviceSample(o[i], f) : i \in Pub}
    <3> HIDE DEF TheLine, Good, Pub
    <3> QED
      BY <1>10
  <2> QED
    BY <2>1, <2>2, <2>3, Zenon DEF FieldSamples
<1> QED
  BY <1>8, <1>11, Zenon DEF lines

\* What is written when the source did not answer.
LEMMA DownTells == Tells(render(Down), {Sample("muser_agent_up", AgentLabels, 0)})
<1>1. render(Down) = family("muser_agent_up", <<Line("muser_agent_up", Label("agent", <<"gx10">>), 0)>>)
  BY Zenon DEF render
<1>2. "muser_agent_up" \in Token \ Punctuation /\ 0 \in {0, 1}
  BY MetricNames
<1> QED
  BY <1>1, <1>2, AgentTells

AllSamples(o) ==
    {Sample("muser_agent_up", AgentLabels, 1),
     Sample("muser_agent_scrape_duration_seconds", AgentLabels, 1)}
        \cup UNION {FieldSamples(o, f) : f \in DOMAIN Metric}

\* What is written when it did.
LEMMA AnswerTells ==
    ASSUME NEW o \in Seq(Devices), o # Down
    PROVE  Tells(render(o), AllSamples(o))
<1> DEFINE agent == Label("agent", <<"gx10">>)
           up == family("muser_agent_up", <<Line("muser_agent_up", agent, 1)>>)
           duration == family("muser_agent_scrape_duration_seconds",
                              <<Line("muser_agent_scrape_duration_seconds", agent, 1)>>)
           Part(f) == family(Metric[f], FlattenSeq([i \in DOMAIN o |-> Written(o[i], f)]))
           parts == [j \in DOMAIN Families |-> Part(Families[j])]
           C == [j \in DOMAIN Families |-> FieldSamples(o, Families[j])]
<1>1. render(o) = (up \o duration) \o FlattenSeq(parts)
  BY Zenon DEF render, Written
<1>2. Tells(up, {Sample("muser_agent_up", AgentLabels, 1)})
  BY MetricNames, AgentTells
<1>3. Tells(duration, {Sample("muser_agent_scrape_duration_seconds", AgentLabels, 1)})
  BY MetricNames, AgentTells
<1>4. /\ DOMAIN Families = 1..5 /\ Len(Families) = 5
      /\ \A j \in 1..5 : Families[j] \in DOMAIN Metric
      /\ \A f \in DOMAIN Metric : \E j \in 1..5 : f = Families[j]
  <2>1. /\ Families[1] = "utilization" /\ Families[2] = "power" /\ Families[3] = "temperature"
        /\ Families[4] = "used" /\ Families[5] = "total"
        /\ DOMAIN Families = 1..5 /\ Len(Families) = 5
    BY DEF Families
  <2>2. 1 \in 1..5 /\ 2 \in 1..5 /\ 3 \in 1..5 /\ 4 \in 1..5 /\ 5 \in 1..5
    OBVIOUS
  <2>3. \A j \in 1..5 : j = 1 \/ j = 2 \/ j = 3 \/ j = 4 \/ j = 5
    OBVIOUS
  <2>4. \A j \in 1..5 : Families[j] \in DOMAIN Metric
    BY <2>1, <2>3, MetricNames
  <2>5. \A f \in DOMAIN Metric : \E j \in 1..5 : f = Families[j]
    BY <2>1, <2>2, MetricNames
  <2> QED
    BY <2>1, <2>4, <2>5
<1>5. \A j \in 1..5 : Tells(parts[j], C[j]) /\ parts[j] \in Seq(Token)
  BY <1>4, FieldTells
<1>6. parts \in Seq(Seq(Token)) /\ Len(parts) = 5
  <2> HIDE DEF Part
  <2>1. parts = [j \in 1..5 |-> Part(Families[j])]
    BY <1>4
  <2>2. \A j \in 1..5 : Part(Families[j]) \in Seq(Token)
    BY <1>4, <1>5
  <2> QED
    BY <2>1, <2>2
<1> DEFINE X == UNION {C[j] : j \in 1..5}
           Y == UNION {FieldSamples(o, f) : f \in DOMAIN Metric}
<1>7. X = Y
  <2>1. \A j \in 1..5 : C[j] = FieldSamples(o, Families[j])
    BY <1>4
  <2> HIDE DEF C
  <2> QED
    BY <1>4, <2>1
<1> HIDE DEF parts, C, up, duration, Y
<1>8. Tells(FlattenSeq(parts), X)
  <2>1. \A j \in 1..Len(parts) : Tells(parts[j], C[j])
    BY <1>5, <1>6
  <2>2. Tells(FlattenSeq(parts), UNION {C[j] : j \in 1..Len(parts)})
    BY <1>6, <2>1, TellsFlat
  <2> QED
    BY <1>6, <2>2
<1> HIDE DEF X
<1>9. Tells(up \o duration, {Sample("muser_agent_up", AgentLabels, 1)}
                \cup {Sample("muser_agent_scrape_duration_seconds", AgentLabels, 1)})
  BY <1>2, <1>3, TellsThen
<1>10. Tells((up \o duration) \o FlattenSeq(parts),
             ({Sample("muser_agent_up", AgentLabels, 1)}
                \cup {Sample("muser_agent_scrape_duration_seconds", AgentLabels, 1)}) \cup X)
  BY <1>8, <1>9, TellsThen
<1>11. ({Sample("muser_agent_up", AgentLabels, 1)}
          \cup {Sample("muser_agent_scrape_duration_seconds", AgentLabels, 1)}) \cup X
          = AllSamples(o)
  BY <1>7 DEF AllSamples, Y
<1> QED
  BY <1>1, <1>10, <1>11, Zenon

-----------------------------------------------------------------------------
(* What the console reads *)

\* The console's samples are those the text tells.
LEMMA ParseIs ==
    ASSUME NEW text, NEW S, Tells(text, S)
    PROVE  LET p == parse(text)
           IN  DOMAIN p \subseteq Nat /\ S = {p[e] : e \in DOMAIN p}
<1> DEFINE lines == Lines(text)
           D == {l \in DOMAIN lines : parse_line(lines[l]) # NoSample}
<1>1. parse(text) = [e \in D |-> parse_line(lines[e])]
  BY Zenon DEF parse
<1>2. DOMAIN lines \subseteq Nat
  <2>1. Whole(text) /\ text \in Seq(Token)
    BY DEF Tells, Whole
  <2>2. DOMAIN lines = Ends(text)
    BY <2>1, LineIs
  <2>3. Ends(text) \subseteq Nat
    BY <2>1 DEF Ends
  <2> QED
    BY <2>2, <2>3, Zenon
<1>3. S = {parse_line(lines[e]) : e \in DOMAIN lines} \ {NoSample}
  BY Zenon DEF Tells, Samples
<1> HIDE DEF lines
<1>4. S = {parse_line(lines[e]) : e \in D}
  BY <1>3
<1> QED
  BY <1>1, <1>2, <1>4

\* The first of some samples has the value all of them have.
LEMMA FirstIs ==
    ASSUME NEW p, DOMAIN p \subseteq Nat, NEW places, places \subseteq DOMAIN p
    PROVE  /\ places = {} => First(p, places) = NoSample
           /\ \A v : places # {} /\ (\A e \in places : p[e].value = v) => First(p, places) = v
<1>1. CASE places = {}
  BY <1>1 DEF First
<1>2. CASE places # {}
  <2>1. PICK m \in places : \A e \in places : e >= m
    BY <1>2, LeastElement
  <2>2. places \subseteq Int /\ \A e \in places : m <= e
    BY <2>1
  <2>3. Min(places) = m
    BY <2>2, MinIs
  <2>4. First(p, places) = p[m].value
    BY <1>2, <2>3 DEF First
  <2> QED
    BY <1>2, <2>4
<1> QED
  BY <1>1, <1>2

\* The value of a metric.
LEMMA ValueIs ==
    ASSUME NEW text, NEW S, Tells(text, S), NEW metric, NEW v,
           \E s \in S : s.metric = metric, \A s \in S : s.metric = metric => s.value = v
    PROVE  value(parse(text), metric) = v
<1> DEFINE p == parse(text)
           places == {e \in DOMAIN p : p[e].metric = metric}
<1>1. DOMAIN p \subseteq Nat /\ S = {p[e] : e \in DOMAIN p}
  BY ParseIs
<1> HIDE DEF p
<1>2. places # {} /\ \A e \in places : p[e].value = v
  BY <1>1
<1>3. First(p, places) = v
  <2>1. places \subseteq DOMAIN p
    OBVIOUS
  <2> HIDE DEF places
  <2> QED
    BY <1>1, <1>2, <2>1, FirstIs
<1> QED
  BY <1>3, Zenon DEF p, value

\* The samples of a metric with a label.
Chosen(S, metric, key, wanted) == {s \in S : s.metric = metric /\ label(s, key) = wanted}

\* The value of a metric with a label.
LEMMA LabeledIs ==
    ASSUME NEW text, NEW S, Tells(text, S), NEW metric, NEW key, NEW wanted
    PROVE  LET chosen == Chosen(S, metric, key, wanted)
               found  == labeled_value(parse(text), metric, key, wanted)
           IN  /\ chosen = {} => found = NoSample
               /\ \A v : chosen # {} /\ (\A s \in chosen : s.value = v) => found = v
<1> DEFINE p == parse(text)
           places == {e \in DOMAIN p : p[e].metric = metric /\ label(p[e], key) = wanted}
           chosen == {s \in S : s.metric = metric /\ label(s, key) = wanted}
<1>1. DOMAIN p \subseteq Nat /\ S = {p[e] : e \in DOMAIN p}
  BY ParseIs
<1> HIDE DEF p
<1>2. places = {} <=> chosen = {}
  BY <1>1
<1>3. chosen = {p[e] : e \in places}
  BY <1>1
<1>4. \A v : (\A s \in chosen : s.value = v) => \A e \in places : p[e].value = v
  <2> HIDE DEF places, chosen
  <2> QED
    BY <1>3
<1>5. /\ places = {} => First(p, places) = NoSample
      /\ \A v : places # {} /\ (\A e \in places : p[e].value = v) => First(p, places) = v
  <2>1. places \subseteq DOMAIN p
    OBVIOUS
  <2> HIDE DEF places
  <2> QED
    BY <1>1, <2>1, FirstIs
<1>6. labeled_value(parse(text), metric, key, wanted) = First(p, places)
  BY Zenon DEF p, labeled_value
<1> HIDE DEF places, chosen
<1> QED
  BY <1>2, <1>4, <1>5, <1>6 DEF chosen, Chosen

\* A sample is what it is made of.
LEMMA SampleHas ==
    ASSUME NEW metric, NEW ls, NEW number
    PROVE  LET s == Sample(metric, ls, number)
           IN  /\ s.metric = metric /\ s.value = ToString(number)
               /\ \A key : label(s, key) = Labelled(ls, key)
<1> DEFINE s == Sample(metric, ls, number)
<1>1. s.metric = metric /\ s.value = ToString(number) /\ s.labels = ls
  BY DEF Sample
<1> HIDE DEF s
<1>2. \A key : label(s, key) = Labelled(ls, key)
  BY <1>1, LabelIs
<1> QED
  BY <1>1, <1>2 DEF s

\* The samples of the exporter itself name no device.
LEMMA AgentHas ==
    ASSUME NEW metric, NEW k
    PROVE  LET s == Sample(metric, AgentLabels, k)
           IN  s.metric = metric /\ s.value = ToString(k) /\ label(s, "gpu") = NoSample
<1>1. Labelled(AgentLabels, "gpu") = NoSample
  BY EncodesAgent, Zenon DEF AgentLabels
<1> QED
  BY <1>1, SampleHas

\* The samples of a device name it.
LEMMA DeviceHas ==
    ASSUME NEW d, NEW f
    PROVE  LET s == DeviceSample(d, f)
           IN  /\ s.metric = Metric[f] /\ s.value = ToString(Reading(d, f))
               /\ label(s, "gpu") = <<ToString(d.index)>>
               /\ d.uuid # Unread => label(s, "uuid") = d.uuid
               /\ d.name # Unread => label(s, "name") = d.name
<1> DEFINE n == <<ToString(d.index)>>
<1>1. /\ Labelled(LabelsOf(d), "gpu") = n
      /\ d.uuid # Unread => Labelled(LabelsOf(d), "uuid") = d.uuid
      /\ d.name # Unread => Labelled(LabelsOf(d), "name") = d.name
  BY LabelledIs
<1> QED
  BY <1>1, SampleHas DEF DeviceSample

\* Nothing is stored of a source that did not answer.
LEMMA DownCollects == collect_agent(parse(render(Down))) = {}
<1> DEFINE s == Sample("muser_agent_up", AgentLabels, 0)
<1>1. s.metric = "muser_agent_up" /\ s.value = ToString(0)
  BY AgentHas
<1>2. ToString(0) = "0"
  BY PrintAssumption
<1>3. Tells(render(Down), {s})
  BY DownTells
<1> HIDE DEF s
<1>4. value(parse(render(Down)), "muser_agent_up") = "0"
  BY <1>1, <1>2, <1>3, ValueIs
<1> QED
  BY <1>4, Zenon DEF collect_agent

\* The samples of all fields.
LEMMA AllHas ==
    ASSUME NEW o, NEW s
    PROVE  s \in AllSamples(o) <=>
               \/ s = Sample("muser_agent_up", AgentLabels, 1)
               \/ s = Sample("muser_agent_scrape_duration_seconds", AgentLabels, 1)
               \/ \E f \in DOMAIN Metric : \E i \in 1..Len(o) :
                     Reading(o[i], f) # Unread /\ s = DeviceSample(o[i], f)
BY DEF AllSamples, FieldSamples

\* The source answered.
LEMMA AnswerIsUp ==
    ASSUME NEW o \in Seq(Devices), o # Down
    PROVE  value(parse(render(o)), "muser_agent_up") # "0"
<1> DEFINE up == Sample("muser_agent_up", AgentLabels, 1)
           S == AllSamples(o)
<1>1. Tells(render(o), S)
  BY AnswerTells
<1>2. up \in S /\ up.metric = "muser_agent_up" /\ up.value = ToString(1)
  BY AgentHas, AllHas
<1>3. ASSUME NEW s \in S, s.metric = "muser_agent_up" PROVE s.value = ToString(1)
  <2>1. CASE s = Sample("muser_agent_scrape_duration_seconds", AgentLabels, 1)
    BY <1>3, <2>1, AgentHas, MetricNames
  <2>2. CASE s = up
    BY <1>2, <2>2
  <2>3. ASSUME NEW f \in DOMAIN Metric, NEW d, s = DeviceSample(d, f) PROVE FALSE
    <3>1. s.metric = Metric[f]
      BY <2>3, DeviceHas
    <3> QED
      BY <1>3, <3>1, MetricNames
  <2> QED
    BY <2>1, <2>2, <2>3, AllHas
<1> HIDE DEF up, S
<1>4. value(parse(render(o)), "muser_agent_up") = ToString(1)
  <2> DEFINE text == render(o)
             v == ToString(1)
             metric == "muser_agent_up"
  <2>1. \E s \in S : s.metric = metric
    BY <1>2
  <2>2. \A s \in S : s.metric = metric => s.value = v
    BY <1>3
  <2>3. Tells(text, S)
    BY <1>1
  <2> HIDE DEF text, v, metric
  <2>4. value(parse(text), metric) = v
    BY <2>1, <2>2, <2>3, ValueIs
  <2> QED
    BY <2>4 DEF text, v, metric
<1>5. ToString(1) # "0"
  <2>1. 0 \in Printed /\ 1 \in Printed
    BY Gx10Assumption DEF Printed
  <2>2. ToString(0) = "0" /\ (ToString(1) = ToString(0) => 1 = 0)
    BY <2>1, PrintAssumption
  <2> QED
    BY <2>2
<1> QED
  BY <1>4, <1>5

\* What is read of one series: the reading of the device of that index.
LEMMA SeriesIs ==
    ASSUME NEW o, Outcome(o, Count), o # Down,
           NEW k \in 0..(MAX_AGENT_GPUS - 1), NEW f \in DOMAIN Metric
    PROVE  LET found == labeled_value(parse(render(o)), Metric[f], "gpu", <<ToString(k)>>)
               Of(i) == o[i].index = k /\ Reading(o[i], f) # Unread
           IN  /\ (\A i \in 1..Len(o) : ~ Of(i)) => found = NoSample
               /\ \A i \in 1..Len(o) : Of(i) => found = ToString(Reading(o[i], f))
<1> DEFINE wanted == <<ToString(k)>>
           S == AllSamples(o)
           chosen == Chosen(S, Metric[f], "gpu", wanted)
           found == labeled_value(parse(render(o)), Metric[f], "gpu", wanted)
           Of(i) == o[i].index = k /\ Reading(o[i], f) # Unread
<1>1. o \in Seq(Devices) /\ \A i \in 1..Len(o) : o[i] \in Devices
  BY DEF Outcome
<1>2. Tells(render(o), S)
  BY <1>1, AnswerTells
<1>3. /\ chosen = {} => found = NoSample
      /\ \A v : chosen # {} /\ (\A s \in chosen : s.value = v) => found = v
  <2> HIDE DEF S, wanted
  <2> QED
    BY <1>2, LabeledIs, Zenon
<1>4. ASSUME NEW i \in 1..Len(o), <<ToString(o[i].index)>> = wanted PROVE o[i].index = k
  <2>1. k \in Printed
    BY Gx10Assumption DEF Printed
  <2>2. o[i].index \in Printed
    BY <1>1, DevicePrints, Gx10Assumption DEF Printed
  <2>3. ToString(o[i].index) = ToString(k)
    BY <1>4
  <2> QED
    BY <2>1, <2>2, <2>3, PrintAssumption
<1>5. wanted # NoSample
  <2>1. k \in Printed
    BY Gx10Assumption DEF Printed
  <2>2. ToString(k) \in STRING
    BY <2>1, Gx10Assumption, PrintAssumption
  <2>3. wanted \in Seq(STRING)
    BY <2>2
  <2> QED
    BY <2>3, Gx10Assumption
<1>6. ASSUME NEW s \in chosen PROVE \E i \in 1..Len(o) : Of(i) /\ s = DeviceSample(o[i], f)
  <2> USE DEF Chosen
  <2>1. label(s, "gpu") # NoSample /\ s.metric = Metric[f] /\ s \in S /\ label(s, "gpu") = wanted
    BY <1>5
  <2>2. PICK g \in DOMAIN Metric, i \in 1..Len(o) : Reading(o[i], g) # Unread /\ s = DeviceSample(o[i], g)
    BY <2>1, AllHas, AgentHas
  <2>3. s.metric = Metric[g] /\ label(s, "gpu") = <<ToString(o[i].index)>>
    BY <2>2, DeviceHas
  <2>4. g = f
    BY <2>1, <2>3, MetricNames
  <2>5. o[i].index = k
    BY <1>4, <2>1, <2>3
  <2> QED
    BY <2>2, <2>4, <2>5
<1>7. ASSUME NEW i \in 1..Len(o), Of(i) PROVE DeviceSample(o[i], f) \in chosen
  <2>1. DeviceSample(o[i], f) \in S
    BY <1>7, AllHas
  <2>2. DeviceSample(o[i], f).metric = Metric[f] /\ label(DeviceSample(o[i], f), "gpu") = wanted
    BY <1>7, DeviceHas
  <2> QED
    BY <2>1, <2>2 DEF Chosen
<1>8. \A i, j \in 1..Len(o) : Of(i) /\ Of(j) => i = j
  BY DEF Outcome
<1> HIDE DEF chosen, found
<1>9. ASSUME NEW i \in 1..Len(o), Of(i) PROVE found = ToString(Reading(o[i], f))
  <2>1. chosen # {}
    BY <1>7, <1>9
  <2>2. \A s \in chosen : s = DeviceSample(o[i], f)
    BY <1>6, <1>8, <1>9
  <2>3. \A s \in chosen : s.value = ToString(Reading(o[i], f))
    BY <2>2, DeviceHas
  <2> QED
    BY <1>3, <2>1, <2>3
<1>10. (\A i \in 1..Len(o) : ~ Of(i)) => found = NoSample
  BY <1>3, <1>6
<1> QED
  BY <1>9, <1>10 DEF found

\* What is to be stored of an outcome.
AsProbed(o) ==
    UNION {{<<d.index, f, ToString(Reading(d, f))>> :
               f \in {g \in DOMAIN Metric : Reading(d, g) # Unread}} :
           d \in {e \in Range(o) : e.index < MAX_AGENT_GPUS}}

\* The rows are those of the readings.
LEMMA RowsAre ==
    ASSUME NEW o, Outcome(o, Count), o # Down
    PROVE  collect_agent(parse(render(o))) = AsProbed(o)
<1> DEFINE p == parse(render(o))
           rows == collect_agent(p)
           Asked(k, f) == labeled_value(p, Metric[f], "gpu", <<ToString(k)>>)
           Catalog == 0..(MAX_AGENT_GPUS - 1)
           Of(i, k, f) == o[i].index = k /\ Reading(o[i], f) # Unread
<1>1. o \in Seq(Devices) /\ \A i \in 1..Len(o) : o[i] \in Devices
  BY DEF Outcome
<1>2. /\ \A i \in 1..Len(o) : o[i].index \in Nat
      /\ \A i \in 1..Len(o), f \in DOMAIN Metric :
            Reading(o[i], f) # Unread => ToString(Reading(o[i], f)) # NoSample
  BY <1>1, DevicePrints, Gx10Assumption
<1>3. MAX_AGENT_GPUS \in Nat
  BY Gx10Assumption
<1>4. ~ (value(p, "muser_agent_up") = "0")
  BY <1>1, AnswerIsUp
<1>5. rows = {row \in {<<c[1], c[2], Asked(c[1], c[2])>> : c \in AGENT_CATALOG} : row[3] # NoSample}
  BY <1>4, Zenon DEF collect_agent
<1>6. ASSUME NEW k \in Catalog, NEW f \in DOMAIN Metric
      PROVE  /\ (\A i \in 1..Len(o) : ~ Of(i, k, f)) => Asked(k, f) = NoSample
             /\ \A i \in 1..Len(o) : Of(i, k, f) => Asked(k, f) = ToString(Reading(o[i], f))
  BY SeriesIs
<1> HIDE DEF p, Asked, rows
<1>7. ASSUME NEW x \in rows PROVE x \in AsProbed(o)
  <2>1. PICK c \in AGENT_CATALOG : x = <<c[1], c[2], Asked(c[1], c[2])>> /\ x[3] # NoSample
    BY <1>5, <1>7
  <2>2. c[1] \in Catalog /\ c[2] \in DOMAIN Metric /\ Asked(c[1], c[2]) # NoSample
    BY <2>1 DEF AGENT_CATALOG
  <2>3. PICK i \in 1..Len(o) : Of(i, c[1], c[2])
    BY <1>6, <2>2
  <2>4. Asked(c[1], c[2]) = ToString(Reading(o[i], c[2]))
    BY <1>6, <2>2, <2>3
  <2>5. o[i] \in Range(o) /\ o[i].index = c[1] /\ o[i].index < MAX_AGENT_GPUS
    BY <1>1, <1>3, <2>2, <2>3 DEF Range
  <2>6. x = <<o[i].index, c[2], ToString(Reading(o[i], c[2]))>>
    BY <2>1, <2>4, <2>5
  <2>7. Reading(o[i], c[2]) # Unread
    BY <2>3
  <2> QED
    BY <2>2, <2>5, <2>6, <2>7 DEF AsProbed
<1>8. ASSUME NEW x \in AsProbed(o) PROVE x \in rows
  <2>1. PICK d \in Range(o), f \in DOMAIN Metric :
           /\ d.index < MAX_AGENT_GPUS /\ Reading(d, f) # Unread
           /\ x = <<d.index, f, ToString(Reading(d, f))>>
    BY <1>8 DEF AsProbed
  <2>2. PICK i \in 1..Len(o) : d = o[i]
    BY <1>1, <2>1 DEF Range
  <2> DEFINE k == d.index
  <2>3. k \in Catalog /\ k = o[i].index
    BY <1>2, <1>3, <2>1, <2>2
  <2>4. Of(i, k, f)
    BY <2>1, <2>2, <2>3
  <2>5. Asked(k, f) = ToString(Reading(d, f)) /\ ToString(Reading(d, f)) # NoSample
    BY <1>2, <1>6, <2>1, <2>2, <2>3, <2>4
  <2>6. <<k, f>> \in AGENT_CATALOG
    BY <2>1, <2>3 DEF AGENT_CATALOG
  <2> DEFINE c == <<k, f>>
  <2>7. x = <<c[1], c[2], Asked(c[1], c[2])>> /\ x[3] # NoSample
    BY <2>1, <2>5
  <2> HIDE DEF c, k
  <2> QED
    BY <1>5, <2>6, <2>7 DEF c
<1> QED
  BY <1>7, <1>8 DEF rows, p

\* Every sample that names a device names one that was probed, with its strings.
LEMMA NamesAre ==
    ASSUME NEW o, Outcome(o, Count), o # Down, NEW k \in DOMAIN parse(render(o)),
           label(parse(render(o))[k], "gpu") # NoSample
    PROVE  LET s == parse(render(o))[k]
           IN  \E d \in Range(o) :
                  /\ label(s, "gpu") = <<ToString(d.index)>>
                  /\ d.name # Unread => label(s, "name") = d.name
                  /\ d.uuid # Unread => label(s, "uuid") = d.uuid
<1> DEFINE p == parse(render(o))
           s == p[k]
<1>1. o \in Seq(Devices)
  BY DEF Outcome
<1>2. Tells(render(o), AllSamples(o))
  BY <1>1, AnswerTells
<1>3. s \in AllSamples(o)
  BY <1>2, ParseIs
<1> HIDE DEF p, s
<1>4. label(s, "gpu") # NoSample
  BY DEF p, s
<1>5. PICK f \in DOMAIN Metric, i \in 1..Len(o) : s = DeviceSample(o[i], f)
  BY <1>3, <1>4, AllHas, AgentHas
<1>6. o[i] \in Range(o)
  BY <1>1 DEF Range
<1>7. \E d \in Range(o) :
         /\ label(s, "gpu") = <<ToString(d.index)>>
         /\ d.name # Unread => label(s, "name") = d.name
         /\ d.uuid # Unread => label(s, "uuid") = d.uuid
  <2>1. /\ label(s, "gpu") = <<ToString(o[i].index)>>
        /\ o[i].uuid # Unread => label(s, "uuid") = o[i].uuid
        /\ o[i].name # Unread => label(s, "name") = o[i].name
    BY <1>5, DeviceHas
  <2> QED
    BY <1>6, <2>1
<1> QED
  BY <1>7 DEF p, s

-----------------------------------------------------------------------------
(* What is stored *)

\* A scrape's outcome grows with the devices it probed, and what it stored is
\* what was read of its outcome.
OutcomesOK ==
    \A t \in Scrapes :
        /\ scrape[t].at \in {"idle", "waiting", "opening", "resolving", "counting"} =>
              scrape[t].outcome = <<>>
        /\ At(t, "probing") =>
              scrape[t].next \in 0..Count /\ scrape[t].outcome \in Found[scrape[t].next]
        /\ scrape[t].at \in {"answered", "stored"} => scrape[t].outcome \in Outcomes
        /\ At(t, "stored") => scrape[t].rows = collect_agent(Received[scrape[t].outcome])

\* What was read is stored as it was probed.
LEMMA StoredIsProbed == OutcomesOK => StoredAsProbed
<1> SUFFICES ASSUME OutcomesOK, NEW t \in Scrapes, At(t, "stored")
             PROVE  LET outcome == scrape[t].outcome
                        samples == Received[outcome]
                        Asked(name, k) == label(samples[k], name)
                    IN  IF outcome = Down THEN scrape[t].rows = {}
                        ELSE /\ scrape[t].rows = AsProbed(outcome)
                             /\ \A k \in DOMAIN samples :
                                    Asked("gpu", k) # NoSample =>
                                    \E d \in Range(outcome) :
                                        /\ Asked("gpu", k) = <<ToString(d.index)>>
                                        /\ d.name # Unread => Asked("name", k) = d.name
                                        /\ d.uuid # Unread => Asked("uuid", k) = d.uuid
  BY Zenon DEF StoredAsProbed, AsProbed
<1> DEFINE o == scrape[t].outcome
<1>1. o \in Outcomes /\ scrape[t].rows = collect_agent(Received[o])
  BY DEF OutcomesOK, At
<1>2. Received[o] = parse(render(o))
  BY <1>1 DEF Received
<1> HIDE DEF o
<1>3. CASE o = Down
  BY <1>1, <1>2, <1>3, DownCollects DEF o
<1>4. CASE o # Down
  <2>1. o \in Found[Count]
    BY <1>1, <1>4 DEF Outcomes
  <2>2. Count \in 0..Count
    BY Gx10Assumption
  <2>3. Outcome(o, Count)
    BY <2>1, <2>2, FoundHas
  <2>4. scrape[t].rows = AsProbed(o)
    BY <1>1, <1>2, <1>4, <2>3, RowsAre
  <2>5. ASSUME NEW k \in DOMAIN Received[o], label(Received[o][k], "gpu") # NoSample
        PROVE  \E d \in Range(o) :
                  /\ label(Received[o][k], "gpu") = <<ToString(d.index)>>
                  /\ d.name # Unread => label(Received[o][k], "name") = d.name
                  /\ d.uuid # Unread => label(Received[o][k], "uuid") = d.uuid
    BY <1>2, <1>4, <2>3, <2>5, NamesAre
  <2> QED
    BY <1>4, <2>4, <2>5, Zenon DEF o
<1> QED
  BY <1>3, <1>4

\* Nothing was probed before the first scrape.
LEMMA InitOutcomes == Init => OutcomesOK
BY DEF Init, Idle, OutcomesOK, At

\* A step of one scrape, and what it leaves of its outcome.
LEMMA OneOutcome ==
    ASSUME OutcomesOK, NEW t \in Scrapes, DOMAIN scrape = Scrapes,
           \A u \in Scrapes \ {t} : scrape'[u] = scrape[u],
           scrape'[t].at \in {"idle", "waiting", "opening", "resolving", "counting"} =>
              scrape'[t].outcome = <<>>,
           scrape'[t].at = "probing" =>
              scrape'[t].next \in 0..Count /\ scrape'[t].outcome \in Found[scrape'[t].next],
           scrape'[t].at \in {"answered", "stored"} => scrape'[t].outcome \in Outcomes,
           scrape'[t].at = "stored" =>
              scrape'[t].rows = collect_agent(Received[scrape'[t].outcome])
    PROVE  OutcomesOK'
<1> SUFFICES ASSUME NEW u \in Scrapes
             PROVE  (/\ scrape[u].at \in {"idle", "waiting", "opening", "resolving", "counting"} =>
                           scrape[u].outcome = <<>>
                     /\ At(u, "probing") =>
                           scrape[u].next \in 0..Count /\ scrape[u].outcome \in Found[scrape[u].next]
                     /\ scrape[u].at \in {"answered", "stored"} => scrape[u].outcome \in Outcomes
                     /\ At(u, "stored") => scrape[u].rows = collect_agent(Received[scrape[u].outcome]))'
  BY DEF OutcomesOK
<1>1. CASE u = t
  BY <1>1 DEF At
<1>2. CASE u # t
  <2>1. scrape'[u] = scrape[u]
    BY <1>2
  <2> QED
    BY <2>1 DEF OutcomesOK, At
<1> QED
  BY <1>1, <1>2

\* Each step of a scrape.
LEMMA StepOutcomes ==
    ASSUME IInv, OutcomesOK, NEW t \in Scrapes, Begin(t) \/ Leave(t) \/ Proceed(t)
    PROVE  OutcomesOK'
<1>1. /\ DOMAIN scrape = Scrapes
      /\ DOMAIN scrape[t] = {"at", "next", "heard", "outcome", "rows"}
  BY DEF IInv, ShapeOK
<1>2. /\ scrape[t].at \in {"idle", "waiting", "opening", "resolving", "counting"} =>
            scrape[t].outcome = <<>>
      /\ scrape[t].at = "probing" =>
            scrape[t].next \in 0..Count /\ scrape[t].outcome \in Found[scrape[t].next]
      /\ scrape[t].at \in {"answered", "stored"} => scrape[t].outcome \in Outcomes
      /\ scrape[t].at = "stored" => scrape[t].rows = collect_agent(Received[scrape[t].outcome])
  BY DEF OutcomesOK, At
<1>3. Found[Count] \subseteq Outcomes /\ Down \in Outcomes
  BY DEF Outcomes
<1>4. \A u \in Scrapes \ {t} : scrape'[u] = scrape[u]
  BY <1>1 DEF Begin, Leave, Proceed, Acquire, Open, Resolve, CountDevices, ProbeDevice, EndProbes,
              Respond, Forget, Start, Finish, Go
<1>5. CASE Begin(t)
  <2>1. scrape'[t].at = "waiting" /\ scrape'[t].outcome = <<>>
    BY <1>1, <1>5 DEF Begin, Idle
  <2> QED
    BY <1>1, <1>4, <2>1, OneOutcome
<1>6. CASE Leave(t)
  <2>1. /\ scrape'[t].at = scrape[t].at /\ scrape'[t].outcome = scrape[t].outcome
        /\ scrape'[t].next = scrape[t].next /\ scrape'[t].rows = scrape[t].rows
    BY <1>1, <1>6 DEF Leave
  <2> QED
    BY <1>1, <1>2, <1>4, <2>1, OneOutcome
<1>7. CASE Acquire(t)
  <2>1. scrape'[t].at \in {"opening", "counting"} /\ scrape'[t].outcome = <<>>
    BY <1>1, <1>2, <1>7 DEF Acquire, At, Go
  <2> QED
    BY <1>1, <1>4, <2>1, OneOutcome
<1>8. CASE Open(t)
  <2>1. \/ scrape'[t].at \in {"opening", "resolving"} /\ scrape'[t].outcome = <<>>
        \/ scrape'[t].at = "answered" /\ scrape'[t].outcome = Down
    BY <1>1, <1>2, <1>8 DEF Open, At, Go, Finish
  <2> QED
    BY <1>1, <1>3, <1>4, <2>1, OneOutcome
<1>9. CASE Resolve(t)
  <2>1. scrape'[t].at \in {"opening", "counting"} /\ scrape'[t].outcome = <<>>
    BY <1>1, <1>2, <1>9 DEF Resolve, At, Go
  <2> QED
    BY <1>1, <1>4, <2>1, OneOutcome
<1>10. CASE CountDevices(t)
  <2>1. \/ scrape'[t].at = "probing" /\ scrape'[t].next = 0 /\ scrape'[t].outcome = <<>>
        \/ scrape'[t].at = "answered" /\ scrape'[t].outcome = Down
    BY <1>1, <1>2, <1>10 DEF CountDevices, At, Start, Finish
  <2>2. 0 \in 0..Count /\ <<>> \in Found[0]
    BY Gx10Assumption, FoundIs
  <2> QED
    BY <1>1, <1>3, <1>4, <2>1, <2>2, OneOutcome
<1>11. CASE ProbeDevice(t)
  <2> DEFINE n == scrape[t].next
             o == scrape[t].outcome
  <2>1. n \in 0..Count /\ n < Count /\ o \in Found[n]
    BY <1>2, <1>11 DEF ProbeDevice, At
  <2>2. n \in 0..(Count - 1)
    BY <2>1, Gx10Assumption
  <2>3. /\ n + 1 \in 0..Count /\ o \in Found[n + 1]
        /\ \A answer \in Answers : Append(o, Device(n, answer)) \in Found[n + 1]
    <3> HIDE DEF n, o
    <3> QED
      BY <2>1, <2>2, FoundMore
  <2>4. /\ scrape'[t].at = "probing" /\ scrape'[t].next = n + 1
        /\ \/ scrape'[t].outcome = o
           \/ \E answer \in Answers : scrape'[t].outcome = Append(o, Device(n, answer))
    BY <1>1, <1>11 DEF ProbeDevice, At
  <2>5. scrape'[t].outcome \in Found[scrape'[t].next] /\ scrape'[t].next \in 0..Count
    <3> HIDE DEF n, o
    <3> QED
      BY <2>3, <2>4
  <2> QED
    BY <1>1, <1>4, <2>4, <2>5, OneOutcome
<1>12. CASE EndProbes(t)
  <2>1. scrape'[t].at = "answered" /\ scrape'[t].outcome \in Found[Count]
    BY <1>1, <1>2, <1>12 DEF EndProbes, At, Finish
  <2> QED
    BY <1>1, <1>3, <1>4, <2>1, OneOutcome
<1>13. CASE Respond(t)
  <2>1. \/ scrape'[t] = Idle
        \/ /\ scrape'[t].at = "stored" /\ scrape'[t].outcome = scrape[t].outcome
           /\ scrape'[t].rows = collect_agent(Received[scrape[t].outcome])
    BY <1>1, <1>13 DEF Respond
  <2>2. Idle.at = "idle" /\ Idle.outcome = <<>>
    BY DEF Idle
  <2>3. scrape[t].outcome \in Outcomes
    BY <1>2, <1>13 DEF Respond, At
  <2> QED
    BY <1>1, <1>4, <2>1, <2>2, <2>3, OneOutcome
<1>14. CASE Forget(t)
  <2>1. scrape'[t].at = "idle" /\ scrape'[t].outcome = <<>>
    BY <1>1, <1>14 DEF Forget, Idle
  <2> QED
    BY <1>1, <1>4, <2>1, OneOutcome
<1> QED
  BY <1>5, <1>6, <1>7, <1>8, <1>9, <1>10, <1>11, <1>12, <1>13, <1>14 DEF Proceed

\* What is stored for a scrape is what the driver answered in it, whatever the
\* strings of the driver and the numbers of its probes.
THEOREM ScrapesAreStoredAsProbed == Spec => []StoredAsProbed
<1>1. IInv /\ OutcomesOK /\ [Next]_vars => OutcomesOK'
  <2> SUFFICES ASSUME IInv, OutcomesOK, [Next]_vars PROVE OutcomesOK'
    OBVIOUS
  <2>1. CASE DriverChanges
    BY <2>1 DEF DriverChanges, OutcomesOK, At
  <2>2. ASSUME NEW t \in Scrapes, Begin(t) \/ Leave(t) \/ Proceed(t) PROVE OutcomesOK'
    BY <2>2, StepOutcomes
  <2>3. CASE UNCHANGED vars
    BY <2>3 DEF vars, OutcomesOK, At
  <2> QED
    BY <2>1, <2>2, <2>3 DEF Next
<1> QED
  BY InitOutcomes, HandlesAreCounted, StoredIsProbed, <1>1, PTL DEF Spec
=============================================================================
