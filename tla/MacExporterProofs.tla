-------------------------- MODULE MacExporterProofs --------------------------
(***************************************************************************)
(* Proofs about MacExporter, for any number of scrapers and generations    *)
(* and any thresholds that meet TimeAssumption.                            *)
(*                                                                         *)
(* A scrape that samples is first in line, so there is one, and while it   *)
(* samples nobody else takes a frame: what it read when it began is still  *)
(* so.  A frame that was handed out is not newer than the last one served, *)
(* and it was completed before; so a scrape is given a frame that was      *)
(* handed out before only from the cache, and only while it is fresh.      *)
(***************************************************************************)
EXTENDS MacExporter, SequenceTheorems, TLAPS

-----------------------------------------------------------------------------
(* The line *)

\* What is left of a sequence without one of its places.
LEMMA Without ==
    ASSUME NEW s \in Seq(Client), NEW i \in 1..Len(s)
    PROVE  /\ RemoveAt(s, i) \in Seq(Client)
           /\ Len(RemoveAt(s, i)) = Len(s) - 1
           /\ \A j \in 1..(Len(s) - 1) :
                 RemoveAt(s, i)[j] = IF j < i THEN s[j] ELSE s[j + 1]
<1> DEFINE a == SubSeq(s, 1, i - 1)
           b == SubSeq(s, i + 1, Len(s))
<1>1. Len(s) \in Nat /\ i \in Nat /\ 1 <= i /\ i <= Len(s)
  BY LenProperties
<1>2. \A j \in 1..Len(s) : s[j] \in Client
  BY ElementOfSeq
<1>3. /\ a \in Seq(Client) /\ Len(a) = i - 1
      /\ \A j \in 1..(i - 1) : a[j] = s[j]
  BY <1>1, <1>2, SubSeqProperties
<1>4. /\ b \in Seq(Client) /\ Len(b) = Len(s) - i
      /\ \A j \in 1..(Len(s) - i) : b[j] = s[i + j]
  <2>1. \A j \in (i + 1)..Len(s) : s[j] \in Client
    BY <1>1, <1>2
  <2>2. /\ b \in Seq(Client)
        /\ Len(b) = (IF i + 1 <= Len(s) THEN Len(s) - (i + 1) + 1 ELSE 0)
        /\ \A j \in 1..(Len(s) - (i + 1) + 1) : b[j] = s[(i + 1) + j - 1]
    BY <1>1, <2>1, SubSeqProperties
  <2> HIDE DEF b
  <2> QED
    BY <1>1, <2>2
<1> HIDE DEF a, b
<1>5. /\ a \o b \in Seq(Client) /\ Len(a \o b) = Len(a) + Len(b)
      /\ \A j \in 1..(Len(a) + Len(b)) : (a \o b)[j] = IF j <= Len(a) THEN a[j] ELSE b[j - Len(a)]
  BY <1>3, <1>4, ConcatProperties
<1>6. \A j \in 1..(Len(s) - 1) : (a \o b)[j] = IF j < i THEN s[j] ELSE s[j + 1]
  <2> SUFFICES ASSUME NEW j \in 1..(Len(s) - 1)
               PROVE  (a \o b)[j] = IF j < i THEN s[j] ELSE s[j + 1]
    OBVIOUS
  <2>1. CASE j < i
    BY <1>1, <1>3, <1>4, <1>5, <2>1
  <2>2. CASE ~(j < i)
    <3>1. (a \o b)[j] = b[j - (i - 1)]
      BY <1>1, <1>3, <1>4, <1>5, <2>2
    <3>2. b[j - (i - 1)] = s[i + (j - (i - 1))] /\ i + (j - (i - 1)) = j + 1
      BY <1>1, <1>4, <2>2
    <3> QED
      BY <2>2, <3>1, <3>2
  <2> QED
    BY <2>1, <2>2, Zenon
<1>7. RemoveAt(s, i) = a \o b
  BY DEF RemoveAt, a, b
<1>8. a \o b \in Seq(Client) /\ Len(a \o b) = Len(s) - 1
  BY <1>1, <1>3, <1>4, <1>5
<1> HIDE DEF RemoveAt
<1> QED
  BY <1>6, <1>7, <1>8

\* The line as the lemmas below need it.
LEMMA LineTyped ==
    ASSUME InLineOnce
    PROVE  /\ Len(line) \in Nat /\ DOMAIN line = 1..Len(line)
           /\ \A i \in DOMAIN line : line[i] \in Client
           /\ line # <<>> <=> Len(line) > 0
           /\ line # <<>> => Head(line) = line[1]
BY LenProperties, ElementOfSeq, EmptySeq DEF InLineOnce

\* Who comes goes to the end of the line.
LEMMA Joins ==
    ASSUME InLineOnce, NEW c \in Client, pc \in [Client -> {"idle", "queued", "sampling"}],
           pc[c] = "idle", line' = Append(line, c), pc' = [pc EXCEPT ![c] = "queued"]
    PROVE  InLineOnce' /\ \A d \in Client : HasLock(d) => HasLock(d)'
<1>1. /\ line' \in Seq(Client) /\ Len(line') = Len(line) + 1 /\ line' # <<>>
      /\ \A i \in 1..Len(line) : line'[i] = line[i]
      /\ line'[Len(line) + 1] = c
  BY AppendProperties DEF InLineOnce
<1>2. DOMAIN line' = 1..(Len(line) + 1) /\ Len(line) \in Nat /\ DOMAIN line = 1..Len(line)
  BY <1>1, LineTyped, LenProperties
<1>3. \A i \in 1..Len(line) : line[i] # c
  BY <1>2 DEF InLineOnce
<1>4. \A i, j \in DOMAIN line' : line'[i] = line'[j] => i = j
  BY <1>1, <1>2, <1>3 DEF InLineOnce
<1>5. \A d \in Client : pc'[d] = "idle" <=> \A i \in DOMAIN line' : line'[i] # d
  <2> SUFFICES ASSUME NEW d \in Client
               PROVE  pc'[d] = "idle" <=> \A i \in DOMAIN line' : line'[i] # d
    OBVIOUS
  <2>1. CASE d = c
    <3>1. pc'[c] = "queued" /\ Len(line) + 1 \in DOMAIN line'
      BY <1>2
    <3> QED
      BY <1>1, <2>1, <3>1
  <2>2. CASE d # c
    <3>1. pc'[d] = pc[d]
      BY <2>2
    <3>2. (\A i \in DOMAIN line' : line'[i] # d) <=> \A i \in DOMAIN line : line[i] # d
      BY <1>1, <1>2, <2>2
    <3> QED
      BY <3>1, <3>2 DEF InLineOnce
  <2> QED
    BY <2>1, <2>2
<1>6. \A d \in Client : HasLock(d) => HasLock(d)'
  <2>1. line # <<>> => Head(line') = line'[1] /\ line'[1] = line[1] /\ Head(line) = line[1]
    BY <1>1, <1>2, LineTyped, HeadTailProperties DEF InLineOnce
  <2> QED
    BY <1>1, <2>1 DEF HasLock
<1> QED
  BY <1>1, <1>4, <1>5, <1>6 DEF InLineOnce

\* Who goes leaves its place, and the others keep theirs in order.
LEMMA Leaves ==
    ASSUME InLineOnce, NEW c \in Client, pc \in [Client -> {"idle", "queued", "sampling"}],
           Release(c)
    PROVE  /\ InLineOnce' /\ pc' \in [Client -> {"idle", "queued", "sampling"}]
           /\ pc'[c] = "idle" /\ \A d \in Client \ {c} : pc'[d] = pc[d]
           /\ \A d \in Client \ {c} : HasLock(d) => HasLock(d)'
<1>1. PICK k \in DOMAIN line : line[k] = c /\ line' = RemoveAt(line, k)
  BY DEF Release
<1>2. /\ pc' \in [Client -> {"idle", "queued", "sampling"}]
      /\ pc'[c] = "idle" /\ \A d \in Client \ {c} : pc'[d] = pc[d]
  BY DEF Release
<1>3. Len(line) \in Nat /\ DOMAIN line = 1..Len(line) /\ k \in 1..Len(line)
  BY <1>1, LineTyped
<1>4. /\ line' \in Seq(Client) /\ Len(line') = Len(line) - 1
      /\ \A j \in 1..(Len(line) - 1) : line'[j] = IF j < k THEN line[j] ELSE line[j + 1]
  <2>1. line \in Seq(Client)
    BY DEF InLineOnce
  <2>2. /\ RemoveAt(line, k) \in Seq(Client)
        /\ Len(RemoveAt(line, k)) = Len(line) - 1
        /\ \A j \in 1..(Len(line) - 1) :
              RemoveAt(line, k)[j] = IF j < k THEN line[j] ELSE line[j + 1]
    BY <1>3, <2>1, Without, Zenon
  <2> QED
    BY <1>1, <2>2
<1>5. DOMAIN line' = 1..(Len(line) - 1)
  BY <1>3, <1>4, LenProperties
<1>6. \A i, j \in DOMAIN line' : line'[i] = line'[j] => i = j
  <2> SUFFICES ASSUME NEW i \in DOMAIN line', NEW j \in DOMAIN line', line'[i] = line'[j]
               PROVE  i = j
    OBVIOUS
  <2> DEFINE p == IF i < k THEN i ELSE i + 1
             q == IF j < k THEN j ELSE j + 1
  <2>1. p \in DOMAIN line /\ q \in DOMAIN line /\ line'[i] = line[p] /\ line'[j] = line[q]
    BY <1>3, <1>4, <1>5
  <2>2. p = q
    BY <2>1 DEF InLineOnce
  <2> QED
    BY <1>3, <1>5, <2>2
<1>7. \A d \in Client : pc'[d] = "idle" <=> \A i \in DOMAIN line' : line'[i] # d
  <2> SUFFICES ASSUME NEW d \in Client
               PROVE  pc'[d] = "idle" <=> \A i \in DOMAIN line' : line'[i] # d
    OBVIOUS
  <2>1. CASE d = c
    <3>1. \A i \in DOMAIN line : i # k => line[i] # c
      BY <1>1 DEF InLineOnce
    <3>2. \A i \in DOMAIN line' : line'[i] # c
      <4> SUFFICES ASSUME NEW i \in DOMAIN line' PROVE line'[i] # c
        OBVIOUS
      <4> DEFINE p == IF i < k THEN i ELSE i + 1
      <4>1. p \in DOMAIN line /\ p # k
        BY <1>3, <1>5
      <4>2. line'[i] = line[p]
        BY <1>4, <1>5
      <4> QED
        BY <3>1, <4>1, <4>2
    <3> QED
      BY <1>2, <2>1, <3>2
  <2>2. CASE d # c
    <3>1. ASSUME NEW i \in DOMAIN line, line[i] = d PROVE \E j \in DOMAIN line' : line'[j] = d
      <4>1. i # k
        BY <1>1, <2>2, <3>1
      <4>2. CASE i < k
        <5>1. i \in DOMAIN line' /\ line'[i] = line[i]
          BY <1>3, <1>4, <1>5, <4>2
        <5> QED
          BY <3>1, <5>1
      <4>3. CASE i > k
        <5>1. i - 1 \in DOMAIN line' /\ line'[i - 1] = line[i]
          BY <1>3, <1>4, <1>5, <4>3
        <5> QED
          BY <3>1, <5>1
      <4> QED
        BY <1>3, <4>1, <4>2, <4>3
    <3>2. ASSUME NEW j \in DOMAIN line', line'[j] = d PROVE \E i \in DOMAIN line : line[i] = d
      <4>1. (IF j < k THEN j ELSE j + 1) \in DOMAIN line
        BY <1>3, <1>5
      <4>2. line'[j] = line[IF j < k THEN j ELSE j + 1]
        BY <1>4, <1>5
      <4> QED
        BY <3>2, <4>1, <4>2
    <3> QED
      BY <1>2, <2>2, <3>1, <3>2 DEF InLineOnce
  <2> QED
    BY <2>1, <2>2
<1>8. \A d \in Client \ {c} : HasLock(d) => HasLock(d)'
  <2> SUFFICES ASSUME NEW d \in Client \ {c}, HasLock(d) PROVE HasLock(d)'
    OBVIOUS
  <2>1. Len(line) > 0 /\ line[1] = d
    BY LineTyped DEF HasLock
  <2>2. k > 1
    BY <1>1, <1>3, <2>1
  <2>3. Len(line') > 0 /\ line'[1] = d
    BY <1>3, <1>4, <2>1, <2>2
  <2>4. line' # <<>> /\ Head(line') = line'[1]
    BY <1>4, <2>3, EmptySeq, HeadTailProperties
  <2> QED
    BY <2>3, <2>4 DEF HasLock
<1> QED
  BY <1>2, <1>4, <1>6, <1>7, <1>8 DEF InLineOnce

-----------------------------------------------------------------------------
(* The invariant *)

\* A frame that was handed out is not newer than the last one served, and was
\* handed out after it was completed; what can be served was completed.
Handing ==
    /\ \A g \in Generation : handed[g] # NotYet => g <= served /\ handed[g] <= completed[g]
    /\ cached # NoReading => completed[cached] # NotYet
    /\ published.outcome = "frame" => /\ published.generation \in Generation
                                     /\ completed[published.generation] # NotYet

\* While a scrape samples, nobody else serves a new frame or refreshes the cache.
Holding ==
    \A c \in Client : pc[c] = "sampling" => lastServed = served /\ ~Fresh

\* The inductive invariant.
IInv == TypeOK /\ Handing /\ Holding /\ ScrapesApartRemeasure

\* Times go on, and stay times.
LEMMA LaterIsLater ==
    /\ \A t \in Time : Later(t) \in Time /\ Later(t) >= t
    /\ Later(NotYet) = NotYet
    /\ \A t, u \in Time : t <= u => Later(t) <= Later(u)
    /\ \A t \in Time : t > MaxAge => Later(t) > MaxAge
BY TimeAssumption DEF Later, Time, NotYet

\* Numbers of the state, as the lemmas below need them.
LEMMA Numbers ==
    ASSUME TypeOK
    PROVE  /\ \A g \in Generation :
                 g \in Nat /\ completed[g] \in Int /\ handed[g] \in Int
           /\ published.generation \in Nat /\ served \in Nat /\ served <= published.generation
           /\ lastServed \in Nat /\ waited \in Time /\ waited \in Nat
           /\ cached # NoReading => cached \in Generation /\ cached = served
BY GenerationAssumption DEF TypeOK, Generation, Time, NotYet, NoReading

\* What an answer says of a frame.
LEMMA Answered ==
    ASSUME TypeOK, NEW g \in Generation, completed[g] # NotYet, NEW wait \in Time
    PROVE  /\ Reading(g, wait) \in [reading: Generation \union {NoReading}, age: Time, apart: Time]
           /\ Reading(g, wait).apart = IF handed[g] = NotYet THEN 0 ELSE handed[g]
<1>1. completed[g] \in Time /\ (handed[g] # NotYet => handed[g] \in Time)
  BY DEF TypeOK
<1>2. (IF completed[g] > wait THEN completed[g] - wait ELSE 0) \in Time /\ 0 \in Time
  <2>1. \A t, w \in Time : (IF t > w THEN t - w ELSE 0) \in Time /\ 0 \in Time
    BY TimeAssumption DEF Time
  <2> HIDE DEF Time
  <2> QED
    BY <1>1, <2>1
<1> QED
  BY <1>1, <1>2 DEF Reading

\* Down says nothing of any frame.
LEMMA DownIsNothing ==
    Down \in [reading: Generation \union {NoReading}, age: Time, apart: Time] /\ Down.apart = 0
BY TimeAssumption DEF Down, Time

\* Nothing has been completed or handed out at first.
LEMMA InitInv == Init => IInv
<1> SUFFICES ASSUME Init PROVE IInv
  OBVIOUS
<1> USE TimeAssumption, GenerationAssumption
<1>1. InLineOnce
  <2>1. line = <<>> /\ line \in Seq(Client) /\ \A c \in Client : pc[c] = "idle"
    BY EmptySeq DEF Init
  <2> QED
    BY <2>1 DEF InLineOnce
<1>2. TypeOK
  <2>1. /\ process \in {"off", "running", "pausing"} /\ assembling \in BOOLEAN
        /\ pc \in [Client -> {"idle", "queued", "sampling"}]
        /\ \A c \in Client : pc[c] # "sampling"
    BY DEF Init
  <2>2. /\ silent \in Time /\ waited \in Time
        /\ completed \in [Generation -> Time \union {NotYet}]
        /\ handed \in [Generation -> Time \union {NotYet}]
        /\ served \in 0..published.generation /\ lastServed \in 0..served
        /\ cached \in {NoReading, served}
    BY DEF Init, Time
  <2>3. published \in [generation: Generation \union {0}, outcome: {"none", "frame", "error"}]
    BY DEF Init
  <2> QED
    BY <1>1, <2>1, <2>2, <2>3, DownIsNothing DEF TypeOK, Init
<1>3. Handing
  BY DEF Init, Handing
<1>4. Holding
  BY DEF Init, Holding
<1>5. ScrapesApartRemeasure
  BY DownIsNothing DEF Init, ScrapesApartRemeasure
<1> QED
  BY <1>2, <1>3, <1>4, <1>5 DEF IInv

\* Everything ages alike.
LEMMA TickInv == ASSUME IInv, Tick PROVE IInv'
<1> USE TimeAssumption
<1>1. /\ UNCHANGED <<process, assembling, published, served, cached, line, pc, lastServed, answer>>
      /\ completed' = [g \in Generation |-> Later(completed[g])]
      /\ handed' = [g \in Generation |-> Later(handed[g])]
      /\ silent' = Later(silent)
      /\ waited' = IF \E c \in Client : pc[c] = "sampling" THEN Later(waited) ELSE 0
  BY DEF Tick
<1>2. /\ completed' \in [Generation -> Time \union {NotYet}]
      /\ handed' \in [Generation -> Time \union {NotYet}]
  <2>1. \A t \in Time \union {NotYet} : Later(t) \in Time \union {NotYet}
    BY LaterIsLater
  <2> QED
    BY <1>1, <2>1 DEF IInv, TypeOK
<1>3. silent' \in Time /\ waited' \in Time
  <2>1. 0 \in Time
    BY DEF Time
  <2> QED
    BY <1>1, <2>1, LaterIsLater DEF IInv, TypeOK
<1>4. InLineOnce' /\ \A c \in Client : HasLock(c)' = HasLock(c)
  BY <1>1 DEF IInv, TypeOK, InLineOnce, HasLock
<1>5. TypeOK'
  BY <1>1, <1>2, <1>3, <1>4 DEF IInv, TypeOK
<1>6. \A g \in Generation :
         /\ completed'[g] = NotYet <=> completed[g] = NotYet
         /\ handed'[g] = NotYet <=> handed[g] = NotYet
         /\ handed[g] # NotYet /\ handed[g] <= completed[g] => handed'[g] <= completed'[g]
         /\ completed[g] # NotYet /\ completed[g] > MaxAge => completed'[g] > MaxAge
  <2> SUFFICES ASSUME NEW g \in Generation
               PROVE  /\ completed'[g] = NotYet <=> completed[g] = NotYet
                      /\ handed'[g] = NotYet <=> handed[g] = NotYet
                      /\ handed[g] # NotYet /\ handed[g] <= completed[g] => handed'[g] <= completed'[g]
                      /\ completed[g] # NotYet /\ completed[g] > MaxAge => completed'[g] > MaxAge
    OBVIOUS
  <2>1. completed'[g] = Later(completed[g]) /\ handed'[g] = Later(handed[g])
    BY <1>1
  <2>2. NotYet \notin Time /\ \A t \in Time : t > NotYet
    BY DEF Time, NotYet
  <2>3. /\ completed[g] # NotYet => completed[g] \in Time
        /\ handed[g] # NotYet => handed[g] \in Time
    BY DEF IInv, TypeOK
  <2>4. handed[g] # NotYet /\ handed[g] <= completed[g] => completed[g] # NotYet
    BY <2>2, <2>3 DEF Time, NotYet
  <2> QED
    BY <2>1, <2>2, <2>3, <2>4, LaterIsLater
<1>7. Handing'
  <2>1. cached # NoReading => cached \in Generation
    BY Numbers DEF IInv
  <2> QED
    BY <1>1, <1>6, <2>1 DEF IInv, Handing
<1>8. Fresh' => Fresh
  <2>1. cached # NoReading => cached \in Generation /\ completed[cached] # NotYet
    BY Numbers DEF IInv, Handing
  <2>2. cached # NoReading => completed[cached] \in Int /\ completed'[cached] \in Int
    <3>1. \A g \in Generation : completed'[g] \in Int
      BY <1>2 DEF Time, NotYet
    <3>2. \A g \in Generation : completed[g] \in Int
      BY DEF IInv, TypeOK, Time, NotYet
    <3> QED
      BY <2>1, <3>1, <3>2
  <2> QED
    BY <1>1, <1>6, <2>1, <2>2 DEF Fresh
<1>9. Holding'
  BY <1>1, <1>8 DEF IInv, Holding
<1> QED
  BY <1>1, <1>5, <1>7, <1>9 DEF IInv, ScrapesApartRemeasure

\* A frame or a failure is published under the next generation; nothing that
\* was served before becomes younger.
LEMMA SupervisorInv == ASSUME IInv, Supervisor PROVE IInv'
<1> USE TimeAssumption, GenerationAssumption
<1> DEFINE next == published.generation + 1
<1>1. UNCHANGED <<served, cached, line, pc, waited, lastServed, handed, answer>>
  BY DEF Supervisor, Header, OtherLine, RunEnds, Stall, RunAgain
<1>2. /\ process' \in {"off", "running", "pausing"} /\ silent' \in Time
      /\ assembling' \in BOOLEAN
  <2>1. 0 \in Time
    BY DEF Time
  <2>2. process' \in {"off", "running", "pausing"} /\ silent' \in Time
    BY <2>1 DEF Supervisor, Header, OtherLine, RunEnds, Stall, RunAgain, IInv, TypeOK
  <2>3. assembling' \in {TRUE, FALSE, assembling}
    BY DEF Supervisor, Header, OtherLine, RunEnds, Stall, RunAgain
  <2> QED
    BY <2>2, <2>3 DEF IInv, TypeOK
<1>3. \/ UNCHANGED <<published, completed>>
      \/ /\ published.generation < MaxGeneration
         /\ published' = [generation |-> next, outcome |-> "error"] /\ completed' = completed
      \/ /\ published.generation < MaxGeneration
         /\ published' = [generation |-> next, outcome |-> "frame"]
         /\ completed' = [completed EXCEPT ![next] = 0]
  BY DEF Supervisor, Header, OtherLine, RunEnds, Stall, RunAgain, Publish
<1>4. /\ published' \in [generation: Generation \union {0}, outcome: {"none", "frame", "error"}]
      /\ published.generation <= published'.generation
  <2>1. CASE published.generation < MaxGeneration
    <3>1. next \in Generation /\ published.generation <= next
      BY <2>1, Numbers DEF IInv, Generation
    <3> HIDE DEF next
    <3> QED
      BY <1>3, <3>1, Numbers DEF IInv, TypeOK
  <2>2. CASE ~(published.generation < MaxGeneration)
    BY <1>3, <2>2, Numbers DEF IInv, TypeOK
  <2> QED
    BY <2>1, <2>2
<1>5. /\ completed' \in [Generation -> Time \union {NotYet}]
      /\ \A g \in Generation : g <= published.generation => completed'[g] = completed[g]
      /\ \A g \in Generation : completed'[g] = completed[g] \/ (g = next /\ completed'[g] = 0)
  <2>1. 0 \in Time
    BY DEF Time
  <2>2. \A g \in Generation : g <= published.generation => g # next
    BY Numbers DEF IInv
  <2> HIDE DEF next
  <2> QED
    BY <1>3, <2>1, <2>2 DEF IInv, TypeOK
<1>6. served \in 0..published'.generation
  BY <1>4, Numbers DEF IInv, TypeOK
<1>7. InLineOnce' /\ \A c \in Client : HasLock(c)' = HasLock(c)
  BY <1>1 DEF IInv, TypeOK, InLineOnce, HasLock
<1>8. TypeOK'
  BY <1>1, <1>2, <1>4, <1>5, <1>6, <1>7 DEF IInv, TypeOK
<1>9. \A g \in Generation : g <= served => completed'[g] = completed[g]
  BY <1>5, Numbers DEF IInv
<1>10. cached # NoReading => cached \in Generation /\ completed'[cached] = completed[cached]
  BY <1>9, Numbers DEF IInv
<1>11. published'.outcome = "frame" => /\ published'.generation \in Generation
                                      /\ completed'[published'.generation] # NotYet
  <2>1. CASE UNCHANGED <<published, completed>>
    BY <2>1 DEF IInv, Handing
  <2>2. CASE /\ published.generation < MaxGeneration
             /\ published' = [generation |-> next, outcome |-> "frame"]
             /\ completed' = [completed EXCEPT ![next] = 0]
    <3>1. next \in Generation
      BY <2>2, Numbers DEF IInv, Generation
    <3> HIDE DEF next
    <3>2. published'.generation = next /\ completed'[next] = 0
      BY <2>2, <3>1 DEF IInv, TypeOK
    <3> QED
      BY <3>1, <3>2 DEF NotYet
  <2> QED
    BY <1>3, <2>1, <2>2
<1>12. Handing'
  BY <1>1, <1>9, <1>10, <1>11 DEF IInv, Handing
<1>13. Holding'
  BY <1>1, <1>10 DEF IInv, Holding, Fresh
<1> QED
  BY <1>1, <1>8, <1>12, <1>13 DEF IInv, ScrapesApartRemeasure

-----------------------------------------------------------------------------
(* Scrapes *)

\* The lock is held once.
LEMMA OneSamples ==
    ASSUME IInv, NEW c \in Client, HasLock(c), NEW d \in Client, pc[d] = "sampling"
    PROVE  d = c
BY DEF IInv, TypeOK, HasLock

\* Once a scrape has left the line, those that sample are others, as before.
LEMMA Left ==
    ASSUME IInv, NEW c \in Client, Release(c)
    PROVE  /\ InLineOnce' /\ pc' \in [Client -> {"idle", "queued", "sampling"}]
           /\ \A d \in Client : pc'[d] = "sampling" => d # c /\ pc[d] = "sampling" /\ HasLock(d)'
<1>1. InLineOnce /\ pc \in [Client -> {"idle", "queued", "sampling"}]
  BY DEF IInv, TypeOK
<1>2. /\ InLineOnce' /\ pc' \in [Client -> {"idle", "queued", "sampling"}]
      /\ pc'[c] = "idle" /\ \A d \in Client \ {c} : pc'[d] = pc[d]
      /\ \A d \in Client \ {c} : HasLock(d) => HasLock(d)'
  BY <1>1, Leaves
<1> QED
  BY <1>2 DEF IInv, TypeOK

\* What handing out a frame does to the log of those that were.
LEMMA Served ==
    ASSUME IInv, NEW g \in Generation, completed[g] # NotYet, NEW wait \in Time,
           Serve(g, wait)
    PROVE  /\ handed' \in [Generation -> Time \union {NotYet}]
           /\ answer' \in [reading: Generation \union {NoReading}, age: Time, apart: Time]
           /\ answer'.apart = IF handed[g] = NotYet THEN 0 ELSE handed[g]
           /\ \A h \in Generation : handed'[h] # NotYet =>
                 (h <= served \/ h = g) /\ handed'[h] <= completed[h]
<1>1. /\ answer' = Reading(g, wait)
      /\ handed' = [handed EXCEPT ![g] = IF handed[g] = NotYet THEN 0 ELSE handed[g]]
      /\ handed \in [Generation -> Time \union {NotYet}]
  BY DEF Serve, IInv, TypeOK
<1>2. 0 \in Time /\ \A t \in Time : 0 <= t
  BY TimeAssumption DEF Time
<1>3. handed' \in [Generation -> Time \union {NotYet}]
  BY <1>1, <1>2
<1>4. completed[g] \in Time
  BY DEF IInv, TypeOK
<1>5. \A h \in Generation : handed'[h] # NotYet =>
         (h <= served \/ h = g) /\ handed'[h] <= completed[h]
  BY <1>1, <1>2, <1>4 DEF IInv, Handing
<1> QED
  BY <1>1, <1>3, <1>5, Answered DEF IInv

\* A fresh reading is one that was completed and is not past its age.
LEMMA FreshReading ==
    ASSUME IInv, Fresh
    PROVE  /\ cached \in Generation /\ completed[cached] # NotYet
           /\ (IF handed[cached] = NotYet THEN 0 ELSE handed[cached]) <= MaxAge
<1>1. cached \in Generation /\ completed[cached] # NotYet /\ completed[cached] <= MaxAge
  BY Numbers DEF IInv, Handing, Fresh
<1>2. completed[cached] \in Int /\ handed[cached] \in Int
  BY <1>1, Numbers DEF IInv
<1>3. handed[cached] # NotYet => handed[cached] <= completed[cached]
  BY <1>1 DEF IInv, Handing
<1> QED
  BY <1>1, <1>2, <1>3, TimeAssumption

\* A fresh reading is given again.
LEMMA CacheInv ==
    ASSUME IInv, NEW c \in Client, ServeCached(c) \/ ServeRefreshed(c)
    PROVE  IInv'
<1>1. /\ UNCHANGED <<process, silent, assembling, published, completed, served, cached,
                      waited, lastServed>>
      /\ Fresh /\ Serve(cached, 0)
      /\ (line' = line /\ pc' = pc) \/ Release(c)
  BY DEF ServeCached, ServeRefreshed, Refreshed, supervisor
<1>2. 0 \in Time
  BY TimeAssumption DEF Time
<1>3. /\ cached \in Generation /\ completed[cached] # NotYet
      /\ (IF handed[cached] = NotYet THEN 0 ELSE handed[cached]) <= MaxAge
  BY <1>1, FreshReading
<1>4. /\ handed' \in [Generation -> Time \union {NotYet}]
      /\ answer' \in [reading: Generation \union {NoReading}, age: Time, apart: Time]
      /\ answer'.apart = IF handed[cached] = NotYet THEN 0 ELSE handed[cached]
      /\ \A h \in Generation : handed'[h] # NotYet =>
            (h <= served \/ h = cached) /\ handed'[h] <= completed[h]
  BY <1>1, <1>2, <1>3, Served
<1>5. /\ InLineOnce' /\ pc' \in [Client -> {"idle", "queued", "sampling"}]
      /\ \A d \in Client : pc'[d] = "sampling" => pc[d] = "sampling" /\ HasLock(d)'
  <2>1. CASE line' = line /\ pc' = pc
    BY <2>1 DEF IInv, TypeOK, InLineOnce, HasLock
  <2>2. CASE Release(c)
    BY <2>2, Left
  <2> QED
    BY <1>1, <2>1, <2>2
<1>6. TypeOK'
  BY <1>1, <1>4, <1>5 DEF IInv, TypeOK
<1>7. cached <= served
  <2>1. cached = served /\ served \in Nat
    BY <1>1, Numbers DEF IInv, Fresh
  <2> QED
    BY <2>1
<1>8. Handing'
  BY <1>1, <1>4, <1>7 DEF IInv, Handing
<1>9. Holding'
  BY <1>1, <1>5 DEF IInv, Holding, Fresh
<1> QED
  BY <1>3, <1>4, <1>6, <1>8, <1>9 DEF IInv, ScrapesApartRemeasure

\* A scrape that goes without a reading changes nothing for the others.
LEMMA GoneInv ==
    ASSUME IInv, NEW c \in Client, TakeError(c) \/ GiveUp(c) \/ Disconnect(c)
    PROVE  IInv'
<1>1. /\ UNCHANGED <<process, silent, assembling, published, completed, served, cached,
                      waited, lastServed, handed>>
      /\ Release(c) /\ answer' \in {answer, Down}
  BY DEF TakeError, GiveUp, Disconnect, supervisor
<1>2. /\ InLineOnce' /\ pc' \in [Client -> {"idle", "queued", "sampling"}]
      /\ \A d \in Client : pc'[d] = "sampling" => pc[d] = "sampling" /\ HasLock(d)'
  BY <1>1, Left
<1>3. TypeOK'
  BY <1>1, <1>2, DownIsNothing DEF IInv, TypeOK
<1>4. Handing' /\ Holding'
  BY <1>1, <1>2 DEF IInv, Handing, Holding, Fresh
<1>5. ScrapesApartRemeasure'
  <2>1. Down.apart <= MaxAge
    BY DownIsNothing, TimeAssumption
  <2> QED
    BY <1>1, <2>1 DEF IInv, ScrapesApartRemeasure
<1> QED
  BY <1>3, <1>4, <1>5 DEF IInv

\* A scrape that finds nothing fresh goes in line, and changes nothing else.
LEMMA EnqueueInv == ASSUME IInv, NEW c \in Client, Enqueue(c) PROVE IInv'
<1>1. /\ UNCHANGED <<process, silent, assembling, published, completed, served, cached,
                      waited, lastServed, handed, answer>>
      /\ pc[c] = "idle" /\ line' = Append(line, c) /\ pc' = [pc EXCEPT ![c] = "queued"]
  BY DEF Enqueue, supervisor
<1>2. InLineOnce' /\ \A d \in Client : HasLock(d) => HasLock(d)'
  BY <1>1, Joins DEF IInv, TypeOK
<1>3. /\ pc' \in [Client -> {"idle", "queued", "sampling"}]
      /\ \A d \in Client : pc'[d] = "sampling" => pc[d] = "sampling"
  BY <1>1 DEF IInv, TypeOK
<1>4. TypeOK'
  BY <1>1, <1>2, <1>3 DEF IInv, TypeOK
<1>5. Handing' /\ Holding'
  BY <1>1, <1>3 DEF IInv, Handing, Holding, Fresh
<1> QED
  BY <1>1, <1>4, <1>5 DEF IInv, ScrapesApartRemeasure

\* The first in line begins to sample when the cache was not refreshed for it.
LEMMA BeginInv == ASSUME IInv, NEW c \in Client, BeginSample(c) PROVE IInv'
<1>1. /\ UNCHANGED <<assembling, published, completed, served, cached, line, handed, answer>>
      /\ HasLock(c) /\ pc[c] = "queued" /\ ~Fresh
      /\ pc' = [pc EXCEPT ![c] = "sampling"] /\ waited' = 0 /\ lastServed' = served
      /\ (process' = "running" /\ silent' = 0) \/ (process' = process /\ silent' = silent)
  BY DEF BeginSample, Refreshed
<1>2. 0 \in Time
  BY TimeAssumption DEF Time
<1>3. /\ pc' \in [Client -> {"idle", "queued", "sampling"}]
      /\ \A d \in Client : pc'[d] = "idle" <=> pc[d] = "idle"
      /\ \A d \in Client : pc'[d] = "sampling" => d = c \/ pc[d] = "sampling"
  BY <1>1 DEF IInv, TypeOK
<1>4. InLineOnce' /\ \A d \in Client : pc'[d] = "sampling" => HasLock(d)'
  <2>1. InLineOnce'
    BY <1>1, <1>3 DEF IInv, TypeOK, InLineOnce
  <2>2. \A d \in Client : HasLock(d)' = HasLock(d)
    BY <1>1 DEF HasLock
  <2> QED
    BY <1>1, <1>3, <2>1, <2>2 DEF IInv, TypeOK
<1>5. served \in Nat /\ lastServed' \in 0..served'
  BY <1>1, Numbers DEF IInv
<1>6. TypeOK'
  <2>1. process' \in {"off", "running", "pausing"} /\ silent' \in Time /\ waited' \in Time
    BY <1>1, <1>2 DEF IInv, TypeOK
  <2> QED
    BY <1>1, <1>3, <1>4, <1>5, <2>1 DEF IInv, TypeOK
<1>7. Handing' /\ Holding'
  <2>1. Fresh' = Fresh
    BY <1>1 DEF Fresh
  <2> QED
    BY <1>1, <2>1 DEF IInv, Handing, Holding
<1> QED
  BY <1>1, <1>6, <1>7 DEF IInv, ScrapesApartRemeasure

\* A new frame is one that nobody was given: what was handed out is not newer
\* than the last one served, and that is the one this scrape has seen.
LEMMA TakeInv == ASSUME IInv, NEW c \in Client, TakeFrame(c) PROVE IInv'
<1> DEFINE g == published.generation
<1>1. /\ UNCHANGED <<process, silent, assembling, published, completed, waited, lastServed>>
      /\ pc[c] = "sampling" /\ served' = g /\ cached' = g /\ Serve(g, waited) /\ Release(c)
      /\ published.outcome = "frame" /\ g > lastServed
  BY DEF TakeFrame, NewFrame, supervisor
<1>2. g \in Generation /\ completed[g] # NotYet /\ lastServed = served /\ waited \in Time
  BY <1>1, Numbers DEF IInv, Handing, Holding
<1>3. g \in Nat /\ served \in Nat /\ g > served
  BY <1>1, <1>2, Numbers DEF IInv
<1>4. handed[g] = NotYet
  BY <1>2, <1>3 DEF IInv, Handing
<1>5. /\ handed' \in [Generation -> Time \union {NotYet}]
      /\ answer' \in [reading: Generation \union {NoReading}, age: Time, apart: Time]
      /\ answer'.apart = IF handed[g] = NotYet THEN 0 ELSE handed[g]
      /\ \A h \in Generation : handed'[h] # NotYet =>
            (h <= served \/ h = g) /\ handed'[h] <= completed[h]
  BY <1>1, <1>2, Served
<1>6. /\ InLineOnce' /\ pc' \in [Client -> {"idle", "queued", "sampling"}]
      /\ \A d \in Client : pc'[d] # "sampling"
  <2>1. HasLock(c)
    BY <1>1 DEF IInv, TypeOK
  <2> QED
    BY <1>1, <2>1, Left, OneSamples
<1>7. served' \in 0..published'.generation /\ lastServed' \in 0..served'
  BY <1>1, <1>2, <1>3
<1>8. TypeOK'
  BY <1>1, <1>5, <1>6, <1>7 DEF IInv, TypeOK
<1>9. \A h \in Generation : h <= served => h <= g
  BY <1>3, Numbers DEF IInv
<1>10. Handing'
  BY <1>1, <1>2, <1>3, <1>5, <1>9 DEF IInv, Handing
<1>11. Holding'
  BY <1>6 DEF Holding
<1>12. ScrapesApartRemeasure'
  BY <1>4, <1>5, TimeAssumption DEF ScrapesApartRemeasure
<1> QED
  BY <1>8, <1>10, <1>11, <1>12 DEF IInv

\* The invariant is kept by every step.
LEMMA StepInv == IInv /\ [Next]_vars => IInv'
<1> SUFFICES ASSUME IInv, [Next]_vars PROVE IInv'
  OBVIOUS
<1>1. CASE UNCHANGED vars
  <2>1. TypeOK'
    BY <1>1 DEF vars, IInv, TypeOK, InLineOnce, HasLock
  <2>2. Handing' /\ Holding' /\ ScrapesApartRemeasure'
    BY <1>1 DEF vars, IInv, Handing, Holding, Fresh, ScrapesApartRemeasure
  <2> QED
    BY <2>1, <2>2 DEF IInv
<1>2. CASE Next
  BY <1>2, TickInv, SupervisorInv, CacheInv, GoneInv, EnqueueInv, BeginInv, TakeInv
  DEF Next, Scrape
<1> QED
  BY <1>1, <1>2

\* The invariant holds throughout.
LEMMA InvHolds == Spec => []IInv
BY InitInv, StepInv, PTL DEF Spec

-----------------------------------------------------------------------------
(* Theorems *)

\* Every state is typed: a scrape is in line once, and samples only at its head.
THEOREM TypesHold == Spec => []TypeOK
<1>1. IInv => TypeOK
  BY DEF IInv
<1> QED
  BY <1>1, InvHolds, PTL

\* Two scrapes more than MaxAge apart are never given the same frame, for any
\* number of scrapes, failures and disconnections between them.
THEOREM ApartIsRemeasured == Spec => []ScrapesApartRemeasure
<1>1. IInv => ScrapesApartRemeasure
  BY DEF IInv
<1> QED
  BY <1>1, InvHolds, PTL

\* No scrape says that the source is down while a fresh reading is cached.
THEOREM DownIsHonest == Spec => DownMeansNothingFresh
<1>1. IInv => [\A c \in Client : TakeError(c) \/ GiveUp(c) => ~Fresh]_vars
  BY DEF IInv, Holding, TakeError, GiveUp
<1> QED
  BY <1>1, InvHolds, PTL DEF DownMeansNothingFresh
=============================================================================
