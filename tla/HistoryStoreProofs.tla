------------------------- MODULE HistoryStoreProofs -------------------------
(***************************************************************************)
(* Proofs about HistoryStore, for every set of series, every width of a    *)
(* bucket, every window, every clock and every length of the channel.      *)
(*                                                                         *)
(* Why means stay exact: a pass averages whole buckets of raw rows only,   *)
(* and no sample still to be written belongs to a bucket it averaged.  The *)
(* first follows from the cutoff being the start of a bucket; the second   *)
(* from the channel being read in the order it was filled, so that a       *)
(* sample behind a pass is at most RawWindow older than the pass           *)
(* (LatenessAssumption).                                                   *)
(***************************************************************************)
EXTENDS HistoryStore, SequenceTheorems, FiniteSetTheorems, WellFoundedInduction, TLAPS

-----------------------------------------------------------------------------
(* Buckets *)

\* A bucket starts at or before the times in it, and is Width wide.
LEMMA BucketOfTime ==
    ASSUME NEW ts \in Int
    PROVE  /\ Bucket(ts) \in Int
           /\ Bucket(ts) <= ts
           /\ ts < Bucket(ts) + Width
           /\ Bucket(Bucket(ts)) = Bucket(ts)
           /\ ts \in Nat => Bucket(ts) \in Nat
BY WindowAssumption DEF Bucket

\* The times in the interval of a bucket are the times of that bucket.
LEMMA SameBucket ==
    ASSUME NEW x \in Int, NEW ts \in Int,
           Bucket(x) <= ts, ts < Bucket(x) + Width
    PROVE  Bucket(ts) = Bucket(x)
<1> DEFINE a == x \div Width
           b == ts \div Width
<1>1. a \in Int /\ b \in Int /\ Width \in Nat \ {0}
  BY WindowAssumption
<1>2. b * Width <= ts /\ ts < b * Width + Width
  BY <1>1
<1>3. a * Width <= ts /\ ts < a * Width + Width
  BY DEF Bucket
<1>4. ~ (b <= a - 1)
  BY <1>1, <1>2, <1>3
<1>5. ~ (a <= b - 1)
  BY <1>1, <1>2, <1>3
<1>6. a = b
  BY <1>1, <1>4, <1>5
<1> QED
  BY <1>6 DEF Bucket

\* The cutoff of a pass is the start of a bucket: what lies before it does so
\* with its whole bucket, and outside the raw window.
LEMMA WholeBuckets ==
    ASSUME NEW now \in Int, NEW ts \in Int, ts < Cutoff(now)
    PROVE  /\ Cutoff(now) \in Int
           /\ Bucket(ts) + Width <= Cutoff(now)
           /\ Cutoff(now) <= now - RawWindow
BY WindowAssumption DEF Bucket, Cutoff

\* A bucket with a row has a newest row, also if it had infinitely many: the
\* ages of its rows are natural numbers, so there is a least one.
LEMMA NewestExists ==
    ASSUME NEW group, group # {}, \A r \in group : r.ts \in 0..MaxClock
    PROVE  Newest(group) \in group /\ \A q \in group : q.ts <= Newest(group).ts
<1> DEFINE Ages == {MaxClock - r.ts : r \in group}
<1>1. Ages \subseteq Nat /\ Ages # {}
  BY BoundAssumption
<1> DEFINE Less == {r \in Nat \X Nat : r[1] < r[2]}
<1>0. IsWellFoundedOn(Less, Nat)
  BY NatLessThanWellFounded, Zenon DEF OpToRel
<1>2. PICK age \in Ages : \A a \in Ages : ~ (<<a, age>> \in Less)
  BY <1>0, <1>1, WFMin
<1>3. PICK r \in group : age = MaxClock - r.ts
  BY <1>2
<1>4. ASSUME NEW q \in group PROVE q.ts <= r.ts
  <2>1. ~ (<<MaxClock - q.ts, age>> \in Less)
    BY <1>2
  <2>2. ~ (MaxClock - q.ts < age)
    BY <2>1, <1>1, <1>3
  <2> QED
    BY <2>2, <1>3, BoundAssumption
<1> QED
  BY <1>3, <1>4 DEF Newest

-----------------------------------------------------------------------------
(* The invariant *)

\* The samples in the channel.
Waiting == UNION {queue[i].batch : i \in DOMAIN queue}

\* The clock is at most MaxBack behind the latest time it ever showed.
ClockNear == clock <= peak /\ peak <= clock + MaxBack

\* A tick in progress is stamped with a time that has been, RawWindow ago at most.
StampNear ==
    stamp # NoTime => stamp <= peak /\ peak <= stamp + RawWindow /\ ticks < MaxTicks

\* Commands lie in the channel in the order of their ticks; no pass is ahead of
\* the latest time, and no sample is more than RawWindow older than a pass that
\* will be taken before it.
ChannelOrdered ==
    \A i \in DOMAIN queue :
        /\ queue[i].now <= peak
        /\ \A m \in queue[i].batch : m.tick <= ticks
        /\ \A m, n \in queue[i].batch : m.series = n.series => m = n
        /\ \A j \in DOMAIN queue : j < i =>
              \A m \in queue[i].batch :
                  /\ queue[j].now <= m.ts + RawWindow
                  /\ \A n \in queue[j].batch : n.tick < m.tick

\* The primary key of the table.
OneRowPerKey == \A r, q \in rows : SameKey(r, q) => r = q

\* A row as a tick wrote it.
Raw(r) == \E m \in Sample : r = Stored(m)

\* A row as a pass wrote it: alone in its bucket, at the bucket's start, and out
\* of reach of everything that is still to be written.
Settled(r) ==
    /\ r.exact
    /\ r.of # {}
    /\ r.ts = Bucket(r.ts)
    /\ r.ts + Width + RawWindow <= peak
    /\ \A m \in r.of : m.series = r.series /\ Bucket(m.ts) = r.ts
    /\ \A q \in rows : q.series = r.series /\ Bucket(q.ts) = r.ts => q = r
    /\ \A m \in Waiting : r.ts + Width <= m.ts

\* Stored samples are of earlier ticks than those in the channel.
RowsOlder ==
    \A r \in rows : \A m \in r.of : m.tick <= ticks /\ \A n \in Waiting : m.tick < n.tick

\* Between its two transactions a pass has left nothing past the retention.
RowsKept == expiring # NoTime => \A r \in rows : r.ts >= expiring - Retention

\* There is no third kind of row.
RowsSettled == \A r \in rows : Raw(r) \/ Settled(r)

\* PassIsThorough is part of it, although no other part needs it.
IInv ==
    /\ TypeOK
    /\ ClockNear /\ StampNear /\ ChannelOrdered
    /\ OneRowPerKey /\ RowsOlder /\ RowsKept /\ RowsSettled
    /\ PassIsThorough

-----------------------------------------------------------------------------
(* Types, and what is in the channel *)

\* A raw row is one sample, with its series, time and tag.
LEMMA RawRow ==
    ASSUME NEW r, Raw(r)
    PROVE  \E m \in Sample :
              /\ r = Stored(m)
              /\ r.series = m.series /\ r.ts = m.ts /\ r.tag = m.tag
              /\ r.of = {m} /\ r.exact /\ Cardinality(r.of) = 1
<1> PICK m \in Sample : r = Stored(m)
  BY DEF Raw
<1>1. Cardinality({m}) = 1
  BY FS_Singleton
<1> QED
  BY <1>1 DEF Stored

\* The types of a row's fields.
LEMMA RowTyped ==
    ASSUME TypeOK, NEW r \in rows
    PROVE  /\ r.series \in Series /\ r.ts \in 0..MaxClock /\ r.ts \in Int /\ r.ts \in Nat
           /\ r.of \subseteq Sample /\ r.tag \in Tag /\ r.exact \in BOOLEAN
BY BoundAssumption DEF TypeOK, Row

\* The types of a sample's fields.
LEMMA SampleTyped ==
    ASSUME NEW m \in Sample
    PROVE  m.series \in Series /\ m.tick \in Int /\ m.ts \in 0..MaxClock
           /\ m.ts \in Int /\ m.ts \in Nat /\ m.tag \in Tag
BY BoundAssumption DEF Sample

\* The types of a command's fields; a pass carries a time and no samples.
LEMMA CommandTyped ==
    ASSUME NEW c \in Commands
    PROVE  c.batch \subseteq Sample /\ c.now \in Int
           /\ (c.op = "maintain" => c.now \in 0..MaxClock)
           /\ (c.op = "maintain" => c.batch = {})
BY BoundAssumption DEF Commands, NoTime

\* The channel is a sequence of commands, and what waits in it are samples.
LEMMA QueueTyped ==
    ASSUME TypeOK
    PROVE  /\ Waiting \subseteq Sample
           /\ \A i \in DOMAIN queue : queue[i] \in Commands
           /\ Len(queue) \in Nat /\ DOMAIN queue = 1..Len(queue)
BY ElementOfSeq, LenProperties, CommandTyped DEF TypeOK, Waiting

\* Taking the first command moves every other one up by a place.
LEMMA Pop ==
    ASSUME TypeOK, queue # <<>>
    PROVE  /\ 1 \in DOMAIN queue /\ Head(queue) = queue[1] /\ queue[1] \in Commands
           /\ Tail(queue) \in Seq(Commands)
           /\ Len(queue) \in Nat \ {0}
           /\ DOMAIN Tail(queue) = 1..(Len(queue) - 1)
           /\ \A i \in DOMAIN Tail(queue) :
                 i + 1 \in DOMAIN queue /\ i + 1 > 1 /\ Tail(queue)[i] = queue[i + 1]
BY HeadTailProperties, EmptySeq, LenProperties, ElementOfSeq DEF TypeOK

\* Sending a command leaves the ones before it where they are.
LEMMA Push ==
    ASSUME TypeOK, NEW c \in Commands
    PROVE  /\ Append(queue, c) \in Seq(Commands)
           /\ Len(queue) \in Nat /\ DOMAIN queue = 1..Len(queue)
           /\ DOMAIN Append(queue, c) = 1..(Len(queue) + 1)
           /\ \A i \in DOMAIN queue : Append(queue, c)[i] = queue[i]
           /\ Append(queue, c)[Len(queue) + 1] = c
BY AppendProperties, LenProperties DEF TypeOK

\* Rows that are left keep their shape while time goes on
\* and nothing is sent.
LEMMA RowsStay ==
    ASSUME IInv, rows' \subseteq rows, Waiting' \subseteq Waiting,
           peak' \in Int, peak <= peak', ticks' \in Int, ticks <= ticks'
    PROVE  OneRowPerKey' /\ RowsOlder' /\ RowsSettled'
<1>1. OneRowPerKey'
  BY DEF IInv, OneRowPerKey, SameKey
<1>2. RowsOlder'
  <2> SUFFICES ASSUME NEW r \in rows', NEW m \in r.of
               PROVE  m.tick <= ticks' /\ \A n \in Waiting' : m.tick < n.tick
    BY DEF RowsOlder
  <2>1. m \in Sample /\ m.tick \in Int /\ ticks \in Int
    BY RowTyped, SampleTyped, BoundAssumption DEF IInv, TypeOK
  <2> QED
    BY <2>1 DEF IInv, RowsOlder
<1>3. RowsSettled'
  <2> SUFFICES ASSUME NEW r \in rows', Settled(r) PROVE Settled(r)'
    BY DEF IInv, RowsSettled, Raw
  <2>1. r.ts \in Int /\ Width \in Int /\ RawWindow \in Int /\ peak \in Int
    BY RowTyped, WindowAssumption, BoundAssumption DEF IInv, TypeOK
  <2>2. r.ts + Width + RawWindow <= peak'
    BY <2>1 DEF Settled
  <2> QED
    BY <2>2 DEF Settled
<1> QED
  BY <1>1, <1>2, <1>3

\* Taking the first command leaves the channel ordered.
LEMMA ChannelShrinks ==
    ASSUME TypeOK, ChannelOrdered, queue # <<>>, queue' = Tail(queue),
           peak' = peak, ticks' = ticks
    PROVE  ChannelOrdered' /\ Waiting' \subseteq Waiting
<1>1. ChannelOrdered'
  BY Pop DEF ChannelOrdered
<1>2. Waiting' \subseteq Waiting
  BY Pop DEF Waiting
<1> QED
  BY <1>1, <1>2

-----------------------------------------------------------------------------
(* The invariant is inductive: one lemma for each action *)

\* It holds of an empty store.
LEMMA InitInv == Init => IInv
<1> SUFFICES ASSUME Init PROVE IInv
  OBVIOUS
<1>1. queue = <<>> /\ rows = {} /\ <<>> \in Seq(Commands) /\ DOMAIN queue = {}
  BY EmptySeq DEF Init
<1>2. TypeOK
  BY <1>1, BoundAssumption DEF Init, TypeOK, NoTime
<1>3. Waiting = {}
  BY <1>1 DEF Waiting
<1>4. ClockNear /\ StampNear /\ ChannelOrdered /\ RowsKept /\ PassIsThorough
  BY <1>1, LatenessAssumption, WindowAssumption
  DEF Init, ClockNear, StampNear, ChannelOrdered, RowsKept, PassIsThorough
<1>5. OneRowPerKey /\ RowsOlder /\ RowsSettled
  BY <1>1 DEF OneRowPerKey, RowsOlder, RowsSettled
<1> QED
  BY <1>2, <1>4, <1>5 DEF IInv

\* The clock moves: back by MaxBack at most, on by MaxLag at most during a tick.
LEMMA SetClockInv == IInv /\ SetClock => IInv'
<1> SUFFICES ASSUME IInv, SetClock PROVE IInv'
  OBVIOUS
<1> USE BoundAssumption, WindowAssumption, LatenessAssumption
<1>1. TypeOK'
  BY DEF IInv, TypeOK, SetClock, Take
<1>2. /\ peak \in Int /\ peak' \in Int /\ peak <= peak' /\ clock' \in Int
      /\ stamp # NoTime => stamp \in Int
      /\ {MaxBack, MaxLag, RawWindow} \subseteq Int
  BY DEF IInv, TypeOK, SetClock
<1>3. ClockNear'
  <2> DEFINE Highest(c, p) == IF c > p THEN c ELSE p
  <2>1. \A c, p \in Int : \A b \in Nat :
           p - b <= c => c <= Highest(c, p) /\ Highest(c, p) <= c + b
    OBVIOUS
  <2>2. MaxBack \in Nat /\ peak - MaxBack <= clock' /\ peak' = Highest(clock', peak)
    BY DEF SetClock
  <2> HIDE DEF Highest
  <2>3. clock' <= peak' /\ peak' <= clock' + MaxBack
    BY <1>2, <2>1, <2>2, Zenon
  <2> QED
    BY <2>3 DEF ClockNear
<1>4. StampNear'
  <2>1. SUFFICES ASSUME stamp # NoTime
                 PROVE  stamp <= peak' /\ peak' <= stamp + RawWindow /\ ticks < MaxTicks
    BY DEF StampNear, SetClock
  <2>2. stamp <= peak /\ peak <= stamp + RawWindow /\ ticks < MaxTicks
    BY <2>1 DEF StampNear, IInv
  <2>3. clock' <= stamp + MaxLag /\ (peak' = peak \/ peak' = clock')
    BY <2>1 DEF SetClock
  <2>4. clock' <= stamp + RawWindow
    BY <2>1, <2>3, <1>2
  <2> QED
    BY <2>1, <2>2, <2>3, <2>4, <1>2
<1>5. ChannelOrdered'
  <2> SUFFICES ASSUME NEW i \in DOMAIN queue PROVE queue[i].now <= peak'
    BY DEF ChannelOrdered, IInv, SetClock
  <2>1. queue[i].now \in Int
    BY QueueTyped, CommandTyped DEF IInv
  <2> QED
    BY <2>1, <1>2 DEF ChannelOrdered, IInv
<1>6. OneRowPerKey' /\ RowsOlder' /\ RowsSettled'
  <2>1. rows' = rows /\ Waiting' = Waiting /\ ticks' = ticks /\ ticks \in Int
    BY DEF SetClock, Waiting, IInv, TypeOK
  <2> QED
    BY <1>2, <2>1, RowsStay
<1>7. RowsKept' /\ PassIsThorough'
  BY DEF IInv, SetClock, RowsKept, PassIsThorough
<1> QED
  BY <1>1, <1>3, <1>4, <1>5, <1>6, <1>7 DEF IInv

\* A tick that starts takes the clock for its stamp; one that has nothing to
\* write forgets it.
LEMMA StartTickInv == IInv /\ (StartTick \/ EndEmptyTick) => IInv'
<1> SUFFICES ASSUME IInv, StartTick \/ EndEmptyTick PROVE IInv'
  OBVIOUS
<1> USE BoundAssumption, WindowAssumption, LatenessAssumption
<1>0. /\ UNCHANGED <<clock, peak, ticks, queue, rows, expiring, passed>>
      /\ peak \in Int /\ clock \in Int /\ ticks \in Int
  BY DEF StartTick, EndEmptyTick, IInv, TypeOK
<1>1. TypeOK'
  BY DEF IInv, TypeOK, StartTick, EndEmptyTick, Take
<1>2. StampNear'
  BY <1>0 DEF IInv, ClockNear, StartTick, EndEmptyTick, StampNear, NoTime
<1>3. ClockNear' /\ ChannelOrdered' /\ RowsKept' /\ PassIsThorough'
  BY <1>0 DEF IInv, ClockNear, ChannelOrdered, RowsKept, PassIsThorough
<1>4. Waiting' = Waiting
  BY <1>0 DEF Waiting
<1>5. OneRowPerKey' /\ RowsOlder' /\ RowsSettled'
  BY <1>0, <1>4, RowsStay
<1> QED
  BY <1>1, <1>2, <1>3, <1>5 DEF IInv

\* The maintenance task sends a pass stamped with the clock; the one before it
\* was answered, so it is the only one in the channel.
LEMMA StartPassInv == IInv /\ StartPass => IInv'
<1> SUFFICES ASSUME IInv, StartPass PROVE IInv'
  OBVIOUS
<1> USE BoundAssumption, WindowAssumption, LatenessAssumption
<1> DEFINE c == Maintain(clock)
<1>0. /\ UNCHANGED <<clock, peak, stamp, ticks, rows, expiring, passed>>
      /\ queue' = Append(queue, c)
      /\ peak \in Int /\ clock \in Int /\ ticks \in Int /\ TypeOK
  BY DEF StartPass, IInv, TypeOK
<1>1. c \in Commands /\ c.now = clock /\ c.batch = {} /\ c.op = "maintain"
  BY DEF IInv, TypeOK, Maintain, Commands
<1>2. TypeOK'
  <2>1. queue' \in Seq(Commands)
    BY <1>0, <1>1, Push
  <2>2. \A i, j \in DOMAIN queue' :
           queue'[i].op = "maintain" /\ queue'[j].op = "maintain" => i = j
    BY <1>0, <1>1, Push DEF StartPass, Answered
  <2>3. expiring = NoTime
    BY <1>0, Pop DEF TypeOK, Take, StartPass, Answered
  <2> QED
    BY <1>0, <2>1, <2>2, <2>3 DEF TypeOK
<1>3. ClockNear' /\ StampNear' /\ RowsKept' /\ PassIsThorough'
  BY <1>0 DEF IInv, ClockNear, StampNear, RowsKept, PassIsThorough
<1>4. ChannelOrdered'
  <2>1. c.now <= peak
    BY <1>1 DEF IInv, ClockNear
  <2> HIDE DEF c
  <2> QED
    BY <1>0, <1>1, <2>1, Push DEF IInv, ChannelOrdered
<1>5. Waiting' \subseteq Waiting
  <2> HIDE DEF c
  <2> QED
    BY <1>0, <1>1, Push DEF Waiting
<1>6. OneRowPerKey' /\ RowsOlder' /\ RowsSettled'
  BY <1>0, <1>5, RowsStay
<1> QED
  BY <1>2, <1>3, <1>4, <1>6 DEF IInv

\* A tick sends its batch: newer than everything stored or sent, and not
\* older than RawWindow against anything sent before it.
LEMMA EndTickInv == IInv /\ EndTick => IInv'
<1> SUFFICES ASSUME IInv, EndTick PROVE IInv'
  OBVIOUS
<1> USE BoundAssumption, WindowAssumption, LatenessAssumption
<1>0. /\ UNCHANGED <<clock, peak, rows, expiring, passed>>
      /\ ticks' = ticks + 1 /\ stamp' = NoTime
      /\ stamp # NoTime /\ stamp \in 0..MaxClock /\ stamp \in Int
      /\ stamp <= peak /\ peak <= stamp + RawWindow /\ ticks < MaxTicks
      /\ peak \in Int /\ clock \in Int /\ ticks \in 0..MaxTicks /\ ticks \in Int /\ TypeOK
  BY DEF EndTick, IInv, TypeOK, StampNear
<1>12. PICK measured \in SUBSET Series :
         \E tag \in [measured -> Tag] :
            queue' = Append(queue, Write({[series |-> s, tick |-> ticks + 1, ts |-> stamp,
                                           tag |-> tag[s]] : s \in measured}))
  BY DEF EndTick
<1>1. PICK tag \in [measured -> Tag] :
         queue' = Append(queue, Write({[series |-> s, tick |-> ticks + 1, ts |-> stamp,
                                        tag |-> tag[s]] : s \in measured}))
  BY <1>12
<1> DEFINE batch == {[series |-> s, tick |-> ticks + 1, ts |-> stamp, tag |-> tag[s]] :
                        s \in measured}
           c == Write(batch)
<1>2. /\ batch \subseteq Sample
      /\ \A m \in batch : m.tick = ticks + 1 /\ m.ts = stamp
      /\ \A m, n \in batch : m.series = n.series => m = n
  BY <1>0 DEF Sample
<1> HIDE DEF batch
<1>3. c \in Commands /\ c.now = NoTime /\ c.batch = batch /\ c.op = "write"
  BY <1>2 DEF Write, Commands
<1>4. queue' = Append(queue, c)
  BY <1>1 DEF batch
<1> HIDE DEF c
<1>5. TypeOK'
  <2>1. queue' \in Seq(Commands)
    BY <1>0, <1>3, <1>4, Push
  <2>2. \A i, j \in DOMAIN queue' :
           queue'[i].op = "maintain" /\ queue'[j].op = "maintain" => i = j
    BY <1>0, <1>3, <1>4, Push, SMTT(30) DEF TypeOK
  <2>3. expiring # NoTime => queue' # <<>> /\ Head(queue') = Head(queue)
    <3>1. queue' # <<>>
      BY <1>0, <1>3, <1>4, <2>1, Push, EmptySeq, LenProperties
    <3>2. queue # <<>> => Head(queue') = queue'[1] /\ queue'[1] = queue[1] /\ Head(queue) = queue[1]
      BY <1>0, <1>3, <1>4, <2>1, <3>1, Push, Pop, HeadTailProperties
    <3> QED
      BY <3>1, <3>2, <1>0 DEF TypeOK, Take
  <2> QED
    BY <1>0, <2>1, <2>2, <2>3 DEF TypeOK, Take
<1>6. ClockNear' /\ StampNear' /\ RowsKept' /\ PassIsThorough'
  BY <1>0 DEF IInv, ClockNear, StampNear, RowsKept, PassIsThorough
<1>7. ChannelOrdered'
  <2> SUFFICES ASSUME NEW i \in DOMAIN queue'
               PROVE  /\ queue'[i].now <= peak
                      /\ \A m \in queue'[i].batch : m.tick <= ticks'
                      /\ \A m, n \in queue'[i].batch : m.series = n.series => m = n
                      /\ \A j \in DOMAIN queue' : j < i =>
                            \A m \in queue'[i].batch :
                               /\ queue'[j].now <= m.ts + RawWindow
                               /\ \A n \in queue'[j].batch : n.tick < m.tick
    BY <1>0 DEF ChannelOrdered
  <2>1. CASE i \in DOMAIN queue
    <3>1. queue'[i] = queue[i] /\ \A j \in DOMAIN queue' : j < i => j \in DOMAIN queue /\ queue'[j] = queue[j]
      BY <2>1, <1>0, <1>3, <1>4, Push, SMTT(30)
    <3>2. \A m \in queue[i].batch : m.tick \in Int
      BY <2>1, <1>0, QueueTyped, CommandTyped, SampleTyped
    <3> QED
      BY <2>1, <3>1, <3>2, <1>0 DEF IInv, ChannelOrdered
  <2>2. CASE i = Len(queue) + 1
    <3>1. queue'[i] = c /\ \A j \in DOMAIN queue' : j < i => j \in DOMAIN queue /\ queue'[j] = queue[j]
      BY <2>2, <1>0, <1>3, <1>4, Push
    <3>2. \A j \in DOMAIN queue : /\ queue[j].now <= peak /\ queue[j].now \in Int
                                  /\ \A n \in queue[j].batch : n.tick \in Int /\ n.tick <= ticks
      BY <1>0, QueueTyped, CommandTyped, SampleTyped DEF IInv, ChannelOrdered
    <3>3. peak >= 0
      BY <1>0 DEF TypeOK
    <3> QED
      BY <3>1, <3>2, <3>3, <1>0, <1>2, <1>3 DEF NoTime
  <2> QED
    BY <2>1, <2>2, <1>0, <1>3, <1>4, Push, SMTT(30)
<1>8. Waiting' = Waiting \union batch
  BY <1>0, <1>3, <1>4, Push, SMTT(30) DEF Waiting
<1>9. OneRowPerKey'
  BY <1>0 DEF IInv, OneRowPerKey
<1>10. RowsOlder'
  <2> SUFFICES ASSUME NEW r \in rows, NEW m \in r.of
               PROVE  m.tick <= ticks' /\ \A n \in Waiting' : m.tick < n.tick
    BY <1>0 DEF RowsOlder
  <2>1. m.tick \in Int /\ m.tick <= ticks /\ \A n \in Waiting : m.tick < n.tick
    BY <1>0, RowTyped, SampleTyped DEF IInv, RowsOlder
  <2> QED
    BY <2>1, <1>0, <1>2, <1>8
<1>11. RowsSettled'
  <2> SUFFICES ASSUME NEW r \in rows, Settled(r) PROVE Settled(r)'
    BY <1>0 DEF IInv, RowsSettled, Raw
  <2>1. r.ts \in Int /\ Width \in Int /\ RawWindow \in Int
    BY <1>0, RowTyped
  <2>2. r.ts + Width <= stamp
    BY <2>1, <1>0 DEF Settled
  <2> QED
    BY <2>2, <1>0, <1>2, <1>8 DEF Settled
<1> QED
  BY <1>5, <1>6, <1>7, <1>9, <1>10, <1>11 DEF IInv

\* What a command that leaves the channel leaves of the rest of the invariant.
LEMMA PopInv ==
    ASSUME IInv, queue # <<>>, queue' = Tail(queue), UNCHANGED <<clock, peak, stamp, ticks>>
    PROVE  /\ ClockNear' /\ StampNear' /\ ChannelOrdered' /\ Waiting' \subseteq Waiting
           /\ queue' \in Seq(Commands)
           /\ \A i, j \in DOMAIN queue' :
                 queue'[i].op = "maintain" /\ queue'[j].op = "maintain" => i = j
           /\ peak \in Int /\ peak' \in Int /\ peak <= peak' /\ ticks \in Int /\ ticks' \in Int
           /\ ticks <= ticks'
<1> USE BoundAssumption
<1>1. ClockNear' /\ StampNear'
  BY DEF IInv, ClockNear, StampNear
<1>2. ChannelOrdered' /\ Waiting' \subseteq Waiting
  BY ChannelShrinks DEF IInv
<1>3. queue' \in Seq(Commands) /\ \A i, j \in DOMAIN queue' :
                 queue'[i].op = "maintain" /\ queue'[j].op = "maintain" => i = j
  <2>1. \A i, j \in 1..(Len(queue) - 1) : i \in Int /\ j \in Int /\ (i + 1 = j + 1 => i = j)
    OBVIOUS
  <2> QED
    BY <2>1, Pop DEF IInv, TypeOK
<1> QED
  BY <1>1, <1>2, <1>3 DEF IInv, TypeOK

\* A batch that is refused and a pass that fails leave the rows as they were.
LEMMA FailureInv == IInv /\ (WriteFails \/ PassFails) => IInv'
<1> SUFFICES ASSUME IInv, WriteFails \/ PassFails PROVE IInv'
  OBVIOUS
<1>0. /\ UNCHANGED <<clock, peak, stamp, ticks, rows>> /\ passed' = NoTime
      /\ queue # <<>> /\ queue' = Tail(queue) /\ expiring' = NoTime
  BY DEF WriteFails, PassFails, Take, IInv, TypeOK
<1>1. TypeOK'
  BY <1>0, PopInv DEF IInv, TypeOK
<1>2. RowsKept' /\ PassIsThorough'
  BY <1>0 DEF RowsKept, PassIsThorough
<1>3. OneRowPerKey' /\ RowsOlder' /\ RowsSettled'
  BY <1>0, PopInv, RowsStay
<1> QED
  BY <1>0, <1>1, <1>2, <1>3, PopInv DEF IInv

\* A restart empties the channel and leaves the rows.
LEMMA RestartInv == IInv /\ Restart => IInv'
<1> SUFFICES ASSUME IInv, Restart PROVE IInv'
  OBVIOUS
<1>0. /\ UNCHANGED <<clock, peak, ticks, rows>> /\ passed' = NoTime /\ stamp' = NoTime
      /\ queue' = <<>> /\ DOMAIN queue' = {} /\ expiring' = NoTime /\ queue' \in Seq(Commands)
      /\ peak \in Int /\ ticks \in Int
  BY EmptySeq, BoundAssumption DEF Restart, IInv, TypeOK
<1>1. TypeOK'
  BY <1>0 DEF IInv, TypeOK
<1>2. ClockNear' /\ StampNear' /\ ChannelOrdered' /\ RowsKept' /\ PassIsThorough'
  BY <1>0 DEF IInv, ClockNear, StampNear, ChannelOrdered, RowsKept, PassIsThorough
<1>3. Waiting' \subseteq Waiting
  BY <1>0 DEF Waiting
<1>4. OneRowPerKey' /\ RowsOlder' /\ RowsSettled'
  BY <1>0, <1>3, RowsStay
<1> QED
  BY <1>1, <1>2, <1>4 DEF IInv

\* The first transaction of a pass only deletes.
LEMMA ExpireInv == IInv /\ Expire => IInv'
<1> SUFFICES ASSUME IInv, Expire PROVE IInv'
  OBVIOUS
<1> DEFINE now == Head(queue).now
<1>0. /\ UNCHANGED <<clock, peak, stamp, ticks, queue>> /\ passed' = NoTime
      /\ rows' = {r \in rows : r.ts >= now - Retention} /\ rows' \subseteq rows
      /\ expiring' = now /\ queue # <<>> /\ Head(queue).op = "maintain"
      /\ peak \in Int /\ ticks \in Int
  BY BoundAssumption DEF Expire, Take, IInv, TypeOK
<1>1. now \in 0..MaxClock
  BY <1>0, Pop, CommandTyped DEF IInv
<1>2. TypeOK'
  BY <1>0, <1>1 DEF IInv, TypeOK, Take
<1>3. ClockNear' /\ StampNear' /\ ChannelOrdered' /\ RowsKept' /\ PassIsThorough'
  BY <1>0 DEF IInv, ClockNear, StampNear, ChannelOrdered, RowsKept, PassIsThorough
<1>4. Waiting' = Waiting
  BY <1>0 DEF Waiting
<1>5. OneRowPerKey' /\ RowsOlder' /\ RowsSettled'
  BY <1>0, <1>4, RowsStay
<1> QED
  BY <1>2, <1>3, <1>5 DEF IInv

\* A batch is written: it replaces rows of the same key, and none of its
\* samples falls into a bucket that was settled.
LEMMA WriteBatchInv == IInv /\ WriteBatch => IInv'
<1> SUFFICES ASSUME IInv, WriteBatch PROVE IInv'
  OBVIOUS
<1> USE BoundAssumption, WindowAssumption
<1> DEFINE batch == Head(queue).batch
<1>0. /\ UNCHANGED <<clock, peak, stamp, ticks, expiring>> /\ passed' = NoTime
      /\ queue # <<>> /\ queue' = Tail(queue) /\ Head(queue).op = "write"
      /\ rows' = {r \in rows : ~ \E m \in batch : SameKey(r, m)} \union {Stored(m) : m \in batch}
      /\ expiring = NoTime /\ TypeOK
      /\ peak \in Int /\ ticks \in Int
  BY DEF WriteBatch, Take, IInv, TypeOK
<1>1. /\ batch \subseteq Sample /\ batch \subseteq Waiting
      /\ \A m, n \in batch : m.series = n.series => m = n
      /\ \A m \in batch : m.tick <= ticks /\ \A n \in Waiting' : m.tick < n.tick
  <2>1. batch = queue[1].batch /\ 1 \in DOMAIN queue /\ batch \subseteq Sample
    BY <1>0, Pop, CommandTyped
  <2>2. ASSUME NEW n \in Waiting' PROVE \E i \in DOMAIN queue : 1 < i /\ n \in queue[i].batch
    BY <1>0, Pop DEF Waiting
  <2>3. batch \subseteq Waiting
    BY <2>1 DEF Waiting
  <2> QED
    BY <2>1, <2>2, <2>3 DEF IInv, ChannelOrdered
<1> HIDE DEF batch
<1>2. \A m \in batch : /\ Stored(m).series = m.series /\ Stored(m).ts = m.ts
                       /\ Stored(m).of = {m} /\ Raw(Stored(m)) /\ Stored(m) \in Row
  BY <1>1 DEF Stored, Raw, Row, Sample
<1>3. \A r \in rows' : r \in rows \/ \E m \in batch : r = Stored(m)
  BY <1>0
<1>4. TypeOK'
  <2>1. rows' \subseteq Row
    BY <1>0, <1>2, <1>3 DEF TypeOK
  <2> QED
    BY <1>0, <2>1, PopInv DEF IInv, TypeOK
<1>5. RowsKept' /\ PassIsThorough'
  BY <1>0 DEF RowsKept, PassIsThorough
<1>6. OneRowPerKey'
  <2> SUFFICES ASSUME NEW r \in rows', NEW q \in rows', r.series = q.series, r.ts = q.ts PROVE r = q
    BY DEF OneRowPerKey, SameKey
  <2>1. CASE r \in rows /\ q \in rows
    BY <2>1 DEF IInv, OneRowPerKey, SameKey
  <2>2. CASE \E m \in batch : r = Stored(m)
    BY <2>2, <1>0, <1>1, <1>2 DEF SameKey
  <2>3. CASE \E m \in batch : q = Stored(m)
    BY <2>3, <1>0, <1>1, <1>2 DEF SameKey
  <2> QED
    BY <2>1, <2>2, <2>3, <1>3
<1>7. RowsOlder'
  <2> SUFFICES ASSUME NEW r \in rows', NEW m \in r.of
               PROVE  m.tick <= ticks /\ \A n \in Waiting' : m.tick < n.tick
    BY <1>0 DEF RowsOlder
  <2>1. CASE r \in rows
    BY <2>1, <1>0, PopInv DEF IInv, RowsOlder
  <2>2. CASE \E n \in batch : r = Stored(n)
    BY <2>2, <1>1, <1>2
  <2> QED
    BY <2>1, <2>2, <1>3
<1>8. RowsSettled'
  <2> SUFFICES ASSUME NEW r \in rows', r \in rows, Settled(r) PROVE Settled(r)'
    BY <1>2, <1>3 DEF IInv, RowsSettled, Raw
  <2>1. ASSUME NEW m \in batch, m.series = r.series, Bucket(m.ts) = r.ts PROVE FALSE
    <3>1. m.ts \in Int /\ r.ts \in Int /\ Width \in Int
      BY <1>0, <1>1, SampleTyped, RowTyped
    <3>2. r.ts + Width <= m.ts /\ m.ts < Bucket(m.ts) + Width
      BY <3>1, <1>1, BucketOfTime DEF Settled
    <3> QED
      BY <3>1, <3>2, <2>1
  <2>2. \A q \in rows' : q.series = r.series /\ Bucket(q.ts) = r.ts => q = r
    BY <2>1, <1>2, <1>3 DEF Settled
  <2> QED
    BY <2>2, <1>0, PopInv DEF Settled
<1> QED
  BY <1>0, <1>4, <1>5, <1>6, <1>7, <1>8, PopInv DEF IInv

\* What the pass groups: raw rows only, and all rows of the bucket.
LEMMA CandidateGroups ==
    ASSUME IInv, expiring # NoTime, NEW k \in Candidates(expiring)
    PROVE  LET s == k[1]
               b == k[2]
               group == Group(s, b, expiring)
           IN  /\ s \in Series /\ b \in 0..MaxClock /\ b \in Int /\ b = Bucket(b)
               /\ group # {} /\ group \subseteq rows
               /\ \A r \in group : r.series = s /\ Bucket(r.ts) = b /\ Raw(r)
               /\ group = {r \in rows : r.series = s /\ Bucket(r.ts) = b}
               /\ group = Deleted(s, b)
               /\ b + Width <= Cutoff(expiring)
               /\ b + Width + RawWindow <= expiring
               /\ expiring <= peak
               /\ \A m \in Waiting' : queue' = Tail(queue) => b + Width <= m.ts
<1> USE BoundAssumption, WindowAssumption
<1> DEFINE s == k[1]
           b == k[2]
           group == Group(s, b, expiring)
<1>0. /\ s \in Series /\ b \in 0..MaxClock /\ b \in Int /\ group # {} /\ ~ Collapsed(b, group)
      /\ expiring \in Int /\ peak \in Int /\ TypeOK /\ queue # <<>> /\ Head(queue).now = expiring
  BY DEF Candidates, IInv, TypeOK, Take
<1>1. group \subseteq rows /\ \A r \in group : r.series = s /\ Bucket(r.ts) = b /\ r.ts < Cutoff(expiring)
  BY DEF Group
<1>2. PICK some \in group : TRUE
  BY <1>0
<1>3. /\ b = Bucket(b) /\ Cutoff(expiring) \in Int /\ b + Width <= Cutoff(expiring)
      /\ Cutoff(expiring) <= expiring - RawWindow
  BY <1>0, <1>1, <1>2, RowTyped, BucketOfTime, WholeBuckets
<1>4. b + Width + RawWindow <= expiring
  BY <1>0, <1>3
<1>5. expiring <= peak
  BY <1>0, Pop DEF IInv, ChannelOrdered
<1>6. \A r \in rows : r.ts \in Int /\ Bucket(r.ts) \in Int /\ Bucket(r.ts) <= r.ts /\ r.ts < Bucket(r.ts) + Width
  BY <1>0, RowTyped, BucketOfTime
<1>7. group = {r \in rows : r.series = s /\ Bucket(r.ts) = b}
  <2>1. ASSUME NEW r \in rows, Bucket(r.ts) = b PROVE r.ts < Cutoff(expiring)
    BY <2>1, <1>0, <1>3, <1>6
  <2> QED
    BY <2>1 DEF Group
<1>8. group = Deleted(s, b)
  <2>1. ASSUME NEW r \in rows, b <= r.ts, r.ts < b + Width PROVE Bucket(r.ts) = b
    BY <2>1, <1>0, <1>3, <1>6, SameBucket
  <2> QED
    BY <2>1, <1>6, <1>7 DEF Deleted
<1>9. ASSUME NEW r \in group PROVE Raw(r)
  <2>1. SUFFICES ASSUME Settled(r) PROVE FALSE
    BY <1>1 DEF IInv, RowsSettled
  <2>2. r.ts = b /\ group = {r}
    BY <2>1, <1>1, <1>7 DEF Settled
  <2>3. Cardinality({r}) = 1
    BY FS_Singleton
  <2> HIDE DEF group
  <2> QED
    BY <2>2, <2>3, <1>0 DEF Collapsed
<1>10. ASSUME NEW m \in Waiting', queue' = Tail(queue) PROVE b + Width <= m.ts
  <2>1. PICK i \in DOMAIN queue : 1 < i /\ m \in queue[i].batch
    BY <1>10, <1>0, Pop DEF Waiting
  <2>2. m.ts \in Int
    BY <2>1, <1>0, QueueTyped, CommandTyped, SampleTyped
  <2>3. expiring <= m.ts + RawWindow
    BY <2>1, <1>0, Pop DEF IInv, ChannelOrdered
  <2> QED
    BY <2>2, <2>3, <1>0, <1>4
<1> HIDE DEF group
<1> QED
  BY <1>0, <1>1, <1>3, <1>4, <1>5, <1>7, <1>8, <1>9, <1>10 DEF group

\* What the pass makes of a group: the plain mean of its samples.
LEMMA AggregateOfRaw ==
    ASSUME IInv, expiring # NoTime, NEW k \in Candidates(expiring)
    PROVE  LET s == k[1]
               b == k[2]
               group == Group(s, b, expiring)
               made == Aggregate(s, b, group)
           IN  /\ made \in Row /\ made.exact /\ made.of # {}
               /\ made.series = s /\ made.ts = b
               /\ \A m \in made.of : /\ m \in Sample /\ m.series = s /\ Bucket(m.ts) = b
                                     /\ \E r \in group : m \in r.of
               /\ s \notin Counter => \A r \in group : r.of \subseteq made.of
               /\ s \in Counter => \A r \in group : \A n \in r.of :
                                     \E m \in made.of : n.ts <= m.ts /\ (n.ts = m.ts => n = m)
<1> DEFINE s == k[1]
           b == k[2]
           group == Group(s, b, expiring)
           made == Aggregate(s, b, group)
<1>1. /\ s \in Series /\ b \in 0..MaxClock /\ group # {} /\ group \subseteq rows
      /\ \A r \in group : r.series = s /\ Bucket(r.ts) = b /\ Raw(r)
  BY CandidateGroups
<1> HIDE DEF s, b, group
<1>2. \A r \in group : \E m \in Sample :
         /\ r.ts = m.ts /\ r.of = {m} /\ r.exact /\ Cardinality(r.of) = 1
         /\ m.series = s /\ Bucket(m.ts) = b
  BY <1>1, RawRow
<1>3. \A r \in group : r.ts \in 0..MaxClock /\ r.tag \in Tag
  BY <1>1, RowTyped DEF IInv
<1>4. Newest(group) \in group /\ \A q \in group : q.ts <= Newest(group).ts
  BY <1>1, <1>3, NewestExists
<1>5. PlainMean(group)
  BY <1>2 DEF PlainMean
<1>6. /\ AggregateOf(s, group) # {}
      /\ \A m \in AggregateOf(s, group) :
            m \in Sample /\ m.series = s /\ Bucket(m.ts) = b /\ \E r \in group : m \in r.of
      /\ s \notin Counter => \A r \in group : r.of \subseteq AggregateOf(s, group)
  <2>1. CASE s \in Counter
    BY <2>1, <1>2, <1>4 DEF AggregateOf
  <2>2. CASE s \notin Counter
    <3>1. AggregateOf(s, group) = UNION {r.of : r \in group}
      BY <2>2 DEF AggregateOf
    <3> QED
      BY <3>1, <2>2, <1>1, <1>2
  <2> QED
    BY <2>1, <2>2
<1>7. s \in Counter => \A r \in group : \A n \in r.of :
         \E m \in AggregateOf(s, group) : n.ts <= m.ts /\ (n.ts = m.ts => n = m)
  <2> SUFFICES ASSUME s \in Counter, NEW r \in group, NEW n \in r.of
               PROVE  \E m \in Newest(group).of : n.ts <= m.ts /\ (n.ts = m.ts => n = m)
    BY DEF AggregateOf
  <2>1. PICK m \in Sample : Newest(group).ts = m.ts /\ Newest(group).of = {m}
    BY <1>2, <1>4
  <2>2. r.ts = n.ts /\ r.of = {n}
    BY <1>2
  <2>3. n.ts <= m.ts
    BY <2>1, <2>2, <1>4
  <2>4. n.ts = m.ts => r = Newest(group)
    BY <2>1, <2>2, <1>1, <1>4 DEF IInv, OneRowPerKey, SameKey
  <2> QED
    BY <2>1, <2>2, <2>3, <2>4
<1>8. /\ made.series = s /\ made.ts = b /\ made.of = AggregateOf(s, group)
      /\ made.exact = TRUE /\ made \in Row
  <2>1. made = [series |-> s, ts |-> b, of |-> AggregateOf(s, group), exact |-> TRUE,
                tag |-> Newest(group).tag]
    BY <1>5 DEF Aggregate
  <2>2. AggregateOf(s, group) \subseteq Sample /\ Newest(group).tag \in Tag
    BY <1>3, <1>4, <1>6
  <2> QED
    BY <2>1, <2>2, <1>1 DEF Row
<1> HIDE DEF made
<1> QED
  BY <1>6, <1>7, <1>8 DEF s, b, group, made

\* A row after the second transaction was there before it and was not in a
\* bucket to average, or is the row of such a bucket.
LEMMA RowsOfCollapse ==
    ASSUME IInv, Collapse, NEW r \in rows'
    PROVE  \/ /\ r \in rows
              /\ \A k \in Candidates(expiring) : ~ (r.series = k[1] /\ Bucket(r.ts) = k[2])
           \/ \E k \in Candidates(expiring) : r = Aggregate(k[1], k[2], Group(k[1], k[2], expiring))
<1>1. expiring # NoTime
  BY DEF Collapse
<1>2. ASSUME r \in rows, NEW k \in Candidates(expiring), r.series = k[1], Bucket(r.ts) = k[2]
      PROVE  r \in Deleted(k[1], k[2])
  BY <1>1, <1>2, CandidateGroups
<1> QED
  BY <1>2 DEF Collapse

\* The second transaction settles every bucket it averages.
LEMMA CollapseInv == IInv /\ Collapse => IInv'
<1> SUFFICES ASSUME IInv, Collapse PROVE IInv'
  OBVIOUS
<1> USE BoundAssumption, WindowAssumption
<1> DEFINE Made(k) == Aggregate(k[1], k[2], Group(k[1], k[2], expiring))
           Cand == Candidates(expiring)
           Left(r) == r \in rows /\ \A k \in Cand : ~ (r.series = k[1] /\ Bucket(r.ts) = k[2])
<1>0. /\ UNCHANGED <<clock, peak, stamp, ticks>> /\ passed' = expiring
      /\ queue # <<>> /\ queue' = Tail(queue) /\ expiring # NoTime /\ expiring' = NoTime
      /\ expiring \in 0..MaxClock /\ expiring \in Int
      /\ TypeOK /\ peak \in Int /\ ticks \in Int
  BY DEF Collapse, Take, IInv, TypeOK
<1>1. \A r \in rows' : Left(r) \/ \E k \in Cand : r = Made(k)
  BY RowsOfCollapse
<1>2. \A k \in Cand :
         /\ Made(k) \in Row /\ Made(k).exact /\ Made(k).of # {}
         /\ Made(k).series = k[1] /\ Made(k).ts = k[2] /\ k[2] = Bucket(k[2]) /\ k[2] \in Int
         /\ \A m \in Made(k).of : m \in Sample /\ m.series = k[1] /\ Bucket(m.ts) = k[2]
                                 /\ \E r \in rows : m \in r.of
         /\ k[2] + Width <= Cutoff(expiring)
         /\ k[2] + Width + RawWindow <= peak
         /\ \A m \in Waiting' : k[2] + Width <= m.ts
  <2> SUFFICES ASSUME NEW k \in Cand
               PROVE  /\ Made(k) \in Row /\ Made(k).exact /\ Made(k).of # {}
                      /\ Made(k).series = k[1] /\ Made(k).ts = k[2] /\ k[2] = Bucket(k[2]) /\ k[2] \in Int
                      /\ \A m \in Made(k).of : m \in Sample /\ m.series = k[1] /\ Bucket(m.ts) = k[2]
                                              /\ \E r \in rows : m \in r.of
                      /\ k[2] + Width <= Cutoff(expiring)
                      /\ k[2] + Width + RawWindow <= peak
                      /\ \A m \in Waiting' : k[2] + Width <= m.ts
    BY Zenon
  <2>1. /\ Group(k[1], k[2], expiring) \subseteq rows /\ k[2] \in Int /\ k[2] = Bucket(k[2])
        /\ k[2] + Width + RawWindow <= expiring /\ expiring <= peak
        /\ k[2] + Width <= Cutoff(expiring)
        /\ \A m \in Waiting' : k[2] + Width <= m.ts
    BY <1>0, CandidateGroups
  <2>2. k[2] + Width + RawWindow <= peak
    BY <2>1, <1>0
  <2>3. /\ Made(k) \in Row /\ Made(k).exact /\ Made(k).of # {}
        /\ Made(k).series = k[1] /\ Made(k).ts = k[2]
        /\ \A m \in Made(k).of : m \in Sample /\ m.series = k[1] /\ Bucket(m.ts) = k[2]
                                /\ \E r \in Group(k[1], k[2], expiring) : m \in r.of
    BY <1>0, AggregateOfRaw
  <2> HIDE DEF Made
  <2> QED
    BY <2>1, <2>2, <2>3
<1>3. \A k, l \in Cand : k[1] = l[1] /\ k[2] = l[2] => k = l
  BY DEF Candidates
<1> HIDE DEF Made, Cand
<1>4. TypeOK'
  <2>1. rows' \subseteq Row
    BY <1>0, <1>1, <1>2 DEF TypeOK
  <2> QED
    BY <1>0, <2>1, PopInv DEF IInv, TypeOK
<1>5. ASSUME NEW r \in rows', NEW q \in rows', r.series = q.series, Bucket(r.ts) = Bucket(q.ts),
             (\E k \in Cand : r = Made(k)) \/ (\E k \in Cand : q = Made(k))
      PROVE  r = q
  BY <1>1, <1>2, <1>3, <1>5
<1>6. OneRowPerKey'
  <2> SUFFICES ASSUME NEW r \in rows', NEW q \in rows', r.series = q.series, r.ts = q.ts PROVE r = q
    BY DEF OneRowPerKey, SameKey
  <2>1. CASE r \in rows /\ q \in rows
    BY <2>1 DEF IInv, OneRowPerKey, SameKey
  <2> QED
    BY <2>1, <1>1, <1>5
<1>7. RowsOlder'
  <2> SUFFICES ASSUME NEW r \in rows', NEW m \in r.of
               PROVE  m.tick <= ticks /\ \A n \in Waiting' : m.tick < n.tick
    BY <1>0 DEF RowsOlder
  <2>1. \E o \in rows : m \in o.of
    BY <1>1, <1>2
  <2> QED
    BY <2>1, <1>0, PopInv DEF IInv, RowsOlder
<1>8. RowsSettled'
  <2> SUFFICES ASSUME NEW r \in rows' PROVE Raw(r) \/ Settled(r)'
    BY DEF RowsSettled, Raw
  <2>1. CASE \E k \in Cand : r = Made(k)
    <3>1. \A q \in rows' : q.series = r.series /\ Bucket(q.ts) = r.ts => q = r
      BY <2>1, <1>2, <1>5
    <3> QED
      BY <2>1, <3>1, <1>0, <1>2 DEF Settled
  <2>2. CASE Left(r) /\ Settled(r)
    <3>1. \A q \in rows' : q.series = r.series /\ Bucket(q.ts) = r.ts => q = r
      BY <2>2, <1>1, <1>2 DEF Settled
    <3> QED
      BY <2>2, <3>1, <1>0, PopInv DEF Settled
  <2> QED
    BY <2>1, <2>2, <1>1 DEF IInv, RowsSettled
<1>9. PassIsThorough'
  <2> SUFFICES ASSUME NEW r \in rows'
               PROVE  /\ r.ts < Cutoff(expiring) =>
                            /\ r.ts = Bucket(r.ts)
                            /\ \A q \in rows' : q.series = r.series /\ Bucket(q.ts) = r.ts => q = r
                      /\ r.ts > expiring - Retention - Width
    BY <1>0 DEF PassIsThorough
  <2>0. \A o \in rows : /\ o.series \in Series /\ o.ts \in Int /\ Bucket(o.ts) \in Int
                        /\ Bucket(o.ts) \in 0..MaxClock
                        /\ Bucket(o.ts) <= o.ts /\ o.ts < Bucket(o.ts) + Width
                        /\ Bucket(Bucket(o.ts)) = Bucket(o.ts) /\ o.ts >= expiring - Retention
    <3> SUFFICES ASSUME NEW o \in rows
                 PROVE  /\ o.series \in Series /\ o.ts \in Int /\ Bucket(o.ts) \in Int
                        /\ Bucket(o.ts) \in 0..MaxClock
                        /\ Bucket(o.ts) <= o.ts /\ o.ts < Bucket(o.ts) + Width
                        /\ Bucket(Bucket(o.ts)) = Bucket(o.ts) /\ o.ts >= expiring - Retention
      OBVIOUS
    <3>1. o.series \in Series /\ o.ts \in 0..MaxClock /\ o.ts \in Int /\ o.ts \in Nat
      BY <1>0, RowTyped
    <3>2. /\ Bucket(o.ts) \in Int /\ Bucket(o.ts) <= o.ts /\ o.ts < Bucket(o.ts) + Width
          /\ Bucket(Bucket(o.ts)) = Bucket(o.ts) /\ Bucket(o.ts) \in Nat
      BY <3>1, BucketOfTime
    <3>3. o.ts >= expiring - Retention
      BY <1>0 DEF IInv, RowsKept
    <3> QED
      BY <3>1, <3>2, <3>3
  <2>1. CASE \E k \in Cand : r = Made(k)
    <3>1. PICK k \in Cand : r = Made(k)
      BY <2>1
    <3>2. r.ts = Bucket(r.ts) /\ \A q \in rows' : q.series = r.series /\ Bucket(q.ts) = r.ts => q = r
      BY <3>1, <2>1, <1>2, <1>5
    <3>3. PICK o \in rows : Bucket(o.ts) = k[2]
      BY <1>0, CandidateGroups DEF Cand
    <3>4. r.ts = k[2] /\ k[2] \in Int
      BY <3>1, <1>2
    <3>5. r.ts > expiring - Retention - Width
      BY <3>3, <3>4, <2>0, <1>0
    <3> QED
      BY <3>2, <3>5
  <2>2. CASE Left(r)
    <3>1. r.ts > expiring - Retention - Width
      BY <2>0, <2>2, <1>0
    <3>2. ASSUME r.ts < Cutoff(expiring)
          PROVE  /\ r.ts = Bucket(r.ts)
                 /\ \A q \in rows' : q.series = r.series /\ Bucket(q.ts) = r.ts => q = r
      <4> DEFINE b == Bucket(r.ts)
                 group == Group(r.series, b, expiring)
      <4>1. r \in group
        BY <2>2, <3>2 DEF Group
      <4>2. <<r.series, b>> \in Series \X (0..MaxClock) /\ <<r.series, b>> \notin Cand
        BY <2>0, <2>2
      <4>3. Collapsed(b, group)
        BY <4>1, <4>2 DEF Cand, Candidates
      <4>4. r.ts = b
        BY <4>1, <4>3 DEF Collapsed
      <4>5. ASSUME NEW q \in rows', q.series = r.series, Bucket(q.ts) = r.ts PROVE q = r
        <5>1. CASE Left(q)
          <6>1. Cutoff(expiring) \in Int /\ b + Width <= Cutoff(expiring)
            BY <1>0, <2>0, <2>2, <3>2, WholeBuckets
          <6>2. q.ts < Cutoff(expiring)
            BY <6>1, <5>1, <4>4, <4>5, <2>0, <2>2
          <6>3. q \in group
            BY <6>2, <5>1, <4>4, <4>5 DEF Group
          <6>4. q.ts = r.ts
            BY <6>3, <4>3, <4>4 DEF Collapsed
          <6> QED
            BY <6>4, <5>1, <4>5, <2>2 DEF IInv, OneRowPerKey, SameKey
        <5>2. CASE \E k \in Cand : q = Made(k)
          BY <5>2, <4>4, <4>5, <2>2, <1>2
        <5> QED
          BY <5>1, <5>2, <1>1
      <4> QED
        BY <4>4, <4>5
    <3> QED
      BY <3>1, <3>2
  <2> QED
    BY <2>1, <2>2, <1>1
<1>10. RowsKept'
  BY <1>0 DEF RowsKept
<1> QED
  BY <1>0, <1>4, <1>6, <1>7, <1>8, <1>9, <1>10, PopInv DEF IInv

\* A step that changes nothing.
LEMMA StutterInv == IInv /\ UNCHANGED vars => IInv'
<1> SUFFICES ASSUME IInv, UNCHANGED vars PROVE IInv'
  OBVIOUS
<1>0. UNCHANGED <<clock, peak, stamp, ticks, queue, rows, expiring, passed>>
  BY DEF vars
<1>1. TypeOK' /\ ClockNear' /\ StampNear' /\ ChannelOrdered' /\ RowsKept' /\ PassIsThorough'
  BY <1>0 DEF IInv, TypeOK, Take, ClockNear, StampNear, ChannelOrdered, RowsKept, PassIsThorough
<1>2. Waiting' = Waiting /\ peak \in Int /\ ticks \in Int
  BY <1>0, BoundAssumption DEF Waiting, IInv, TypeOK
<1>3. OneRowPerKey' /\ RowsOlder' /\ RowsSettled'
  BY <1>0, <1>2, RowsStay
<1> QED
  BY <1>1, <1>3 DEF IInv

-----------------------------------------------------------------------------
(* The invariants *)

\* The inductive invariant holds in every reachable state of the store.
THEOREM StoreInvariant == Spec => []IInv
<1>1. IInv /\ [Next]_vars => IInv'
  BY SetClockInv, StartTickInv, StartPassInv, EndTickInv, FailureInv, RestartInv, ExpireInv,
     WriteBatchInv, CollapseInv, StutterInv
  DEF Next, Sampler, Writer
<1> QED
  BY InitInv, <1>1, PTL DEF Spec

\* Every reachable state of the store, its channel and its clock is well typed.
THEOREM StoreTyped == Spec => []TypeOK
<1>1. IInv => TypeOK
  BY DEF IInv
<1> QED
  BY <1>1, StoreInvariant, PTL

\* The inductive invariant gives RowsAreMeasured: two rows with a sample in
\* common are in one bucket, and either of them is alone there or both are the
\* sample itself.
LEMMA RowsAreMeasuredOf == IInv => RowsAreMeasured
<1> SUFFICES ASSUME IInv PROVE RowsAreMeasured
  OBVIOUS
<1>1. ASSUME NEW r \in rows
      PROVE  r.of # {} /\ \A m \in r.of : m.series = r.series /\ Bucket(m.ts) = Bucket(r.ts)
  <2>1. CASE Raw(r)
    BY <2>1, RawRow
  <2>2. CASE Settled(r)
    BY <2>2 DEF Settled
  <2> QED
    BY <2>1, <2>2 DEF IInv, RowsSettled
<1>2. ASSUME NEW r \in rows, NEW q \in rows, r # q PROVE ~ SameKey(r, q)
  BY <1>2 DEF IInv, OneRowPerKey
<1>3. ASSUME NEW r \in rows, NEW q \in rows, NEW m \in r.of, m \in q.of PROVE r = q
  <2>1. r.series = q.series /\ Bucket(r.ts) = Bucket(q.ts)
    BY <1>1, <1>3
  <2>2. CASE Settled(r) \/ Settled(q)
    BY <2>1, <2>2 DEF Settled
  <2>3. CASE Raw(r) /\ Raw(q)
    BY <2>3, <1>3, RawRow
  <2> QED
    BY <2>2, <2>3 DEF IInv, RowsSettled
<1> QED
  BY <1>1, <1>2, <1>3 DEF RowsAreMeasured

\* Every stored value comes from samples of its own series and bucket, no
\* sample counts in two rows, and no two rows have the same key: maintain()
\* and write_batch() invent nothing and duplicate nothing.
THEOREM StoredRowsAreMeasured == Spec => []RowsAreMeasured
BY StoreInvariant, RowsAreMeasuredOf, PTL

\* No pass of maintain() averages a value that is already a mean: every stored
\* gauge is the plain mean of the samples behind it.
THEOREM StoredMeansAreExact == Spec => []MeansAreExact
<1>1. IInv => MeansAreExact
  BY RawRow DEF IInv, RowsSettled, Settled, MeansAreExact
<1> QED
  BY <1>1, StoreInvariant, PTL

\* Samples of the last RAW_WINDOW_MS are stored one by one, as measured,
\* whatever passes maintain() has made.
THEOREM RawWindowIsIntact == Spec => []RawWindowIntact
<1>1. ASSUME IInv PROVE RawWindowIntact
  <2> SUFFICES ASSUME NEW r \in rows, NEW m \in r.of, m.ts >= peak - RawWindow
               PROVE  r = Stored(m)
    BY DEF RawWindowIntact
  <2>1. CASE Raw(r)
    BY <2>1, RawRow
  <2>2. CASE Settled(r)
    <3>1. /\ m.ts \in Int /\ r.ts \in Int /\ peak \in Int /\ Width \in Int /\ RawWindow \in Int
      BY <1>1, RowTyped, SampleTyped, BoundAssumption, WindowAssumption DEF IInv, TypeOK
    <3>2. m.ts < r.ts + Width /\ r.ts + Width + RawWindow <= peak
      BY <2>2, <3>1, BucketOfTime DEF Settled
    <3> QED
      BY <3>1, <3>2
  <2> QED
    BY <2>1, <2>2, <1>1 DEF IInv, RowsSettled
<1> QED
  BY <1>1, StoreInvariant, PTL

\* When maintain() has finished, what is older than its cutoff is one row for
\* each bucket, at the bucket's start, and what is left is no more than a
\* bucket older than the retention.
THEOREM PassesAreThorough == Spec => []PassIsThorough
<1>1. IInv => PassIsThorough
  BY DEF IInv
<1> QED
  BY <1>1, StoreInvariant, PTL

-----------------------------------------------------------------------------
(* Why samples leave the table *)

\* The retention delete takes only what is past the retention.
LEMMA ExpireLeaves == IInv /\ Expire => LeavesForAReason
<1> SUFFICES ASSUME IInv, Expire, NEW m, NEW r \in rows, m \in r.of, r \notin rows'
             PROVE  Expired(m)
  BY DEF LeavesForAReason, Held
<1> USE BoundAssumption, WindowAssumption
<1> DEFINE now == Head(queue).now
<1>1. TypeOK /\ queue # <<>> /\ ~ (r.ts >= now - Retention)
  BY DEF Expire, Take, IInv, TypeOK
<1>2. now \in Int /\ now <= peak /\ peak \in Int
  BY <1>1, Pop, CommandTyped DEF IInv, ChannelOrdered, TypeOK
<1>3. /\ m \in Sample /\ m.ts \in Int /\ r.ts \in Int
      /\ Bucket(m.ts) = Bucket(r.ts)
  BY <1>1, RowTyped, SampleTyped, RowsAreMeasuredOf DEF RowsAreMeasured
<1>4. /\ Bucket(r.ts) \in Int /\ Bucket(r.ts) <= r.ts /\ m.ts < Bucket(r.ts) + Width
  BY <1>3, BucketOfTime
<1> HIDE DEF now
<1>5. m.ts < peak - Retention + Width
  BY <1>1, <1>2, <1>3, <1>4
<1> QED
  BY <1>5 DEF Expired

\* A batch replaces only samples of an older tick at the same key.
LEMMA WriteBatchLeaves == IInv /\ WriteBatch => LeavesForAReason
<1> SUFFICES ASSUME IInv, WriteBatch, NEW m, NEW r \in rows, m \in r.of, r \notin rows'
             PROVE  Replaced(m)
  BY DEF LeavesForAReason, Held
<1> USE BoundAssumption, WindowAssumption
<1> DEFINE batch == Head(queue).batch
<1>1. /\ TypeOK /\ queue # <<>>
      /\ rows' = {o \in rows : ~ \E n \in batch : SameKey(o, n)} \union {Stored(n) : n \in batch}
  BY DEF WriteBatch, Take, IInv, TypeOK
<1>2. PICK n \in batch : r.series = n.series /\ r.ts = n.ts
  BY <1>1 DEF SameKey
<1>3. n \in Sample /\ n \in Waiting
  BY <1>1, <1>2, Pop, CommandTyped DEF Waiting
<1>4. m.tick < n.tick /\ m.tick \in Int /\ n.tick \in Int
  BY <1>1, <1>3, RowTyped, SampleTyped DEF IInv, RowsOlder
<1>5. ~ Settled(r)
  <2>1. r.ts \in Int /\ Width \in Nat \ {0}
    BY <1>1, RowTyped
  <2>2. Settled(r) => r.ts + Width <= r.ts
    BY <1>2, <1>3 DEF Settled
  <2> QED
    BY <2>1, <2>2
<1>6. m.series = r.series /\ m.ts = r.ts
  BY <1>5, RawRow DEF IInv, RowsSettled
<1>7. Stored(n) \in rows' /\ Stored(n).series = n.series /\ Stored(n).ts = n.ts /\ Stored(n).of = {n}
  BY <1>1 DEF Stored
<1> HIDE DEF batch
<1>8. n.tick > m.tick
  BY <1>4
<1> QED
  BY <1>2, <1>6, <1>7, <1>8 DEF Replaced, SameKey

\* A collapse keeps every sample of a gauge, and of a counter the last of the
\* bucket.
LEMMA CollapseLeaves == IInv /\ Collapse => LeavesForAReason
<1> SUFFICES ASSUME IInv, Collapse, NEW m, NEW r \in rows, m \in r.of, r \notin rows',
                    m \notin UNION {o.of : o \in rows'}
             PROVE  Superseded(m)
  BY DEF LeavesForAReason, Held
<1>0. expiring # NoTime /\ TypeOK
  BY DEF Collapse, IInv
<1>1. PICK k \in Candidates(expiring) : r \in Deleted(k[1], k[2])
  BY DEF Collapse
<1> DEFINE made == Aggregate(k[1], k[2], Group(k[1], k[2], expiring))
<1>2. /\ r \in Group(k[1], k[2], expiring) /\ r.series = k[1] /\ Bucket(r.ts) = k[2]
      /\ k[1] \in Series
  BY <1>0, <1>1, CandidateGroups
<1>3. made \in rows'
  BY DEF Collapse
<1>4. /\ made.series = k[1]
      /\ \A n \in made.of : n \in Sample /\ n.series = k[1] /\ Bucket(n.ts) = k[2]
      /\ k[1] \notin Counter => r.of \subseteq made.of
      /\ k[1] \in Counter => \E n \in made.of : m.ts <= n.ts /\ (m.ts = n.ts => m = n)
  BY <1>0, <1>2, AggregateOfRaw
<1> HIDE DEF made
<1>5. k[1] \in Counter
  BY <1>3, <1>4
<1>6. PICK n \in made.of : m.ts <= n.ts /\ (m.ts = n.ts => m = n)
  BY <1>4, <1>5
<1>7. m \in Sample /\ m.ts \in Int /\ n.ts \in Int /\ m # n
  BY <1>0, <1>3, <1>4, <1>6, RowTyped, SampleTyped
<1>8. n.ts > m.ts
  BY <1>6, <1>7
<1>9. m.series = r.series /\ Bucket(m.ts) = Bucket(r.ts)
  BY RowsAreMeasuredOf DEF RowsAreMeasured
<1> QED
  BY <1>2, <1>3, <1>4, <1>5, <1>6, <1>8, <1>9 DEF Superseded

\* No sample is in the channel and in a row: the samples in the channel are of
\* later ticks than those in the rows.
LEMMA WaitingNotHeld == TypeOK /\ RowsOlder => Waiting \intersect Held = {}
<1> SUFFICES ASSUME TypeOK, RowsOlder, NEW m \in Waiting, NEW r \in rows, m \in r.of
             PROVE  FALSE
  BY DEF Held
<1>1. m \in Sample /\ m.tick \in Int
  BY RowTyped, SampleTyped
<1>2. m.tick < m.tick
  BY DEF RowsOlder
<1> QED
  BY <1>1, <1>2

\* Whatever the step does to the first command, it stores nothing of the others;
\* and of the first it stores all or nothing.
LEMMA BatchesStayWhole == IInv /\ IInv' /\ Next => BatchesAreWhole
<1> SUFFICES ASSUME IInv, IInv', Next, NEW c \in DOMAIN queue
             PROVE  queue[c].batch \subseteq Held' \/ queue[c].batch \intersect Held' = {}
  BY DEF BatchesAreWhole
<1>1. TypeOK /\ RowsOlder /\ TypeOK' /\ RowsOlder'
  BY DEF IInv
<1>2. rows' \subseteq rows => queue[c].batch \intersect Held' = {}
  <2>1. \A m \in queue[c].batch : m \notin Held
    BY <1>1, WaitingNotHeld DEF Waiting
  <2>2. rows' \subseteq rows => Held' \subseteq Held
    BY DEF Held
  <2> QED
    BY <2>1, <2>2
<1>3. ASSUME c \in DOMAIN queue \ {1}, queue # <<>>, queue' = Tail(queue)
      PROVE  queue[c].batch \intersect Held' = {}
  <2>1. queue \in Seq(Commands)
    BY <1>1 DEF TypeOK
  <2>2. c - 1 \in DOMAIN queue' /\ queue'[c - 1] = queue[c]
    BY <1>3, <2>1
  <2>3. queue[c].batch \subseteq Waiting'
    BY <2>2 DEF Waiting
  <2>4. (Waiting \intersect Held = {})'
    BY <1>1, WaitingNotHeld, PTL
  <2> QED
    BY <2>3, <2>4
<1>4. CASE WriteBatch
  <2>1. queue # <<>> /\ queue' = Tail(queue)
    BY <1>4 DEF WriteBatch, Take
  <2>2. c = 1 => queue[c].batch \subseteq Held'
    <3> SUFFICES ASSUME NEW m \in Head(queue).batch PROVE m \in Held'
      BY <1>1, <2>1 DEF TypeOK
    <3>1. Stored(m) \in rows' /\ m \in Stored(m).of
      BY <1>4 DEF WriteBatch, Stored
    <3> QED
      BY <3>1 DEF Held
  <2> QED
    BY <1>3, <2>1, <2>2
<1>5. CASE Collapse
  <2>1. Take("maintain") /\ queue' = Tail(queue) /\ queue # <<>>
    BY <1>1, <1>5 DEF Collapse, TypeOK, Take
  <2>2. c = 1 => queue[c].batch = {}
    BY <1>1, <2>1, CommandTyped DEF TypeOK, Take
  <2> QED
    BY <1>3, <2>1, <2>2
<1>6. CASE rows' \subseteq rows
  BY <1>2, <1>6
<1>7. WriteBatch \/ Collapse \/ rows' \subseteq rows
  BY DEF Next, Sampler, Writer, SetClock, StartTick, EndTick, EndEmptyTick, StartPass,
         WriteFails, Expire, PassFails, Restart
<1> QED
  BY <1>4, <1>5, <1>6, <1>7

\* A stored sample leaves the table only because it is past the retention, a
\* later tick replaced it, or a later reading of its counter stands for it: no
\* other step of the writer, no failure and no restart loses one.  And a batch
\* is never stored in part.
THEOREM StoreLosesNothingElse == Spec => NothingElseIsLost
<1>1. IInv /\ Next => LeavesForAReason
  <2> SUFFICES ASSUME IInv, Next PROVE LeavesForAReason
    OBVIOUS
  <2>1. rows' = rows => LeavesForAReason
    BY DEF LeavesForAReason, Held
  <2> QED
    BY <2>1, ExpireLeaves, WriteBatchLeaves, CollapseLeaves
    DEF Next, Sampler, Writer, SetClock, StartTick, EndTick, EndEmptyTick, StartPass,
        WriteFails, PassFails, Restart
<1>2. IInv /\ IInv' /\ [Next]_vars => [LeavesForAReason /\ BatchesAreWhole]_vars
  BY <1>1, BatchesStayWhole
<1> QED
  BY <1>2, StoreInvariant, PTL DEF Spec, NothingElseIsLost
=============================================================================
