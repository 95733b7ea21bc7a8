------------------------- MODULE HistoryQueryProofs -------------------------
(***************************************************************************)
(* Proofs about HistoryQuery, for every set of rows the store can come to  *)
(* hold, every range and every step, however many rows there are.          *)
(*                                                                         *)
(* Reading is two loops over the rows of a range in their order: one cuts  *)
(* them into slices, one collects tags.  Each loop is a function of how    *)
(* many rows have been taken.  That there is such a function is Recursion; *)
(* that its values satisfy Sliced and Tagged, whatever was taken, is UpTo. *)
(* The rest is about one finished answer: a slice is all of its bucket, a  *)
(* bucket without a plain mean holds a settled row, and there are no more  *)
(* buckets than the parameters allow.                                      *)
(***************************************************************************)
EXTENDS HistoryQuery, HistoryStoreProofs, Induction

-----------------------------------------------------------------------------
(* The rows of a series in the order of their times *)

\* Rows that have a time, and no two of them the same.
Dated(found) ==
    /\ \A r \in found : r.ts \in 0..MaxClock
    /\ \A r, q \in found : r.ts = q.ts => r = q

Sorted(read) == \A i, j \in DOMAIN read : i < j => read[i].ts < read[j].ts

\* A series has finitely many rows: as many as it has times at most.
LEMMA DatedFinite ==
    ASSUME NEW found, Dated(found)
    PROVE  /\ IsFiniteSet(found) /\ Cardinality(found) \in Nat
           /\ \A a, b \in Int : (\A r \in found : a <= r.ts /\ r.ts <= b) =>
                 Cardinality(found) <= IF a > b THEN 0 ELSE b - a + 1
<1> DEFINE f == [r \in found |-> r.ts]
<1>1. ASSUME NEW a \in Int, NEW b \in Int, \A r \in found : r.ts \in a..b
      PROVE  IsFiniteSet(found) /\ Cardinality(found) <= Cardinality(a..b)
  <2>1. f \in Injection(found, a..b)
    BY <1>1 DEF Dated, Injection, IsInjective
  <2>2. IsFiniteSet(a..b)
    BY FS_Interval
  <2> QED
    BY <2>1, <2>2, FS_Injection
<1>2. IsFiniteSet(found)
  BY <1>1, BoundAssumption DEF Dated
<1>3. Cardinality(found) \in Nat
  BY <1>2, FS_CardinalityType
<1>4. ASSUME NEW a \in Int, NEW b \in Int, \A r \in found : a <= r.ts /\ r.ts <= b
      PROVE  Cardinality(found) <= IF a > b THEN 0 ELSE b - a + 1
  <2>1. \A r \in found : r.ts \in a..b
    BY <1>4, BoundAssumption DEF Dated
  <2>2. Cardinality(found) <= Cardinality(a..b)
    BY <1>1, <2>1
  <2> QED
    BY <2>2, FS_Interval
<1> QED
  BY <1>2, <1>3, <1>4

\* They can be put in order: all but the newest first, and then the newest.
LEMMA SortedExists ==
    ASSUME NEW all, Dated(all)
    PROVE  \E read \in [1..Cardinality(all) -> all] : Sorted(read)
<1> DEFINE n == Cardinality(all)
           Sortable(found) == \E read \in [1..Cardinality(found) -> found] : Sorted(read)
           T == {i \in 0..n : \A found \in SUBSET all : Cardinality(found) = i => Sortable(found)}
<1>0. IsFiniteSet(all) /\ n \in Nat
  BY DatedFinite
<1>a. \A found \in SUBSET all : IsFiniteSet(found) /\ Cardinality(found) \in Nat
  BY <1>0, FS_Subset, FS_CardinalityType
<1>1. 0 \in T
  <2> SUFFICES ASSUME NEW found \in SUBSET all, Cardinality(found) = 0 PROVE Sortable(found)
    BY <1>0
  <2>1. << >> \in [1..0 -> found] /\ Sorted(<< >>)
    BY DEF Sorted
  <2> QED
    BY <2>1
<1>2. ASSUME NEW i \in 0..(n - 1), i \in T PROVE i + 1 \in T
  <2> SUFFICES ASSUME NEW found \in SUBSET all, Cardinality(found) = i + 1 PROVE Sortable(found)
    BY <1>0
  <2>0. i \in Nat /\ i + 1 \in Nat
    BY <1>0
  <2>1. found # {}
    BY <2>0, FS_EmptySet
  <2> DEFINE r == Newest(found)
             older == found \ {r}
  <2>2. r \in found /\ \A q \in found : q.ts <= r.ts
    BY <2>1, NewestExists DEF Dated
  <2> HIDE DEF r
  <2>3. Cardinality(older) = i /\ older \in SUBSET all
    <3>1. Cardinality(older) = Cardinality(found) - 1
      BY <1>a, <2>2, FS_RemoveElement
    <3> QED
      BY <2>0, <3>1
  <2>4. PICK read \in [1..i -> older] : Sorted(read)
    BY <1>2, <2>3
  <2> DEFINE longer == [j \in 1..(i + 1) |-> IF j = i + 1 THEN r ELSE read[j]]
  <2>5. \A q \in older : q \in found /\ q.ts < r.ts
    <3> SUFFICES ASSUME NEW q \in older PROVE q.ts < r.ts
      OBVIOUS
    <3>1. q # r /\ q \in all /\ r \in all /\ q.ts <= r.ts
      BY <2>2
    <3>2. q.ts \in Int /\ r.ts \in Int /\ q.ts # r.ts
      BY <3>1, BoundAssumption DEF Dated
    <3> QED
      BY <3>1, <3>2
  <2>6. longer \in [1..(i + 1) -> found]
    BY <2>0, <2>2, <2>4, <2>5
  <2>7. Sorted(longer)
    <3> SUFFICES ASSUME NEW j \in 1..(i + 1), NEW k \in 1..(i + 1), j < k
                 PROVE  longer[j].ts < longer[k].ts
      BY DEF Sorted
    <3>1. j \in 1..i /\ longer[j] = read[j] /\ read[j] \in older
      BY <2>0, <2>4
    <3>2. CASE k = i + 1
      BY <2>5, <3>1, <3>2
    <3>3. CASE k # i + 1
      <4>1. k \in 1..i /\ longer[k] = read[k]
        BY <2>0, <3>3
      <4> QED
        BY <2>4, <3>1, <4>1 DEF Sorted
    <3> QED
      BY <3>2, <3>3
  <2> QED
    BY <2>6, <2>7
<1>3. n \in T
  <2> HIDE DEF T, n
  <2> QED
    BY <1>0, <1>1, <1>2, UpTo
<1> QED
  BY <1>3

\* ORDER BY ts gives every row once, the oldest first.
LEMMA OrderedRows ==
    ASSUME NEW found, Dated(found)
    PROVE  LET read == Ordered(found)
           IN  /\ read \in [1..Cardinality(found) -> found] /\ Cardinality(found) \in Nat
               /\ Sorted(read)
               /\ \A r \in found : \E i \in 1..Cardinality(found) : read[i] = r
<1> DEFINE read == Ordered(found)
           n == Cardinality(found)
<1>1. read \in [1..n -> found] /\ Sorted(read)
  BY SortedExists DEF Ordered, Sorted
<1>2. IsFiniteSet(found) /\ n \in Nat
  BY DatedFinite
<1> HIDE DEF read
<1>3. IsFiniteSet(1..n) /\ Cardinality(1..n) = n
  BY <1>2, FS_Interval
<1>4. read \in Injection(1..n, found)
  <2>1. ASSUME NEW i \in 1..n, NEW j \in 1..n, i < j PROVE read[i] # read[j]
    <3>1. read[i].ts < read[j].ts /\ read[i].ts \in Int
      BY <1>1, <2>1, BoundAssumption DEF Sorted, Dated
    <3> QED
      BY <3>1
  <2>2. \A i, j \in 1..n : read[i] = read[j] => i = j
    <3> SUFFICES ASSUME NEW i \in 1..n, NEW j \in 1..n, i # j PROVE read[i] # read[j]
      OBVIOUS
    <3>1. i < j \/ j < i
      BY <1>2
    <3> QED
      BY <2>1, <3>1
  <2> QED
    BY <1>1, <2>2 DEF Injection, IsInjective
<1>5. read \in Surjection(1..n, found)
  <2> HIDE DEF n
  <2> QED
    BY <1>2, <1>3, <1>4, FS_Injection DEF n
<1> QED
  BY <1>1, <1>2, <1>5 DEF read, Surjection

\* The first rows of a sequence.
Taken(read, i) == {read[j] : j \in 1..i}

\* Rows are taken in order: each is newer than all before it.
LEMMA OrderedReads ==
    ASSUME NEW found, Dated(found)
    PROVE  LET read == Ordered(found)
               n == Len(read)
           IN  /\ read \in Seq(found) /\ n \in Nat
               /\ Taken(read, 0) = {} /\ Taken(read, n) = found
               /\ \A i \in 0..(n - 1) :
                     /\ i + 1 \in 1..n /\ (i + 1) - 1 = i /\ i + 1 \in 0..n
                     /\ read[i + 1] \in found /\ Taken(read, i) \subseteq found
                     /\ \A q \in Taken(read, i) : q.ts < read[i + 1].ts
                     /\ Taken(read, i + 1) = Taken(read, i) \union {read[i + 1]}
<1> DEFINE read == Ordered(found)
           n == Cardinality(found)
<1>1. /\ read \in [1..n -> found] /\ n \in Nat /\ Sorted(read)
      /\ \A r \in found : \E i \in 1..n : read[i] = r
  BY OrderedRows
<1> HIDE DEF read, n
<1>2. read \in Seq(found) /\ Len(read) = n
  <2>1. read \in Seq(found)
    BY <1>1, SeqDef
  <2> QED
    BY <1>1, <2>1, LenProperties
<1>3. Taken(read, 0) = {} /\ Taken(read, n) = found
  BY <1>1 DEF Taken
<1>4. ASSUME NEW i \in 0..(n - 1)
      PROVE  /\ i + 1 \in 1..n /\ (i + 1) - 1 = i /\ i + 1 \in 0..n
             /\ read[i + 1] \in found /\ Taken(read, i) \subseteq found
             /\ \A q \in Taken(read, i) : q.ts < read[i + 1].ts
             /\ Taken(read, i + 1) = Taken(read, i) \union {read[i + 1]}
  <2>1. i + 1 \in 1..n /\ i \in Nat /\ (i + 1) - 1 = i /\ i + 1 \in 0..n /\ n \in Nat
    BY <1>1
  <2>2. read[i + 1] \in found /\ Taken(read, i) \subseteq found
    BY <1>1, <2>1 DEF Taken
  <2>3. \A q \in Taken(read, i) : q.ts < read[i + 1].ts
    <3> SUFFICES ASSUME NEW j \in 1..i PROVE read[j].ts < read[i + 1].ts
      BY DEF Taken
    <3>1. j \in 1..n /\ j < i + 1
      BY <2>1
    <3> QED
      BY <1>1, <2>1, <3>1 DEF Sorted
  <2>4. Taken(read, i + 1) = Taken(read, i) \union {read[i + 1]}
    <3>1. 1..(i + 1) = (1..i) \union {i + 1}
      BY <2>1
    <3> QED
      BY <3>1 DEF Taken
  <2> QED
    BY <2>1, <2>2, <2>3, <2>4
<1> QED
  BY <1>1, <1>2, <1>3, <1>4 DEF read

-----------------------------------------------------------------------------
(* Buckets of any width *)

\* A multiple of w that is above another is above it by w.
LEMMA Multiples ==
    ASSUME NEW a \in Int, NEW b \in Int, NEW w \in Nat \ {0}
    PROVE  /\ a <= b => a * w <= b * w
           /\ a < b => a * w + w <= b * w
<1>1. ASSUME a <= b PROVE a * w <= b * w
  <2> DEFINE d == b - a
  <2>1. d \in Nat /\ b = a + d
    BY <1>1
  <2> HIDE DEF d
  <2>2. d * w \in Nat
    BY <2>1
  <2>3. (a + d) * w = a * w + d * w
    BY <2>1
  <2> QED
    BY <2>1, <2>2, <2>3
<1>2. ASSUME a < b PROVE a * w + w <= b * w
  <2> DEFINE d == b - a - 1
  <2>1. d \in Nat /\ b = (a + 1) + d
    BY <1>2
  <2> HIDE DEF d
  <2>2. d * w \in Nat
    BY <2>1
  <2>3. ((a + 1) + d) * w = (a * w + w) + d * w
    BY <2>1
  <2> QED
    BY <2>1, <2>2, <2>3
<1> QED
  BY <1>1, <1>2

\* Later times are in later buckets, or in the same.
LEMMA Division ==
    ASSUME NEW x \in Int, NEW y \in Int, NEW w \in Nat \ {0}
    PROVE  /\ x \div w \in Int
           /\ (x \div w) * w <= x /\ x < (x \div w) * w + w
           /\ x <= y => x \div w <= y \div w
<1>1. /\ x \div w \in Int /\ (x \div w) * w <= x /\ x < (x \div w) * w + w
      /\ y \div w \in Int /\ (y \div w) * w <= y /\ y < (y \div w) * w + w
  OBVIOUS
<1> DEFINE a == x \div w
           b == y \div w
<1>2. ASSUME b < a PROVE b * w + w <= a * w
  BY <1>1, <1>2, Multiples
<1>3. a * w \in Int /\ b * w \in Int
  BY <1>1
<1> HIDE DEF a, b
<1>4. x <= y => a <= b
  BY <1>1, <1>2, <1>3 DEF a, b
<1> QED
  BY <1>1, <1>4 DEF a, b

\* The start of a bucket is in it.
LEMMA WholeSteps ==
    ASSUME NEW a \in Int, NEW w \in Nat \ {0}
    PROVE  (a * w) \div w = a
<1> DEFINE b == (a * w) \div w
<1>1. a * w \in Int
  OBVIOUS
<1>2. b \in Int /\ b * w <= a * w /\ a * w < b * w + w
  BY <1>1, Division
<1> HIDE DEF b
<1>3. b < a => b * w + w <= a * w
  BY <1>2, Multiples
<1>4. a < b => a * w + w <= b * w
  BY <1>2, Multiples
<1>5. b * w \in Int
  BY <1>2
<1>6. ~ (b < a) /\ ~ (a < b)
  BY <1>1, <1>2, <1>3, <1>4, <1>5
<1> QED
  BY <1>2, <1>6 DEF b

\* The start of a bucket tells which bucket it is.
LEMMA Starts ==
    ASSUME NEW r, NEW q, r.ts \in Int, q.ts \in Int, NEW width \in Nat \ {0}
    PROVE  /\ Start(r, width) \in Int
           /\ r.ts <= q.ts => Start(r, width) <= Start(q, width)
           /\ Start(r, width) = Start(q, width) => r.ts \div width = q.ts \div width
           /\ Start(r, 1) = r.ts
<1>1. r.ts \div width \in Int /\ q.ts \div width \in Int
  BY Division
<1>2. r.ts <= q.ts => Start(r, width) <= Start(q, width)
  BY <1>1, Division, Multiples DEF Start
<1>3. ASSUME Start(r, width) = Start(q, width) PROVE r.ts \div width = q.ts \div width
  <2>1. ~ (r.ts \div width < q.ts \div width) /\ ~ (q.ts \div width < r.ts \div width)
    BY <1>1, <1>3, Multiples DEF Start
  <2> QED
    BY <1>1, <2>1
<1>4. Start(r, 1) = r.ts
  BY DEF Start
<1> QED
  BY <1>1, <1>2, <1>3, <1>4 DEF Start

-----------------------------------------------------------------------------
(* Slices *)

\* Rows of one bucket, the newest of them at the end.
OneBucket(slice, width) ==
    \A i \in DOMAIN slice :
        Start(slice[i], width) = Start(Head(slice), width) /\ slice[i].ts <= Last(slice).ts

\* What has been taken of the rows, one slice for each bucket, oldest first.
Sliced(slices, taken, found, width) ==
    /\ slices \in Seq(Seq(found))
    /\ \A a \in DOMAIN slices : slices[a] # <<>> /\ OneBucket(slices[a], width)
    /\ \A a, b \in DOMAIN slices : a < b =>
          Start(Head(slices[a]), width) < Start(Head(slices[b]), width)
    /\ \A a \in DOMAIN slices : ToSet(slices[a]) \subseteq taken
    /\ \A r \in taken : \E a \in DOMAIN slices : r \in ToSet(slices[a])

\* The rows of a slice that gets one more.
LEMMA AppendRow ==
    ASSUME NEW found, NEW slice \in Seq(found), NEW r \in found
    PROVE  /\ Append(slice, r) \in Seq(found) /\ Append(slice, r) # <<>>
           /\ ToSet(Append(slice, r)) = ToSet(slice) \union {r}
           /\ Last(Append(slice, r)) = r
           /\ Head(Append(slice, r)) = IF slice = <<>> THEN r ELSE Head(slice)
           /\ DOMAIN Append(slice, r) = 1..(Len(slice) + 1) /\ Len(slice) \in Nat
           /\ DOMAIN slice = 1..Len(slice)
<1>1. /\ Append(slice, r) \in Seq(found) /\ Append(slice, r) # <<>>
      /\ Len(Append(slice, r)) = Len(slice) + 1 /\ Len(slice) \in Nat
      /\ \A i \in 1..Len(slice) : Append(slice, r)[i] = slice[i]
      /\ Append(slice, r)[Len(slice) + 1] = r
  BY AppendProperties, LenProperties
<1>2. DOMAIN Append(slice, r) = 1..(Len(slice) + 1) /\ DOMAIN slice = 1..Len(slice)
  BY <1>1, LenProperties
<1>3. ToSet(Append(slice, r)) = ToSet(slice) \union {r}
  BY <1>1, <1>2 DEF ToSet
<1>4. Head(Append(slice, r)) = IF slice = <<>> THEN r ELSE Head(slice)
  BY HeadTailAppend
<1> QED
  BY <1>1, <1>2, <1>3, <1>4 DEF Last

\* A row that is newer than all before it joins the last slice or begins one.
LEMMA SliceOne ==
    ASSUME NEW found, Dated(found), NEW width \in Nat \ {0},
           NEW slices, NEW taken, taken \subseteq found, Sliced(slices, taken, found, width),
           NEW r \in found, \A q \in taken : q.ts < r.ts
    PROVE  Sliced(Slice(slices, r, width), taken \union {r}, found, width)
<1> DEFINE L == Len(slices)
<1>1. /\ slices \in Seq(Seq(found)) /\ L \in Nat /\ DOMAIN slices = 1..L
      /\ \A a \in 1..L : slices[a] \in Seq(found)
      /\ slices # <<>> => L \in 1..L
  BY LenProperties, ElementOfSeq, EmptySeq DEF Sliced
<1>2. ASSUME NEW a \in 1..L
      PROVE  /\ Head(slices[a]) \in taken /\ Head(slices[a]) \in found
             /\ slices[a] # <<>> /\ slices[a] \in Seq(found)
             /\ \A i \in DOMAIN slices[a] : slices[a][i] \in taken /\ slices[a][i] \in found
  <2>1. slices[a] \in Seq(found) /\ slices[a] # <<>>
    BY <1>1 DEF Sliced
  <2>2. Len(slices[a]) \in Nat \ {0} /\ DOMAIN slices[a] = 1..Len(slices[a])
    BY <2>1, EmptySeq, LenProperties
  <2>3. \A i \in DOMAIN slices[a] : slices[a][i] \in taken
    BY <1>1 DEF Sliced, ToSet
  <2>4. Head(slices[a]) = slices[a][1] /\ 1 \in DOMAIN slices[a]
    BY <2>1, <2>2
  <2> QED
    BY <2>1, <2>3, <2>4
<1>3. \A q \in found : q.ts \in Int
  BY BoundAssumption DEF Dated
<1>4. \A q \in taken : Start(q, width) <= Start(r, width)
  BY <1>3, Starts
<1>5. \A q \in found : Start(q, width) \in Int
  BY <1>3, Starts
<1>6. CASE slices # <<>> /\ Start(Head(Last(slices)), width) = Start(r, width)
  <2> DEFINE last == slices[L]
             more == Append(last, r)
             new == [slices EXCEPT ![L] = more]
  <2>1. Slice(slices, r, width) = new
    BY <1>6 DEF Slice, ReplaceAt, Last
  <2>2. last \in Seq(found) /\ L \in 1..L /\ last # <<>>
    BY <1>1, <1>2, <1>6
  <2>3. /\ more \in Seq(found) /\ more # <<>> /\ ToSet(more) = ToSet(last) \union {r}
        /\ Last(more) = r /\ Head(more) = Head(last)
    BY <2>2, AppendRow
  <2>4. OneBucket(more, width)
    <3> SUFFICES ASSUME NEW i \in DOMAIN more
                 PROVE  Start(more[i], width) = Start(Head(more), width) /\ more[i].ts <= Last(more).ts
      BY DEF OneBucket
    <3>1. more[i] \in ToSet(last) \union {r}
      BY <2>3 DEF ToSet
    <3>2. Start(r, width) = Start(Head(last), width)
      BY <1>6 DEF Last
    <3>3. CASE more[i] = r
      BY <1>3, <2>3, <3>2, <3>3
    <3>4. CASE more[i] \in ToSet(last)
      <4>1. PICK x \in DOMAIN last : more[i] = last[x]
        BY <3>4 DEF ToSet
      <4>2. Start(last[x], width) = Start(Head(last), width)
        BY <1>1, <2>2 DEF Sliced, OneBucket
      <4>3. last[x] \in taken
        BY <1>2, <2>2
      <4>4. last[x].ts < r.ts /\ last[x].ts \in Int /\ r.ts \in Int
        BY <1>3, <4>3
      <4> HIDE DEF more
      <4> QED
        BY <2>3, <4>1, <4>2, <4>4
    <3> QED
      BY <3>1, <3>3, <3>4
  <2> HIDE DEF more, last
  <2>5. /\ new \in Seq(Seq(found)) /\ DOMAIN new = 1..L
        /\ \A a \in 1..L : new[a] = IF a = L THEN more ELSE slices[a]
    BY <1>1, <2>2, <2>3, ExceptSeq, LenProperties
  <2> HIDE DEF new
  <2>6. \A a \in 1..L : Head(new[a]) = Head(slices[a])
    BY <2>3, <2>5 DEF last
  <2>7. \A a \in 1..L : new[a] # <<>> /\ OneBucket(new[a], width)
    BY <1>1, <2>3, <2>4, <2>5 DEF Sliced
  <2>8. \A a, b \in 1..L : a < b => Start(Head(new[a]), width) < Start(Head(new[b]), width)
    BY <1>1, <2>6 DEF Sliced
  <2>9. \A a \in 1..L : ToSet(new[a]) \subseteq taken \union {r}
    BY <1>1, <2>2, <2>3, <2>5 DEF Sliced, last
  <2>10. ASSUME NEW q \in taken \union {r} PROVE \E a \in 1..L : q \in ToSet(new[a])
    <3>1. CASE q \in taken
      <4>1. PICK a \in 1..L : q \in ToSet(slices[a])
        BY <1>1, <3>1 DEF Sliced
      <4>2. q \in ToSet(new[a])
        BY <2>3, <2>5, <4>1 DEF last
      <4> QED
        BY <4>2
    <3>2. CASE q = r
      BY <2>2, <2>3, <2>5, <3>2
    <3> QED
      BY <3>1, <3>2
  <2> QED
    BY <2>1, <2>5, <2>7, <2>8, <2>9, <2>10 DEF Sliced
<1>7. CASE ~ (slices # <<>> /\ Start(Head(Last(slices)), width) = Start(r, width))
  <2> DEFINE one == <<r>>
             new == Append(slices, one)
  <2>1. Slice(slices, r, width) = new
    BY <1>7 DEF Slice
  <2>2. /\ one \in Seq(found) /\ one # <<>> /\ Head(one) = r /\ ToSet(one) = {r}
        /\ OneBucket(one, width)
    <3>1. one \in Seq(found) /\ Len(one) = 1 /\ DOMAIN one = {1} /\ one[1] = r /\ Head(one) = r
      BY LenProperties
    <3>2. one # <<>>
      BY <3>1
    <3>3. ToSet(one) = {r}
      BY <3>1 DEF ToSet
    <3>4. OneBucket(one, width)
      BY <1>3, <3>1 DEF OneBucket, Last
    <3> QED
      BY <3>1, <3>2, <3>3, <3>4
  <2> HIDE DEF one
  <2>3. /\ new \in Seq(Seq(found)) /\ DOMAIN new = 1..(L + 1) /\ new[L + 1] = one
        /\ \A a \in 1..L : new[a] = slices[a]
    BY <1>1, <2>2, AppendProperties, LenProperties
  <2> HIDE DEF new
  <2>4. \A a \in 1..(L + 1) : a \in 1..L \/ a = L + 1
    BY <1>1
  <2>5. \A a \in 1..(L + 1) : new[a] # <<>> /\ OneBucket(new[a], width)
    BY <1>1, <2>2, <2>3, <2>4 DEF Sliced
  <2>6. ASSUME NEW a \in 1..L PROVE Start(Head(slices[a]), width) < Start(r, width)
    <3> DEFINE S(x) == Start(Head(slices[x]), width)
    <3>1. L \in 1..L /\ S(a) \in Int /\ S(L) \in Int /\ Start(r, width) \in Int /\ a \in Int
      BY <1>1, <1>2, <1>5, <2>6
    <3>2. slices # <<>>
      BY <3>1, EmptySeq
    <3>3. S(L) # Start(r, width)
      BY <1>7, <3>2 DEF Last
    <3>4. S(L) <= Start(r, width)
      BY <1>2, <1>4, <3>1
    <3>5. a < L => S(a) < S(L)
      BY <1>1, <2>6, <3>1 DEF Sliced
    <3> HIDE DEF S
    <3>6. a = L \/ a < L
      <4> HIDE DEF L
      <4> QED
        BY <1>1
    <3>7. S(a) < Start(r, width)
      BY <3>1, <3>3, <3>4, <3>5, <3>6
    <3> QED
      BY <3>7 DEF S
  <2>7. ASSUME NEW a \in 1..(L + 1), NEW b \in 1..(L + 1), a < b
        PROVE  Start(Head(new[a]), width) < Start(Head(new[b]), width)
    <3>1. a \in 1..L /\ new[a] = slices[a]
      BY <1>1, <2>3, <2>7
    <3>2. CASE b = L + 1
      BY <2>2, <2>3, <2>6, <3>1, <3>2
    <3>3. CASE b \in 1..L
      BY <1>1, <2>3, <2>7, <3>1, <3>3 DEF Sliced
    <3> QED
      BY <2>4, <3>2, <3>3
  <2>8. \A a \in 1..(L + 1) : ToSet(new[a]) \subseteq taken \union {r}
    BY <1>1, <2>2, <2>3, <2>4 DEF Sliced
  <2>9. ASSUME NEW q \in taken \union {r} PROVE \E a \in 1..(L + 1) : q \in ToSet(new[a])
    <3>1. CASE q \in taken
      <4>1. PICK a \in 1..L : q \in ToSet(slices[a])
        BY <1>1, <3>1 DEF Sliced
      <4>2. a \in 1..(L + 1) /\ q \in ToSet(new[a])
        BY <1>1, <2>3, <4>1
      <4> QED
        BY <4>2
    <3>2. CASE q = r
      <4>1. L + 1 \in 1..(L + 1) /\ q \in ToSet(new[L + 1])
        BY <1>1, <2>2, <2>3, <3>2
      <4> QED
        BY <4>1
    <3> QED
      BY <3>1, <3>2
  <2> QED
    BY <2>1, <2>3, <2>5, <2>7, <2>8, <2>9 DEF Sliced
<1> QED
  BY <1>6, <1>7

\* A slice is a sequence of rows, whatever it is made from.
LEMMA SliceTyped ==
    ASSUME NEW found, NEW width, NEW slices \in Seq(Seq(found)), NEW r \in found
    PROVE  Slice(slices, r, width) \in Seq(Seq(found))
<1> DEFINE L == Len(slices)
           one == <<r>>
<1>1. one \in Seq(found)
  OBVIOUS
<1>2. Append(slices, one) \in Seq(Seq(found))
  <2> HIDE DEF one
  <2> QED
    BY <1>1, AppendProperties
<1>3. ASSUME slices # <<>> PROVE ReplaceAt(slices, L, Append(Last(slices), r)) \in Seq(Seq(found))
  <2>1. L \in 1..L /\ L \in Nat
    BY <1>3, EmptySeq
  <2>2. Last(slices) \in Seq(found)
    BY <2>1, ElementOfSeq DEF Last
  <2>3. Append(Last(slices), r) \in Seq(found)
    BY <2>2, AppendProperties
  <2> DEFINE more == Append(Last(slices), r)
  <2> HIDE DEF more
  <2>4. [slices EXCEPT ![L] = more] \in Seq(Seq(found))
    BY <2>1, <2>3, ExceptSeq DEF more
  <2> QED
    BY <2>4 DEF ReplaceAt, more
<1> QED
  BY <1>2, <1>3 DEF Slice

\* What a scan over a sequence computes satisfies its equations.
LEMMA SlicesDefined ==
    ASSUME NEW found, NEW read \in Seq(found), NEW width
    PROVE  \E f : /\ f[0] = <<>>
                  /\ \A i \in 1..Len(read) : f[i] = Slice(f[i - 1], read[i], width)
                  /\ SlicesOf(read, width) = f[Len(read)]
<1> DEFINE n == Len(read)
           S == Seq(Seq(found))
           Step == [x \in S \X (1..n) |-> Slice(x[1], read[x[2]], width)]
           Scan(f) == f = [i \in 0..n |-> IF i = 0 THEN <<>> ELSE Slice(f[i - 1], read[i], width)]
<1>1. n \in Nat /\ \A i \in 1..n : read[i] \in found
  BY LenProperties, ElementOfSeq
<1>2. Step \in [S \X (1..n) -> S]
  BY <1>1, SliceTyped
<1>3. <<>> \in S
  BY EmptySeq
<1>4. PICK f \in [0..n -> S] : f[0] = <<>> /\ \A i \in 1..n : f[i] = Step[<<f[i - 1], i>>]
  <2> DEFINE base == <<>>
  <2>1. n \in Nat /\ base \in S
    BY <1>1, <1>3
  <2> HIDE DEF S, Step, n, base
  <2>2. Computations(n, S, base, Step) # {}
    BY <1>2, <2>1, Recursion
  <2>3. PICK f : f \in Computations(n, S, base, Step)
    BY <2>2
  <2>4. f \in [0..n -> S] /\ f[0] = base /\ \A i \in 1..n : f[i] = Step[<<f[i - 1], i>>]
    BY <2>3 DEF Computations
  <2> QED
    BY <2>4, Zenon DEF base
<1>5. \A i \in 1..n : f[i] = Slice(f[i - 1], read[i], width)
  <2> SUFFICES ASSUME NEW i \in 1..n PROVE f[i] = Slice(f[i - 1], read[i], width)
    OBVIOUS
  <2>1. i - 1 \in 0..n
    BY <1>1
  <2>2. f[i - 1] \in S
    BY <1>4, <2>1, Zenon
  <2>3. Step[<<f[i - 1], i>>] = Slice(f[i - 1], read[i], width)
    BY <2>2
  <2> QED
    BY <1>4, <2>3, Zenon
<1>6. Scan(f)
  <2> DEFINE g == [i \in 0..n |-> IF i = 0 THEN <<>> ELSE Slice(f[i - 1], read[i], width)]
  <2>1. \A i \in 0..n : g[i] = f[i]
    <3> SUFFICES ASSUME NEW i \in 0..n PROVE g[i] = f[i]
      OBVIOUS
    <3>1. CASE i = 0
      BY <1>4, <3>1
    <3>2. CASE i \in 1..n
      BY <1>5, <3>2
    <3> QED
      BY <1>1, <3>1, <3>2
  <2>2. f = [i \in 0..n |-> f[i]]
    BY <1>4
  <2>3. f = g
    BY <2>1, <2>2, Zenon
  <2> QED
    BY <2>3
<1>7. Scan(CHOOSE h : Scan(h))
  <2> HIDE DEF Scan
  <2> QED
    BY <1>6, Zenon
<1>8. SlicesOf(read, width) = (CHOOSE h : Scan(h))[n]
  BY Zenon DEF SlicesOf
<1>9. PICK h : Scan(h) /\ SlicesOf(read, width) = h[n]
  BY <1>7, <1>8, Zenon
<1>10. h[0] = <<>> /\ \A i \in 1..n : h[i] = Slice(h[i - 1], read[i], width)
  <2> DEFINE e(i) == IF i = 0 THEN <<>> ELSE Slice(h[i - 1], read[i], width)
  <2>1. \A i \in 0..n : h[i] = e(i)
    BY <1>9, Zenon
  <2>2. 0 \in 0..n /\ \A i \in 1..n : i \in 0..n /\ i # 0
    BY <1>1
  <2> QED
    BY <2>1, <2>2, Zenon
<1> QED
  BY <1>9, <1>10, Zenon

\* The slices of a range hold all its rows.
LEMMA SlicesOfRange ==
    ASSUME NEW found, Dated(found), NEW width \in Nat \ {0}
    PROVE  Sliced(SlicesOf(Ordered(found), width), found, found, width)
<1> DEFINE read == Ordered(found)
           n == Len(read)
<1>1. /\ read \in Seq(found) /\ n \in Nat
      /\ Taken(read, 0) = {} /\ Taken(read, n) = found
      /\ \A i \in 0..(n - 1) :
            /\ i + 1 \in 1..n /\ (i + 1) - 1 = i /\ i + 1 \in 0..n
            /\ read[i + 1] \in found /\ Taken(read, i) \subseteq found
            /\ \A q \in Taken(read, i) : q.ts < read[i + 1].ts
            /\ Taken(read, i + 1) = Taken(read, i) \union {read[i + 1]}
  BY OrderedReads
<1> HIDE DEF read
<1>2. PICK f : /\ f[0] = <<>> /\ \A i \in 1..n : f[i] = Slice(f[i - 1], read[i], width)
               /\ SlicesOf(read, width) = f[n]
  BY <1>1, SlicesDefined
<1> HIDE DEF n
<1> DEFINE T == {i \in 0..n : Sliced(f[i], Taken(read, i), found, width)}
<1>3. 0 \in T
  <2>1. <<>> \in Seq(Seq(found)) /\ DOMAIN << >> = {}
    BY EmptySeq, LenProperties
  <2>2. Sliced(<<>>, {}, found, width)
    BY <2>1 DEF Sliced
  <2>3. Sliced(f[0], Taken(read, 0), found, width)
    BY <1>1, <1>2, <2>2, Zenon
  <2>4. 0 \in 0..n
    BY <1>1
  <2> QED
    BY <2>3, <2>4
<1>4. ASSUME NEW i \in 0..(n - 1), i \in T PROVE i + 1 \in T
  <2>1. Sliced(Slice(f[i], read[i + 1], width), Taken(read, i) \union {read[i + 1]}, found, width)
    BY <1>1, <1>4, SliceOne
  <2>2. f[i + 1] = Slice(f[i], read[i + 1], width)
    BY <1>1, <1>2
  <2> QED
    BY <1>1, <2>1, <2>2
<1>5. n \in T
  <2> HIDE DEF T
  <2>1. \A i \in 0..n : i \in T
    BY <1>1, <1>3, <1>4, UpTo
  <2> QED
    BY <1>1, <2>1
<1> QED
  BY <1>1, <1>2, <1>5 DEF read

\* The slice of a bucket is what there is in it.
LEMMA SliceIsBucket ==
    ASSUME NEW found, Dated(found), NEW width \in Nat \ {0},
           NEW slices, Sliced(slices, found, found, width), NEW a \in DOMAIN slices
    PROVE  LET b == Start(Head(slices[a]), width)
           IN  /\ ToSet(slices[a]) = {r \in found : Start(r, width) = b}
               /\ ToSet(slices[a]) # {} /\ b \in Int
               /\ Last(slices[a]) \in ToSet(slices[a])
               /\ \A r \in ToSet(slices[a]) : r.ts <= Last(slices[a]).ts
               /\ Head(slices[a]) \in found
<1>1. /\ DOMAIN slices = 1..Len(slices) /\ Len(slices) \in Nat
      /\ \A x \in DOMAIN slices : slices[x] \in Seq(found)
  BY LenProperties, ElementOfSeq DEF Sliced
<1>2. ASSUME NEW x \in DOMAIN slices
      PROVE  /\ DOMAIN slices[x] = 1..Len(slices[x]) /\ Len(slices[x]) \in Nat \ {0}
             /\ Head(slices[x]) \in ToSet(slices[x]) /\ Last(slices[x]) \in ToSet(slices[x])
             /\ ToSet(slices[x]) \subseteq found
             /\ \A r \in ToSet(slices[x]) : /\ Start(r, width) = Start(Head(slices[x]), width)
                                            /\ r.ts <= Last(slices[x]).ts
  <2>1. slices[x] \in Seq(found) /\ slices[x] # <<>>
    BY <1>1 DEF Sliced
  <2>2. DOMAIN slices[x] = 1..Len(slices[x]) /\ Len(slices[x]) \in Nat \ {0}
    BY <2>1, EmptySeq, LenProperties
  <2>3. Head(slices[x]) = slices[x][1] /\ Last(slices[x]) = slices[x][Len(slices[x])]
    BY <2>1 DEF Last
  <2>4. Head(slices[x]) \in ToSet(slices[x]) /\ Last(slices[x]) \in ToSet(slices[x])
    BY <2>2, <2>3 DEF ToSet
  <2>5. OneBucket(slices[x], width) /\ ToSet(slices[x]) \subseteq found
    BY DEF Sliced
  <2> QED
    BY <2>2, <2>4, <2>5 DEF OneBucket, ToSet
<1>3. \A r \in found : Start(r, width) \in Int
  BY Starts, BoundAssumption DEF Dated
<1> DEFINE b == Start(Head(slices[a]), width)
<1>4. ASSUME NEW r \in found, Start(r, width) = b PROVE r \in ToSet(slices[a])
  <2>1. PICK x \in DOMAIN slices : r \in ToSet(slices[x])
    BY DEF Sliced
  <2> DEFINE c == Start(Head(slices[x]), width)
  <2>2. c = b /\ b \in Int
    BY <1>2, <1>3, <1>4, <2>1
  <2>3. ~ (x < a) /\ ~ (a < x)
    <3>1. x < a => c < b
      BY DEF Sliced
    <3>2. a < x => b < c
      BY DEF Sliced
    <3> HIDE DEF b, c
    <3> QED
      BY <2>2, <3>1, <3>2
  <2>4. x = a
    <3>1. x \in Int /\ a \in Int
      BY <1>1
    <3> QED
      BY <2>3, <3>1
  <2> QED
    BY <2>1, <2>4
<1> QED
  BY <1>2, <1>3, <1>4

-----------------------------------------------------------------------------
(* Tags *)

\* The tags of the rows taken, in the order of their oldest rows.
Tagged(tags, taken) ==
    /\ tags \in Seq(Tag)
    /\ \A a \in DOMAIN tags : \E r \in taken : r.tag = tags[a]
    /\ \A r \in taken : \E a \in DOMAIN tags : r.tag = tags[a]
    /\ \A a, b \in DOMAIN tags : a < b =>
          \E r \in taken : r.tag = tags[a] /\ \A q \in taken : q.tag = tags[b] => r.ts < q.ts

\* A row that is newer than all before it may bring a tag.
LEMMA TagOne ==
    ASSUME NEW tags, NEW taken, NEW r, r.tag \in Tag, Tagged(tags, taken),
           \A q \in taken : q.ts < r.ts
    PROVE  Tagged(AddTag(tags, r), taken \union {r})
<1> DEFINE L == Len(tags)
           new == Append(tags, r.tag)
<1>1. tags \in Seq(Tag) /\ L \in Nat /\ DOMAIN tags = 1..L
  BY LenProperties DEF Tagged
<1>2. CASE Contains(tags, r.tag)
  <2>1. AddTag(tags, r) = tags
    BY <1>2 DEF AddTag
  <2>2. \E a \in DOMAIN tags : r.tag = tags[a]
    BY <1>1, <1>2 DEF Contains
  <2>3. ASSUME NEW a \in DOMAIN tags, NEW b \in DOMAIN tags, a < b
        PROVE  \E p \in taken \union {r} :
                  p.tag = tags[a] /\ \A q \in taken \union {r} : q.tag = tags[b] => p.ts < q.ts
    <3>1. PICK p \in taken : p.tag = tags[a] /\ \A q \in taken : q.tag = tags[b] => p.ts < q.ts
      BY <2>3 DEF Tagged
    <3> QED
      BY <3>1
  <2>4. Tagged(tags, taken \union {r})
    BY <2>2, <2>3 DEF Tagged
  <2> QED
    BY <2>1, <2>4
<1>3. CASE ~ Contains(tags, r.tag)
  <2>1. AddTag(tags, r) = new
    BY <1>3 DEF AddTag
  <2>2. \A a \in DOMAIN tags : tags[a] # r.tag
    BY <1>1, <1>3 DEF Contains
  <2>3. /\ new \in Seq(Tag) /\ DOMAIN new = 1..(L + 1)
        /\ \A a \in 1..L : new[a] = tags[a]
        /\ new[L + 1] = r.tag
    BY <1>1, AppendProperties, LenProperties
  <2> HIDE DEF new
  <2>4. \A a \in 1..(L + 1) : a = L + 1 \/ a \in DOMAIN tags
    BY <1>1
  <2>5. \A a \in DOMAIN new : \E p \in taken \union {r} : p.tag = new[a]
    BY <1>1, <2>3, <2>4 DEF Tagged
  <2>6. ASSUME NEW p \in taken \union {r} PROVE \E a \in DOMAIN new : p.tag = new[a]
    <3>1. CASE p = r
      <4>1. L + 1 \in DOMAIN new
        BY <1>1, <2>3
      <4> QED
        BY <2>3, <3>1, <4>1
    <3>2. CASE p \in taken
      <4>1. PICK a \in 1..L : p.tag = tags[a]
        BY <1>1, <3>2 DEF Tagged
      <4>2. a \in DOMAIN new /\ p.tag = new[a]
        BY <1>1, <2>3, <4>1
      <4> QED
        BY <4>2
    <3> QED
      BY <3>1, <3>2
  <2>7. ASSUME NEW a \in DOMAIN new, NEW b \in DOMAIN new, a < b
        PROVE  \E p \in taken \union {r} :
                  p.tag = new[a] /\ \A q \in taken \union {r} : q.tag = new[b] => p.ts < q.ts
    <3>1. a \in 1..L /\ new[a] = tags[a]
      BY <1>1, <2>3, <2>7
    <3>2. CASE b = L + 1
      <4>1. PICK p \in taken : p.tag = tags[a]
        BY <1>1, <3>1 DEF Tagged
      <4>2. \A q \in taken : q.tag # r.tag
        BY <2>2 DEF Tagged
      <4> QED
        BY <2>3, <3>1, <3>2, <4>1, <4>2
    <3>3. CASE b \in DOMAIN tags
      <4>1. PICK p \in taken : p.tag = tags[a] /\ \A q \in taken : q.tag = tags[b] => p.ts < q.ts
        BY <1>1, <2>7, <3>1, <3>3 DEF Tagged
      <4>2. new[b] = tags[b] /\ tags[b] # r.tag
        BY <1>1, <2>2, <2>3, <3>3
      <4> QED
        BY <3>1, <4>1, <4>2
    <3> QED
      BY <2>3, <2>4, <3>2, <3>3
  <2>8. Tagged(new, taken \union {r})
    BY <2>3, <2>5, <2>6, <2>7 DEF Tagged
  <2> QED
    BY <2>1, <2>8
<1> QED
  BY <1>2, <1>3

\* What the scan for tags computes satisfies its equations.
LEMMA TagsDefined ==
    ASSUME NEW found, NEW read \in Seq(found), \A r \in found : r.tag \in Tag
    PROVE  \E f : /\ f[0] = <<>>
                  /\ \A i \in 1..Len(read) : f[i] = AddTag(f[i - 1], read[i])
                  /\ TagsOf(read) = f[Len(read)]
<1> DEFINE n == Len(read)
           S == Seq(Tag)
           Step == [x \in S \X (1..n) |-> AddTag(x[1], read[x[2]])]
           Scan(f) == f = [i \in 0..n |-> IF i = 0 THEN <<>> ELSE AddTag(f[i - 1], read[i])]
<1>1. n \in Nat /\ \A i \in 1..n : read[i] \in found
  BY LenProperties, ElementOfSeq
<1>2. Step \in [S \X (1..n) -> S]
  BY <1>1, AppendProperties DEF AddTag
<1>3. <<>> \in S
  BY EmptySeq
<1>4. PICK f \in [0..n -> S] : f[0] = <<>> /\ \A i \in 1..n : f[i] = Step[<<f[i - 1], i>>]
  <2> DEFINE base == <<>>
  <2>1. n \in Nat /\ base \in S
    BY <1>1, <1>3
  <2> HIDE DEF S, Step, n, base
  <2>2. Computations(n, S, base, Step) # {}
    BY <1>2, <2>1, Recursion
  <2>3. PICK f : f \in Computations(n, S, base, Step)
    BY <2>2
  <2>4. f \in [0..n -> S] /\ f[0] = base /\ \A i \in 1..n : f[i] = Step[<<f[i - 1], i>>]
    BY <2>3 DEF Computations
  <2> QED
    BY <2>4, Zenon DEF base
<1>5. \A i \in 1..n : f[i] = AddTag(f[i - 1], read[i])
  <2> SUFFICES ASSUME NEW i \in 1..n PROVE f[i] = AddTag(f[i - 1], read[i])
    OBVIOUS
  <2>1. i - 1 \in 0..n
    BY <1>1
  <2>2. f[i - 1] \in S
    BY <1>4, <2>1, Zenon
  <2>3. Step[<<f[i - 1], i>>] = AddTag(f[i - 1], read[i])
    BY <2>2
  <2> QED
    BY <1>4, <2>3, Zenon
<1>6. Scan(f)
  <2> DEFINE g == [i \in 0..n |-> IF i = 0 THEN <<>> ELSE AddTag(f[i - 1], read[i])]
  <2>1. \A i \in 0..n : g[i] = f[i]
    <3> SUFFICES ASSUME NEW i \in 0..n PROVE g[i] = f[i]
      OBVIOUS
    <3>1. CASE i = 0
      BY <1>4, <3>1
    <3>2. CASE i \in 1..n
      BY <1>5, <3>2
    <3> QED
      BY <1>1, <3>1, <3>2
  <2>2. f = [i \in 0..n |-> f[i]]
    BY <1>4
  <2>3. f = g
    BY <2>1, <2>2, Zenon
  <2> QED
    BY <2>3
<1>7. Scan(CHOOSE h : Scan(h))
  <2> HIDE DEF Scan
  <2> QED
    BY <1>6, Zenon
<1>8. TagsOf(read) = (CHOOSE h : Scan(h))[n]
  BY Zenon DEF TagsOf
<1>9. PICK h : Scan(h) /\ TagsOf(read) = h[n]
  BY <1>7, <1>8, Zenon
<1>10. h[0] = <<>> /\ \A i \in 1..n : h[i] = AddTag(h[i - 1], read[i])
  <2> DEFINE e(i) == IF i = 0 THEN <<>> ELSE AddTag(h[i - 1], read[i])
  <2>1. \A i \in 0..n : h[i] = e(i)
    BY <1>9, Zenon
  <2>2. 0 \in 0..n /\ \A i \in 1..n : i \in 0..n /\ i # 0
    BY <1>1
  <2> QED
    BY <2>1, <2>2, Zenon
<1> QED
  BY <1>9, <1>10, Zenon

\* The tags of a range are those of its rows.
LEMMA TagsOfRange ==
    ASSUME NEW found, Dated(found), \A r \in found : r.tag \in Tag
    PROVE  Tagged(TagsOf(Ordered(found)), found)
<1> DEFINE read == Ordered(found)
           n == Len(read)
<1>1. /\ read \in Seq(found) /\ n \in Nat
      /\ Taken(read, 0) = {} /\ Taken(read, n) = found
      /\ \A i \in 0..(n - 1) :
            /\ i + 1 \in 1..n /\ (i + 1) - 1 = i /\ i + 1 \in 0..n
            /\ read[i + 1] \in found /\ Taken(read, i) \subseteq found
            /\ \A q \in Taken(read, i) : q.ts < read[i + 1].ts
            /\ Taken(read, i + 1) = Taken(read, i) \union {read[i + 1]}
  BY OrderedReads
<1> HIDE DEF read
<1>2. PICK f : /\ f[0] = <<>> /\ \A i \in 1..n : f[i] = AddTag(f[i - 1], read[i])
               /\ TagsOf(read) = f[n]
  BY <1>1, TagsDefined
<1> HIDE DEF n
<1> DEFINE T == {i \in 0..n : Tagged(f[i], Taken(read, i))}
<1>3. 0 \in T
  <2>1. <<>> \in Seq(Tag) /\ DOMAIN << >> = {}
    BY EmptySeq, LenProperties
  <2>2. Tagged(<<>>, {})
    BY <2>1 DEF Tagged
  <2>3. Tagged(f[0], Taken(read, 0))
    BY <1>1, <1>2, <2>2, Zenon
  <2>4. 0 \in 0..n
    BY <1>1
  <2> QED
    BY <2>3, <2>4
<1>4. ASSUME NEW i \in 0..(n - 1), i \in T PROVE i + 1 \in T
  <2>1. Tagged(AddTag(f[i], read[i + 1]), Taken(read, i) \union {read[i + 1]})
    BY <1>1, <1>4, TagOne
  <2>2. f[i + 1] = AddTag(f[i], read[i + 1])
    BY <1>1, <1>2
  <2> QED
    BY <1>1, <2>1, <2>2
<1>5. n \in T
  <2> HIDE DEF T
  <2>1. \A i \in 0..n : i \in T
    BY <1>1, <1>3, <1>4, UpTo
  <2> QED
    BY <1>1, <2>1
<1> QED
  BY <1>1, <1>2, <1>5 DEF read

-----------------------------------------------------------------------------
(* What is answered for a range *)

\* The rows of a range that fall into one bucket.
Of(found, width, b) == {r \in found : Start(r, width) = b}

\* One point for each bucket with a row, oldest first, the aggregate of its rows.
FaithfulPoints(points, found, width, s) ==
    /\ points \in Seq(ToSet(points))
    /\ {k.ts : k \in ToSet(points)} = {Start(r, width) : r \in found}
    /\ \A i, j \in DOMAIN points : i < j => points[i].ts < points[j].ts
    /\ \A k \in ToSet(points) :
          /\ k.of = AggregateOf(s, Of(found, width, k.ts))
          /\ ~ k.exact => s \notin Counter /\ ~ PlainMean(Of(found, width, k.ts))

\* The newest of a bucket is the one no row is newer than.
LEMMA NewestIs ==
    ASSUME NEW found, Dated(found), NEW group, group \subseteq found,
           NEW r \in group, \A q \in group : q.ts <= r.ts
    PROVE  Newest(group) = r
<1>1. Newest(group) \in group /\ \A q \in group : q.ts <= Newest(group).ts
  BY NewestExists DEF Dated
<1>2. Newest(group).ts \in Int /\ r.ts \in Int
  BY <1>1, BoundAssumption DEF Dated
<1>3. Newest(group).ts <= r.ts /\ r.ts <= Newest(group).ts
  BY <1>1
<1>4. Newest(group).ts = r.ts
  <2> DEFINE x == Newest(group).ts
             y == r.ts
  <2> HIDE DEF x, y
  <2>1. x \in Int /\ y \in Int /\ x <= y /\ y <= x
    BY <1>2, <1>3 DEF x, y
  <2>2. x = y
    BY <2>1
  <2> QED
    BY <2>2 DEF x, y
<1> QED
  BY <1>1, <1>4 DEF Dated

\* The bucketed read.
LEMMA BucketFaithful ==
    ASSUME NEW found, Dated(found), NEW width \in Nat \ {0}, NEW s
    PROVE  FaithfulPoints(bucket(Ordered(found), width, s), found, width, s)
<1> DEFINE slices == SlicesOf(Ordered(found), width)
           points == bucket(Ordered(found), width, s)
           Begin(i) == Start(Head(slices[i]), width)
           Value(slice) ==
               IF s \in Counter THEN Last(slice).of ELSE UNION {r.of : r \in ToSet(slice)}
           Point(i) ==
               [ts |-> Begin(i), of |-> Value(slices[i]),
                exact |-> s \in Counter \/ PlainMean(ToSet(slices[i]))]
<1>1. Sliced(slices, found, found, width)
  BY SlicesOfRange
<1>2. points = [i \in DOMAIN slices |-> Point(i)]
  BY Zenon DEF bucket
<1> HIDE DEF slices, points
<1>3. DOMAIN slices = 1..Len(slices) /\ Len(slices) \in Nat
  BY <1>1, LenProperties DEF Sliced
<1>4. DOMAIN points = DOMAIN slices /\ \A i \in DOMAIN points : points[i] = Point(i)
  BY <1>2
<1>5. ASSUME NEW i \in DOMAIN slices
      PROVE  /\ ToSet(slices[i]) = Of(found, width, Begin(i))
             /\ ToSet(slices[i]) # {} /\ Begin(i) \in Int
             /\ Value(slices[i]) = AggregateOf(s, Of(found, width, Begin(i)))
             /\ Head(slices[i]) \in found
  <2>1. /\ ToSet(slices[i]) = Of(found, width, Begin(i))
        /\ ToSet(slices[i]) # {} /\ Begin(i) \in Int
        /\ Last(slices[i]) \in ToSet(slices[i])
        /\ \A r \in ToSet(slices[i]) : r.ts <= Last(slices[i]).ts
        /\ Head(slices[i]) \in found
    BY <1>1, SliceIsBucket DEF Of
  <2>2. Of(found, width, Begin(i)) \subseteq found
    BY DEF Of
  <2> DEFINE group == ToSet(slices[i])
             last == Last(slices[i])
  <2> HIDE DEF Begin, group, last
  <2>3. group \subseteq found /\ last \in group /\ \A r \in group : r.ts <= last.ts
    BY <2>1, <2>2 DEF group, last
  <2>4. Newest(group) = last
    BY <2>3, NewestIs
  <2> QED
    BY <2>1, <2>4 DEF AggregateOf, group, last
<1>6. points \in Seq(ToSet(points))
  <2> DEFINE S == ToSet(points)
             n == Len(slices)
  <2>1. points \in [1..n -> S] /\ n \in Nat
    BY <1>2, <1>3 DEF ToSet
  <2> HIDE DEF S, n
  <2>2. points \in Seq(S)
    BY <2>1, SeqDef
  <2> QED
    BY <2>2 DEF S
<1>7. \A i \in DOMAIN points : points[i].ts = Begin(i)
  BY <1>4
<1>8. {k.ts : k \in ToSet(points)} = {Start(r, width) : r \in found}
  <2>1. ASSUME NEW r \in found PROVE \E i \in DOMAIN points : points[i].ts = Start(r, width)
    <3>1. PICK i \in DOMAIN slices : r \in ToSet(slices[i])
      BY <1>1 DEF Sliced
    <3>2. Begin(i) = Start(r, width)
      BY <1>5, <3>1 DEF Of
    <3> QED
      BY <1>4, <1>7, <3>1, <3>2
  <2>2. ASSUME NEW i \in DOMAIN points PROVE \E r \in found : points[i].ts = Start(r, width)
    BY <1>4, <1>5, <1>7
  <2> QED
    BY <2>1, <2>2 DEF ToSet
<1>9. \A i, j \in DOMAIN points : i < j => points[i].ts < points[j].ts
  BY <1>1, <1>4, <1>7 DEF Sliced
<1>10. ASSUME NEW k \in ToSet(points)
       PROVE  /\ k.of = AggregateOf(s, Of(found, width, k.ts))
              /\ ~ k.exact => s \notin Counter /\ ~ PlainMean(Of(found, width, k.ts))
  <2>1. PICK i \in DOMAIN slices : k = Point(i)
    BY <1>4 DEF ToSet
  <2>2. /\ k.ts = Begin(i) /\ k.of = Value(slices[i])
        /\ k.exact = (s \in Counter \/ PlainMean(ToSet(slices[i])))
    BY <2>1
  <2> HIDE DEF Begin, Value, Point
  <2> QED
    BY <1>5, <2>2, Zenon
<1> QED
  BY <1>6, <1>8, <1>9, <1>10 DEF FaithfulPoints, points

\* The read at the native step gives every row as it is.
LEMMA NativeFaithful ==
    ASSUME NEW found, Dated(found), NEW s, \A r \in found : r.exact
    PROVE  LET read == Ordered(found)
           IN  FaithfulPoints([i \in DOMAIN read |->
                   [ts |-> read[i].ts, of |-> read[i].of, exact |-> read[i].exact]],
                   found, 1, s)
<1> DEFINE read == Ordered(found)
           n == Cardinality(found)
           Point(i) == [ts |-> read[i].ts, of |-> read[i].of, exact |-> read[i].exact]
           points == [i \in DOMAIN read |-> Point(i)]
<1>1. /\ read \in [1..n -> found] /\ n \in Nat /\ Sorted(read)
      /\ \A r \in found : \E i \in 1..n : read[i] = r
  BY OrderedRows
<1> HIDE DEF read, n
<1>2. DOMAIN points = 1..n /\ \A i \in 1..n : points[i] = Point(i) /\ read[i] \in found
  BY <1>1
<1>3. \A i \in 1..n : points[i].ts = read[i].ts
  BY <1>2
<1>4. ToSet(points) = {Point(i) : i \in 1..n}
  BY <1>2 DEF ToSet
<1> HIDE DEF points
<1>5. points \in Seq(ToSet(points))
  <2> DEFINE S == ToSet(points)
  <2>1. points \in [1..n -> S]
    BY <1>2 DEF points, ToSet
  <2> HIDE DEF S
  <2>2. points \in Seq(S)
    BY <1>1, <2>1, SeqDef
  <2> QED
    BY <2>2 DEF S
<1>6. \A r \in found : r.ts \in Int /\ Start(r, 1) = r.ts
  BY Starts, BoundAssumption DEF Dated
<1>7. {k.ts : k \in ToSet(points)} = {Start(r, 1) : r \in found}
  <2>1. {k.ts : k \in ToSet(points)} = {read[i].ts : i \in 1..n}
    <3>1. \A i \in 1..n : Point(i).ts = read[i].ts
      OBVIOUS
    <3> HIDE DEF Point
    <3>2. {k.ts : k \in ToSet(points)} = {Point(i).ts : i \in 1..n}
      BY <1>4
    <3> QED
      BY <3>1, <3>2
  <2>2. {read[i].ts : i \in 1..n} = {Start(r, 1) : r \in found}
    BY <1>1, <1>2, <1>6
  <2> QED
    BY <2>1, <2>2
<1>8. \A i, j \in DOMAIN points : i < j => points[i].ts < points[j].ts
  BY <1>1, <1>2, <1>3 DEF Sorted
<1>9. ASSUME NEW k \in ToSet(points)
      PROVE  /\ k.of = AggregateOf(s, Of(found, 1, k.ts))
             /\ k.exact
  <2>1. PICK i \in 1..n : k = Point(i)
    BY <1>4
  <2> DEFINE r == read[i]
  <2>2. k.ts = r.ts /\ k.of = r.of /\ k.exact = r.exact /\ r \in found
    BY <1>2, <2>1
  <2> HIDE DEF r
  <2>3. Of(found, 1, k.ts) = {r}
    BY <1>6, <2>2 DEF Of, Dated
  <2>4. Newest({r}) = r
    BY DEF Newest
  <2>5. AggregateOf(s, {r}) = r.of
    BY <2>4 DEF AggregateOf
  <2> QED
    BY <2>2, <2>3, <2>5
<1>10. FaithfulPoints(points, found, 1, s)
  BY <1>5, <1>7, <1>8, <1>9 DEF FaithfulPoints
<1> QED
  BY <1>10 DEF points, read

-----------------------------------------------------------------------------
(* What is answered for a series, as long as the store is as it should be *)

\* Parameters that were accepted.
GoodParams(p) ==
    /\ p.series \subseteq Series
    /\ p.from \in Int /\ p.to \in Int /\ p.from < p.to
    /\ p.step \in Nat \ {0}
    /\ (p.to - p.from) \div StepWidth(p) <= MaxPoints

\* The width of the buckets of an answer; every millisecond is one by itself.
WidthOf(p) == IF p.step > NATIVE_STEP THEN StepWidth(p) ELSE 1

\* The width is a whole number of the unit.
LEMMA WidthTyped ==
    ASSUME NEW p, GoodParams(p)
    PROVE  StepWidth(p) \in Nat \ {0} /\ WidthOf(p) \in Nat \ {0} /\ p.step \in Int
<1>1. p.step \in Nat \ {0} /\ Second \in Nat \ {0}
  BY QueryAssumption DEF GoodParams
<1>2. \A x, y \in Nat \ {0} : x * y \in Nat \ {0}
  <2> SUFFICES ASSUME NEW x \in Nat \ {0}, NEW y \in Nat \ {0} PROVE x * y \in Nat \ {0}
    OBVIOUS
  <2>1. 1 * y <= x * y
    BY Multiples
  <2> QED
    BY <2>1
<1> QED
  BY <1>1, <1>2 DEF StepWidth, WidthOf

\* The rows of a series are told apart by their times.
LEMMA RangeDated ==
    ASSUME IInv, NEW s, NEW p
    PROVE  /\ Dated(InRange(s, p)) /\ InRange(s, p) \subseteq rows
           /\ \A r \in InRange(s, p) : r.tag \in Tag /\ r.exact
<1>1. ASSUME NEW r \in rows PROVE r.ts \in 0..MaxClock /\ r.tag \in Tag /\ r.exact
  BY RowTyped, RawRow DEF IInv, RowsSettled, Settled
<1>2. \A r, q \in InRange(s, p) : r.ts = q.ts => r = q
  BY DEF IInv, OneRowPerKey, SameKey, InRange
<1> QED
  BY <1>1, <1>2 DEF Dated, InRange

\* An answer is what the rows of the range make of it.
LEMMA EntryFaithful ==
    ASSUME IInv, NEW s, NEW p, GoodParams(p)
    PROVE  /\ FaithfulPoints(Entry(s, p).points, InRange(s, p), WidthOf(p), s)
           /\ Tagged(Entry(s, p).honesty_tags, InRange(s, p))
           /\ Entry(s, p).honesty = sole_honesty(Entry(s, p).honesty_tags)
<1> DEFINE found == InRange(s, p)
           read == Ordered(found)
           untouched == [i \in DOMAIN read |->
                           [ts |-> read[i].ts, of |-> read[i].of, exact |-> read[i].exact]]
           points == IF p.step > NATIVE_STEP THEN bucket(read, StepWidth(p), s) ELSE untouched
           tags == TagsOf(read)
<1>1. Dated(found) /\ \A r \in found : r.tag \in Tag /\ r.exact
  BY RangeDated
<1>2. Entry(s, p) = [points |-> points, honesty_tags |-> tags, honesty |-> sole_honesty(tags)]
  BY DEF Entry, read_range
<1> HIDE DEF found
<1>3. CASE p.step > NATIVE_STEP
  <2>1. points = bucket(read, WidthOf(p), s) /\ WidthOf(p) \in Nat \ {0}
    BY <1>3, WidthTyped DEF WidthOf
  <2>2. FaithfulPoints(points, found, WidthOf(p), s)
    BY <1>1, <2>1, BucketFaithful
  <2> QED
    BY <1>1, <1>2, <2>2, TagsOfRange DEF found
<1>4. CASE ~ (p.step > NATIVE_STEP)
  <2>1. points = untouched /\ WidthOf(p) = 1
    BY <1>4 DEF WidthOf
  <2>2. FaithfulPoints(points, found, WidthOf(p), s)
    BY <1>1, <2>1, NativeFaithful
  <2> QED
    BY <1>1, <1>2, <2>2, TagsOfRange DEF found
<1> QED
  BY <1>3, <1>4

\* Of the rows with a tag one is the oldest.
LEMMA OldestExists ==
    ASSUME NEW found, Dated(found), NEW tag, NEW x \in found, x.tag = tag
    PROVE  \E r \in found : r.tag = tag /\ \A o \in found : o.tag = tag => r.ts <= o.ts
<1> DEFINE Times == {r.ts : r \in {q \in found : q.tag = tag}}
<1>1. Times \subseteq Nat /\ x.ts \in Times
  BY BoundAssumption DEF Dated
<1>2. PICK t \in Times : \A n \in Times : n >= t
  <2> HIDE DEF Times
  <2> QED
    BY <1>1, LeastElement
<1>3. PICK r \in found : r.tag = tag /\ r.ts = t
  OBVIOUS
<1>4. ASSUME NEW o \in found, o.tag = tag PROVE r.ts <= o.ts
  <2>1. o.ts \in Times
    BY <1>4
  <2>2. o.ts >= t /\ o.ts \in Int /\ t \in Int
    BY <1>1, <1>2, <2>1
  <2> QED
    BY <1>3, <2>2
<1> QED
  BY <1>3, <1>4

\* Two unequal multiplicities in a bucket: one of the rows is settled, and
\* whatever settled lies deeper than the raw window.
LEMMA UnequalRows ==
    ASSUME IInv, NEW r \in rows, NEW q \in rows, Cardinality(r.of) # Cardinality(q.of)
    PROVE  \E x \in {r, q} :
              /\ Settled(x)
              /\ \A m \in x.of : m.ts < peak - RawWindow
              /\ x.of # {}
<1>1. PICK x \in {r, q} : ~ Raw(x)
  BY RawRow
<1>2. Settled(x) /\ x \in rows
  BY <1>1 DEF IInv, RowsSettled
<1>3. x.ts \in Int /\ x.of \subseteq Sample /\ peak \in Int
  BY <1>2, RowTyped, BoundAssumption DEF IInv, TypeOK
<1>4. ASSUME NEW m \in x.of PROVE m.ts < peak - RawWindow
  <2>1. m.ts \in Int
    BY <1>3, SampleTyped
  <2>2. m.ts < x.ts + Width /\ x.ts + Width + RawWindow <= peak
    BY <1>2, <2>1, BucketOfTime DEF Settled
  <2> QED
    BY <1>3, <2>1, <2>2, WindowAssumption
<1> QED
  BY <1>2, <1>4 DEF Settled

\* A bucket that divides a wider one lies inside one of those.
LEMMA NestedBuckets ==
    ASSUME NEW x \in Int, NEW y \in Int, NEW w \in Nat \ {0}, Width % w = 0,
           x \div w = y \div w
    PROVE  Bucket(x) = Bucket(y)
<1> DEFINE c == Width \div w
           a == x \div w
           b == a \div c
<1>1. Width = c * w /\ c \in Nat /\ Width \in Nat \ {0}
  BY WindowAssumption
<1>2. c \in Nat \ {0}
  BY <1>1
<1>3. a \in Int /\ a * w <= x /\ x < a * w + w /\ a * w <= y /\ y < a * w + w
  BY Division
<1> HIDE DEF c, a
<1>4. b \in Int /\ b * c <= a /\ a + 1 <= b * c + c
  BY <1>2, <1>3, Division
<1> HIDE DEF b
<1>5. (b * c) * w <= a * w /\ (a + 1) * w <= (b * c + c) * w
  <2>1. b * c \in Int /\ b * c + c \in Int /\ a + 1 \in Int
    BY <1>2, <1>4, <1>3
  <2> QED
    BY <1>3, <1>4, <2>1, Multiples
<1>6. (b * c) * w = b * Width /\ (b * c + c) * w = b * Width + Width
  BY <1>1, <1>2, <1>4
<1>7. (a + 1) * w = a * w + w
  BY <1>3
<1>8. /\ b * Width \in Int /\ a * w \in Int
      /\ b * Width <= x /\ x < b * Width + Width
      /\ b * Width <= y /\ y < b * Width + Width
  BY <1>1, <1>3, <1>4, <1>5, <1>6, <1>7
<1>9. Bucket(b * Width) = b * Width
  BY <1>1, <1>4, <1>8 DEF Bucket
<1>10. Bucket(x) = Bucket(b * Width) /\ Bucket(y) = Bucket(b * Width)
  BY <1>8, <1>9, SameBucket
<1> QED
  BY <1>10

\* A bucket whose rows have no plain mean is not part of a stored bucket, and
\* something in it is older than the raw window.
LEMMA NoPlainMean ==
    ASSUME IInv, NEW s, NEW p, GoodParams(p), NEW b,
           ~ PlainMean(Of(InRange(s, p), WidthOf(p), b))
    PROVE  /\ Width % StepWidth(p) # 0
           /\ \E r \in Of(InRange(s, p), WidthOf(p), b) : \E m \in r.of : m.ts < peak - RawWindow
<1> DEFINE found == InRange(s, p)
           w == WidthOf(p)
           group == Of(found, w, b)
<1>1. group \subseteq found /\ found \subseteq rows /\ \A r \in found : r.exact
  BY RangeDated DEF Of
<1>2. PICK r \in group, q \in group : Cardinality(r.of) # Cardinality(q.of)
  BY <1>1 DEF PlainMean
<1>3. PICK x \in {r, q} : Settled(x) /\ (\A m \in x.of : m.ts < peak - RawWindow) /\ x.of # {}
  BY <1>1, <1>2, UnequalRows
<1>4. PICK y \in {r, q} : y # x
  BY <1>2
<1>5. /\ x \in group /\ y \in group /\ x \in rows /\ y \in rows
      /\ x.series = s /\ y.series = s /\ Start(x, w) = b /\ Start(y, w) = b
      /\ x.ts # y.ts
  <2>1. x \in group /\ y \in group /\ x \in found /\ y \in found /\ Dated(found)
    BY <1>1, RangeDated
  <2> QED
    BY <1>1, <1>4, <2>1 DEF Of, InRange, Dated
<1>6. x.ts \in Int /\ y.ts \in Int
  BY <1>5, RowTyped DEF IInv
<1>7. w \in Nat \ {0} /\ StepWidth(p) \in Nat \ {0}
  BY WidthTyped
<1>8. ASSUME Width % StepWidth(p) = 0 PROVE FALSE
  <2>1. w # 1 => w = StepWidth(p)
    BY DEF WidthOf
  <2>2. w # 1
    BY <1>5, <1>6, Starts
  <2>3. x.ts \div w = y.ts \div w
    BY <1>5, <1>6, <1>7, Starts
  <2>4. Bucket(x.ts) = Bucket(y.ts)
    BY <1>6, <1>7, <1>8, <2>1, <2>2, <2>3, NestedBuckets
  <2>5. x.ts = Bucket(x.ts)
    BY <1>3 DEF Settled
  <2> QED
    BY <1>3, <1>4, <1>5, <2>4, <2>5 DEF Settled
<1> QED
  BY <1>3, <1>5, <1>8

\* There are no more points than buckets between the ends of the range.
LEMMA PointsCounted ==
    ASSUME IInv, NEW s, NEW p, GoodParams(p), NEW w \in Nat \ {0}, NEW points,
           FaithfulPoints(points, InRange(s, p), w, s)
    PROVE  /\ Len(points) \in Nat
           /\ p.from \div w \in Int /\ p.to \div w \in Int
           /\ Len(points) <= (p.to \div w) - (p.from \div w) + 1
<1> DEFINE n == Len(points)
           lo == p.from \div w
           hi == p.to \div w
           index == [i \in 1..n |-> points[i].ts \div w]
<1>1. n \in Nat /\ DOMAIN points = 1..n
  BY LenProperties DEF FaithfulPoints
<1>2. p.from \in Int /\ p.to \in Int /\ lo \in Int /\ hi \in Int /\ lo <= hi
  <2>1. p.from \in Int /\ p.to \in Int /\ p.from <= p.to
    BY DEF GoodParams
  <2> QED
    BY <2>1, Division
<1>3. ASSUME NEW i \in 1..n
      PROVE  /\ points[i].ts \div w \in lo..hi
             /\ points[i].ts = (points[i].ts \div w) * w
  <2>1. PICK r \in InRange(s, p) : points[i].ts = Start(r, w)
    <3>1. points[i] \in ToSet(points)
      BY <1>1 DEF ToSet
    <3> QED
      BY <3>1 DEF FaithfulPoints
  <2>2. r.ts \in Int /\ p.from <= r.ts /\ r.ts <= p.to
    BY RowTyped DEF InRange, IInv
  <2> DEFINE a == r.ts \div w
             b == (a * w) \div w
  <2>3. a \in Int /\ lo <= a /\ a <= hi
    BY <1>2, <2>2, Division
  <2> HIDE DEF a, lo, hi
  <2>7. a = b
    BY <2>3, WholeSteps DEF b
  <2>8. points[i].ts = a * w
    BY <2>1 DEF Start, a
  <2> QED
    BY <1>2, <2>3, <2>7, <2>8 DEF b
<1>4. index \in Injection(1..n, lo..hi)
  <2>1. index \in [1..n -> lo..hi]
    BY <1>3
  <2>2. ASSUME NEW i \in 1..n, NEW j \in 1..n, index[i] = index[j] PROVE i = j
    <3>1. points[i].ts = points[j].ts
      BY <1>3, <2>2
    <3>2. points[i].ts \in Int /\ i \in Int /\ j \in Int
      BY <1>1, <1>2, <1>3
    <3>3. ~ (i < j) /\ ~ (j < i)
      BY <1>1, <3>1, <3>2 DEF FaithfulPoints
    <3> QED
      BY <3>2, <3>3
  <2> QED
    BY <2>1, <2>2 DEF Injection, IsInjective
<1> HIDE DEF n, lo, hi, index
<1>5. IsFiniteSet(lo..hi) /\ Cardinality(lo..hi) = hi - lo + 1
  BY <1>2, FS_Interval
<1>6. Cardinality(1..n) = n
  BY <1>1, FS_Interval
<1>7. Cardinality(1..n) <= Cardinality(lo..hi)
  BY <1>4, <1>5, FS_Injection
<1> QED
  BY <1>1, <1>2, <1>5, <1>6, <1>7 DEF n, lo, hi

\* The points of an answer begin no more steps than there are between the ends.
LEMMA StepsCounted ==
    ASSUME IInv, NEW s, NEW p, GoodParams(p), NEW points,
           FaithfulPoints(points, InRange(s, p), WidthOf(p), s)
    PROVE  LET w == StepWidth(p)
           IN  /\ p.from \div w \in Int /\ p.to \div w \in Int
               /\ Cardinality({Start(k, w) : k \in ToSet(points)}) \in Nat
               /\ Cardinality({Start(k, w) : k \in ToSet(points)})
                      <= (p.to \div w) - (p.from \div w) + 1
<1> DEFINE w == StepWidth(p)
           lo == p.from \div w
           hi == p.to \div w
           starts == {Start(k, w) : k \in ToSet(points)}
           index == [x \in starts |-> CHOOSE a \in lo..hi : x = a * w]
<1>1. w \in Nat \ {0} /\ WidthOf(p) \in Nat \ {0}
  BY WidthTyped
<1> HIDE DEF w
<1>2. p.from \in Int /\ p.to \in Int /\ lo \in Int /\ hi \in Int /\ lo <= hi
  <2>1. p.from \in Int /\ p.to \in Int /\ p.from <= p.to
    BY DEF GoodParams
  <2> QED
    BY <1>1, <2>1, Division
<1>3. ASSUME NEW k \in ToSet(points) PROVE k.ts \div w \in lo..hi
  <2>1. PICK r \in InRange(s, p) : k.ts = Start(r, WidthOf(p))
    BY DEF FaithfulPoints
  <2>2. r.ts \in Int /\ p.from <= r.ts /\ r.ts <= p.to
    BY RowTyped DEF InRange, IInv
  <2>3. r.ts \div w \in Int /\ lo <= r.ts \div w /\ r.ts \div w <= hi
    BY <1>1, <1>2, <2>2, Division
  <2>4. k.ts \div w = r.ts \div w
    <3>1. CASE p.step > NATIVE_STEP
      <4> DEFINE a == r.ts \div w
      <4>1. a \in Int /\ k.ts = a * w
        BY <2>1, <2>3, <3>1 DEF WidthOf, Start, w
      <4> HIDE DEF a
      <4>2. (a * w) \div w = a
        BY <1>1, <4>1, WholeSteps
      <4> QED
        BY <4>1, <4>2 DEF a
    <3>2. CASE ~ (p.step > NATIVE_STEP)
      <4>1. k.ts = r.ts
        BY <2>1, <2>2, <3>2, Starts DEF WidthOf
      <4> QED
        BY <4>1
    <3> QED
      BY <3>1, <3>2
  <2> QED
    BY <1>2, <2>3, <2>4
<1>4. \A x \in starts : \E a \in lo..hi : x = a * w
  BY <1>3 DEF Start
<1>5. \A x \in starts : index[x] \in lo..hi /\ x = index[x] * w
  <2> HIDE DEF lo, hi, starts
  <2> QED
    BY <1>4
<1>6. index \in Injection(starts, lo..hi)
  <2> HIDE DEF lo, hi, starts
  <2>1. index \in [starts -> lo..hi]
    <3>1. \A x \in starts : (CHOOSE a \in lo..hi : x = a * w) \in lo..hi
      BY <1>4
    <3> QED
      BY <3>1
  <2>2. \A x, y \in starts : index[x] = index[y] => x = y
    BY <1>5, Zenon
  <2> QED
    BY <2>1, <2>2 DEF Injection, IsInjective
<1> HIDE DEF lo, hi, starts, index
<1>7. IsFiniteSet(lo..hi) /\ Cardinality(lo..hi) = hi - lo + 1
  BY <1>2, FS_Interval
<1>8. IsFiniteSet(starts) /\ Cardinality(starts) <= Cardinality(lo..hi)
  BY <1>6, <1>7, FS_Injection
<1>9. Cardinality(starts) \in Nat
  BY <1>8, FS_CardinalityType
<1> QED
  BY <1>2, <1>7, <1>8, <1>9 DEF lo, hi, starts, w

\* The most steps that an accepted range reaches into.
MostSteps(p) == MaxPoints + (IF p.from % StepWidth(p) = 0 THEN 1 ELSE 2)

\* The parameters bound the number of steps: a range that begins with a step
\* reaches into one more than fit in it, and any other into two more.
LEMMA StepsCapped ==
    ASSUME NEW p, GoodParams(p)
    PROVE  LET w == StepWidth(p)
           IN  (p.to \div w) - (p.from \div w) + 1 <= MostSteps(p) /\ MostSteps(p) \in Int
<1> DEFINE w == StepWidth(p)
           span == p.to - p.from
           k == span \div w
           lo == p.from \div w
           hi == p.to \div w
<1>1. /\ p.from \in Int /\ p.to \in Int /\ span \in Int /\ p.to = p.from + span
      /\ k <= MaxPoints /\ MaxPoints \in Nat /\ w \in Nat \ {0}
  BY WidthTyped, QueryAssumption DEF GoodParams
<1>2. /\ k \in Int /\ span < k * w + w
      /\ lo \in Int /\ p.from < lo * w + w
      /\ hi \in Int /\ hi * w <= p.to
  <2> HIDE DEF w, span
  <2> QED
    BY <1>1, Division
<1>3. p.from % w = 0 => p.from = lo * w
  <2> HIDE DEF w
  <2>1. \A a \in Int, b \in Nat \ {0} : a = b * (a \div b) + (a % b)
    OBVIOUS
  <2>2. p.from = w * lo + (p.from % w)
    BY <1>1, <2>1
  <2>3. lo * w = w * lo
    BY <1>1, <1>2
  <2> QED
    BY <1>1, <1>2, <2>2, <2>3
<1> HIDE DEF w, k, lo, hi, span
<1>4. lo * w \in Int /\ k * w \in Int /\ hi * w \in Int
  BY <1>1, <1>2
<1>5. ASSUME NEW n \in Int, hi * w < (lo + n) * w PROVE hi - lo + 1 <= n
  <2>1. lo + n \in Int
    BY <1>2
  <2>2. lo + n <= hi => (lo + n) * w <= hi * w
    BY <1>1, <1>2, <2>1, Multiples
  <2>3. (lo + n) * w \in Int
    BY <1>1, <2>1
  <2>4. ~ (lo + n <= hi)
    BY <1>4, <1>5, <2>2, <2>3
  <2> QED
    BY <1>2, <2>4
<1>6. hi - lo + 1 <= k + 2
  <2>1. (lo + (k + 2)) * w = (lo * w + w) + (k * w + w)
    BY <1>1, <1>2
  <2>2. hi * w < (lo + (k + 2)) * w
    BY <1>1, <1>2, <1>4, <2>1
  <2> QED
    BY <1>2, <1>5, <2>2
<1>7. ASSUME p.from % w = 0 PROVE hi - lo + 1 <= k + 1
  <2>1. (lo + (k + 1)) * w = lo * w + (k * w + w)
    BY <1>1, <1>2
  <2>2. hi * w < (lo + (k + 1)) * w
    BY <1>1, <1>2, <1>3, <1>4, <1>7, <2>1
  <2>3. k + 1 \in Int
    BY <1>2
  <2> QED
    BY <1>5, <2>2, <2>3
<1>8. MostSteps(p) = MaxPoints + (IF p.from % w = 0 THEN 1 ELSE 2)
  BY DEF MostSteps, w
<1>9. hi - lo + 1 <= MostSteps(p) /\ MostSteps(p) \in Int
  <2>1. CASE p.from % w = 0
    BY <1>1, <1>2, <1>7, <1>8, <2>1
  <2>2. CASE p.from % w # 0
    BY <1>1, <1>2, <1>6, <1>8, <2>2
  <2> QED
    BY <2>1, <2>2
<1> QED
  BY <1>9 DEF w, lo, hi

-----------------------------------------------------------------------------
(* The invariant of the query API *)

\* Only accepted parameters are sent to the writer.
AskGood == Given(ask) => DOMAIN ask = {"query", "ahead"} /\ GoodParams(ask.query)

\* An answer was read from the rows as they are; the step after it the rows
\* may change, and the answer is gone.
AnswerRead ==
    Answering =>
        /\ GoodParams(answer.query)
        /\ answer.data = [s \in answer.query.series |-> Entry(s, answer.query)]

QInv == IInv /\ AskGood /\ AnswerRead

\* What the checks of the handler accept is good.
LEMMA AcceptedGood ==
    ASSUME TypeOK, NEW q \in Queries, ParamsAccepted(q)
    PROVE  GoodParams(Params(q))
<1> DEFINE p == Params(q)
<1>1. clock \in Int
  BY BoundAssumption DEF TypeOK
<1>2. Int64 \subseteq Int
  BY QueryAssumption DEF Int64
<1>3. To(q) \in Int /\ From(q) \in Int
  BY <1>1, <1>2, QueryAssumption DEF To, From, Given, ParamsAccepted
<1>4. q.step \in Nat \ {0}
  <2>1. q.step \in Int
    BY <1>2, QueryAssumption
  <2>2. q.step >= 1
    BY DEF ParamsAccepted
  <2> QED
    BY <2>1, <2>2
<1>5. p.series \subseteq Series
  BY DEF Params, ParamsAccepted
<1>6. p.from = From(q) /\ p.to = To(q) /\ p.step = q.step
  BY DEF Params
<1>7. (p.to - p.from) \div StepWidth(p) <= MaxPoints
  BY <1>6 DEF ParamsAccepted, Span, StepWidth
<1>8. From(q) < To(q)
  BY DEF ParamsAccepted
<1> QED
  BY <1>3, <1>4, <1>5, <1>6, <1>7, <1>8 DEF GoodParams

\* A refusal is no answer.
LEMMA NoAnswer ==
    ASSUME NEW status, status # 200, answer' = Response(status) \/ answer' = Absent
    PROVE  AnswerRead'
BY DEF AnswerRead, Answering, Given, Response

\* Every step of the query API is a step of the store, or leaves it alone.
LEMMA StoreStep == QueryNext => [Next]_vars
BY DEF QueryNext, Refuse, Ask, Answer, ReadFails, OthersSend, WriterWorks, RestartQuery, Next

\* The invariant of the store holds with the query API on top of it.
LEMMA StoreInductive == IInv /\ [Next]_vars => IInv'
BY SetClockInv, StartTickInv, StartPassInv, EndTickInv, FailureInv, RestartInv, ExpireInv,
   WriteBatchInv, CollapseInv, StutterInv
DEF Next, Sampler, Writer

\* The steps that do not answer.
LEMMA OtherSteps ==
    ASSUME QInv, Refuse \/ Ask \/ ReadFails \/ OthersSend \/ WriterWorks \/ RestartQuery
    PROVE  AskGood' /\ AnswerRead'
<1>1. CASE Refuse
  <2>1. PICK q \in Queries : answer' = Response(Refusal(q))
    BY <1>1 DEF Refuse
  <2>2. Refusal(q) # 200
    BY DEF Refusal
  <2> QED
    BY <1>1, <2>1, <2>2, NoAnswer DEF Refuse, QInv, AskGood, Given
<1>2. CASE Ask
  <2>1. PICK q \in Queries : ParamsAccepted(q) /\ ask' = [query |-> Params(q), ahead |-> Len(queue)]
    BY <1>2 DEF Ask
  <2>2. GoodParams(Params(q))
    BY <2>1, AcceptedGood DEF QInv, IInv
  <2>3. DOMAIN ask' = {"query", "ahead"} /\ ask'.query = Params(q)
    BY <2>1
  <2>4. GoodParams(ask'.query)
    BY <2>2, <2>3
  <2>5. AskGood'
    BY <2>3, <2>4 DEF AskGood
  <2>6. AnswerRead'
    BY <1>2, NoAnswer DEF Ask
  <2> QED
    BY <2>5, <2>6
<1>3. CASE ReadFails
  BY <1>3, NoAnswer DEF ReadFails, AskGood, Given
<1>4. CASE OthersSend
  BY <1>4, NoAnswer DEF OthersSend, QInv, AskGood, Given
<1>5. CASE WriterWorks
  <2>1. ask' = IF Given(ask)
               THEN [ask EXCEPT !.ahead = @ - (Len(queue) - Len(queue'))] ELSE ask
    BY <1>5 DEF WriterWorks
  <2>2. AskGood'
    <3>1. CASE Given(ask)
      <4>1. DOMAIN ask = {"query", "ahead"} /\ GoodParams(ask.query)
        BY <3>1 DEF QInv, AskGood
      <4>2. DOMAIN ask' = {"query", "ahead"} /\ ask'.query = ask.query
        BY <2>1, <3>1, <4>1
      <4>3. GoodParams(ask'.query)
        BY <4>1, <4>2
      <4> QED
        BY <4>2, <4>3 DEF AskGood
    <3>2. CASE ~ Given(ask)
      BY <2>1, <3>2 DEF AskGood, Given
    <3> QED
      BY <3>1, <3>2
  <2>3. AnswerRead'
    BY <1>5, NoAnswer DEF WriterWorks
  <2> QED
    BY <2>2, <2>3
<1>6. CASE RestartQuery
  BY <1>6, NoAnswer DEF RestartQuery, AskGood, Given
<1> QED
  BY <1>1, <1>2, <1>3, <1>4, <1>5, <1>6

\* The step that answers reads the rows and leaves them.
LEMMA AnswerStep ==
    ASSUME QInv, Answer
    PROVE  AskGood' /\ AnswerRead'
<1>1. /\ answer' = [status |-> 200, query |-> ask.query,
                    data |-> [s \in ask.query.series |-> Entry(s, ask.query)]]
      /\ ask' = Absent /\ rows' = rows /\ Given(ask)
  BY DEF Answer, Turn, vars
<1>2. GoodParams(ask.query)
  BY <1>1 DEF QInv, AskGood
<1>3. AskGood'
  BY <1>1 DEF AskGood, Given
<1> DEFINE q == ask.query
<1>4. answer'.query = q /\ answer'.data = [s \in q.series |-> Entry(s, q)]
  BY <1>1
<1> HIDE DEF q
<1>5. ASSUME NEW s PROVE Entry(s, answer.query)' = Entry(s, q)
  <2>1. InRange(s, answer.query)' = InRange(s, q)
    BY <1>1, <1>4 DEF InRange
  <2> QED
    BY <1>4, <2>1, Zenon DEF Entry, read_range
<1>6. [s \in answer.query.series |-> Entry(s, answer.query)]' = [s \in q.series |-> Entry(s, q)]
  BY <1>4, <1>5, Zenon
<1>7. AnswerRead'
  <2>1. GoodParams(answer'.query)
    BY <1>2, <1>4 DEF q
  <2> QED
    BY <1>4, <1>6, <2>1, Zenon DEF AnswerRead
<1> QED
  BY <1>3, <1>7

\* If nothing happens, an answer stays what it was.
LEMMA QueryStutter ==
    ASSUME QInv, UNCHANGED queryVars
    PROVE  AskGood' /\ AnswerRead'
<1>1. ask' = ask /\ answer' = answer /\ rows' = rows
  BY DEF queryVars, vars
<1>2. AskGood'
  BY <1>1 DEF QInv, AskGood
<1>3. ASSUME NEW s PROVE Entry(s, answer.query)' = Entry(s, answer.query)
  <2>1. InRange(s, answer.query)' = InRange(s, answer.query)
    BY <1>1 DEF InRange
  <2> QED
    BY <1>1, <2>1, Zenon DEF Entry, read_range
<1>4. [s \in answer.query.series |-> Entry(s, answer.query)]'
          = [s \in answer.query.series |-> Entry(s, answer.query)]
  BY <1>1, <1>3, Zenon
<1>5. AnswerRead'
  <2>1. Answering' <=> Answering
    BY <1>1 DEF Answering
  <2> QED
    BY <1>1, <1>4, <2>1, Zenon DEF AnswerRead, QInv
<1> QED
  BY <1>2, <1>5

-----------------------------------------------------------------------------
(* The theorems *)

\* A query handler only reads: with the query API on top of it the store does
\* what it does without, so that its theorems hold there as well.
THEOREM QueriesLeaveTheStore == QuerySpec => Spec
<1>1. QueryInit => Init
  BY DEF QueryInit
<1>2. [QueryNext]_queryVars => [Next]_vars
  BY StoreStep DEF queryVars
<1> QED
  BY <1>1, <1>2, PTL DEF QuerySpec, Spec

\* Whatever is asked, at whatever point of a pass or a tick: parameters that
\* reach the writer were checked, and an answer is made of the rows as they
\* are in the step that gives it.
THEOREM QueryInvariant == QuerySpec => []QInv
<1>1. QueryInit => QInv
  BY InitInv DEF QueryInit, QInv, AskGood, AnswerRead, Answering, Given
<1>2. QInv /\ [QueryNext]_queryVars => QInv'
  <2> SUFFICES ASSUME QInv, [QueryNext]_queryVars PROVE QInv'
    OBVIOUS
  <2>1. IInv'
    <3>1. [Next]_vars
      BY StoreStep DEF queryVars
    <3> QED
      BY <3>1, StoreInductive DEF QInv
  <2>2. AskGood' /\ AnswerRead'
    BY OtherSteps, AnswerStep, QueryStutter DEF QueryNext
  <2> QED
    BY <2>1, <2>2 DEF QInv
<1> QED
  BY <1>1, <1>2, PTL DEF QuerySpec

\* What an entry of an answer is, while there is one.
LEMMA AnsweredEntry ==
    ASSUME QInv, Answering, NEW s \in answer.query.series
    PROVE  /\ GoodParams(answer.query)
           /\ answer.data[s] = Entry(s, answer.query)
           /\ s \in Series
BY DEF QInv, AnswerRead, GoodParams

\* The rows behind a point of an answer.
LEMMA BehindIs ==
    ASSUME NEW s, NEW k, NEW width
    PROVE  Behind(s, k, width) = Of(InRange(s, answer.query), width, k.ts)
BY DEF Behind, Of

\* What read_range() and bucket() return is what the rows of the range say:
\* one point for each bucket with a row and none for a gap, in order, each the
\* mean or the last value of its rows, and every tag in the order of its first
\* row, whatever a pass or a batch did before.
THEOREM AnswersFaithful == QuerySpec => []AnswersAreFaithful
<1>1. ASSUME QInv PROVE AnswersAreFaithful
  <2> SUFFICES ASSUME Answering, NEW s \in answer.query.series
               PROVE  LET p == answer.query
                          width == IF p.step > NATIVE_STEP THEN StepWidth(p) ELSE 1
                          points == answer.data[s].points
                          tags == answer.data[s].honesty_tags
                          First(tag) == CHOOSE r \in InRange(s, p) :
                              r.tag = tag /\ \A o \in InRange(s, p) : o.tag = tag => r.ts <= o.ts
                      IN  /\ {k.ts : k \in ToSet(points)} = {Start(r, width) : r \in InRange(s, p)}
                          /\ \A i, j \in DOMAIN points : i < j => points[i].ts < points[j].ts
                          /\ \A k \in ToSet(points) : k.of = AggregateOf(s, Behind(s, k, width))
                          /\ ToSet(tags) = TagsInRange(s, p.from, p.to)
                          /\ \A i, j \in DOMAIN tags : i < j => First(tags[i]).ts < First(tags[j]).ts
                          /\ Given(answer.data[s].honesty) =>
                                \A r \in InRange(s, p) : r.tag = answer.data[s].honesty
    BY Zenon DEF AnswersAreFaithful
  <2> DEFINE p == answer.query
             found == InRange(s, p)
             width == WidthOf(p)
             points == answer.data[s].points
             tags == answer.data[s].honesty_tags
             IsFirst(r, tag) == r.tag = tag /\ \A o \in found : o.tag = tag => r.ts <= o.ts
             First(tag) == CHOOSE r \in found : IsFirst(r, tag)
  <2>1. /\ FaithfulPoints(points, found, width, s) /\ Tagged(tags, found)
        /\ answer.data[s].honesty = sole_honesty(tags)
    BY <1>1, AnsweredEntry, EntryFaithful DEF QInv
  <2>2. Dated(found)
    BY <1>1, RangeDated DEF QInv
  <2>3. /\ {k.ts : k \in ToSet(points)} = {Start(r, width) : r \in found}
        /\ \A i, j \in DOMAIN points : i < j => points[i].ts < points[j].ts
        /\ \A k \in ToSet(points) : k.of = AggregateOf(s, Of(found, width, k.ts))
    BY <2>1 DEF FaithfulPoints
  <2>4. \A k \in ToSet(points) : k.of = AggregateOf(s, Behind(s, k, width))
    BY <2>3, BehindIs
  <2>5. ToSet(tags) = TagsInRange(s, p.from, p.to)
    <3>1. TagsInRange(s, p.from, p.to) = {r.tag : r \in found}
      BY DEF TagsInRange, InRange
    <3> HIDE DEF found, tags
    <3> QED
      BY <2>1, <3>1 DEF Tagged, ToSet
  <2>6. ASSUME NEW i \in DOMAIN tags, NEW j \in DOMAIN tags, i < j
        PROVE  First(tags[i]).ts < First(tags[j]).ts
    <3> HIDE DEF found, tags
    <3>1. PICK r \in found : r.tag = tags[i] /\ \A q \in found : q.tag = tags[j] => r.ts < q.ts
      BY <2>1, <2>6 DEF Tagged
    <3>2. PICK q \in found : q.tag = tags[j]
      BY <2>1 DEF Tagged
    <3>3. First(tags[i]) \in found /\ IsFirst(First(tags[i]), tags[i])
      <4>1. \E x \in found : IsFirst(x, tags[i])
        BY <2>2, <3>1, OldestExists
      <4> HIDE DEF IsFirst
      <4> QED
        BY <4>1, Zenon
    <3>4. First(tags[j]) \in found /\ IsFirst(First(tags[j]), tags[j])
      <4>1. \E x \in found : IsFirst(x, tags[j])
        BY <2>2, <3>2, OldestExists
      <4> HIDE DEF IsFirst
      <4> QED
        BY <4>1, Zenon
    <3> HIDE DEF First
    <3>5. First(tags[i]).ts <= r.ts /\ r.ts < First(tags[j]).ts
      BY <3>1, <3>3, <3>4
    <3>6. r.ts \in Int /\ First(tags[i]).ts \in Int /\ First(tags[j]).ts \in Int
      BY <2>2, <3>3, <3>4, BoundAssumption DEF Dated
    <3> QED
      BY <3>5, <3>6
  <2>7. ASSUME Given(answer.data[s].honesty), NEW r \in found
        PROVE  r.tag = answer.data[s].honesty
    <3> HIDE DEF found, tags
    <3>1. Len(tags) = 1 /\ answer.data[s].honesty = Head(tags)
      BY <2>1, <2>7 DEF sole_honesty, Given
    <3>2. tags \in Seq(Tag) /\ DOMAIN tags = 1..1
      BY <2>1, <3>1, LenProperties DEF Tagged
    <3>3. Head(tags) = tags[1]
      BY <3>2
    <3>4. PICK a \in 1..1 : r.tag = tags[a]
      BY <2>1, <3>2 DEF Tagged
    <3>5. a = 1
      OBVIOUS
    <3> QED
      BY <3>1, <3>3, <3>4, <3>5
  <2> QED
    BY <2>3, <2>4, <2>5, <2>6, <2>7, Zenon DEF WidthOf
<1> QED
  BY <1>1, QueryInvariant, PTL

\* A bucket of an answer weighs its samples alike, unless the step cuts across
\* the stored buckets and what it reads is older than RAW_WINDOW_MS.
THEOREM AnswersAreMeans == QuerySpec => []PointsAreMeans
<1>1. ASSUME QInv PROVE PointsAreMeans
  <2> SUFFICES ASSUME Answering, NEW s \in answer.query.series,
                      NEW k \in ToSet(answer.data[s].points), ~ k.exact
               PROVE  /\ Width % StepWidth(answer.query) # 0
                      /\ \E m \in k.of : m.ts < peak - RawWindow
    BY DEF PointsAreMeans
  <2> DEFINE p == answer.query
             group == Of(InRange(s, p), WidthOf(p), k.ts)
  <2>1. GoodParams(p) /\ FaithfulPoints(answer.data[s].points, InRange(s, p), WidthOf(p), s)
    BY <1>1, AnsweredEntry, EntryFaithful DEF QInv
  <2>2. k.of = AggregateOf(s, group) /\ s \notin Counter /\ ~ PlainMean(group)
    BY <2>1 DEF FaithfulPoints
  <2>3. Width % StepWidth(p) # 0 /\ \E r \in group : \E m \in r.of : m.ts < peak - RawWindow
    BY <1>1, <2>1, <2>2, NoPlainMean DEF QInv
  <2>4. k.of = UNION {r.of : r \in group}
    BY <2>2 DEF AggregateOf
  <2> HIDE DEF group
  <2> QED
    BY <2>3, <2>4
<1> QED
  BY <1>1, QueryInvariant, PTL

\* What Params::parse lets through exceeds MAX_POINTS_PER_SERIES by the point
\* at the inclusive end of the range and by the one of the bucket its start cuts,
\* and by nothing else, for all parameters.
THEOREM ExcessIsAtEdges == QuerySpec => []CapExceededAtEdgesOnly
<1>1. ASSUME QInv PROVE CapExceededAtEdgesOnly
  <2> DEFINE p == answer.query
             w == StepWidth(p)
             points(s) == answer.data[s].points
             starts(s) == {Start(k, w) : k \in ToSet(points(s))}
  <2> SUFFICES ASSUME Answering, NEW s \in p.series
               PROVE  /\ Cardinality(starts(s)) <= MostSteps(p)
                      /\ p.step > NATIVE_STEP => Len(points(s)) <= MostSteps(p)
    BY DEF CapExceededAtEdgesOnly, MostSteps
  <2>1. GoodParams(p) /\ FaithfulPoints(points(s), InRange(s, p), WidthOf(p), s)
    BY <1>1, AnsweredEntry, EntryFaithful DEF QInv
  <2>2. /\ p.from \div w \in Int /\ p.to \div w \in Int /\ MostSteps(p) \in Int
        /\ (p.to \div w) - (p.from \div w) + 1 <= MostSteps(p)
        /\ Cardinality(starts(s)) \in Nat
        /\ Cardinality(starts(s)) <= (p.to \div w) - (p.from \div w) + 1
    BY <1>1, <2>1, StepsCounted, StepsCapped DEF QInv
  <2>3. ASSUME p.step > NATIVE_STEP
        PROVE  Len(points(s)) \in Nat /\ Len(points(s)) <= (p.to \div w) - (p.from \div w) + 1
    <3>1. WidthOf(p) = w /\ w \in Nat \ {0}
      BY <2>1, <2>3, WidthTyped DEF WidthOf
    <3> QED
      BY <1>1, <2>1, <3>1, PointsCounted DEF QInv
  <2> HIDE DEF p, w, points, starts
  <2> QED
    BY <2>2, <2>3
<1> QED
  BY <1>1, QueryInvariant, PTL
=============================================================================
