---------------------------- MODULE ConsoleProofs ----------------------------
(***************************************************************************)
(* Proofs about Console, for every set of configuration files, of requests *)
(* and of answers.                                                         *)
(*                                                                         *)
(* CredentialsStayApart relates what is sent to the file, so the invariant *)
(* says of the process that it serves what the loader made of an accepted  *)
(* file, and of the exchange and the bridge that what they sent was made   *)
(* from that.  The rest is about the loader: names are unique, so the      *)
(* first entry of a name, the last client of a name and the entry of the   *)
(* file are one.                                                           *)
(*                                                                         *)
(* RelayFaithful is about one bridge.  While the bridge relays, what it    *)
(* passed to a side and what it has not read make up all the other side    *)
(* sent; a frame only moves along.  When it stops relaying, what was       *)
(* passed is a prefix of that, and closing appends a close where there is  *)
(* none.  That nothing follows a close comes from the sides: a side sends  *)
(* nothing after its own.  The bridge comes first, and is put into the     *)
(* steps of the process at the end.                                        *)
(***************************************************************************)
EXTENDS Console, SequenceTheorems, TLAPS

-----------------------------------------------------------------------------
(* Sequences of frames *)

Frames == Seq(Nat)

\* p is the beginning of a.
Begins(p, a) == Len(p) <= Len(a) /\ \A i \in 1..Len(p) : p[i] = a[i]

\* No close before the last frame.
ClosedLast(p) == \A i \in 1..(Len(p) - 1) : p[i] # CLOSE

\* What may have been passed of a: its beginning, or that and a close.
Faithful(p, a) ==
    \/ Begins(p, a)
    \/ /\ p # <<>> /\ p[Len(p)] = CLOSE
       /\ Len(p) - 1 <= Len(a) /\ \A i \in 1..(Len(p) - 1) : p[i] = a[i]

\* What was passed begins the whole, if the whole is that and what is left.
LEMMA PrefixBegins ==
    ASSUME NEW p \in Frames, NEW i \in Frames
    PROVE  Begins(p, p \o i)
BY ConcatProperties, LenProperties DEF Begins, Frames

\* Sequences put together may be bracketed either way, of whatever they are.
LEMMA Bracketed ==
    ASSUME NEW x \in Frames, NEW y \in Frames, NEW z \in Frames
    PROVE  (x \o y) \o z = x \o (y \o z)
<1>1. PICK S : Frames = Seq(S)
  BY DEF Frames
<1> QED
  BY <1>1, ConcatAssociative

\* The first frame of a sequence goes to the end of the one before it.
LEMMA MovesOn ==
    ASSUME NEW g \in Frames, NEW w \in Frames, w # <<>>
    PROVE  /\ Head(w) \in Nat /\ Append(g, Head(w)) \in Frames /\ Tail(w) \in Frames
           /\ Append(g, Head(w)) \o Tail(w) = g \o w
<1>1. Head(w) \in Nat /\ Tail(w) \in Frames /\ Append(g, Head(w)) \in Frames
  BY HeadTailProperties, AppendProperties DEF Frames
<1>2. <<Head(w)>> \in Frames /\ Append(g, Head(w)) = g \o <<Head(w)>>
  BY <1>1, AppendIsConcat DEF Frames
<1>3. Len(w) \in Nat \ {0}
  BY EmptySeq DEF Frames
<1>4. SubSeq(w, 1, Len(w)) = <<w[1]>> \o SubSeq(w, 2, Len(w))
  BY <1>3, SubSeqRecursiveFirst DEF Frames
<1>5. w = <<Head(w)>> \o Tail(w)
  BY <1>3, <1>4, SubSeqFull, TailIsSubSeq DEF Frames
<1>6. (g \o <<Head(w)>>) \o Tail(w) = g \o (<<Head(w)>> \o Tail(w))
  BY <1>1, <1>2, Bracketed
<1> QED
  BY <1>1, <1>2, <1>5, <1>6

\* A frame appended to the second of two sequences is appended to both.
LEMMA JoinsLast ==
    ASSUME NEW g \in Frames, NEW o \in Frames, NEW x \in Nat
    PROVE  /\ Append(o, x) \in Frames /\ g \o o \in Frames
           /\ g \o Append(o, x) = Append(g \o o, x)
<1>1. <<x>> \in Frames /\ Append(o, x) \in Frames /\ Append(o, x) = o \o <<x>>
  BY AppendIsConcat, AppendProperties, EmptySeq DEF Frames
<1>2. g \o o \in Frames /\ Append(g \o o, x) = (g \o o) \o <<x>>
  BY AppendIsConcat, ConcatProperties DEF Frames
<1>3. (g \o o) \o <<x>> = g \o (o \o <<x>>)
  BY <1>1, Bracketed
<1> QED
  BY <1>1, <1>2, <1>3

\* What was passed to a side is in three parts, bracketed either way.
LEMMA InThreeParts ==
    ASSUME NEW g \in Frames, NEW w \in Frames, NEW o \in Frames
    PROVE  g \o (w \o o) = (g \o w) \o o
BY Bracketed

\* A frame sent after others, none of which is a close.
LEMMA SentLast ==
    ASSUME NEW a \in Frames, NEW x \in Nat, \A i \in 1..Len(a) : a[i] # CLOSE
    PROVE  /\ ClosedLast(Append(a, x))
           /\ x # CLOSE => \A i \in 1..Len(Append(a, x)) : Append(a, x)[i] # CLOSE
<1> DEFINE b == Append(a, x)
<1>1. /\ Len(b) = Len(a) + 1 /\ Len(a) \in Nat /\ b[Len(a) + 1] = x
      /\ \A i \in 1..Len(a) : b[i] = a[i]
  BY AppendProperties, LenProperties DEF Frames
<1> HIDE DEF b
<1>2. Len(b) - 1 = Len(a)
  BY <1>1
<1>3. ClosedLast(b)
  BY <1>1, <1>2 DEF ClosedLast
<1>4. x # CLOSE => \A i \in 1..Len(b) : b[i] # CLOSE
  BY <1>1
<1> QED
  BY <1>3, <1>4 DEF b

\* What was passed is as faithful when more is sent.
LEMMA MoreSent ==
    ASSUME NEW p \in Frames, NEW a \in Frames, NEW x \in Nat, Faithful(p, a)
    PROVE  Faithful(p, Append(a, x))
BY AppendProperties, LenProperties DEF Faithful, Begins, Frames

\* A close may be added to what was passed, if there is none in it.
LEMMA CloseAdded ==
    ASSUME NEW p \in Frames, NEW a \in Frames, Faithful(p, a), \A i \in 1..Len(p) : p[i] # CLOSE
    PROVE  /\ Append(p, CLOSE) \in Frames
           /\ Faithful(Append(p, CLOSE), a) /\ ClosedLast(Append(p, CLOSE))
<1> DEFINE q == Append(p, CLOSE)
<1>1. /\ q \in Frames /\ q # <<>> /\ Len(q) = Len(p) + 1 /\ q[Len(p) + 1] = CLOSE
      /\ \A i \in 1..Len(p) : q[i] = p[i]
      /\ Len(p) \in Nat /\ Len(a) \in Nat
  BY AppendProperties, LenProperties DEF Frames, CLOSE
<1>2. Begins(p, a)
  BY <1>1, EmptySeq DEF Faithful, Frames
<1> HIDE DEF q
<1>3. Len(q) - 1 = Len(p)
  BY <1>1
<1> QED
  BY <1>1, <1>2, <1>3 DEF Faithful, Begins, ClosedLast, q

-----------------------------------------------------------------------------
(* The invariant *)

Phases == {"none", "ticket", "connect", "relay", "send", "close", "done"}

BridgeTyped ==
    /\ DOMAIN bridge = {"phase", "instance", "side", "closing", "ticketRequest", "connection"}
    /\ bridge.phase \in Phases /\ bridge.side \in Sides
    /\ sent \in [Sides -> Frames] /\ inbox \in [Sides -> Frames]
    /\ out \in [Sides -> Frames] /\ wire \in [Sides -> Frames] /\ got \in [Sides -> Frames]
    /\ DOMAIN shut = Sides

\* A side sends nothing after its close.
SidesClose ==
    \A s \in Sides : /\ ClosedLast(sent[s])
                     /\ shut[s] = "open" => \A i \in 1..Len(sent[s]) : sent[s][i] # CLOSE

\* Before the sockets are joined nothing was passed, and nothing was read.
NotJoined ==
    bridge.phase \in {"none", "ticket", "connect"} =>
        /\ got = Empty /\ wire = Empty /\ out = Empty /\ inbox = sent
        /\ sent["engine"] = <<>>
        /\ bridge.phase = "none" => sent["browser"] = <<>>

\* While they are, what was passed and what was not read is what was sent.
NothingMissing ==
    bridge.phase \in {"relay", "send"} =>
        \A s \in Sides : Passed(s) \o inbox[Other(s)] = sent[Other(s)]

PassedFaithfully ==
    \A s \in Sides : Faithful(Passed(s), sent[Other(s)]) /\ ClosedLast(Passed(s))

RelayInv == BridgeTyped /\ SidesClose /\ NotJoined /\ NothingMissing /\ PassedFaithfully

\* The types of what was passed.
LEMMA PassedTyped ==
    ASSUME BridgeTyped, NEW s \in Sides
    PROVE  /\ Other(s) \in Sides /\ Other(s) # s /\ Other(Other(s)) = s
           /\ sent[s] \in Frames /\ inbox[s] \in Frames
           /\ got[s] \in Frames /\ wire[s] \in Frames /\ out[s] \in Frames
           /\ got[s] \o wire[s] \in Frames /\ Passed(s) \in Frames
BY ConcatProperties DEF BridgeTyped, Frames, Passed, Sides, Other

\* While nothing is missing, what was passed is the beginning of what was sent.
LEMMA CompleteIsFaithful ==
    ASSUME NEW p \in Frames, NEW i \in Frames, NEW a \in Frames, p \o i = a, ClosedLast(a)
    PROVE  Faithful(p, a) /\ ClosedLast(p)
<1>1. Begins(p, a)
  BY PrefixBegins
<1>2. Len(p) \in Nat /\ Len(a) \in Nat
  BY LenProperties DEF Frames
<1> QED
  BY <1>1, <1>2 DEF Faithful, Begins, ClosedLast

-----------------------------------------------------------------------------
(* The invariant is inductive *)

\* Without a bridge nothing was sent or passed.
LEMMA NobodyThere ==
    ASSUME bridge' = NoBridge, shut' = Gone,
           sent' = Empty, inbox' = Empty, out' = Empty, wire' = Empty, got' = Empty
    PROVE  RelayInv'
<1>1. <<>> \in Frames /\ Len(<<>>) = 0 /\ <<>> \o <<>> \o <<>> = <<>>
  BY EmptySeq, ConcatEmptySeq DEF Frames
<1>2. \A s \in Sides : Empty[s] = <<>> /\ Other(s) \in Sides
  BY DEF Empty, Sides, Other
<1>3. BridgeTyped'
  BY <1>1 DEF BridgeTyped, NoBridge, Gone, Empty, Phases, Sides
<1>4. SidesClose'
  BY <1>1, <1>2 DEF SidesClose, ClosedLast
<1>5. NotJoined' /\ NothingMissing'
  BY <1>2 DEF NotJoined, NothingMissing, NoBridge, Sides
<1>6. \A s \in Sides : Passed(s)' = <<>>
  BY <1>1, <1>2 DEF Passed
<1>7. PassedFaithfully'
  <2>1. Faithful(<<>>, <<>>) /\ ClosedLast(<<>>)
    BY <1>1 DEF Faithful, Begins, ClosedLast
  <2> QED
    BY <1>2, <1>6, <2>1 DEF PassedFaithfully
<1> QED
  BY <1>3, <1>4, <1>5, <1>7 DEF RelayInv

\* A step that does not change what was passed or sent.
LEMMA NothingNew ==
    ASSUME RelayInv, BridgeTyped', sent' = sent, inbox' = inbox,
           \A s \in Sides : shut'[s] = "open" => shut[s] = "open",
           \A s \in Sides : Passed(s)' = Passed(s),
           bridge'.phase \in {"relay", "send"} => bridge.phase \in {"relay", "send"},
           bridge'.phase \in {"none", "ticket", "connect"} =>
               UNCHANGED <<got, wire, out>> /\ bridge.phase \in {"none", "ticket", "connect"}
               /\ (bridge'.phase = "none" => bridge.phase = "none")
    PROVE  RelayInv'
<1>1. SidesClose'
  BY DEF RelayInv, SidesClose
<1>2. NotJoined'
  BY DEF RelayInv, NotJoined
<1>3. NothingMissing'
  BY DEF RelayInv, NothingMissing
<1>4. PassedFaithfully'
  BY DEF RelayInv, PassedFaithfully
<1> QED
  BY <1>1, <1>2, <1>3, <1>4 DEF RelayInv

\* A frame goes from the library to the socket.
LEMMA WrittenMoves ==
    ASSUME BridgeTyped, NEW s \in Sides, Written(s)
    PROVE  /\ wire' \in [Sides -> Frames] /\ [out EXCEPT ![s] = Tail(@)] \in [Sides -> Frames]
           /\ \A u \in Sides : got[u] \o wire'[u] \o [out EXCEPT ![s] = Tail(@)][u] = Passed(u)
<1> DEFINE rest == [out EXCEPT ![s] = Tail(@)]
<1>1. /\ Append(wire[s], Head(out[s])) \in Frames /\ Tail(out[s]) \in Frames
      /\ Append(wire[s], Head(out[s])) \o Tail(out[s]) = wire[s] \o out[s]
  BY PassedTyped, MovesOn DEF Written
<1>2. /\ wire' = [wire EXCEPT ![s] = Append(@, Head(out[s]))]
      /\ wire'[s] = Append(wire[s], Head(out[s])) /\ rest[s] = Tail(out[s])
      /\ \A u \in Sides \ {s} : wire'[u] = wire[u] /\ rest[u] = out[u]
      /\ wire' \in [Sides -> Frames] /\ rest \in [Sides -> Frames]
  BY <1>1 DEF Written, BridgeTyped
<1> HIDE DEF rest
<1>3. ASSUME NEW u \in Sides PROVE got[u] \o wire'[u] \o rest[u] = got[u] \o wire[u] \o out[u]
  <2>1. CASE u # s
    BY <1>2, <2>1
  <2>2. CASE u = s
    <3>1. got[s] \o (wire'[s] \o rest[s]) = got[s] \o (wire[s] \o out[s])
      BY <1>1, <1>2
    <3>0. /\ got[s] \in Frames /\ wire'[s] \in Frames /\ rest[s] \in Frames
          /\ wire[s] \in Frames /\ out[s] \in Frames
      BY <1>1, <1>2, PassedTyped
    <3>2. got[s] \o (wire'[s] \o rest[s]) = (got[s] \o wire'[s]) \o rest[s]
      BY <3>0, InThreeParts, ZenonT(60)
    <3>3. got[s] \o (wire[s] \o out[s]) = (got[s] \o wire[s]) \o out[s]
      BY <3>0, InThreeParts, ZenonT(60)
    <3> QED
      BY <2>2, <3>1, <3>2, <3>3
  <2> QED
    BY <2>1, <2>2
<1> QED
  BY <1>2, <1>3 DEF Passed, rest

\* A socket is closed with a close frame, unless there is one.
LEMMA SocketCloses ==
    ASSUME RelayInv, NEW side \in Sides, NEW q \in [Sides -> Frames],
           wire' \in [Sides -> Frames], UNCHANGED <<got, sent, inbox, shut>>,
           \A u \in Sides : got[u] \o wire'[u] \o q[u] = Passed(u),
           out' = WithClose(side, q), bridge'.phase = "close", bridge'.side \in Sides,
           DOMAIN bridge' = DOMAIN bridge
    PROVE  RelayInv'
<1>0. \A u \in Sides : q[u] \in Frames /\ wire'[u] \in Frames /\ got[u] \o wire'[u] \in Frames
  BY PassedTyped, ConcatProperties DEF RelayInv, Frames
<1>1. CASE CLOSE \in ToSet(got[side] \o wire'[side] \o q[side])
  <2>1. out' = q
    BY <1>1 DEF WithClose
  <2>2. \A u \in Sides : Passed(u)' = Passed(u)
    BY <2>1 DEF Passed
  <2>3. BridgeTyped'
    BY <2>1 DEF RelayInv, BridgeTyped, Phases
  <2> QED
    BY <2>2, <2>3, NothingNew
<1>2. CASE CLOSE \notin ToSet(got[side] \o wire'[side] \o q[side])
  <2>1. out' = [q EXCEPT ![side] = Append(@, CLOSE)]
    BY <1>2 DEF WithClose
  <2>2. Passed(side) \in Frames /\ Other(side) \in Sides /\ sent[Other(side)] \in Frames
    BY PassedTyped DEF RelayInv
  <2>3. \A i \in 1..Len(Passed(side)) : Passed(side)[i] # CLOSE
    <3>1. CLOSE \notin ToSet(Passed(side))
      BY <1>2
    <3>2. DOMAIN Passed(side) = 1..Len(Passed(side))
      BY <2>2, LenProperties DEF Frames
    <3> QED
      BY <3>1, <3>2 DEF ToSet
  <2>4. Faithful(Append(Passed(side), CLOSE), sent[Other(side)])
        /\ ClosedLast(Append(Passed(side), CLOSE))
    BY <2>2, <2>3, CloseAdded DEF RelayInv, PassedFaithfully
  <2>5. CLOSE \in Nat
    BY DEF CLOSE
  <2>6. Append(q[side], CLOSE) \in Frames
        /\ got[side] \o wire'[side] \o Append(q[side], CLOSE) = Append(Passed(side), CLOSE)
    <3>1. /\ got[side] \in Frames /\ wire'[side] \in Frames /\ q[side] \in Frames
          /\ Passed(side) = (got[side] \o wire'[side]) \o q[side]
      BY <1>0, PassedTyped DEF RelayInv
    <3>2. /\ Append(q[side], CLOSE) \in Frames
          /\ (got[side] \o wire'[side]) \o Append(q[side], CLOSE)
             = Append((got[side] \o wire'[side]) \o q[side], CLOSE)
      <4>1. got[side] \o wire'[side] \in Frames /\ q[side] \in Frames
        BY <1>0
      <4>2. \A g, o \in Frames : \A x \in Nat :
                Append(o, x) \in Frames /\ g \o Append(o, x) = Append(g \o o, x)
        BY JoinsLast
      <4> QED
        BY <2>5, <4>1, <4>2, Zenon
    <3> QED
      BY <3>1, <3>2
  <2>7. /\ out'[side] = Append(q[side], CLOSE) /\ out' \in [Sides -> Frames]
        /\ \A u \in Sides \ {side} : out'[u] = q[u]
    BY <2>1, <2>6
  <2>8. \A u \in Sides : Passed(u)' = IF u = side THEN Append(Passed(side), CLOSE) ELSE Passed(u)
    BY <2>6, <2>7 DEF Passed
  <2>9. PassedFaithfully'
    BY <2>4, <2>8 DEF RelayInv, PassedFaithfully
  <2>10. BridgeTyped'
    BY <2>7 DEF RelayInv, BridgeTyped, Phases
  <2> QED
    BY <2>9, <2>10 DEF RelayInv, SidesClose, NotJoined, NothingMissing
<1> QED
  BY <1>1, <1>2

\* A frame that a side sends is one the bridge has not read.
LEMMA SideSendsInv ==
    ASSUME RelayInv, NEW s \in Sides, NEW frame \in Nat, SideSends(s, frame)
    PROVE  RelayInv'
<1>1. /\ shut[s] = "open" /\ UNCHANGED <<bridge, out, wire, got>>
      /\ Append(sent[s], frame) \in Frames /\ Append(inbox[s], frame) \in Frames
      /\ sent'[s] = Append(sent[s], frame) /\ inbox'[s] = Append(inbox[s], frame)
      /\ \A u \in Sides \ {s} : sent'[u] = sent[u] /\ inbox'[u] = inbox[u] /\ shut'[u] = shut[u]
      /\ sent' \in [Sides -> Frames] /\ inbox' \in [Sides -> Frames] /\ DOMAIN shut' = Sides
      /\ frame = CLOSE => shut'[s] # "open"
  BY AppendProperties DEF SideSends, RelayInv, BridgeTyped, buffers, Frames
<1>2. BridgeTyped'
  BY <1>1 DEF RelayInv, BridgeTyped
<1>3. \A i \in 1..Len(sent[s]) : sent[s][i] # CLOSE
  BY <1>1 DEF RelayInv, SidesClose
<1>4. /\ ClosedLast(Append(sent[s], frame))
      /\ frame # CLOSE =>
            \A i \in 1..Len(Append(sent[s], frame)) : Append(sent[s], frame)[i] # CLOSE
  <2>1. sent[s] \in Frames
    BY PassedTyped DEF RelayInv
  <2> QED
    BY <1>3, <2>1, SentLast
<1>5. SidesClose'
  <2> SUFFICES ASSUME NEW u \in Sides
               PROVE  /\ ClosedLast(sent'[u])
                      /\ shut'[u] = "open" => \A i \in 1..Len(sent'[u]) : sent'[u][i] # CLOSE
    BY DEF SidesClose
  <2>1. CASE u = s
    BY <1>1, <1>4, <2>1
  <2>2. CASE u # s
    <3>1. sent'[u] = sent[u] /\ shut'[u] = shut[u]
      BY <1>1, <2>2
    <3>2. /\ ClosedLast(sent[u])
          /\ shut[u] = "open" => \A i \in 1..Len(sent[u]) : sent[u][i] # CLOSE
      BY DEF RelayInv, SidesClose
    <3> QED
      BY <3>1, <3>2
  <2> QED
    BY <2>1, <2>2
<1>6. \A u \in Sides : Passed(u)' = Passed(u)
  BY <1>1 DEF Passed
<1>7. NotJoined'
  <2> SUFFICES ASSUME bridge.phase \in {"none", "ticket", "connect"}
               PROVE  NotJoined'
    BY <1>1 DEF NotJoined
  <2>1. s # "engine" /\ bridge.phase # "none"
    BY DEF SideSends, Connected, Active, Bridged
  <2>2. inbox = sent /\ inbox' = sent'
    BY DEF SideSends, RelayInv, NotJoined
  <2> QED
    BY <1>1, <2>1, <2>2 DEF RelayInv, NotJoined, Sides
<1>8. NothingMissing'
  <2> SUFFICES ASSUME bridge.phase \in {"relay", "send"}, NEW u \in Sides
               PROVE  Passed(u) \o inbox'[Other(u)] = sent'[Other(u)]
    BY <1>1, <1>6 DEF NothingMissing
  <2>1. Passed(u) \o inbox[Other(u)] = sent[Other(u)]
    BY DEF RelayInv, NothingMissing
  <2>2. CASE Other(u) = s
    <3>1. /\ Passed(u) \in Frames /\ inbox[s] \in Frames /\ frame \in Nat
          /\ Passed(u) \o inbox[s] = sent[s]
      BY <2>1, <2>2, PassedTyped DEF RelayInv
    <3>2. Passed(u) \o Append(inbox[s], frame) = Append(Passed(u) \o inbox[s], frame)
      BY <3>1, JoinsLast
    <3> QED
      BY <1>1, <2>2, <3>1, <3>2
  <2>3. CASE Other(u) # s
    BY <1>1, <2>1, <2>3, PassedTyped DEF RelayInv
  <2> QED
    BY <2>2, <2>3
<1>9. PassedFaithfully'
  <2> SUFFICES ASSUME NEW u \in Sides PROVE Faithful(Passed(u), sent'[Other(u)])
    BY <1>6 DEF PassedFaithfully, RelayInv
  <2>1. Faithful(Passed(u), sent[Other(u)])
    BY DEF RelayInv, PassedFaithfully
  <2>2. CASE Other(u) = s
    <3>1. /\ Passed(u) \in Frames /\ sent[s] \in Frames /\ frame \in Nat
          /\ Faithful(Passed(u), sent[s])
      BY <2>1, <2>2, PassedTyped DEF RelayInv
    <3>2. Faithful(Passed(u), Append(sent[s], frame))
      BY <3>1, MoreSent
    <3> QED
      BY <1>1, <2>2, <3>2
  <2>3. CASE Other(u) # s
    BY <1>1, <2>1, <2>3, PassedTyped DEF RelayInv
  <2> QED
    BY <2>2, <2>3
<1> QED
  BY <1>2, <1>5, <1>7, <1>8, <1>9 DEF RelayInv

\* What browser and engine do of themselves.
LEMMA SideStepInv == RelayInv /\ SideStep => RelayInv'
<1> SUFFICES ASSUME RelayInv, NEW s \in Sides,
                    SideSendsNext(s) \/ SideCloses(s) \/ SideVanishes(s) \/ SideReads(s)
             PROVE  RelayInv'
  BY DEF SideStep
<1>1. CASE SideSendsNext(s)
  <2>1. Len(sent[s]) + 1 \in Nat
    BY LenProperties DEF RelayInv, BridgeTyped, Frames
  <2> QED
    BY <1>1, <2>1, SideSendsInv DEF SideSendsNext
<1>2. CASE SideCloses(s)
  BY <1>2, SideSendsInv DEF SideCloses, CLOSE
<1>3. CASE SideVanishes(s)
  <2>1. \A u \in Sides : Passed(u)' = Passed(u)
    BY <1>3 DEF SideVanishes, buffers, Passed
  <2>2. BridgeTyped' /\ \A u \in Sides : shut'[u] = "open" => shut[u] = "open"
    BY <1>3 DEF SideVanishes, buffers, RelayInv, BridgeTyped
  <2> QED
    BY <1>3, <2>1, <2>2, NothingNew DEF SideVanishes, buffers
<1>4. CASE SideReads(s)
  <2>1. /\ Append(got[s], Head(wire[s])) \in Frames /\ Tail(wire[s]) \in Frames
        /\ Append(got[s], Head(wire[s])) \o Tail(wire[s]) = got[s] \o wire[s]
    BY <1>4, PassedTyped, MovesOn DEF SideReads, RelayInv
  <2>2. /\ got'[s] = Append(got[s], Head(wire[s])) /\ wire'[s] = Tail(wire[s])
        /\ \A u \in Sides \ {s} : got'[u] = got[u] /\ wire'[u] = wire[u]
        /\ got' \in [Sides -> Frames] /\ wire' \in [Sides -> Frames]
    BY <1>4, <2>1 DEF SideReads, RelayInv, BridgeTyped
  <2>3. \A u \in Sides : Passed(u)' = Passed(u)
    BY <1>4, <2>1, <2>2 DEF SideReads, Passed
  <2>4. BridgeTyped'
    BY <1>4, <2>2 DEF SideReads, peers, RelayInv, BridgeTyped
  <2>5. bridge.phase \notin {"none", "ticket", "connect"}
    BY <1>4 DEF SideReads, RelayInv, NotJoined, Empty
  <2> QED
    BY <1>4, <2>3, <2>4, <2>5, NothingNew DEF SideReads, peers
<1> QED
  BY <1>1, <1>2, <1>3, <1>4

\* Until the sockets are joined.
LEMMA JoiningInv ==
    ASSUME RelayInv,
           \/ \E name : Upgrade(name)
           \/ TicketGranted \/ SocketOpens \/ ConnectFails \/ ConnectTimesOut
    PROVE  RelayInv'
<1>0. /\ bridge.phase \in {"none", "ticket", "connect"}
      /\ got = Empty /\ wire = Empty /\ out = Empty /\ inbox = sent /\ sent["engine"] = <<>>
      /\ bridge.phase = "none" => sent["browser"] = <<>>
      /\ \A s \in Sides : Empty[s] = <<>>
      /\ Len(<<>>) = 0 /\ <<>> \in Frames /\ <<>> \o <<>> = <<>>
  BY EmptySeq, ConcatEmptySeq
  DEF Upgrade, TicketGranted, SocketOpens, ConnectFails, ConnectTimesOut, RelayInv, NotJoined,
      Empty, Frames
<1>1. \A s \in Sides : Passed(s) = <<>>
  BY <1>0 DEF Passed
<1>2. CASE \E name : Upgrade(name)
  <2>1. /\ UNCHANGED <<sent, inbox, got, wire, out>> /\ bridge'.phase = "ticket"
        /\ BridgeTyped' /\ shut' = [shut EXCEPT !["browser"] = "open"]
        /\ bridge.phase = "none"
    BY <1>2 DEF Upgrade, NoBridge, buffers, RelayInv, BridgeTyped, Phases, Sides
  <2>2. \A s \in Sides : sent[s] = <<>>
    BY <1>0, <2>1 DEF Sides
  <2>3. SidesClose'
    BY <1>0, <2>1, <2>2 DEF SidesClose, ClosedLast
  <2>4. NotJoined' /\ NothingMissing' /\ PassedFaithfully'
    BY <1>0, <2>1 DEF RelayInv, NotJoined, NothingMissing, PassedFaithfully, Passed
  <2> QED
    BY <2>1, <2>3, <2>4 DEF RelayInv
<1>3. CASE TicketGranted
  <2>1. BridgeTyped' /\ bridge'.phase = "connect"
    BY <1>3 DEF TicketGranted, peers, buffers, RelayInv, BridgeTyped, Phases
  <2>2. \A s \in Sides : Passed(s)' = Passed(s)
    BY <1>3 DEF TicketGranted, peers, buffers, Passed
  <2> QED
    BY <1>0, <1>3, <2>1, <2>2, NothingNew DEF TicketGranted, peers, buffers
<1>4. CASE SocketOpens
  <2>1. /\ UNCHANGED <<sent, inbox, got, wire, out>> /\ bridge'.phase = "relay"
        /\ BridgeTyped' /\ shut' = [shut EXCEPT !["engine"] = "open"]
    BY <1>4 DEF SocketOpens, buffers, RelayInv, BridgeTyped, Phases, Sides
  <2>2. SidesClose'
    BY <1>0, <2>1 DEF RelayInv, SidesClose, BridgeTyped
  <2>3. \A s \in Sides : Passed(s)' = <<>>
    BY <1>1, <2>1 DEF Passed
  <2>4. NothingMissing'
    BY <1>0, <2>1, <2>3, PassedTyped, ConcatEmptySeq, SMTT(30) DEF NothingMissing, RelayInv, Frames
  <2>5. NotJoined' /\ PassedFaithfully'
    BY <1>1, <2>1, <2>3 DEF NotJoined, PassedFaithfully, RelayInv
  <2> QED
    BY <2>1, <2>2, <2>4, <2>5 DEF RelayInv
<1>5. CASE ConnectFails \/ ConnectTimesOut
  <2>1. /\ UNCHANGED <<sent, shut, inbox, out, got>> /\ bridge'.phase = "done"
        /\ DOMAIN bridge' = DOMAIN bridge /\ bridge'.side = bridge.side
    BY <1>5 DEF ConnectFails, ConnectTimesOut, Unavailable, peers, RelayInv, BridgeTyped
  <2>2. CASE wire' = wire
    <3>1. BridgeTyped' /\ \A s \in Sides : Passed(s)' = Passed(s)
      BY <2>1, <2>2 DEF RelayInv, BridgeTyped, Passed, Phases
    <3> QED
      BY <2>1, <3>1, NothingNew
  <2>3. CASE wire' = [wire EXCEPT !["browser"] = <<CLOSE>>]
    <3>0. /\ CLOSE \in Nat /\ <<CLOSE>> = Append(<<>>, CLOSE) /\ <<CLOSE>> \in Frames
          /\ <<>> \o <<CLOSE>> \o <<>> = <<CLOSE>>
      BY ConcatEmptySeq, AppendProperties, EmptySeq DEF CLOSE, Frames
    <3>1. /\ "browser" \in Sides /\ wire'["browser"] = <<CLOSE>>
          /\ wire'["engine"] = wire["engine"] /\ wire' \in [Sides -> Frames]
      BY <2>3, <3>0 DEF RelayInv, BridgeTyped, Sides
    <3>2. BridgeTyped'
      BY <2>1, <3>1 DEF RelayInv, BridgeTyped, Phases
    <3>3. Passed("browser")' = Append(<<>>, CLOSE) /\ Passed("engine")' = <<>>
      BY <1>0, <1>1, <2>1, <3>0, <3>1 DEF Passed, Sides
    <3>4. Faithful(Append(<<>>, CLOSE), sent["engine"]) /\ ClosedLast(Append(<<>>, CLOSE))
      <4>1. /\ "browser" \in Sides /\ Other("browser") = "engine" /\ "engine" \in Sides
            /\ <<>> \in Frames /\ 1..Len(<<>>) = {}
        BY <1>0 DEF Sides, Other
      <4>2. Faithful(<<>>, sent["engine"]) /\ sent["engine"] \in Frames
        BY <1>1, <4>1, PassedTyped DEF RelayInv, PassedFaithfully
      <4> QED
        BY <4>1, <4>2, CloseAdded
    <3>5. PassedFaithfully'
      BY <1>1, <2>1, <3>3, <3>4 DEF RelayInv, PassedFaithfully, Sides, Other
    <3> QED
      BY <2>1, <3>2, <3>5 DEF RelayInv, SidesClose, NotJoined, NothingMissing
  <2> QED
    BY <1>5, <2>2, <2>3 DEF ConnectFails, ConnectTimesOut, Unavailable
<1> QED
  BY <1>2, <1>3, <1>4, <1>5

\* The bridge takes a frame from one side and gives it to the library of the
\* other.
LEMMA ReadInv == ASSUME RelayInv, NEW s \in Sides, Read(s) PROVE RelayInv'
<1> DEFINE x == Head(inbox[s])
           o == Other(s)
<1>1. o \in Sides /\ o # s /\ Other(o) = s
  BY PassedTyped DEF RelayInv
<1>2. /\ x \in Nat /\ Tail(inbox[s]) \in Frames
      /\ Append(Passed(o), x) \in Frames
      /\ Append(Passed(o), x) \o Tail(inbox[s]) = Passed(o) \o inbox[s]
  BY <1>1, PassedTyped, MovesOn DEF Read, RelayInv
<1>3. /\ Append(out[o], x) \in Frames
      /\ got[o] \o wire[o] \o Append(out[o], x) = Append(Passed(o), x)
  <2>1. got[o] \in Frames /\ wire[o] \in Frames /\ out[o] \in Frames /\ x \in Nat
    BY <1>1, <1>2, PassedTyped DEF RelayInv
  <2> HIDE DEF x, o
  <2> QED
    <3>1. got[o] \o wire[o] \in Frames
      BY <2>1, ConcatProperties DEF Frames
    <3>2. /\ Append(out[o], x) \in Frames
          /\ (got[o] \o wire[o]) \o Append(out[o], x) = Append((got[o] \o wire[o]) \o out[o], x)
      BY <2>1, <3>1, JoinsLast
    <3> QED
      BY <3>2 DEF Passed
<1> HIDE DEF x, o
<1>4. /\ UNCHANGED <<sent, shut, wire, got>> /\ bridge.phase = "relay" /\ bridge'.phase = "send"
      /\ bridge'.side = o /\ DOMAIN bridge' = DOMAIN bridge
      /\ inbox' = [inbox EXCEPT ![s] = Tail(@)] /\ out' = [out EXCEPT ![o] = Append(@, x)]
  BY DEF Read, RelayInv, BridgeTyped, x, o
<1>5. BridgeTyped'
  BY <1>1, <1>2, <1>3, <1>4 DEF RelayInv, BridgeTyped, Phases
<1>6. /\ out'[o] = Append(out[o], x) /\ inbox'[s] = Tail(inbox[s])
      /\ \A u \in Sides : (u # o => out'[u] = out[u]) /\ (u # s => inbox'[u] = inbox[u])
  BY <1>1, <1>4 DEF RelayInv, BridgeTyped
<1>7. \A u \in Sides : Passed(u)' = IF u = o THEN Append(Passed(o), x) ELSE Passed(u)
  <2> SUFFICES ASSUME NEW u \in Sides
               PROVE  Passed(u)' = IF u = o THEN Append(Passed(o), x) ELSE Passed(u)
    OBVIOUS
  <2>1. Passed(u)' = got[u] \o wire[u] \o out'[u]
    BY <1>4 DEF Passed
  <2>2. CASE u = o
    BY <1>3, <1>6, <2>1, <2>2
  <2>3. CASE u # o
    BY <1>6, <2>1, <2>3 DEF Passed
  <2> QED
    BY <2>2, <2>3
<1>8. NothingMissing'
  <2> SUFFICES ASSUME NEW u \in Sides PROVE Passed(u)' \o inbox'[Other(u)] = sent[Other(u)]
    BY <1>4 DEF NothingMissing
  <2>1. Passed(u) \o inbox[Other(u)] = sent[Other(u)] /\ Other(u) \in Sides /\ Other(Other(u)) = u
    BY <1>4, PassedTyped DEF RelayInv, NothingMissing
  <2>2. CASE u = o
    BY <1>1, <1>2, <1>6, <1>7, <2>1, <2>2
  <2>3. CASE u # o
    <3>1. Other(u) # s
      BY <2>1, <2>3 DEF o
    <3>2. Passed(u)' = Passed(u)
      BY <1>7, <2>3
    <3>3. inbox'[Other(u)] = inbox[Other(u)]
      BY <1>6, <2>1, <3>1
    <3> QED
      BY <2>1, <3>2, <3>3
  <2> QED
    BY <2>2, <2>3
<1>9. PassedFaithfully'
  <2> SUFFICES ASSUME NEW u \in Sides
               PROVE  Faithful(Passed(u)', sent[Other(u)]) /\ ClosedLast(Passed(u)')
    BY <1>4 DEF PassedFaithfully
  <2>1. Passed(u)' \o inbox'[Other(u)] = sent[Other(u)]
    BY <1>4, <1>8 DEF NothingMissing
  <2>2. Passed(u)' \in Frames
    BY <1>2, <1>7, PassedTyped DEF RelayInv
  <2>3. Other(u) \in Sides /\ inbox'[Other(u)] \in Frames /\ sent[Other(u)] \in Frames
    BY <1>5, PassedTyped DEF RelayInv, BridgeTyped
  <2>4. ClosedLast(sent[Other(u)])
    BY <2>3 DEF RelayInv, SidesClose
  <2> QED
    BY <2>1, <2>2, <2>3, <2>4, CompleteIsFaithful
<1> QED
  BY <1>4, <1>5, <1>8, <1>9 DEF RelayInv, SidesClose, NotJoined

\* The loop is left, with q in the library's hands.
LEMMA BreakInv ==
    ASSUME RelayInv, NEW q \in [Sides -> Frames], wire' \in [Sides -> Frames],
           UNCHANGED <<got, sent, inbox, shut>>,
           \A u \in Sides : got[u] \o wire'[u] \o q[u] = Passed(u), Break(q)
    PROVE  RelayInv'
<1>1. bridge'.phase = "close" /\ bridge'.side = "engine" /\ DOMAIN bridge' = DOMAIN bridge
  BY DEF Break, RelayInv, BridgeTyped
<1> QED
  BY <1>1, SocketCloses DEF Break, Sides

\* What the bridge does, and what a read that fails does to it.
LEMMA BridgeStepInv ==
    RelayInv /\ (BridgeStep \/ \E s \in Sides : ReadFails(s)) => RelayInv'
<1> SUFFICES ASSUME RelayInv, BridgeStep \/ \E s \in Sides : ReadFails(s) PROVE RelayInv'
  OBVIOUS
<1>0. /\ bridge.side \in Sides /\ BridgeTyped
      /\ out \in [Sides -> Frames] /\ wire \in [Sides -> Frames]
      /\ \A u \in Sides : got[u] \o wire[u] \o out[u] = Passed(u)
  BY DEF RelayInv, BridgeTyped, Passed
<1>1. ASSUME UNCHANGED <<peers, wire, got>>, Break(out) PROVE RelayInv'
  BY <1>0, <1>1, BreakInv DEF peers
<1>2. CASE Sent
  <2> DEFINE rest == [out EXCEPT ![bridge.side] = Tail(@)]
  <2>1. /\ wire' \in [Sides -> Frames] /\ rest \in [Sides -> Frames]
        /\ \A u \in Sides : got[u] \o wire'[u] \o rest[u] = Passed(u)
    BY <1>0, <1>2, WrittenMoves DEF Sent
  <2> HIDE DEF rest
  <2>2. CASE Break(rest)
    BY <1>2, <2>1, <2>2, BreakInv DEF Sent, peers
  <2>3. CASE bridge' = [bridge EXCEPT !.phase = "relay"] /\ out' = rest
    <3>1. BridgeTyped' /\ bridge'.phase = "relay" /\ bridge.phase = "send"
      BY <1>2, <2>1, <2>3 DEF Sent, peers, RelayInv, BridgeTyped, Phases
    <3>2. \A u \in Sides : Passed(u)' = Passed(u)
      BY <1>2, <2>1, <2>3 DEF Sent, Passed
    <3> QED
      BY <1>2, <3>1, <3>2, NothingNew DEF Sent, peers
  <2> QED
    BY <1>2, <2>2, <2>3 DEF Sent, rest
<1>3. CASE CloseWrites
  <2> DEFINE rest == [out EXCEPT ![bridge.side] = Tail(@)]
  <2>1. /\ wire' \in [Sides -> Frames] /\ rest \in [Sides -> Frames]
        /\ \A u \in Sides : got[u] \o wire'[u] \o rest[u] = Passed(u)
    BY <1>0, <1>3, WrittenMoves DEF CloseWrites
  <2>2. out' = rest /\ bridge.phase = "close" /\ UNCHANGED <<bridge, sent, shut, inbox, got>>
    BY <1>3 DEF CloseWrites, peers
  <2> HIDE DEF rest
  <2>3. BridgeTyped' /\ \A u \in Sides : Passed(u)' = Passed(u)
    BY <2>1, <2>2 DEF RelayInv, BridgeTyped, Passed
  <2> QED
    BY <2>2, <2>3, NothingNew
<1>4. CASE CloseEnds
  <2>1. UNCHANGED <<sent, shut, inbox, wire, got>> /\ bridge.phase = "close"
    BY <1>4 DEF CloseEnds, peers
  <2>2. CASE bridge' = [bridge EXCEPT !.side = "browser"] /\ out' = WithClose("browser", out)
    <3>1. bridge'.phase = "close" /\ bridge'.side = "browser" /\ DOMAIN bridge' = DOMAIN bridge
      BY <2>1, <2>2 DEF RelayInv, BridgeTyped
    <3> QED
      BY <1>0, <2>1, <2>2, <3>1, SocketCloses DEF Sides
  <2>3. CASE bridge' = [bridge EXCEPT !.phase = "done"] /\ UNCHANGED out
    <3>1. /\ BridgeTyped' /\ bridge'.phase = "done"
          /\ \A u \in Sides : Passed(u)' = Passed(u)
      BY <2>1, <2>3 DEF RelayInv, BridgeTyped, Passed, Phases
    <3> QED
      BY <2>1, <3>1, NothingNew
  <2> QED
    BY <1>4, <2>2, <2>3 DEF CloseEnds
<1>5. CASE SendFails \/ SendExpires
  BY <1>1, <1>5 DEF SendFails, SendExpires
<1>6. CASE \E s \in Sides : Read(s) \/ ReadEnds(s) \/ ReadFails(s)
  BY <1>1, <1>6, ReadInv DEF ReadEnds, ReadFails
<1>7. CASE ConnectTimesOut
  BY <1>7, JoiningInv
<1> QED
  BY <1>2, <1>3, <1>4, <1>5, <1>6, <1>7 DEF BridgeStep

\* What does not touch the bridge.
LEMMA UntouchedInv == RelayInv /\ UNCHANGED wsVars => RelayInv'
<1> SUFFICES ASSUME RelayInv, UNCHANGED wsVars PROVE RelayInv'
  OBVIOUS
<1>1. UNCHANGED <<bridge, sent, shut, inbox, out, wire, got>>
  BY DEF wsVars, peers, buffers
<1>2. BridgeTyped' /\ \A s \in Sides : Passed(s)' = Passed(s)
  BY <1>1 DEF RelayInv, BridgeTyped, Passed
<1> QED
  BY <1>1, <1>2, NothingNew

\* The invariant gives the property.
LEMMA RelayInvFaithful == RelayInv => RelayFaithful
<1> SUFFICES ASSUME RelayInv, NEW s \in Sides
             PROVE  LET passed == Passed(s)
                        all    == sent[Other(s)]
                    IN  /\ bridge.phase \in {"relay", "send"} => passed \o inbox[Other(s)] = all
                        /\ \/ IsPrefix(passed, all)
                           \/ /\ passed # <<>> /\ Last(passed) = CLOSE
                              /\ IsPrefix(Front(passed), all)
                        /\ \A i \in 1..(Len(passed) - 1) : passed[i] # CLOSE
  BY DEF RelayFaithful
<1> DEFINE p == Passed(s)
           a == sent[Other(s)]
<1>1. p \in Frames /\ a \in Frames /\ Len(p) \in Nat /\ Len(a) \in Nat
  BY PassedTyped, LenProperties DEF RelayInv, Frames
<1>2. Faithful(p, a) /\ ClosedLast(p)
  BY DEF RelayInv, PassedFaithfully
<1>3. bridge.phase \in {"relay", "send"} => p \o inbox[Other(s)] = a
  BY DEF RelayInv, NothingMissing
<1> HIDE DEF p, a
<1>4. ASSUME NEW f \in Frames, Begins(f, a) PROVE IsPrefix(f, a)
  <2>1. Len(f) \in Nat /\ \A i \in 1..Len(f) : f[i] \in Nat /\ a[i] = f[i]
    BY <1>1, <1>4, LenProperties, ElementOfSeq DEF Frames, Begins
  <2>2. SubSeq(f, 1, Len(f)) = f
    BY <2>1, SubSeqFull DEF Frames
  <2>3. /\ SubSeq(a, 1, Len(f)) \in Seq(Nat) /\ Len(SubSeq(a, 1, Len(f))) = Len(f)
        /\ \A i \in 1..Len(f) : SubSeq(a, 1, Len(f))[i] = a[i]
    BY <2>1, SubSeqProperties
  <2>4. SubSeq(a, 1, Len(f)) = f
    BY <2>1, <2>3, SeqEqual DEF Frames
  <2> QED
    BY <1>4, <2>2, <2>4 DEF IsPrefix, Begins
<1>5. CASE Begins(p, a)
  BY <1>1, <1>2, <1>3, <1>4, <1>5 DEF ClosedLast, p, a
<1>6. CASE /\ p # <<>> /\ p[Len(p)] = CLOSE
           /\ Len(p) - 1 <= Len(a) /\ \A i \in 1..(Len(p) - 1) : p[i] = a[i]
  <2>1. Len(p) \in Nat \ {0}
    BY <1>1, <1>6, EmptySeq DEF Frames
  <2>2. \A i \in 1..(Len(p) - 1) : p[i] \in Nat
    BY <1>1, <2>1, ElementOfSeq DEF Frames
  <2>3. /\ Front(p) \in Frames /\ Len(Front(p)) = Len(p) - 1
        /\ \A i \in 1..(Len(p) - 1) : Front(p)[i] = p[i]
    <3> DEFINE n == Len(p) - 1
    <3>1. n \in Nat /\ 1 \in Int /\ n \in Int /\ \A i \in 1..n : p[i] \in Nat
      BY <2>1, <2>2
    <3> HIDE DEF n
    <3>2. /\ SubSeq(p, 1, n) \in Seq(Nat) /\ Len(SubSeq(p, 1, n)) = n
          /\ \A i \in 1..n : SubSeq(p, 1, n)[i] = p[i]
      <4>1. /\ SubSeq(p, 1, n) \in Seq(Nat)
            /\ Len(SubSeq(p, 1, n)) = IF 1 <= n THEN n - 1 + 1 ELSE 0
            /\ \A i \in 1..(n - 1 + 1) : SubSeq(p, 1, n)[i] = p[1 + i - 1]
        BY <3>1, SubSeqProperties
      <4>2. n - 1 + 1 = n /\ \A i \in 1..n : 1 + i - 1 = i
        BY <3>1
      <4>3. Len(SubSeq(p, 1, n)) = n
        BY <3>1, <4>1
      <4> QED
        BY <4>1, <4>2, <4>3
    <3> QED
      BY <3>2 DEF Front, Frames, n
  <2>4. Begins(Front(p), a)
    BY <1>6, <2>3 DEF Begins
  <2>5. IsPrefix(Front(p), a)
    BY <1>4, <2>3, <2>4
  <2> QED
    BY <1>2, <1>3, <1>6, <2>5 DEF Last, ClosedLast, p, a
<1> QED
  BY <1>2, <1>5, <1>6 DEF Faithful

-----------------------------------------------------------------------------
(* Accepted files *)

\* The fields of an instance.
LEMMA ParsedFields ==
    ASSUME NEW e
    PROVE  /\ ParsedInstance(e).name = e.name
           /\ ParsedInstance(e).authority = e.base_url.authority
           /\ ParsedInstance(e).https = Https(e.base_url)
           /\ ParsedInstance(e).bearer = e.api_key_file.content
           /\ ParsedInstance(e).trust = TrustOf(e.ca_file, e.base_url)
BY DEF ParsedInstance

\* The fields that are read of what an accepted file becomes.
LEMMA LoadedInstances ==
    ASSUME NEW r \in RawConfigs, NEW o, Accepted(r, o)
    PROVE  LET c == Parsed(r, o)
           IN  /\ Len(r.instance) \in Nat /\ Len(r.instance) >= 1
               /\ DOMAIN r.instance = 1..Len(r.instance)
               /\ DOMAIN c.instances = DOMAIN r.instance /\ Len(c.instances) = Len(r.instance)
               /\ \A i \in DOMAIN r.instance :
                     /\ c.instances[i] = ParsedInstance(r.instance[i])
                     /\ c.instances[i].name = r.instance[i].name
               /\ InstanceNames(c) = {r.instance[i].name : i \in DOMAIN r.instance}
               /\ c.listen = ListenAddress(r, o) /\ c.tls = Given(r.tls_cert)
<1> DEFINE c == Parsed(r, o)
           S == {r.instance[i] : i \in DOMAIN r.instance}
<1>1. r.instance \in Seq(S)
  BY ConsoleAssumption
<1>2. Len(r.instance) \in Nat /\ DOMAIN r.instance = 1..Len(r.instance)
  BY <1>1, LenProperties
<1>3. r.instance # <<>>
  BY DEF Accepted
<1>4. Len(r.instance) >= 1
  BY <1>1, <1>2, <1>3, EmptySeq
<1>5. c.instances = [i \in DOMAIN r.instance |-> ParsedInstance(r.instance[i])]
  BY DEF Parsed
<1>6. Len(c.instances) = Len(r.instance)
  BY <1>2, <1>5, SeqDef, LenProperties
<1>7. \A i \in DOMAIN r.instance :
         /\ c.instances[i] = ParsedInstance(r.instance[i])
         /\ c.instances[i].name = r.instance[i].name
  BY <1>5 DEF ParsedInstance
<1>8. DOMAIN c.instances = DOMAIN r.instance
  BY <1>5
<1>9. c.listen = ListenAddress(r, o) /\ c.tls = Given(r.tls_cert)
  BY DEF Parsed
<1> HIDE DEF c
<1>10. InstanceNames(c) = {r.instance[i].name : i \in DOMAIN r.instance}
  BY <1>7, <1>8 DEF InstanceNames
<1> QED
  BY <1>2, <1>4, <1>6, <1>7, <1>8, <1>9, <1>10 DEF c

\* The entry, the lookup and the client of a name, or of no name, are of one
\* place in the file.
LEMMA OneEntry ==
    ASSUME NEW r \in RawConfigs, NEW o, Accepted(r, o), NEW i \in DOMAIN r.instance
    PROVE  LET c == Parsed(r, o)
               name == r.instance[i].name
           IN  /\ Given(name)
               /\ Lookup(c, name) = ParsedInstance(r.instance[i])
               /\ Clients(c)[name] = TrustOf(r.instance[i].ca_file, r.instance[i].base_url)
               /\ (CHOOSE j \in DOMAIN r.instance : r.instance[j].name = name) = i
<1> DEFINE c == Parsed(r, o)
           name == r.instance[i].name
           First(j) == c.instances[j].name = name /\ \A k \in 1..(j - 1) : c.instances[k].name # name
           Final(j) == c.instances[j].name = name
                       /\ \A k \in (j + 1)..Len(c.instances) : c.instances[k].name # name
<1>1. /\ Len(r.instance) \in Nat /\ DOMAIN r.instance = 1..Len(r.instance)
      /\ DOMAIN c.instances = DOMAIN r.instance /\ Len(c.instances) = Len(r.instance)
      /\ \A j \in DOMAIN r.instance : /\ c.instances[j] = ParsedInstance(r.instance[j])
                                      /\ c.instances[j].name = r.instance[j].name
      /\ InstanceNames(c) = {r.instance[j].name : j \in DOMAIN r.instance}
  BY LoadedInstances
<1> HIDE DEF c
<1>2. \A j \in DOMAIN r.instance : r.instance[j].name = name => j = i
  BY DEF Accepted
<1>14. Given(name)
  BY ConfigAssumption DEF Accepted, InstanceAccepted, Given
<1> HIDE DEF name
<1>3. r.instance[i].name = name /\ c.instances[i].name = name
  BY <1>1 DEF name
<1>4. \A j \in DOMAIN c.instances : c.instances[j].name = name => j = i
  BY <1>1, <1>2
<1>5. (CHOOSE j \in DOMAIN r.instance : r.instance[j].name = name) = i
  BY <1>2, <1>3
<1>6. First(i) /\ \A j \in DOMAIN c.instances : First(j) => j = i
  BY <1>1, <1>3, <1>4
<1>7. Final(i) /\ \A j \in DOMAIN c.instances : Final(j) => j = i
  BY <1>1, <1>3, <1>4
<1>8. (CHOOSE j \in DOMAIN c.instances : First(j)) = i
  BY <1>1, <1>6
<1>9. (CHOOSE j \in DOMAIN c.instances : Final(j)) = i
  BY <1>1, <1>7
<1>10. Lookup(c, name) = ParsedInstance(r.instance[i])
  BY <1>1, <1>8 DEF Lookup
<1>11. name \in InstanceNames(c)
  BY <1>1, <1>3
<1>12. Clients(c)[name] = c.instances[i].trust
  BY <1>9, <1>11 DEF Clients
<1>13. c.instances[i].trust = TrustOf(r.instance[i].ca_file, r.instance[i].base_url)
  <2>1. c.instances[i] = ParsedInstance(r.instance[i])
    BY <1>1
  <2> QED
    BY <2>1, ParsedFields
<1> QED
  BY <1>5, <1>10, <1>12, <1>13, <1>14 DEF c, name

-----------------------------------------------------------------------------
(* What is sent *)

\* An instance of the configuration in force is an entry of the file, by the
\* name or, where there is none, as the default.
LEMMA TargetIsEntry ==
    ASSUME raw \in RawConfigs, Accepted(raw, override), config = Parsed(raw, override),
           NEW name, Given(name) => name \in InstanceNames(config)
    PROVE  \E e :
              /\ e = Entry(name)
              /\ Target(name) = ParsedInstance(e)
              /\ Clients(config)[Target(name).name] = TrustOf(e.ca_file, e.base_url)
              /\ \E i \in DOMAIN raw.instance : e = raw.instance[i]
<1>1. /\ Len(raw.instance) >= 1 /\ Len(raw.instance) \in Nat
      /\ DOMAIN raw.instance = 1..Len(raw.instance)
      /\ \A i \in DOMAIN raw.instance : config.instances[i] = ParsedInstance(raw.instance[i])
      /\ InstanceNames(config) = {raw.instance[i].name : i \in DOMAIN raw.instance}
  BY LoadedInstances
<1>2. CASE Given(name)
  <2>1. PICK i \in DOMAIN raw.instance : raw.instance[i].name = name
    BY <1>1, <1>2
  <2>2. /\ Lookup(config, name) = ParsedInstance(raw.instance[i])
        /\ Clients(config)[name] = TrustOf(raw.instance[i].ca_file, raw.instance[i].base_url)
        /\ (CHOOSE j \in DOMAIN raw.instance : raw.instance[j].name = name) = i
    BY <2>1, OneEntry
  <2>3. Entry(name) = raw.instance[i] /\ Target(name) = ParsedInstance(raw.instance[i])
    BY <1>2, <2>2 DEF Entry, Target
  <2>4. Target(name).name = name
    BY <2>1, <2>3, ParsedFields
  <2> QED
    BY <2>2, <2>3, <2>4
<1>3. CASE ~ Given(name)
  <2>1. 1 \in DOMAIN raw.instance
    BY <1>1
  <2>2. Entry(name) = raw.instance[1] /\ Target(name) = ParsedInstance(raw.instance[1])
    BY <1>1, <1>3, <2>1 DEF Entry, Target, DefaultInstance
  <2>3. Target(name).name = raw.instance[1].name
    BY <2>2, ParsedFields
  <2>4. Clients(config)[raw.instance[1].name] = TrustOf(raw.instance[1].ca_file, raw.instance[1].base_url)
    BY <2>1, OneEntry
  <2> QED
    BY <2>1, <2>2, <2>3, <2>4
<1> QED
  BY <1>2, <1>3

\* What goes to the authority of an accepted entry, with the roots of that
\* entry, goes where the file says, and in the clear only on this host.
LEMMA EntryIsSafe ==
    ASSUME NEW r, NEW v, Accepted(r, v), NEW i \in DOMAIN r.instance, NEW o,
           LET e == r.instance[i]
           IN  /\ o.to = e.base_url.authority /\ o.https = Https(e.base_url)
               /\ o.trust = TrustOf(e.ca_file, e.base_url)
    PROVE  SentWhereConfigured(o, r.instance[i])
<1> DEFINE e == r.instance[i]
<1>1. InstanceAccepted(e, r.roots)
  BY DEF Accepted
<1>2. BaseUrlAccepted(e.base_url, TRUE)
  BY <1>1 DEF InstanceAccepted
<1>3. ~ Https(e.base_url) => e.base_url.host = "loopback"
  BY <1>2 DEF BaseUrlAccepted
<1>4. Https(e.base_url) => TrustOf(e.ca_file, e.base_url)
                           = IF Given(e.ca_file) THEN e.ca_file.content ELSE "platform"
  BY DEF TrustOf
<1>5. Https(e.base_url) <=> e.base_url.scheme = "https"
  BY DEF Https
<1> QED
  BY <1>3, <1>4, <1>5 DEF SentWhereConfigured, Https

\* The headers that go out: the engine's own two, and of the browser's none
\* that authenticates it or belongs to its hop.
LEMMA HeadersOut ==
    ASSUME NEW instance, NEW h
    PROVE  LET k == WithKey(instance, sanitize_request_headers(h))
           IN  /\ {"host", "authorization"} \subseteq DOMAIN k
               /\ k["host"] = <<instance.authority>>
               /\ k["authorization"] = <<instance.bearer>>
               /\ DOMAIN k \cap ({"cookie", "x-csrf-token"} \cup HOP_BY_HOP \cup Named(h))
                     \subseteq {"host", "authorization"}
<1> DEFINE clean == sanitize_request_headers(h)
           k == WithKey(instance, clean)
<1>1. DOMAIN clean \cap ({"cookie", "x-csrf-token"} \cup HOP_BY_HOP \cup Named(h)) = {}
  BY DEF sanitize_request_headers, strip_hop_by_hop, Without
<1> HIDE DEF clean
<1>2. DOMAIN k = DOMAIN clean \cup {"host", "authorization"}
  BY DEF WithKey
<1>3. k["host"] = <<instance.authority>> /\ k["authorization"] = <<instance.bearer>>
  BY DEF WithKey
<1> HIDE DEF k
<1>4. DOMAIN k \cap ({"cookie", "x-csrf-token"} \cup HOP_BY_HOP \cup Named(h))
         \subseteq {"host", "authorization"}
  BY <1>1, <1>2
<1> QED
  BY <1>2, <1>3, <1>4 DEF k, clean

\* No engine sets a cookie of the console.
LEMMA HeadersBack ==
    ASSUME NEW h
    PROVE  "set-cookie" \notin DOMAIN sanitize_response_headers(h)
BY DEF sanitize_response_headers, Without

-----------------------------------------------------------------------------
(* The invariant *)

\* CredentialsStayApart, of a request and what was sent for it, and of an
\* answer.
RequestSafe(asked, o) ==
    LET e == Entry(asked.prefix)
        h == o.headers
    IN  /\ SentWhereConfigured(o, e)
        /\ {"host", "authorization"} \subseteq DOMAIN h
        /\ h["host"] = <<e.base_url.authority>>
        /\ h["authorization"] = <<e.api_key_file.content>>
        /\ DOMAIN h \cap ({"cookie", "x-csrf-token"} \cup HOP_BY_HOP
                          \cup Named(asked.headers)) \subseteq {"host", "authorization"}

\* The clauses of CredentialsStayApart about the exchange.
ExchangeOK ==
    /\ DOMAIN exchange = {"phase", "asked", "sent", "answer"}
    /\ Given(exchange.sent) => RequestSafe(exchange.asked, exchange.sent)
    /\ Given(exchange.answer) /\ exchange.phase # "body" =>
          "set-cookie" \notin DOMAIN exchange.answer.headers

\* Its clauses about the bridge; the ticket is asked of an instance of the file.
BridgeOK ==
    /\ DOMAIN bridge = {"phase", "instance", "side", "closing", "ticketRequest", "connection"}
    /\ bridge.phase = "ticket" => bridge.instance \in {raw.instance[i].name : i \in DOMAIN raw.instance}
    /\ Given(bridge.ticketRequest) =>
          /\ SentWhereConfigured(bridge.ticketRequest, Entry(bridge.instance))
          /\ bridge.ticketRequest.bearer = Entry(bridge.instance).api_key_file.content
    /\ Given(bridge.connection) =>
          /\ SentWhereConfigured(bridge.connection, Entry(bridge.instance))
          /\ ~ Given(bridge.connection.bearer)

\* The process serves what the loader made of an accepted file.
Loaded ==
    /\ raw \in RawConfigs
    /\ stage \in {"opening", "serving", "stopping"} =>
          Accepted(raw, override) /\ config = Parsed(raw, override)

\* The inductive invariant.
IInv == Loaded /\ ExchangeOK /\ BridgeOK

-----------------------------------------------------------------------------
(* The invariant is inductive *)

\* What an entry is does not change while the process runs.
LEMMA SameEntries ==
    ASSUME raw' = raw
    PROVE  /\ \A name : Entry(name)' = Entry(name)
           /\ \A asked, o : RequestSafe(asked, o)' = RequestSafe(asked, o)
BY DEF Entry, RequestSafe

\* Where there is no exchange nothing was sent.
LEMMA EmptyExchange ==
    ASSUME exchange' = NoExchange PROVE ExchangeOK'
BY DEF NoExchange, ExchangeOK, Given

\* Steps of other parts leave the exchange as it was.
LEMMA SameExchange ==
    ASSUME ExchangeOK, raw' = raw, exchange' = exchange PROVE ExchangeOK'
BY SameEntries DEF ExchangeOK

\* Exchanges keep what was asked and sent from their first step to their last.
LEMMA AnsweredOK ==
    ASSUME ExchangeOK, raw' = raw, NEW status, NEW phase, NEW headers,
           "set-cookie" \notin DOMAIN headers,
           exchange' = [exchange EXCEPT !.phase = phase,
                                        !.answer = [status |-> status, headers |-> headers]]
    PROVE  ExchangeOK'
<1>1. /\ DOMAIN exchange' = DOMAIN exchange
      /\ exchange'.asked = exchange.asked /\ exchange'.sent = exchange.sent
      /\ exchange'.answer.headers = headers
  BY DEF ExchangeOK
<1> QED
  BY <1>1, SameEntries DEF ExchangeOK

\* A request that arrives is refused, or sent to the engine it names.
LEMMA ArriveOK ==
    ASSUME IInv, stage = "serving", NEW r \in Requests, Arrive(r), UNCHANGED process
    PROVE  ExchangeOK'
<1>0. /\ raw' = raw /\ raw \in RawConfigs
      /\ Accepted(raw, override) /\ config = Parsed(raw, override)
  BY DEF process, IInv, Loaded
<1>1. CASE \E status :
             exchange' = [NoExchange EXCEPT
                 !.phase = "answered", !.asked = r,
                 !.answer = [status |-> status, headers |-> NoHeaders]]
  BY <1>1 DEF NoExchange, NoHeaders, ExchangeOK, Given
<1>2. CASE /\ Given(r.prefix) => r.prefix \in InstanceNames(config)
           /\ exchange' = [phase |-> "head", asked |-> r,
                           sent |-> Outbound(Target(r.prefix), r), answer |-> Absent]
  <2> DEFINE o == Outbound(Target(r.prefix), r)
             e == Entry(r.prefix)
  <2>1. /\ Target(r.prefix) = ParsedInstance(e)
        /\ Clients(config)[Target(r.prefix).name] = TrustOf(e.ca_file, e.base_url)
    BY <1>0, <1>2, TargetIsEntry
  <2>2. PICK i \in DOMAIN raw.instance : e = raw.instance[i]
    BY <1>0, <1>2, TargetIsEntry
  <2>3. /\ o.to = Target(r.prefix).authority /\ o.https = Target(r.prefix).https
        /\ o.trust = Clients(config)[Target(r.prefix).name]
        /\ o.headers = WithKey(Target(r.prefix), sanitize_request_headers(r.headers))
    BY DEF Outbound
  <2> HIDE DEF o, e
  <2>4. /\ Target(r.prefix).authority = e.base_url.authority
        /\ Target(r.prefix).https = Https(e.base_url)
        /\ Target(r.prefix).bearer = e.api_key_file.content
    BY <2>1, ParsedFields
  <2>5. SentWhereConfigured(o, e)
    BY <1>0, <2>1, <2>2, <2>3, <2>4, EntryIsSafe
  <2>6. /\ {"host", "authorization"} \subseteq DOMAIN o.headers
        /\ o.headers["host"] = <<e.base_url.authority>>
        /\ o.headers["authorization"] = <<e.api_key_file.content>>
        /\ DOMAIN o.headers \cap ({"cookie", "x-csrf-token"} \cup HOP_BY_HOP
                                  \cup Named(r.headers)) \subseteq {"host", "authorization"}
    BY <2>3, <2>4, HeadersOut
  <2>7. RequestSafe(r, o)
    BY <2>5, <2>6 DEF RequestSafe, e
  <2>8. exchange' = [phase |-> "head", asked |-> r, sent |-> o, answer |-> Absent]
    BY <1>2 DEF o
  <2> QED
    BY <1>0, <2>7, <2>8, SameEntries DEF ExchangeOK, Given
<1> QED
  BY <1>1, <1>2, ZenonT(60) DEF Arrive

\* The steps of an exchange answer the browser, and send nothing more.
LEMMA ProxyStepOK ==
    ASSUME ExchangeOK, raw' = raw, ProxyStep PROVE ExchangeOK'
<1>1. ASSUME NEW h \in Responses, HeadArrives(h) PROVE ExchangeOK'
  <2>1. CASE Streaming
    <3>1. exchange' = [exchange EXCEPT !.phase = "stream",
             !.answer = [status |-> 200, headers |-> sanitize_response_headers(h)]]
      BY <1>1, <2>1 DEF HeadArrives, Answered, ExchangeOK
    <3> QED
      BY <3>1, HeadersBack, AnsweredOK
  <2>2. CASE ~ Streaming
    <3>1. /\ DOMAIN exchange' = DOMAIN exchange /\ exchange'.phase = "body"
          /\ exchange'.asked = exchange.asked /\ exchange'.sent = exchange.sent
      BY <1>1, <2>2 DEF HeadArrives, ExchangeOK
    <3> QED
      BY <3>1, SameEntries DEF ExchangeOK
  <2> QED
    BY <2>1, <2>2
<1>2. CASE BodyArrives
  BY <1>2, HeadersBack, AnsweredOK DEF BodyArrives, Answered
<1>3. CASE ExchangeFails \/ ExchangeTimesOut
  <2>1. "set-cookie" \notin DOMAIN NoHeaders
    BY DEF NoHeaders
  <2> QED
    BY <1>3, <2>1, AnsweredOK, ZenonT(60) DEF ExchangeFails, ExchangeTimesOut, Answered
<1>4. CASE StreamEnds
  <2>1. /\ DOMAIN exchange' = DOMAIN exchange /\ exchange.phase # "body"
        /\ exchange'.asked = exchange.asked /\ exchange'.sent = exchange.sent
        /\ exchange'.answer = exchange.answer
    BY <1>4 DEF StreamEnds, ExchangeOK
  <2> QED
    BY <2>1, SameEntries DEF ExchangeOK
<1>5. CASE BrowserLeaves
  BY <1>5, EmptyExchange DEF BrowserLeaves
<1> QED
  BY <1>1, <1>2, <1>3, <1>4, <1>5 DEF ProxyStep

\* Where there is no bridge nothing was asked.
LEMMA NoBridgeOK ==
    ASSUME bridge' = NoBridge PROVE BridgeOK'
BY DEF NoBridge, BridgeOK, Given

\* The relay, and its end, ask nothing of the engine any more.
LEMMA SameRequests ==
    ASSUME BridgeOK, raw' = raw, DOMAIN bridge' = DOMAIN bridge,
           bridge'.phase = "ticket" => bridge.phase = "ticket",
           bridge'.instance = bridge.instance,
           bridge'.ticketRequest = bridge.ticketRequest,
           bridge'.connection = bridge.connection
    PROVE  BridgeOK'
BY SameEntries DEF BridgeOK, SentWhereConfigured

\* The ticket is asked of the engine the stream names, with that engine's key.
LEMMA UpgradeOK ==
    ASSUME IInv, stage = "serving", NEW name \in InstanceNames(config), Upgrade(name),
           UNCHANGED process
    PROVE  BridgeOK'
<1>0. /\ raw' = raw /\ raw \in RawConfigs
      /\ Accepted(raw, override) /\ config = Parsed(raw, override)
  BY DEF process, IInv, Loaded
<1>1. PICK i \in DOMAIN raw.instance : raw.instance[i].name = name
  BY <1>0, LoadedInstances
<1> DEFINE e == raw.instance[i]
           o == [to |-> Lookup(config, name).authority, https |-> Lookup(config, name).https,
                 trust |-> Clients(config)[name], bearer |-> Lookup(config, name).bearer]
<1>2. /\ Given(name) /\ Lookup(config, name) = ParsedInstance(e)
      /\ Clients(config)[name] = TrustOf(e.ca_file, e.base_url)
      /\ (CHOOSE j \in DOMAIN raw.instance : raw.instance[j].name = name) = i
  BY <1>0, <1>1, OneEntry
<1>3. Entry(name) = e
  BY <1>2 DEF Entry
<1>4. /\ bridge' = [NoBridge EXCEPT !.phase = "ticket", !.instance = name, !.ticketRequest = o]
  BY DEF Upgrade
<1>5. /\ DOMAIN bridge' = {"phase", "instance", "side", "closing", "ticketRequest", "connection"}
      /\ bridge'.instance = name /\ bridge'.ticketRequest = o /\ ~ Given(bridge'.connection)
  <2> HIDE DEF o
  <2> QED
    BY <1>4 DEF NoBridge, Given
<1>6. /\ o.to = e.base_url.authority /\ o.https = Https(e.base_url)
      /\ o.trust = TrustOf(e.ca_file, e.base_url) /\ o.bearer = e.api_key_file.content
  BY <1>2, ParsedFields
<1> HIDE DEF o, e
<1>7. SentWhereConfigured(o, e)
  BY <1>0, <1>6, EntryIsSafe DEF e
<1> QED
  BY <1>0, <1>1, <1>3, <1>5, <1>6, <1>7, SameEntries DEF BridgeOK, SentWhereConfigured

\* The socket is opened at that engine, without its key.
LEMMA TicketGrantedOK ==
    ASSUME IInv, Running, TicketGranted, UNCHANGED process
    PROVE  BridgeOK'
<1>0. /\ raw' = raw /\ raw \in RawConfigs
      /\ Accepted(raw, override) /\ config = Parsed(raw, override)
  BY DEF process, IInv, Loaded, Running
<1> DEFINE name == bridge.instance
<1>1. PICK i \in DOMAIN raw.instance : raw.instance[i].name = name
  BY DEF TicketGranted, IInv, BridgeOK
<1> DEFINE e == raw.instance[i]
           o == [to |-> Lookup(config, name).authority, https |-> Lookup(config, name).https,
                 trust |-> Lookup(config, name).trust, bearer |-> Absent]
<1>2. /\ Given(name) /\ Lookup(config, name) = ParsedInstance(e)
      /\ (CHOOSE j \in DOMAIN raw.instance : raw.instance[j].name = name) = i
  BY <1>0, <1>1, OneEntry
<1>3. Entry(name) = e
  BY <1>2 DEF Entry
<1>4. bridge' = [bridge EXCEPT !.phase = "connect", !.connection = o]
  BY DEF TicketGranted
<1>5. /\ DOMAIN bridge' = DOMAIN bridge
      /\ bridge'.phase = "connect" /\ bridge'.instance = bridge.instance
      /\ bridge'.ticketRequest = bridge.ticketRequest /\ bridge'.connection = o
  <2> HIDE DEF o
  <2> QED
    BY <1>4 DEF IInv, BridgeOK
<1>6. /\ o.to = e.base_url.authority /\ o.https = Https(e.base_url)
      /\ o.trust = TrustOf(e.ca_file, e.base_url) /\ ~ Given(o.bearer)
  BY <1>2, ParsedFields DEF Given
<1> HIDE DEF o, e
<1>7. SentWhereConfigured(o, e)
  BY <1>0, <1>6, EntryIsSafe DEF e
<1> QED
  BY <1>0, <1>3, <1>5, <1>6, <1>7, SameEntries DEF IInv, BridgeOK, SentWhereConfigured

\* The other steps of the bridge and of its sides ask nothing.
LEMMA BridgeNextOK ==
    ASSUME BridgeOK, raw' = raw,
           \/ BridgeStep \/ SideStep \/ SocketOpens \/ ConnectFails \/ Forgotten
           \/ \E s \in Sides : ReadFails(s)
    PROVE  BridgeOK'
<1> USE DEF BridgeOK
<1>1. CASE Forgotten
  BY <1>1, NoBridgeOK DEF Forgotten, Dropped
<1>2. CASE SideStep
  BY <1>2, SameRequests DEF SideStep, SideSendsNext, SideCloses, SideSends, SideVanishes, SideReads
<1>3. CASE SocketOpens \/ ConnectFails \/ ConnectTimesOut
  BY <1>3, SameRequests DEF SocketOpens, ConnectFails, ConnectTimesOut, Unavailable
<1>4. ASSUME NEW q, bridge.phase # "ticket", Break(q) PROVE BridgeOK'
  BY <1>4, SameRequests DEF Break
<1>5. ASSUME NEW s \in Sides, Read(s) PROVE BridgeOK'
  BY <1>5, SameRequests DEF Read
<1>6. ASSUME NEW s \in Sides, ReadEnds(s) \/ ReadFails(s) PROVE BridgeOK'
  BY <1>4, <1>6 DEF ReadEnds, ReadFails
<1>7. CASE Sent
  <2>1. CASE bridge.closing
    BY <1>4, <1>7, <2>1 DEF Sent
  <2>2. CASE ~ bridge.closing
    BY <1>7, <2>2, SameRequests DEF Sent
  <2> QED
    BY <2>1, <2>2
<1>8. CASE SendFails \/ SendExpires
  BY <1>4, <1>8 DEF SendFails, SendExpires
<1>9. CASE CloseWrites
  BY <1>9, SameRequests DEF CloseWrites
<1>10. CASE CloseEnds
  BY <1>10, SameRequests DEF CloseEnds
<1> QED
  BY <1>1, <1>2, <1>3, <1>5, <1>6, <1>7, <1>8, <1>9, <1>10 DEF BridgeStep

\* Nothing was sent before the file is loaded.
LEMMA InitInv == Init => IInv
<1> SUFFICES ASSUME Init PROVE IInv
  OBVIOUS
<1>1. Loaded
  BY DEF Init, Loaded
<1>2. ExchangeOK
  BY DEF Init, ProxyInit, NoExchange, ExchangeOK, Given
<1>3. BridgeOK
  BY DEF Init, BridgeInit, NoBridge, BridgeOK, Given
<1> QED
  BY <1>1, <1>2, <1>3 DEF IInv

\* A process that is gone has no exchange and no bridge.
LEMMA ExitInv == ASSUME IInv, NEW c, Exit(c) PROVE IInv'
<1>1. Loaded'
  BY DEF Exit, IInv, Loaded
<1> QED
  BY <1>1, EmptyExchange, NoBridgeOK DEF Exit, Dropped, IInv

\* One case for each action of the process.
LEMMA NextInv == IInv /\ [Next]_vars => IInv'
<1> SUFFICES ASSUME IInv, [Next]_vars PROVE IInv'
  OBVIOUS
<1>0. ASSUME raw' = raw, UNCHANGED <<exchange, wsVars>>, Loaded' PROVE IInv'
  BY <1>0, SameExchange, SameRequests DEF wsVars, IInv, BridgeOK
<1>1. CASE \E c : Exit(c)
  BY <1>1, ExitInv
<1>2. CASE LoadConfig
  BY <1>0, <1>2 DEF LoadConfig, IInv, Loaded
<1>3. CASE Listen
  BY <1>0, <1>3 DEF Listen, IInv, Loaded
<1>4. CASE stage = "serving" /\ stage' = "stopping"
           /\ UNCHANGED <<raw, override, config, code, exchange, wsVars>>
  BY <1>0, <1>4 DEF IInv, Loaded
<1>5. CASE UNCHANGED vars
  BY <1>0, <1>5 DEF vars, process, IInv, Loaded
<1>6. UNCHANGED process => Loaded' /\ raw' = raw
  BY DEF process, IInv, Loaded
<1>7. CASE Serve
  <2>1. stage = "serving" /\ UNCHANGED process
    BY <1>7 DEF Serve
  <2>2. CASE \E r \in Requests : Arrive(r) /\ UNCHANGED wsVars
    BY <1>6, <2>1, <2>2, ArriveOK, SameRequests DEF wsVars, IInv, BridgeOK
  <2>3. CASE \E name \in InstanceNames(config) : Upgrade(name) /\ UNCHANGED exchange
    BY <1>6, <2>1, <2>3, UpgradeOK, SameExchange DEF IInv
  <2> QED
    BY <1>7, <2>2, <2>3 DEF Serve
<1>8. CASE ExchangeStep
  BY <1>6, <1>8, ProxyStepOK, SameRequests DEF ExchangeStep, wsVars, IInv, BridgeOK
<1>9. CASE BridgeWorks
  BY <1>6, <1>9, BridgeNextOK, SameExchange DEF BridgeWorks, IInv
<1>10. CASE OtherSides
  BY <1>6, <1>10, BridgeNextOK, TicketGrantedOK, SameExchange DEF OtherSides, IInv
<1> QED
  BY <1>1, <1>2, <1>3, <1>4, <1>5, <1>7, <1>8, <1>9, <1>10
  DEF Next, BadArguments, RefuseConfig, OpeningFails, Interrupt, Drained, GraceElapses

\* In every state of the console the invariant holds: what is sent was made
\* from the file it accepted.
THEOREM ServesWhatItLoaded == Spec => []IInv
BY InitInv, NextInv, PTL DEF Spec

\* Every engine gets its own key and nothing of the browser's, the browser
\* gets no cookie of an engine, and no key leaves this host in the clear, for any set of files, requests and answers (CredentialsStayApart).
THEOREM CredentialsAreKeptApart == Spec => []CredentialsStayApart
<1>1. ASSUME IInv PROVE CredentialsStayApart
  <2>1. Running => config.listen = "loopback" \/ config.tls
    <3> SUFFICES ASSUME Running PROVE config.listen = "loopback" \/ config.tls
      OBVIOUS
    <3>1. raw \in RawConfigs /\ Accepted(raw, override) /\ config = Parsed(raw, override)
      BY <1>1 DEF Running, IInv, Loaded
    <3>2. ConsoleTlsAccepted(raw, ListenAddress(raw, override))
      BY <3>1 DEF Accepted
    <3>3. config.listen = ListenAddress(raw, override) /\ config.tls = Given(raw.tls_cert)
      BY <3>1, LoadedInstances
    <3> QED
      BY <3>2, <3>3 DEF ConsoleTlsAccepted
  <2> QED
    BY <1>1, <2>1 DEF IInv, ExchangeOK, BridgeOK, RequestSafe, CredentialsStayApart
<1> QED
  BY <1>1, ServesWhatItLoaded, PTL

-----------------------------------------------------------------------------
(* The streams *)

\* No bridge before the first stream.
LEMMA InitRelays == Init => RelayInv
<1> SUFFICES ASSUME Init PROVE RelayInv
  OBVIOUS
<1>1. \A s \in Sides : Passed(s) = <<>> /\ sent[s] = <<>> /\ inbox[s] = <<>> /\ Other(s) \in Sides
  BY ConcatEmptySeq, EmptySeq DEF Init, BridgeInit, Passed, Empty, Sides, Other
<1>2. <<>> \in Frames /\ Len(<<>>) = 0
  BY EmptySeq DEF Frames
<1>3. BridgeTyped
  BY <1>2 DEF Init, BridgeInit, BridgeTyped, NoBridge, Gone, Empty, Phases, Sides
<1>4. SidesClose
  BY <1>1, <1>2 DEF SidesClose, ClosedLast
<1>5. NotJoined /\ NothingMissing
  BY <1>1 DEF Init, BridgeInit, NoBridge, NotJoined, NothingMissing, Sides
<1>6. PassedFaithfully
  <2>1. Faithful(<<>>, <<>>) /\ ClosedLast(<<>>)
    BY <1>2 DEF Faithful, Begins, ClosedLast
  <2> QED
    BY <1>1, <2>1 DEF PassedFaithfully
<1> QED
  BY <1>3, <1>4, <1>5, <1>6 DEF RelayInv

\* A process that is gone has no bridge.
LEMMA ExitRelays == ASSUME NEW c, Exit(c) PROVE RelayInv'
BY NobodyThere DEF Exit, Dropped

\* The steps of the process that concern its bridge are those of the bridge.
LEMMA NextRelays == RelayInv /\ [Next]_vars => RelayInv'
<1> SUFFICES ASSUME RelayInv, [Next]_vars PROVE RelayInv'
  OBVIOUS
<1>1. CASE UNCHANGED wsVars
  BY <1>1, UntouchedInv
<1>2. CASE \E c : Exit(c)
  BY <1>2, ExitRelays
<1>3. CASE Serve
  BY <1>1, <1>3, JoiningInv DEF Serve
<1>4. CASE BridgeWorks
  BY <1>4, BridgeStepInv DEF BridgeWorks
<1>5. CASE OtherSides
  BY <1>5, SideStepInv, JoiningInv, BridgeStepInv, NobodyThere
  DEF OtherSides, Forgotten, Dropped
<1>6. CASE LoadConfig \/ Listen \/ ExchangeStep \/ UNCHANGED vars
  BY <1>1, <1>6 DEF LoadConfig, Listen, ExchangeStep, vars
<1>7. CASE Interrupt
  BY <1>1, <1>2, <1>7 DEF Interrupt
<1> QED
  BY <1>2, <1>3, <1>4, <1>5, <1>6, <1>7
  DEF Next, BadArguments, RefuseConfig, OpeningFails, Drained, GraceElapses

\* Whatever browser and engine send, and wherever either stops, each gets what
\* the other sent, in order, once, and nothing else but one close at the end
\* (RelayFaithful).
THEOREM RelaysAreFaithful == Spec => []RelayFaithful
<1>1. Init => RelayInv
  BY InitRelays
<1>2. RelayInv /\ [Next]_vars => RelayInv'
  BY NextRelays
<1>3. RelayInv => RelayFaithful
  BY RelayInvFaithful
<1> QED
  BY <1>1, <1>2, <1>3, PTL DEF Spec
=============================================================================
