------------------------------- MODULE WsBridge -------------------------------
(***************************************************************************)
(* One bridge between the stream socket of a browser and that of an        *)
(* engine: the engine's ticket is fetched with the engine's key, its       *)
(* socket is opened with the ticket, and then frames are forwarded, one    *)
(* direction at a time, until either side ends.                            *)
(*                                                                         *)
(* A frame is a number, or CLOSE; text, binary, ping and pong are passed   *)
(* on alike.  Between the bridge and each side lie the frames the side     *)
(* sent that were not read (inbox), the frames the socket library holds    *)
(* (out), those in the socket's buffers (wire, WireRoom of them at most)   *)
(* and those the side has read (got).                                      *)
(***************************************************************************)
EXTENDS Config, SequencesExt

CONSTANTS
    MaxFrames,      \* Bound: frames a side sends, its close not counted
    WireRoom        \* frames that fit in the buffers of a socket

ASSUME WsBridgeAssumption == MaxFrames \in Nat /\ WireRoom \in Nat \ {0}

VARIABLES
    bridge,         \* where the bridge is, and what it asked of the engine
    sent,           \* all a side has sent
    shut,           \* a side is open, has sent its close, or its connection is gone
    inbox, out, wire, got

peers == <<sent, shut, inbox>>
buffers == <<out, wire, got>>
wsVars == <<bridge, peers, buffers>>

Sides == {"browser", "engine"}
Other(s) == IF s = "browser" THEN "engine" ELSE "browser"
CLOSE == 0

NoBridge ==
    [phase |-> "none", instance |-> Absent, side |-> "browser", closing |-> FALSE,
     ticketRequest |-> Absent, connection |-> Absent]

Empty == [s \in Sides |-> <<>>]
Gone == [s \in Sides |-> "gone"]

BridgeInit ==
    /\ bridge = NoBridge /\ shut = Gone
    /\ sent = Empty /\ inbox = Empty /\ out = Empty /\ wire = Empty /\ got = Empty

\* The sockets and what was in them do not exist any more.
Dropped ==
    /\ bridge' = NoBridge /\ shut' = Gone
    /\ sent' = Empty /\ inbox' = Empty /\ out' = Empty /\ wire' = Empty /\ got' = Empty

Active == bridge.phase \notin {"none", "done"}

\* The engine's socket exists.
Bridged == bridge.phase \in {"relay", "send", "close"}

-----------------------------------------------------------------------------
(* The two sides.  Nothing is assumed of them: they may stop anywhere.     *)

Connected(s) == IF s = "browser" THEN Active ELSE Bridged

SideSends(s, frame) ==
    /\ Connected(s) /\ shut[s] = "open"
    /\ sent' = [sent EXCEPT ![s] = Append(@, frame)]
    /\ inbox' = [inbox EXCEPT ![s] = Append(@, frame)]
    /\ shut' = IF frame = CLOSE THEN [shut EXCEPT ![s] = "closed"] ELSE shut
    /\ UNCHANGED <<bridge, buffers>>

SideSendsNext(s) == Len(sent[s]) < MaxFrames /\ SideSends(s, Len(sent[s]) + 1)

SideCloses(s) == SideSends(s, CLOSE)

SideVanishes(s) ==
    /\ Connected(s) /\ shut[s] # "gone"
    /\ shut' = [shut EXCEPT ![s] = "gone"]
    /\ UNCHANGED <<bridge, sent, inbox, buffers>>

SideReads(s) ==
    /\ wire[s] # <<>> /\ shut[s] # "gone"
    /\ got' = [got EXCEPT ![s] = Append(@, Head(wire[s]))]
    /\ wire' = [wire EXCEPT ![s] = Tail(@)]
    /\ UNCHANGED <<bridge, peers, out>>

SideStep ==
    \E s \in Sides : SideSendsNext(s) \/ SideCloses(s) \/ SideVanishes(s) \/ SideReads(s)

-----------------------------------------------------------------------------
(* The bridge *)

\* stream_for: the ticket of the request was good for this instance.
Upgrade(name) ==
    /\ bridge.phase = "none"
    /\ LET i == Lookup(config, name)
       IN  bridge' = [NoBridge EXCEPT !.phase = "ticket", !.instance = name,
                        !.ticketRequest = [to |-> i.authority, https |-> i.https,
                                           trust |-> Clients(config)[name],
                                           bearer |-> i.bearer]]
    /\ shut' = [shut EXCEPT !["browser"] = "open"]
    /\ UNCHANGED <<sent, inbox, buffers>>

\* A ticket came back with a success status; the socket is opened with it, at
\* the same engine and with the same roots.
TicketGranted ==
    /\ bridge.phase = "ticket"
    /\ LET i == Lookup(config, bridge.instance)
       IN  bridge' = [bridge EXCEPT !.phase = "connect",
                        !.connection = [to |-> i.authority, https |-> i.https,
                                        trust |-> i.trust, bearer |-> Absent]]
    /\ UNCHANGED <<peers, buffers>>

SocketOpens ==
    /\ bridge.phase = "connect"
    /\ bridge' = [bridge EXCEPT !.phase = "relay"]
    /\ shut' = [shut EXCEPT !["engine"] = "open"]
    /\ UNCHANGED <<sent, inbox, buffers>>

\* No ticket or no socket: refused, broken, or not within EXCHANGE_TIMEOUT.
\* The browser gets a close, if it is still there.
Unavailable ==
    /\ bridge' = [bridge EXCEPT !.phase = "done"]
    /\ wire' = IF shut["browser"] = "gone" THEN wire
               ELSE [wire EXCEPT !["browser"] = <<CLOSE>>]
    /\ UNCHANGED <<peers, out, got>>

ConnectFails == bridge.phase \in {"ticket", "connect"} /\ Unavailable
ConnectTimesOut == bridge.phase \in {"ticket", "connect"} /\ Unavailable

\* Mutation: a close frame whether or not one went out.
CloseAgain(s, q) == [q EXCEPT ![s] = Append(@, CLOSE)]

\* close() of the socket library: q with a close frame, unless one went out.
WithClose(s, q) ==
    IF CLOSE \in ToSet(got[s] \o wire'[s] \o q[s]) THEN q
    ELSE [q EXCEPT ![s] = Append(@, CLOSE)]

\* The loop is left: the engine's socket is closed, then the browser's.
Break(q) ==
    /\ bridge' = [bridge EXCEPT !.phase = "close", !.side = "engine"]
    /\ out' = WithClose("engine", q)

\* A frame of side s is read and handed to the other side's socket.
Read(s) ==
    /\ bridge.phase = "relay" /\ inbox[s] # <<>>
    /\ bridge' = [bridge EXCEPT !.phase = "send", !.side = Other(s),
                                !.closing = Head(inbox[s]) = CLOSE]
    /\ inbox' = [inbox EXCEPT ![s] = Tail(@)]
    /\ out' = [out EXCEPT ![Other(s)] = Append(@, Head(inbox[s]))]
    /\ UNCHANGED <<sent, shut, wire, got>>

ReadEnds(s) ==
    /\ bridge.phase = "relay" /\ inbox[s] = <<>> /\ shut[s] = "gone"
    /\ UNCHANGED <<peers, wire, got>>
    /\ Break(out)

\* A read gives an error: a frame breaks the protocol, or the connection was
\* reset, with what was not read of it.
ReadFails(s) ==
    /\ bridge.phase = "relay"
    /\ shut[s] = "gone" \/ (shut[s] = "open" /\ inbox[s] = <<>>)
    /\ UNCHANGED <<peers, wire, got>>
    /\ Break(out)

Room(s) == Len(wire[s]) < WireRoom

\* One frame leaves the library for the socket.
Written(s) ==
    /\ out[s] # <<>> /\ Room(s) /\ shut[s] # "gone"
    /\ wire' = [wire EXCEPT ![s] = Append(@, Head(out[s]))]

\* Mutation: a forwarded close does not end the loop.
SentOpen ==
    /\ bridge.phase = "send" /\ Written(bridge.side)
    /\ bridge' = [bridge EXCEPT !.phase = "relay"]
    /\ out' = [out EXCEPT ![bridge.side] = Tail(@)]
    /\ UNCHANGED <<peers, got>>

Sent ==
    /\ bridge.phase = "send" /\ Written(bridge.side)
    /\ LET rest == [out EXCEPT ![bridge.side] = Tail(@)]
       IN  IF bridge.closing THEN Break(rest)
           ELSE bridge' = [bridge EXCEPT !.phase = "relay"] /\ out' = rest
    /\ UNCHANGED <<peers, got>>

\* The frame stays with the library, which may still write it when it closes.
SendFails ==
    /\ bridge.phase = "send" /\ shut[bridge.side] = "gone"
    /\ UNCHANGED <<peers, wire, got>>
    /\ Break(out)

\* SEND_TIMEOUT: the side has not read for that long.
SendExpires ==
    /\ bridge.phase = "send" /\ ~ Room(bridge.side)
    /\ UNCHANGED <<peers, wire, got>>
    /\ Break(out)

\* The sockets are closed one after the other, each under SEND_TIMEOUT.
CloseWrites ==
    /\ bridge.phase = "close" /\ Written(bridge.side)
    /\ out' = [out EXCEPT ![bridge.side] = Tail(@)]
    /\ UNCHANGED <<bridge, peers, got>>

CloseEnds ==
    /\ bridge.phase = "close"
    /\ out[bridge.side] = <<>> \/ shut[bridge.side] = "gone" \/ ~ Room(bridge.side)
    /\ UNCHANGED <<peers, wire, got>>
    /\ IF bridge.side = "engine"
       THEN bridge' = [bridge EXCEPT !.side = "browser"] /\ out' = WithClose("browser", out)
       ELSE bridge' = [bridge EXCEPT !.phase = "done"] /\ UNCHANGED out

\* What the bridge does by itself; its peers and the engine's answers are not.
BridgeStep ==
    \/ ConnectTimesOut
    \/ \E s \in Sides : Read(s) \/ ReadEnds(s)
    \/ Sent \/ SendFails \/ SendExpires
    \/ CloseWrites \/ CloseEnds

Forgotten == bridge.phase = "done" /\ Dropped

-----------------------------------------------------------------------------
(* Properties *)

\* What the bridge has passed to a side, read by it or not.
Passed(s) == got[s] \o wire[s] \o out[s]

\* Each side gets what the other sent, in order, none twice, and nothing the
\* other did not send but one close, which is the last.  While the bridge is
\* open nothing is missing: what was not passed on is what was not read.
RelayFaithful ==
    \A s \in Sides :
        LET passed == Passed(s)
            all    == sent[Other(s)]
        IN  /\ bridge.phase \in {"relay", "send"} => passed \o inbox[Other(s)] = all
            /\ \/ IsPrefix(passed, all)
               \/ /\ passed # <<>> /\ Last(passed) = CLOSE
                  /\ IsPrefix(Front(passed), all)
            /\ \A i \in 1..(Len(passed) - 1) : passed[i] # CLOSE

\* Whatever its peers do or stop doing, a bridge does not wait for the engine
\* for ever, and when one side has sent its close or is gone, it ends.
BridgesEnd ==
    /\ bridge.phase \in {"ticket", "connect"} ~> bridge.phase \notin {"ticket", "connect"}
    /\ \A s \in Sides : (Bridged /\ shut[s] # "open") ~> ~ Active
=============================================================================
