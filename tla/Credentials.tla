---------------------------- MODULE Credentials ----------------------------
(***************************************************************************)
(* The three credential tables of the console (stream tickets, dashboard   *)
(* sessions, device pairings) and the HTTP handlers that mint, check,      *)
(* spend and revoke them.                                                  *)
(*                                                                         *)
(* Each table is behind a mutex of its own.  A handler is a short program  *)
(* over them: it reads the clock, takes ONE lock, sweeps the expired       *)
(* entries, acts, and goes on to its next lock.  Other handlers and the    *)
(* clock run between any two of these steps, and also between the reading  *)
(* of the clock and the lock, so a handler may act on an old `now'.        *)
(*                                                                         *)
(* Tokens are 256-bit random values: an entry is named by the order in     *)
(* which it was put in its table (a Vec for pairings, so that order is its *)
(* position), and its fields, which never change, are in the log of the    *)
(* table.  A csrf token is named by the session it belongs to.             *)
(***************************************************************************)
EXTENDS Integers, Sequences, FiniteSets

CONSTANTS
    Listeners,      \* how a configuration may make the console listen
    Request,        \* slots for requests in flight
    Origin,         \* https origins (Host authorities) a browser can name
    Instance,       \* configured engine instances
    NoOrigin, NoInstance,
    TicketTTL, SessionTTL, PairingTTL,
    MaxPairings,    \* MAX_PAIRINGS_PER_SESSION
    MaxClock, MaxArrivals,              \* bounds of the clock and of requests
    MaxTickets, MaxSessions, MaxPaired  \* bounds of the logs

ASSUME LifetimeAssumption ==
    /\ TicketTTL \in Nat \ {0}
    /\ SessionTTL \in Nat \ {0}
    /\ PairingTTL \in Nat \ {0}
    /\ MaxPairings \in Nat \ {0}

ASSUME BoundAssumption ==
    /\ MaxClock \in Nat
    /\ MaxArrivals \in Nat
    /\ MaxTickets \in Nat
    /\ MaxSessions \in Nat
    /\ MaxPaired \in Nat

\* A listener beyond loopback must have TLS.
ASSUME ListenAssumption ==
    Listeners \subseteq {"loopback_http", "loopback_https", "lan_https"}

ASSUME NameAssumption ==
    /\ NoOrigin \notin Origin
    /\ NoInstance \notin Instance

VARIABLES
    listen,         \* how this console listens, from its configuration
    clock,          \* the monotonic clock (Instant)
    tickets,        \* ids in the ticket table
    sessions,       \* ids in the session table
    pairings,       \* ids in the pairing table
    ticketLog,      \* every ticket ever minted:  expiry, instance
    sessionLog,     \* every session ever minted: expiry, origin, parent
    pairingLog,     \* every pairing ever minted: expiry, origin, issuer
    req,            \* the requests in flight
    arrived,        \* how many requests have arrived
    bridges,        \* history: the stream upgrades, in order
    consumed,       \* history: pairings consume_pairing accepted
    revoked,        \* history: pairings a revoke call reported revoked
    refusedSessions,    \* history: sessions refused at their own origin
    refusedTickets      \* history: tickets refused at their own instance

tables == <<tickets, sessions, pairings>>
logs == <<ticketLog, sessionLog, pairingLog>>
history == <<bridges, consumed, revoked, refusedSessions, refusedTickets>>
vars == <<listen, clock, tables, logs, req, arrived, history>>

-----------------------------------------------------------------------------
(* Values *)

Tls == listen \in {"loopback_https", "lan_https"}
Loopback == listen \in {"loopback_http", "loopback_https"}
PairingEnabled == Tls /\ ~Loopback

NoTime == -1
Nobody == 0     \* no session, ticket or pairing has number 0
LoginKey == 0   \* the parent of a session bought with the access key

Op == {"none", "login", "read", "ticket", "stream", "pair", "revoke", "redeem"}
Clocked == {"check", "recheck", "mint_ticket", "consume_ticket",
            "mint_session", "mint_pairing", "revoke_pairing"}
Pc == Clocked \union {"free", "consume_pairing"}

Free ==
    [pc |-> "free", op |-> "none", now |-> NoTime, cookie |-> Nobody,
     csrf |-> Nobody, origin |-> NoOrigin, target |-> Nobody,
     instance |-> NoInstance]

RequestState ==
    [pc: Pc, op: Op, now: Nat \union {NoTime}, cookie: Nat, csrf: Nat,
     origin: Origin \union {NoOrigin}, target: Nat,
     instance: Instance \union {NoInstance}]

Init ==
    /\ listen \in Listeners
    /\ clock = 0
    /\ tickets = {} /\ sessions = {} /\ pairings = {}
    /\ ticketLog = <<>> /\ sessionLog = <<>> /\ pairingLog = <<>>
    /\ req = [r \in Request |-> Free]
    /\ arrived = 0
    /\ bridges = <<>> /\ consumed = {} /\ revoked = {}
    /\ refusedSessions = {} /\ refusedTickets = {}

Tick ==
    /\ clock < MaxClock
    /\ clock' = clock + 1
    /\ UNCHANGED <<listen, tables, logs, req, arrived, history>>

-----------------------------------------------------------------------------
(* Steps shared by the handlers *)

Live(table, log, now) == {id \in table : log[id].expiry > now}

Answer(r) == req' = [req EXCEPT ![r] = Free]
Goto(r, pc) == req' = [req EXCEPT ![r].pc = pc, ![r].now = NoTime]

Begin(r, start) ==
    /\ arrived < MaxArrivals
    /\ arrived' = arrived + 1
    /\ req[r].pc = "free"
    /\ req' = [req EXCEPT ![r] = start]
    /\ UNCHANGED <<listen, clock, tables, logs, history>>

At(r, pc) == req[r].pc = pc /\ req[r].now # NoTime

\* The bounds of the model: a handler starts to mint only if the log has room
\* for it next to the others that already started.
Room(log, pc, max) == Len(log) + Cardinality({q \in Request : At(q, pc)}) < max
HasRoom(pc) ==
    /\ pc = "mint_ticket" => Room(ticketLog, pc, MaxTickets)
    /\ pc = "mint_session" => Room(sessionLog, pc, MaxSessions)
    /\ pc = "mint_pairing" => Room(pairingLog, pc, MaxPaired)

\* let now = Instant::now(), taken before the lock is.
ReadClock(r) ==
    /\ req[r].pc \in Clocked
    /\ req[r].now = NoTime
    /\ HasRoom(req[r].pc)
    /\ req' = [req EXCEPT ![r].now = clock]
    /\ UNCHANGED <<listen, clock, arrived, tables, logs, history>>

\* getrandom fails before the clock is read: the handler ends there, and
\* keeps what its earlier steps did.
EntropyFails(r) ==
    /\ req[r].pc \in {"mint_ticket", "mint_session", "mint_pairing"}
    /\ req[r].now = NoTime
    /\ Answer(r)
    /\ UNCHANGED <<listen, clock, arrived, tables, logs, history>>

-----------------------------------------------------------------------------
(* valid_session, in every handler that takes a session cookie *)

\* Mutation: the expired session is only skipped, never removed.
SkipExpired(now) == UNCHANGED sessions

SweepSessions(now) == sessions' = Live(sessions, sessionLog, now)

\* Mutation: the origin of the session is not compared.
FoundAtAnyOrigin(q) ==
    {s \in Live(sessions, sessionLog, q.now) : s = q.cookie}

\* The unexpired session of this cookie, if it was minted for this origin.
FoundSession(q) ==
    {s \in Live(sessions, sessionLog, q.now) :
        s = q.cookie /\ sessionLog[s].origin = q.origin}

OwnOrigin(q) ==
    {s \in DOMAIN sessionLog :
        s = q.cookie /\ sessionLog[s].origin = q.origin}

\* A read needs no csrf token; authorized_mutation compares it with the
\* token of the session the cookie names.
CsrfValid(q) == q.op = "read" \/ q.csrf = q.cookie

AfterCheck(op) ==
    CASE op = "ticket" -> "mint_ticket"
      [] op \in {"pair", "revoke"} -> "recheck"
      [] OTHER -> "free"

SessionUnauthorized(r) ==
    /\ req[r].pc \in {"check", "recheck"} /\ req[r].now # NoTime
    /\ FoundSession(req[r]) = {}
    /\ SweepSessions(req[r].now)
    /\ refusedSessions' = refusedSessions \union OwnOrigin(req[r])
    /\ Answer(r)
    /\ UNCHANGED <<listen, clock, arrived, tickets, pairings, logs, bridges,
                   consumed, revoked, refusedTickets>>

CsrfRejected(r) ==
    /\ At(r, "check")
    /\ FoundSession(req[r]) # {}
    /\ ~CsrfValid(req[r])
    /\ SweepSessions(req[r].now)
    /\ Answer(r)
    /\ UNCHANGED <<listen, clock, arrived, tickets, pairings, logs, history>>

SessionAuthorized(r) ==
    /\ At(r, "check")
    /\ FoundSession(req[r]) # {}
    /\ CsrfValid(req[r])
    /\ SweepSessions(req[r].now)
    /\ IF AfterCheck(req[r].op) = "free"
       THEN Answer(r)
       ELSE Goto(r, AfterCheck(req[r].op))
    /\ UNCHANGED <<listen, clock, arrived, tickets, pairings, logs, history>>

\* mint_pairing and revoke_pairing validate the session again.
SessionRevalidated(r) ==
    /\ At(r, "recheck")
    /\ FoundSession(req[r]) # {}
    /\ SweepSessions(req[r].now)
    /\ Goto(r, IF req[r].op = "pair" THEN "mint_pairing" ELSE "revoke_pairing")
    /\ UNCHANGED <<listen, clock, arrived, tickets, pairings, logs, history>>

-----------------------------------------------------------------------------
(* Sessions: login with the access key, or with a pairing *)

BeginLogin(r, o) ==
    /\ Tls
    /\ Begin(r, [Free EXCEPT !.pc = "mint_session", !.op = "login",
                                     !.origin = o])

\* A read (or the csrf bootstrap, which is a read of the session).
BeginRead(r, s, o) ==
    /\ Tls
    /\ Begin(r, [Free EXCEPT !.pc = "check", !.op = "read",
                                     !.cookie = s, !.origin = o])

Parent(q) == IF q.op = "redeem" THEN q.target ELSE LoginKey

MintSession(r) ==
    /\ At(r, "mint_session")
    /\ sessionLog' = Append(sessionLog,
            [expiry |-> req[r].now + SessionTTL, origin |-> req[r].origin,
             parent |-> Parent(req[r])])
    /\ sessions' = Live(sessions, sessionLog, req[r].now)
                      \union {Len(sessionLog')}
    /\ Answer(r)
    /\ UNCHANGED <<listen, clock, arrived, tickets, pairings, ticketLog,
                   pairingLog, history>>

-----------------------------------------------------------------------------
(* Stream tickets *)

BeginTicket(r, s, c, o, i) ==
    /\ Tls
    /\ Begin(r, [Free EXCEPT !.pc = "check", !.op = "ticket",
                                     !.cookie = s, !.csrf = c, !.origin = o,
                                     !.instance = i])

\* A loopback listener also takes the access key as a bearer.
BeginTicketByBearer(r, i) ==
    /\ Loopback
    /\ Begin(r, [Free EXCEPT !.pc = "mint_ticket", !.op = "ticket",
                                     !.instance = i])

\* Mutation: the lifetime is subtracted.
TicketExpiryReversed(now) == now - TicketTTL

TicketExpiry(now) == now + TicketTTL

MintTicket(r) ==
    /\ At(r, "mint_ticket")
    /\ ticketLog' = Append(ticketLog,
            [expiry |-> TicketExpiry(req[r].now), instance |-> req[r].instance])
    /\ tickets' = Live(tickets, ticketLog, req[r].now)
                     \union {Len(ticketLog')}
    /\ Answer(r)
    /\ UNCHANGED <<listen, clock, arrived, sessions, pairings, sessionLog,
                   pairingLog, history>>

BeginStream(r, t, i) ==
    Begin(r, [Free EXCEPT !.pc = "consume_ticket", !.op = "stream",
                                  !.target = t, !.instance = i])

\* Mutation: the instance of the ticket is not compared.
FoundAtAnyInstance(q) == {t \in Live(tickets, ticketLog, q.now) : t = q.target}

FoundTicket(q) ==
    {t \in Live(tickets, ticketLog, q.now) :
        t = q.target /\ ticketLog[t].instance = q.instance}

OwnInstance(q) ==
    {t \in DOMAIN ticketLog :
        t = q.target /\ ticketLog[t].instance = q.instance}

\* Mutation: the ticket is looked up and left in the table.
TicketLeft(q) == Live(tickets, ticketLog, q.now)

TicketsAfterUse(q) == Live(tickets, ticketLog, q.now) \ {q.target}

\* The ticket leaves the table and the upgrade to a bridge follows.
ConsumeTicket(r) ==
    /\ At(r, "consume_ticket")
    /\ FoundTicket(req[r]) # {}
    /\ tickets' = TicketsAfterUse(req[r])
    /\ bridges' = Append(bridges, [ticket |-> req[r].target,
                                   instance |-> req[r].instance])
    /\ Answer(r)
    /\ UNCHANGED <<listen, clock, arrived, sessions, pairings, logs, consumed,
                   revoked, refusedSessions, refusedTickets>>

TicketsAfterRefusal(q) == Live(tickets, ticketLog, q.now)

\* Bogus, expired, spent, or minted for another instance: one answer, and
\* a ticket of another instance stays in the table.
RefuseTicket(r) ==
    /\ At(r, "consume_ticket")
    /\ FoundTicket(req[r]) = {}
    /\ tickets' = TicketsAfterRefusal(req[r])
    /\ refusedTickets' = refusedTickets \union OwnInstance(req[r])
    /\ Answer(r)
    /\ UNCHANGED <<listen, clock, arrived, sessions, pairings, logs, bridges,
                   consumed, revoked, refusedSessions>>
-----------------------------------------------------------------------------
(* Device pairings *)

BeginPair(r, s, c, o) ==
    /\ PairingEnabled
    /\ Begin(r, [Free EXCEPT !.pc = "check", !.op = "pair",
                                     !.cookie = s, !.csrf = c, !.origin = o])

Issued(table, s) == {p \in table : pairingLog[p].issuer = s}

\* Mutation: one entry too many is kept.
EvictedTooFew(table, s) ==
    {p \in Issued(table, s) :
        Cardinality({n \in Issued(table, s) : n > p}) > MaxPairings - 1}

\* Mutation: the first entry of the table goes, whoever issued it.
EvictedOfAnyone(table, s) ==
    {p \in table : Cardinality({n \in table : n > p}) >= MaxPairings - 1}

\* While the issuer has MaxPairings or more, its first entry goes: what is
\* left of its entries is the newest MaxPairings - 1.
Evicted(table, s) ==
    {p \in Issued(table, s) :
        Cardinality({n \in Issued(table, s) : n > p}) >= MaxPairings - 1}

PairingExpiry(now) == now + PairingTTL

MintPairing(r) ==
    /\ At(r, "mint_pairing")
    /\ LET live == Live(pairings, pairingLog, req[r].now)
       IN  pairings' = (live \ Evicted(live, req[r].cookie))
                          \union {Len(pairingLog) + 1}
    /\ pairingLog' = Append(pairingLog,
            [expiry |-> PairingExpiry(req[r].now), origin |-> req[r].origin,
             issuer |-> req[r].cookie])
    /\ Answer(r)
    /\ UNCHANGED <<listen, clock, arrived, tickets, sessions, ticketLog,
                   sessionLog, history>>

BeginRevoke(r, s, c, o, p) ==
    /\ PairingEnabled
    /\ Begin(r, [Free EXCEPT !.pc = "check", !.op = "revoke",
                                     !.cookie = s, !.csrf = c, !.origin = o,
                                     !.target = p])

\* Mutation: a pairing that is no longer pending is reported revoked.
EverIssued(q) ==
    {p \in DOMAIN pairingLog :
        p = q.target /\ pairingLog[p].issuer = q.cookie}

\* Only the session that minted a pairing can revoke it.
Revocable(q) ==
    {p \in Live(pairings, pairingLog, q.now) :
        p = q.target /\ pairingLog[p].issuer = q.cookie}

RevokePairing(r) ==
    /\ At(r, "revoke_pairing")
    /\ pairings' = Live(pairings, pairingLog, req[r].now)
                      \ Revocable(req[r])
    /\ revoked' = revoked \union Revocable(req[r])
    /\ Answer(r)
    /\ UNCHANGED <<listen, clock, arrived, tickets, sessions, logs, bridges,
                   consumed, refusedSessions, refusedTickets>>

BeginRedeem(r, p, o) ==
    /\ PairingEnabled
    /\ Begin(r, [Free EXCEPT !.pc = "consume_pairing",
                                     !.op = "redeem", !.target = p,
                                     !.origin = o])

\* Mutation: the token is looked up among all that were ever minted.
EverRedeemable(q) ==
    {p \in DOMAIN pairingLog :
        p = q.target /\ pairingLog[p].origin = q.origin}

Redeemable(q) ==
    {p \in Live(pairings, pairingLog, clock) :
        p = q.target /\ pairingLog[p].origin = q.origin}

\* Mutation: the pairing is removed when its session is minted, too late.
PairingLeft(q) == Live(pairings, pairingLog, clock)

PairingsAfterUse(q) == Live(pairings, pairingLog, clock) \ Redeemable(q)

\* consume_pairing reads the clock inside the lock; the session is minted
\* in a later step, which may still fail.
ConsumePairing(r) ==
    /\ req[r].pc = "consume_pairing"
    /\ pairings' = PairingsAfterUse(req[r])
    /\ IF Redeemable(req[r]) = {}
       THEN Answer(r)
       ELSE Goto(r, "mint_session")
    /\ consumed' = consumed \union Redeemable(req[r])
    /\ UNCHANGED <<listen, clock, arrived, tickets, sessions, logs, bridges,
                   revoked, refusedSessions, refusedTickets>>

-----------------------------------------------------------------------------
\* The tokens a request can carry are the ones already handed out.
Ticket == DOMAIN ticketLog
Session == DOMAIN sessionLog
Csrf(s) == {s, Nobody}      \* the token of the session, or another or none
Pairing == DOMAIN pairingLog

Arrive(r) ==
    \/ \E o \in Origin : BeginLogin(r, o)
    \/ \E s \in Session, o \in Origin : BeginRead(r, s, o)
    \/ \E s \in Session, o \in Origin, i \in Instance :
            \E c \in Csrf(s) : BeginTicket(r, s, c, o, i)
    \/ \E i \in Instance : BeginTicketByBearer(r, i)
    \/ \E t \in Ticket, i \in Instance : BeginStream(r, t, i)
    \/ \E s \in Session, o \in Origin :
            \E c \in Csrf(s) : BeginPair(r, s, c, o)
    \/ \E s \in Session, o \in Origin, p \in Pairing :
            \E c \in Csrf(s) : BeginRevoke(r, s, c, o, p)
    \/ \E p \in Pairing, o \in Origin : BeginRedeem(r, p, o)

Handle(r) ==
    \/ ReadClock(r)
    \/ EntropyFails(r)
    \/ SessionUnauthorized(r)
    \/ CsrfRejected(r)
    \/ SessionAuthorized(r)
    \/ SessionRevalidated(r)
    \/ MintSession(r)
    \/ MintTicket(r)
    \/ ConsumeTicket(r)
    \/ RefuseTicket(r)
    \/ MintPairing(r)
    \/ RevokePairing(r)
    \/ ConsumePairing(r)

\* No request in flight and none to come: the only way to stop.
Quiet ==
    /\ clock = MaxClock
    /\ arrived = MaxArrivals
    /\ \A r \in Request : req[r].pc = "free"
    /\ UNCHANGED vars

Next == Tick \/ Quiet \/ (\E r \in Request : Arrive(r) \/ Handle(r))

Spec == Init /\ [][Next]_vars

-----------------------------------------------------------------------------
(* Type correctness *)

TypeOK ==
    /\ listen \in Listeners
    /\ clock \in Nat
    /\ arrived \in Nat
    /\ ticketLog \in Seq([expiry: Nat, instance: Instance])
    /\ sessionLog \in Seq([expiry: Nat, origin: Origin, parent: Nat])
    /\ pairingLog \in Seq([expiry: Nat, origin: Origin, issuer: Nat])
    /\ tickets \subseteq DOMAIN ticketLog
    /\ sessions \subseteq DOMAIN sessionLog
    /\ pairings \subseteq DOMAIN pairingLog
    /\ req \in [Request -> RequestState]
    /\ bridges \in Seq([ticket: Nat, instance: Instance])
    /\ consumed \subseteq DOMAIN pairingLog
    /\ revoked \subseteq DOMAIN pairingLog
    /\ refusedSessions \subseteq DOMAIN sessionLog
    /\ refusedTickets \subseteq DOMAIN ticketLog

(* Properties *)

\* A ticket opens at most one stream, and only to the instance it was
\* minted for, however many upgrades present it at once.
TicketSingleUse ==
    /\ \A b \in DOMAIN bridges :
          /\ bridges[b].ticket \in DOMAIN ticketLog
          /\ bridges[b].instance = ticketLog[bridges[b].ticket].instance
    /\ \A a, b \in DOMAIN bridges :
          bridges[a].ticket = bridges[b].ticket => a = b

\* A redeem that has consumed its pairing and not yet minted its session.
Redeeming(r) == req[r].op = "redeem" /\ req[r].pc = "mint_session"

\* A pairing establishes at most one session, although the consumption and
\* the minting are two steps under two locks: counting the sessions and the
\* redeems in between, no pairing is used twice.
PairingSingleUse ==
    /\ \A s, t \in DOMAIN sessionLog :
          /\ sessionLog[s].parent = sessionLog[t].parent
          /\ sessionLog[s].parent # LoginKey
          => s = t
    /\ \A r \in Request : Redeeming(r) =>
          /\ \A q \in Request :
                Redeeming(q) /\ req[q].target = req[r].target => q = r
          /\ \A s \in DOMAIN sessionLog : sessionLog[s].parent # req[r].target

\* A revocation that was answered "revoked" is the truth: that pairing never
\* gives a session, before or after the answer.
RevokedNeverRedeemed ==
    /\ revoked \intersect consumed = {}
    /\ \A s \in DOMAIN sessionLog :
          sessionLog[s].parent # LoginKey => sessionLog[s].parent \in consumed
    /\ \A r \in Request : Redeeming(r) => req[r].target \in consumed

\* No session has more than MaxPairings pairings waiting.
PairingCap ==
    \A s \in DOMAIN sessionLog : Cardinality(Issued(pairings, s)) <= MaxPairings

\* A pairing hands down exactly what its issuer had: every pairing was minted
\* by an earlier session of the same origin, and a session bought with a
\* pairing has the origin of that pairing; followed up, every session of an
\* origin begins with a login with the access key at that origin.
SessionProvenance ==
    /\ \A p \in DOMAIN pairingLog :
          /\ pairingLog[p].issuer \in DOMAIN sessionLog
          /\ pairingLog[p].origin = sessionLog[pairingLog[p].issuer].origin
    /\ \A s \in DOMAIN sessionLog : sessionLog[s].parent # LoginKey =>
          /\ sessionLog[s].parent \in DOMAIN pairingLog
          /\ sessionLog[s].origin = pairingLog[sessionLog[s].parent].origin
          /\ pairingLog[sessionLog[s].parent].issuer < s

\* The session of the cookie is accepted, whatever becomes of the request.
Admits(r) == SessionAuthorized(r) \/ CsrfRejected(r) \/ SessionRevalidated(r)

RefusedStaysRefused ==
    /\ \A r \in Request : Admits(r) => req[r].cookie \notin refusedSessions
    /\ bridges' # bridges =>
          bridges'[Len(bridges')].ticket \notin refusedTickets

\* Once the console has answered that a session or a ticket is no longer good,
\* it never accepts it again, not even from a handler that read the clock
\* before that answer and takes the lock after it.
RefusalIsFinal == [][RefusedStaysRefused]_vars

OpensStream(t) == bridges' # bridges /\ bridges'[Len(bridges')].ticket = t

\* Its issuer, which has MaxPairings pairings, mints one more and p is the
\* oldest of them.
EvictedByIssuer(p) ==
    /\ Len(pairingLog') > Len(pairingLog)
    /\ pairingLog'[Len(pairingLog')].issuer = pairingLog[p].issuer
    /\ \A n \in Issued(pairings, pairingLog[p].issuer) : n >= p
    /\ Cardinality(Issued(pairings, pairingLog[p].issuer)) = MaxPairings

KeptUntilUsed ==
    /\ \A t \in tickets \ tickets' : ticketLog[t].expiry > clock =>
          OpensStream(t)
    /\ \A s \in sessions \ sessions' : sessionLog[s].expiry <= clock
    /\ \A p \in pairings \ pairings' : pairingLog[p].expiry > clock =>
          p \in revoked' \/ p \in consumed' \/ EvictedByIssuer(p)

\* An unexpired credential leaves its table only by its own use: a ticket when
\* it opens a stream, a pairing when it is redeemed, revoked, or pushed out by
\* a newer one of its own issuer; a session never.  In particular no sweep
\* with an old clock and no activity of another session removes it.
NoEarlyDrop == [][KeptUntilUsed]_vars

\* Tickets and pairings are one-use credentials.
OneTicket == INSTANCE OneUse WITH
    issued <- Len(ticketLog), pending <- tickets,
    spent <- {bridges[b].ticket : b \in DOMAIN bridges}
TicketsAreOneUse == OneTicket!Spec

OnePairing == INSTANCE OneUse WITH
    issued <- Len(pairingLog), pending <- pairings,
    spent <- consumed
PairingsAreOneUse == OnePairing!Spec

-----------------------------------------------------------------------------
(* What the steps of a handler rely on: the proofs strengthen the properties
   with these *)

\* What the steps before it established for a handler that is at pc.
HandlerOK(r) ==
    /\ req[r].now <= clock
    /\ req[r].pc \in {"check", "recheck", "mint_session", "mint_pairing"}
          => req[r].origin \in Origin
    /\ req[r].pc \in {"mint_ticket", "consume_ticket"}
          => req[r].instance \in Instance
    /\ req[r].pc = "check" /\ req[r].op = "ticket"
          => req[r].instance \in Instance
    /\ req[r].pc = "consume_pairing" => req[r].op = "redeem"
          /\ req[r].origin \in Origin
    /\ req[r].pc = "mint_pairing" =>
          /\ req[r].cookie \in DOMAIN sessionLog
          /\ sessionLog[req[r].cookie].origin = req[r].origin
    /\ Redeeming(r) =>
          /\ req[r].target \in consumed
          /\ pairingLog[req[r].target].origin = req[r].origin

RequestOK == \A r \in Request : HandlerOK(r)

\* What was refused is out of its table.
RefusedNotPending ==
    /\ refusedSessions \intersect sessions = {}
    /\ refusedTickets \intersect tickets = {}
=============================================================================
