------------------------- MODULE CredentialsProofs -------------------------
(***************************************************************************)
(* Proofs about Credentials, for every number of requests, origins and     *)
(* instances, every lifetime and every bound: first lemmas about what a    *)
(* handler does in one step to each table and log, then the invariant, the *)
(* theorems, and that tickets and pairings implement OneUse.               *)
(***************************************************************************)
EXTENDS Credentials, SequenceTheorems, FiniteSetTheorems, WellFoundedInduction, TLAPS

TicketRecord == [expiry: Nat, instance: Instance]
SessionRecord == [expiry: Nat, origin: Origin, parent: Nat]
PairingRecord == [expiry: Nat, origin: Origin, issuer: Nat]
BridgeRecord == [ticket: Nat, instance: Instance]

-----------------------------------------------------------------------------
(* Lemmas about the logs and the tables *)

\* A log only grows: what was in it stays where it was.
LEMMA AppendLog ==
    ASSUME NEW S, NEW log \in Seq(S), NEW e \in S
    PROVE  /\ Append(log, e) \in Seq(S)
           /\ Len(log) \in Nat
           /\ Len(Append(log, e)) = Len(log) + 1
           /\ DOMAIN log = 1..Len(log)
           /\ DOMAIN Append(log, e) = 1..(Len(log) + 1)
           /\ \A i \in DOMAIN log : Append(log, e)[i] = log[i]
           /\ Append(log, e)[Len(log) + 1] = e
BY AppendProperties, LenProperties

\* Sweeping a table only removes entries.
LEMMA LiveSubset ==
    ASSUME NEW table, NEW log, NEW now
    PROVE  Live(table, log, now) \subseteq table
BY DEF Live

-----------------------------------------------------------------------------
(* Type correctness *)

\* At first the tables are empty and every handler is free.
LEMMA InitInvariant == Init => TypeOK /\ RequestOK
<1> SUFFICES ASSUME Init PROVE TypeOK /\ RequestOK
  OBVIOUS
<1>1. TypeOK
  BY EmptySeq DEF Init, TypeOK, RequestState, Free, Pc, Clocked, Op, NoTime, Nobody
<1>2. RequestOK
  BY DEF Init, RequestOK, HandlerOK, Free, Redeeming, NoTime
<1> QED
  BY <1>1, <1>2

\* A request arrives with the fields its first step needs.
Arriving(start) ==
    /\ start \in RequestState
    /\ start.now = NoTime
    /\ start.pc \in {"mint_session", "mint_ticket", "check", "consume_ticket",
                     "consume_pairing"}
    /\ start.pc \in {"check", "mint_session"} => start.origin \in Origin
    /\ start.pc \in {"mint_ticket", "consume_ticket"}
          => start.instance \in Instance
    /\ start.pc = "check" /\ start.op = "ticket" => start.instance \in Instance
    /\ start.pc = "mint_session" => start.op = "login"
    /\ start.pc = "consume_pairing" => /\ start.op = "redeem"
                                       /\ start.origin \in Origin

\* Whatever arrives, a free handler begins the program of its operation.
LEMMA ArrivalShape ==
    ASSUME TypeOK, NEW r \in Request, Arrive(r)
    PROVE  \E start : Arriving(start) /\ Begin(r, start)
<1> USE DEF Arriving, RequestState, Pc, Clocked, Op, Free, NoTime, Nobody
<1>1. /\ Ticket \subseteq Nat
      /\ Session \subseteq Nat
      /\ Pairing \subseteq Nat
  <2>1. /\ ticketLog \in Seq(TicketRecord)
        /\ sessionLog \in Seq(SessionRecord)
        /\ pairingLog \in Seq(PairingRecord)
    BY DEF TypeOK, TicketRecord, SessionRecord, PairingRecord
  <2>2. \A S : \A log \in Seq(S) : DOMAIN log \subseteq Nat
    BY LenProperties
  <2> QED
    BY <2>1, <2>2 DEF Ticket, Session, Pairing
<1>2. \A s \in Session : Csrf(s) \subseteq Nat
  BY <1>1 DEF Csrf
<1>3. CASE \E o \in Origin : BeginLogin(r, o)
  BY <1>3 DEF BeginLogin
<1>4. CASE \E s \in Session, o \in Origin : BeginRead(r, s, o)
  BY <1>1, <1>4 DEF BeginRead
<1>5. CASE \E s \in Session, o \in Origin, i \in Instance :
              \E c \in Csrf(s) : BeginTicket(r, s, c, o, i)
  BY <1>1, <1>2, <1>5 DEF BeginTicket
<1>6. CASE \E i \in Instance : BeginTicketByBearer(r, i)
  BY <1>6 DEF BeginTicketByBearer
<1>7. CASE \E t \in Ticket, i \in Instance : BeginStream(r, t, i)
  BY <1>1, <1>7 DEF BeginStream
<1>8. CASE \E s \in Session, o \in Origin :
              \E c \in Csrf(s) : BeginPair(r, s, c, o)
  BY <1>1, <1>2, <1>8 DEF BeginPair
<1>9. CASE \E s \in Session, o \in Origin, p \in Pairing :
              \E c \in Csrf(s) : BeginRevoke(r, s, c, o, p)
  BY <1>1, <1>2, <1>9 DEF BeginRevoke
<1>10. CASE \E p \in Pairing, o \in Origin : BeginRedeem(r, p, o)
  BY <1>1, <1>10 DEF BeginRedeem
<1> QED
  BY <1>3, <1>4, <1>5, <1>6, <1>7, <1>8, <1>9, <1>10 DEF Arrive

\* A request that arrives is well typed, and nothing is established for it
\* yet.
LEMMA ArriveType ==
    ASSUME TypeOK, RequestOK, NEW r \in Request, Arrive(r)
    PROVE  TypeOK' /\ RequestOK'
<1>1. PICK start : Arriving(start) /\ Begin(r, start)
  BY ArrivalShape
<1> USE DEF Begin, tables, logs, history
<1>2. TypeOK'
  BY <1>1 DEF TypeOK, Arriving
<1>3. RequestOK'
  BY <1>1 DEF TypeOK, RequestOK, HandlerOK, Redeeming, Arriving, NoTime
<1> QED
  BY <1>2, <1>3

\* The logs are sequences of records, with their places.
LEMMA LogTypes ==
    ASSUME TypeOK
    PROVE  /\ ticketLog \in Seq(TicketRecord)
           /\ sessionLog \in Seq(SessionRecord)
           /\ pairingLog \in Seq(PairingRecord)
           /\ bridges \in Seq(BridgeRecord)
           /\ \A r \in Request : req[r] \in RequestState
           /\ Len(ticketLog) \in Nat /\ DOMAIN ticketLog = 1..Len(ticketLog)
           /\ Len(sessionLog) \in Nat /\ DOMAIN sessionLog = 1..Len(sessionLog)
           /\ Len(pairingLog) \in Nat /\ DOMAIN pairingLog = 1..Len(pairingLog)
           /\ Len(bridges) \in Nat /\ DOMAIN bridges = 1..Len(bridges)
BY LenProperties DEF TypeOK, TicketRecord, SessionRecord, PairingRecord, BridgeRecord

\* A free handler is well typed.
LEMMA FreeType == Free \in RequestState
BY DEF Free, RequestState, Pc, Clocked, Op, NoTime, Nobody

\* A handler that is at the end of its program, or goes to its next step.
LEMMA AnswerGotoType ==
    ASSUME TypeOK, NEW r \in Request
    PROVE  /\ Answer(r) => req' \in [Request -> RequestState]
           /\ \A pc \in Pc : Goto(r, pc) => req' \in [Request -> RequestState]
<1> USE DEF TypeOK
<1>1. Answer(r) => req' \in [Request -> RequestState]
  BY FreeType DEF Answer
<1>2. ASSUME NEW pc \in Pc, Goto(r, pc)
      PROVE  req' \in [Request -> RequestState]
  BY <1>2, ZenonT(60) DEF Goto, RequestState, NoTime
<1> QED
  BY <1>1, <1>2

\* Every step of a handler keeps the types.
LEMMA HandleType ==
    ASSUME TypeOK, RequestOK, NEW r \in Request, Handle(r)
    PROVE  TypeOK'
<1> USE LifetimeAssumption DEF tables, logs, history
<1>a. req[r] \in RequestState
  BY DEF TypeOK
<1>b. req[r].now # NoTime => req[r].now \in Nat
  BY <1>a DEF RequestState
<1>c. /\ Answer(r) => req' \in [Request -> RequestState]
      /\ \A pc \in Pc : Goto(r, pc) => req' \in [Request -> RequestState]
  BY AnswerGotoType
<1>d. {"recheck", "mint_ticket", "mint_pairing", "revoke_pairing",
       "mint_session"} \subseteq Pc
  BY DEF Pc, Clocked
<1>e. \A table, log, now : Live(table, log, now) \subseteq table
  BY LiveSubset
<1>1. CASE ReadClock(r)
  BY <1>1, <1>a DEF ReadClock, TypeOK, RequestState
<1>2. CASE EntropyFails(r)
  BY <1>2, <1>c DEF EntropyFails, TypeOK
<1>3. CASE SessionUnauthorized(r)
  BY <1>3, <1>c, <1>e DEF SessionUnauthorized, SweepSessions, OwnOrigin, TypeOK
<1>4. CASE CsrfRejected(r)
  BY <1>4, <1>c, <1>e DEF CsrfRejected, SweepSessions, TypeOK
<1>5. CASE SessionAuthorized(r)
  <2>1. AfterCheck(req[r].op) \in {"free", "mint_ticket", "recheck"}
    BY DEF AfterCheck
  <2>2. req' \in [Request -> RequestState]
    BY <1>5, <1>c, <1>d, <2>1 DEF SessionAuthorized
  <2> QED
    BY <1>5, <1>e, <2>2 DEF SessionAuthorized, SweepSessions, TypeOK
<1>6. CASE SessionRevalidated(r)
  <2>1. req' \in [Request -> RequestState]
    BY <1>6, <1>c, <1>d DEF SessionRevalidated
  <2> QED
    BY <1>6, <1>e, <2>1 DEF SessionRevalidated, SweepSessions, TypeOK
<1>7. CASE MintSession(r)
  <2> DEFINE e == [expiry |-> req[r].now + SessionTTL, origin |-> req[r].origin,
                   parent |-> Parent(req[r])]
  <2>1. e \in SessionRecord
    BY <1>7, <1>a, <1>b DEF MintSession, At, RequestOK, HandlerOK, SessionRecord, Parent,
       LoginKey, RequestState
  <2>2. sessionLog' = Append(sessionLog, e)
    BY <1>7 DEF MintSession
  <2>3. /\ sessionLog' \in Seq(SessionRecord)
        /\ DOMAIN sessionLog \subseteq DOMAIN sessionLog'
        /\ Len(sessionLog') \in DOMAIN sessionLog'
    <3> HIDE DEF e
    <3> QED  BY <2>1, <2>2, LogTypes, AppendLog
  <2> QED
    BY <1>7, <1>c, <1>e, <2>3 DEF MintSession, TypeOK, SessionRecord
<1>8. CASE MintTicket(r)
  <2> DEFINE e == [expiry |-> TicketExpiry(req[r].now),
                   instance |-> req[r].instance]
  <2>1. e \in TicketRecord
    BY <1>8, <1>a, <1>b DEF MintTicket, At, RequestOK, HandlerOK, TicketRecord, TicketExpiry
  <2>2. ticketLog' = Append(ticketLog, e)
    BY <1>8 DEF MintTicket
  <2>3. /\ ticketLog' \in Seq(TicketRecord)
        /\ DOMAIN ticketLog \subseteq DOMAIN ticketLog'
        /\ Len(ticketLog') \in DOMAIN ticketLog'
    <3> HIDE DEF e
    <3> QED  BY <2>1, <2>2, LogTypes, AppendLog
  <2> QED
    BY <1>8, <1>c, <1>e, <2>3 DEF MintTicket, TypeOK, TicketRecord
<1>9. CASE ConsumeTicket(r)
  <2> DEFINE e == [ticket |-> req[r].target, instance |-> req[r].instance]
  <2>1. e \in BridgeRecord
    BY <1>9, <1>a DEF ConsumeTicket, At, RequestOK, HandlerOK, BridgeRecord, RequestState
  <2>2. bridges' = Append(bridges, e)
    BY <1>9 DEF ConsumeTicket
  <2>3. bridges' \in Seq(BridgeRecord)
    <3> HIDE DEF e
    <3> QED  BY <2>1, <2>2, LogTypes, AppendLog
  <2> QED
    BY <1>9, <1>c, <1>e, <2>3
       DEF ConsumeTicket, TicketsAfterUse, TypeOK, BridgeRecord
<1>10. CASE RefuseTicket(r)
  BY <1>10, <1>c, <1>e
     DEF RefuseTicket, TicketsAfterRefusal, OwnInstance, TypeOK
<1>11. CASE MintPairing(r)
  <2> DEFINE e == [expiry |-> PairingExpiry(req[r].now),
                   origin |-> req[r].origin, issuer |-> req[r].cookie]
  <2>1. e \in PairingRecord
    BY <1>11, <1>a, <1>b DEF MintPairing, At, RequestOK, HandlerOK, PairingRecord,
       PairingExpiry, RequestState
  <2>2. pairingLog' = Append(pairingLog, e)
    BY <1>11 DEF MintPairing
  <2>3. /\ pairingLog' \in Seq(PairingRecord)
        /\ DOMAIN pairingLog \subseteq DOMAIN pairingLog'
        /\ Len(pairingLog) + 1 \in DOMAIN pairingLog'
    <3> HIDE DEF e
    <3> QED  BY <2>1, <2>2, LogTypes, AppendLog
  <2> QED
    BY <1>11, <1>c, <1>e, <2>3 DEF MintPairing, TypeOK, PairingRecord
<1>12. CASE RevokePairing(r)
  BY <1>12, <1>c, <1>e DEF RevokePairing, Revocable, TypeOK
<1>13. CASE ConsumePairing(r)
  <2>1. req' \in [Request -> RequestState]
    BY <1>13, <1>c, <1>d DEF ConsumePairing
  <2> QED
    BY <1>13, <1>e, <2>1 DEF ConsumePairing, PairingsAfterUse, Redeemable, TypeOK
<1> QED
  BY <1>1, <1>2, <1>3, <1>4, <1>5, <1>6, <1>7, <1>8, <1>9, <1>10, <1>11,
     <1>12, <1>13 DEF Handle

-----------------------------------------------------------------------------
(* What a handler step leaves alone *)

\* The logs and the history of consumed pairings only grow, a table only takes
\* in the entry that is minted, and the other requests stay where they are.
LEMMA HandleFrame ==
    ASSUME TypeOK, RequestOK, NEW r \in Request, Handle(r)
    PROVE  /\ clock' = clock
           /\ \A q \in Request : q # r => req'[q] = req[q]
           /\ consumed \subseteq consumed'
           /\ DOMAIN ticketLog \subseteq DOMAIN ticketLog'
           /\ \A i \in DOMAIN ticketLog : ticketLog'[i] = ticketLog[i]
           /\ DOMAIN sessionLog \subseteq DOMAIN sessionLog'
           /\ \A i \in DOMAIN sessionLog : sessionLog'[i] = sessionLog[i]
           /\ DOMAIN pairingLog \subseteq DOMAIN pairingLog'
           /\ \A i \in DOMAIN pairingLog : pairingLog'[i] = pairingLog[i]
<1> USE LifetimeAssumption DEF tables, logs, history
<1>a. req[r] \in RequestState
  BY DEF TypeOK
<1>b. req[r].now # NoTime => req[r].now \in Nat
  BY <1>a DEF RequestState
<1>1. /\ clock' = clock
      /\ consumed \subseteq consumed'
  BY DEF Handle, ReadClock, EntropyFails, SessionUnauthorized, CsrfRejected,
     SessionAuthorized, SessionRevalidated, MintSession, MintTicket,
     ConsumeTicket, RefuseTicket, MintPairing, RevokePairing, ConsumePairing
<1>2. \A q \in Request : q # r => req'[q] = req[q]
  BY DEF TypeOK, Handle, ReadClock, EntropyFails, SessionUnauthorized,
     CsrfRejected, SessionAuthorized, SessionRevalidated, MintSession,
     MintTicket, ConsumeTicket, RefuseTicket, MintPairing, RevokePairing,
     ConsumePairing, Answer, Goto
<1>3. CASE MintSession(r)
  <2> DEFINE e == [expiry |-> req[r].now + SessionTTL, origin |-> req[r].origin,
                   parent |-> Parent(req[r])]
  <2>1. e \in SessionRecord
    BY <1>3, <1>a, <1>b DEF MintSession, At, RequestOK, HandlerOK,
       SessionRecord, Parent, LoginKey, RequestState
  <2>2. sessionLog' = Append(sessionLog, e) /\ UNCHANGED <<ticketLog, pairingLog>>
    BY <1>3 DEF MintSession
  <2> HIDE DEF e
  <2> QED
    BY <1>1, <1>2, <2>1, <2>2, LogTypes, AppendLog
<1>4. CASE MintTicket(r)
  <2> DEFINE e == [expiry |-> TicketExpiry(req[r].now),
                   instance |-> req[r].instance]
  <2>1. e \in TicketRecord
    BY <1>4, <1>a, <1>b
       DEF MintTicket, At, RequestOK, HandlerOK, TicketRecord, TicketExpiry
  <2>2. ticketLog' = Append(ticketLog, e) /\ UNCHANGED <<sessionLog, pairingLog>>
    BY <1>4 DEF MintTicket
  <2> HIDE DEF e
  <2> QED
    BY <1>1, <1>2, <2>1, <2>2, LogTypes, AppendLog
<1>5. CASE MintPairing(r)
  <2> DEFINE e == [expiry |-> PairingExpiry(req[r].now),
                   origin |-> req[r].origin, issuer |-> req[r].cookie]
  <2>1. e \in PairingRecord
    BY <1>5, <1>a, <1>b DEF MintPairing, At, RequestOK, HandlerOK,
       PairingRecord, PairingExpiry, RequestState
  <2>2. pairingLog' = Append(pairingLog, e) /\ UNCHANGED <<ticketLog, sessionLog>>
    BY <1>5 DEF MintPairing
  <2> HIDE DEF e
  <2> QED
    BY <1>1, <1>2, <2>1, <2>2, LogTypes, AppendLog
<1>6. CASE ~(MintSession(r) \/ MintTicket(r) \/ MintPairing(r))
  <2>1. UNCHANGED logs
    BY <1>6 DEF Handle, ReadClock, EntropyFails, SessionUnauthorized,
       CsrfRejected, SessionAuthorized, SessionRevalidated, ConsumeTicket,
       RefuseTicket, RevokePairing, ConsumePairing
  <2> QED
    BY <1>1, <1>2, <2>1
<1> QED
  BY <1>3, <1>4, <1>5, <1>6

\* What is known of a handler stays true while others run.
LEMMA OthersKeepOK ==
    ASSUME TypeOK, RequestOK, NEW r \in Request, Handle(r),
           NEW q \in Request, q # r
    PROVE  HandlerOK(q)'
<1>1. consumed \subseteq DOMAIN pairingLog
  BY DEF TypeOK
<1>2. HandlerOK(q)
  BY DEF RequestOK
<1> QED
  BY <1>1, <1>2, HandleFrame DEF HandlerOK, Redeeming

\* A step of one handler leaves what earlier steps established for it and for
\* the others.
LEMMA HandleRequestOK ==
    ASSUME TypeOK, RequestOK, NEW r \in Request, Handle(r)
    PROVE  RequestOK'
<1> SUFFICES HandlerOK(r)'
  BY OthersKeepOK DEF RequestOK
<1> USE DEF tables, logs, history
<1>a. req[r] \in RequestState /\ req \in [Request -> RequestState] /\ clock \in Nat
  BY DEF TypeOK
<1>b. HandlerOK(r)
  BY DEF RequestOK
<1>c. clock' = clock
  BY HandleFrame
<1>d. ASSUME Answer(r) PROVE HandlerOK(r)'
  BY <1>a, <1>c, <1>d DEF Answer, HandlerOK, Redeeming, Free, NoTime
<1>1. CASE ReadClock(r)
  <2>1. /\ req'[r] = [req[r] EXCEPT !.now = clock]
        /\ UNCHANGED <<clock, sessionLog, pairingLog, consumed>>
    BY <1>1, <1>a DEF ReadClock
  <2> QED
    BY <1>a, <1>b, <2>1 DEF HandlerOK, Redeeming, RequestState
<1>2. CASE \/ EntropyFails(r) \/ SessionUnauthorized(r) \/ CsrfRejected(r)
           \/ MintSession(r) \/ MintTicket(r) \/ ConsumeTicket(r)
           \/ RefuseTicket(r) \/ MintPairing(r) \/ RevokePairing(r)
  <2>1. Answer(r)
    BY <1>2 DEF EntropyFails, SessionUnauthorized, CsrfRejected, MintSession,
       MintTicket, ConsumeTicket, RefuseTicket, MintPairing, RevokePairing
  <2> QED
    BY <1>d, <2>1
<1>3. CASE SessionAuthorized(r)
  <2>1. CASE AfterCheck(req[r].op) = "free"
    BY <1>3, <1>d, <2>1 DEF SessionAuthorized
  <2>2. CASE AfterCheck(req[r].op) # "free"
    <3>1. /\ \/ req[r].op = "ticket" /\ AfterCheck(req[r].op) = "mint_ticket"
             \/ req[r].op # "ticket" /\ AfterCheck(req[r].op) = "recheck"
          /\ req[r].pc = "check"
          /\ Goto(r, AfterCheck(req[r].op))
      BY <1>3, <2>2 DEF SessionAuthorized, AfterCheck, At
    <3>2. req'[r] = [req[r] EXCEPT !.pc = AfterCheck(req[r].op), !.now = NoTime]
      BY <1>a, <3>1 DEF Goto
    <3> QED
      BY <1>a, <1>b, <1>c, <3>1, <3>2 DEF HandlerOK, Redeeming, NoTime, RequestState
  <2> QED
    BY <2>1, <2>2
<1>4. CASE SessionRevalidated(r)
  <2> DEFINE pc == IF req[r].op = "pair" THEN "mint_pairing" ELSE "revoke_pairing"
  <2>1. req'[r] = [req[r] EXCEPT !.pc = pc, !.now = NoTime]
    BY <1>4, <1>a DEF SessionRevalidated, Goto
  <2>2. /\ req[r].pc = "recheck"
        /\ sessions \subseteq DOMAIN sessionLog
        /\ UNCHANGED <<sessionLog, pairingLog, consumed>>
    BY <1>4 DEF SessionRevalidated, At, TypeOK
  <2>3. /\ req[r].cookie \in DOMAIN sessionLog
        /\ sessionLog[req[r].cookie].origin = req[r].origin
    BY <1>4, <2>2 DEF SessionRevalidated, FoundSession, Live
  <2> QED
    BY <1>a, <1>b, <1>c, <2>1, <2>2, <2>3
       DEF HandlerOK, Redeeming, NoTime, RequestState
<1>5. CASE ConsumePairing(r)
  <2>1. CASE Redeemable(req[r]) = {}
    BY <1>5, <1>d, <2>1 DEF ConsumePairing
  <2>2. CASE Redeemable(req[r]) # {}
    <3>1. req'[r] = [req[r] EXCEPT !.pc = "mint_session", !.now = NoTime]
      BY <1>5, <1>a, <2>2 DEF ConsumePairing, Goto
    <3>2. /\ req[r].target \in Redeemable(req[r])
          /\ pairingLog[req[r].target].origin = req[r].origin
      BY <2>2 DEF Redeemable
    <3>3. /\ req[r].pc = "consume_pairing"
          /\ consumed' = consumed \union Redeemable(req[r])
          /\ UNCHANGED <<sessionLog, pairingLog>>
      BY <1>5 DEF ConsumePairing
    <3> QED
      BY <1>a, <1>b, <1>c, <3>1, <3>2, <3>3
         DEF HandlerOK, Redeeming, NoTime, RequestState
  <2> QED
    BY <2>1, <2>2
<1> QED
  BY <1>1, <1>2, <1>3, <1>4, <1>5 DEF Handle

-----------------------------------------------------------------------------
(* Pairings *)

PairingsGone == pairings \intersect (consumed \union revoked) = {}

PairingInv ==
    /\ PairingsGone
    /\ PairingSingleUse
    /\ RevokedNeverRedeemed
    /\ SessionProvenance

\* A redeem in progress was already in progress before the step, or has just
\* consumed its pairing.
LEMMA RedeemingStep ==
    ASSUME TypeOK, RequestOK, NEW r \in Request, Handle(r),
           NEW q \in Request, Redeeming(q)'
    PROVE  /\ req'[q].target = req[q].target
           /\ \/ Redeeming(q) /\ (q = r => ReadClock(r))
              \/ q = r /\ ConsumePairing(r) /\ req[q].target \in Redeemable(req[q])
<1>a. req \in [Request -> RequestState]
  BY DEF TypeOK
<1>1. CASE q # r
  BY <1>1, HandleFrame DEF Redeeming
<1>2. CASE q = r
  <2>1. ~Answer(r)
    BY <1>a, <1>2 DEF Answer, Redeeming, Free
  <2>2. \/ ReadClock(r) \/ SessionAuthorized(r) \/ SessionRevalidated(r)
        \/ ConsumePairing(r)
    BY <2>1 DEF Handle, EntropyFails, SessionUnauthorized, CsrfRejected,
       MintSession, MintTicket, ConsumeTicket, RefuseTicket, MintPairing,
       RevokePairing
  <2>3. CASE ReadClock(r)
    BY <1>a, <1>2, <2>3 DEF ReadClock, Redeeming, RequestState
  <2>4. CASE SessionAuthorized(r)
    <3>1. Goto(r, AfterCheck(req[r].op)) /\ AfterCheck(req[r].op) # "mint_session"
      BY <2>1, <2>4 DEF SessionAuthorized, AfterCheck
    <3> QED
      BY <1>a, <1>2, <3>1 DEF Goto, Redeeming, RequestState
  <2>5. CASE SessionRevalidated(r)
    BY <1>a, <1>2, <2>5 DEF SessionRevalidated, Goto, Redeeming, RequestState
  <2>6. CASE ConsumePairing(r)
    BY <1>a, <1>2, <2>1, <2>6 DEF ConsumePairing, Redeemable, Goto, RequestState
  <2> QED
    BY <2>2, <2>3, <2>4, <2>5, <2>6
<1> QED
  BY <1>1, <1>2

\* A request that arrives touches no pairing.
LEMMA ArrivePairing ==
    ASSUME TypeOK, PairingInv, NEW r \in Request, Arrive(r)
    PROVE  PairingInv'
<1>1. PICK start : Arriving(start) /\ Begin(r, start)
  BY ArrivalShape
<1>2. UNCHANGED <<pairings, consumed, revoked, sessionLog, pairingLog>>
  BY <1>1 DEF Begin, tables, logs, history
<1>3. \A q \in Request : Redeeming(q)' =>
          Redeeming(q) /\ req'[q].target = req[q].target
  BY <1>1 DEF Begin, Arriving, Redeeming, TypeOK
<1> QED
  BY <1>2, <1>3 DEF PairingInv, PairingsGone, PairingSingleUse,
     RevokedNeverRedeemed, SessionProvenance

\* A session minted for a redeem is the only one of its pairing.
LEMMA MintSessionPairing ==
    ASSUME TypeOK, RequestOK, PairingInv, NEW r \in Request, MintSession(r)
    PROVE  PairingInv'
<1> DEFINE parent == Parent(req[r])
           e == [expiry |-> req[r].now + SessionTTL, origin |-> req[r].origin,
                 parent |-> parent]
<1>a. req[r] \in RequestState /\ HandlerOK(r) /\ Handle(r)
  BY DEF TypeOK, RequestOK, Handle
<1>1. /\ sessionLog' = Append(sessionLog, e)
      /\ UNCHANGED <<pairings, consumed, revoked, pairingLog>>
      /\ req[r].pc = "mint_session"
  BY DEF MintSession, At, history
<1>2. e \in SessionRecord
  BY <1>a, LifetimeAssumption DEF MintSession, At, HandlerOK, SessionRecord,
     Parent, LoginKey, RequestState
<1>3. /\ DOMAIN sessionLog = 1..Len(sessionLog) /\ Len(sessionLog) \in Nat
      /\ DOMAIN sessionLog' = 1..(Len(sessionLog) + 1)
      /\ \A i \in DOMAIN sessionLog : sessionLog'[i] = sessionLog[i]
      /\ sessionLog'[Len(sessionLog) + 1] = e
  <2> HIDE DEF e
  <2> QED  BY <1>1, <1>2, LogTypes, AppendLog
<1>4. /\ e.parent = parent
      /\ e.origin = req[r].origin
  OBVIOUS
<1>5. parent # LoginKey =>
        /\ Redeeming(r) /\ parent = req[r].target
        /\ parent \in consumed
        /\ \A s \in DOMAIN sessionLog : sessionLog[s].parent # parent
        /\ \A q \in Request : Redeeming(q) /\ req[q].target = parent => q = r
        /\ parent \in DOMAIN pairingLog
        /\ pairingLog[parent].origin = req[r].origin
        /\ pairingLog[parent].issuer \in DOMAIN sessionLog
  BY <1>a, <1>1 DEF Parent, Redeeming, HandlerOK, PairingInv, PairingSingleUse,
     SessionProvenance, TypeOK
<1>6. \A q \in Request : Redeeming(q)' =>
          q # r /\ Redeeming(q) /\ req'[q].target = req[q].target
  <2>1. ~Redeeming(r)'
    BY DEF MintSession, Answer, Free, Redeeming, TypeOK
  <2>2. ~ConsumePairing(r)
    BY <1>1 DEF ConsumePairing
  <2> QED
    BY <1>a, <2>1, <2>2, RedeemingStep
<1> HIDE DEF e, parent
<1>7. PairingsGone'
  BY <1>1 DEF PairingInv, PairingsGone
<1>8. PairingSingleUse'
  <2>1. ASSUME NEW s \in DOMAIN sessionLog', NEW t \in DOMAIN sessionLog',
               sessionLog'[s].parent = sessionLog'[t].parent,
               sessionLog'[s].parent # LoginKey
        PROVE  s = t
    BY <1>3, <1>4, <1>5, <2>1 DEF PairingInv, PairingSingleUse
  <2>2. ASSUME NEW q \in Request, Redeeming(q)'
        PROVE  /\ \A o \in Request :
                    Redeeming(o)' /\ req'[o].target = req'[q].target => o = q
               /\ \A s \in DOMAIN sessionLog' :
                    sessionLog'[s].parent # req'[q].target
    <3>1. /\ q # r /\ Redeeming(q) /\ req'[q].target = req[q].target
          /\ req[q].target \in DOMAIN pairingLog
          /\ req[q].target # LoginKey
      BY <1>6, <2>2, LogTypes DEF RequestOK, HandlerOK, TypeOK, LoginKey
    <3> QED
      BY <1>3, <1>4, <1>5, <1>6, <3>1 DEF PairingInv, PairingSingleUse
  <2> QED
    BY <2>1, <2>2 DEF PairingSingleUse
<1>9. RevokedNeverRedeemed'
  BY <1>1, <1>3, <1>4, <1>5, <1>6 DEF PairingInv, RevokedNeverRedeemed
<1>10. SessionProvenance'
  BY <1>1, <1>3, <1>4, <1>5 DEF PairingInv, SessionProvenance
<1> QED
  BY <1>7, <1>8, <1>9, <1>10 DEF PairingInv

\* A pairing is consumed once, and is out of the table from then on.
LEMMA ConsumePairingPairing ==
    ASSUME TypeOK, RequestOK, PairingInv, NEW r \in Request, ConsumePairing(r)
    PROVE  PairingInv'
<1> DEFINE p == req[r].target
           R == Redeemable(req[r])
<1>1. /\ pairings' \subseteq pairings \ R
      /\ consumed' = consumed \union R
      /\ UNCHANGED <<revoked, sessionLog, pairingLog>>
      /\ R \subseteq pairings /\ R \subseteq {p}
  BY LiveSubset DEF ConsumePairing, PairingsAfterUse, Redeemable, logs
<1>2. p \in R =>
        /\ p \notin consumed
        /\ p \notin revoked
        /\ \A s \in DOMAIN sessionLog : sessionLog[s].parent # p
        /\ \A q \in Request : Redeeming(q) => req[q].target # p
  <2>1. LoginKey \notin DOMAIN pairingLog
    BY LogTypes DEF LoginKey
  <2> QED
    BY <1>1, <2>1 DEF PairingInv, PairingsGone, RevokedNeverRedeemed, TypeOK
<1>3. \A q \in Request : Redeeming(q)' =>
          /\ req'[q].target = req[q].target
          /\ \/ Redeeming(q)
             \/ q = r /\ p \in R
          /\ q = r => p \in R
  <2>1. Handle(r) /\ ~ReadClock(r)
    BY DEF Handle, ConsumePairing, ReadClock, Clocked
  <2> QED
    BY <2>1, RedeemingStep
<1> HIDE DEF p, R
<1>4. PairingsGone'
  BY <1>1, <1>2 DEF PairingInv, PairingsGone
<1>5. PairingSingleUse'
  <2>1. ASSUME NEW q \in Request, Redeeming(q)',
               NEW o \in Request, Redeeming(o)', req'[o].target = req'[q].target
        PROVE  o = q
    BY <1>2, <1>3, <2>1 DEF PairingInv, PairingSingleUse, p
  <2>2. ASSUME NEW q \in Request, Redeeming(q)', NEW s \in DOMAIN sessionLog
        PROVE  sessionLog[s].parent # req'[q].target
    BY <1>2, <1>3, <2>2 DEF PairingInv, PairingSingleUse, p
  <2> QED
    BY <1>1, <2>1, <2>2 DEF PairingInv, PairingSingleUse
<1>6. RevokedNeverRedeemed'
  BY <1>1, <1>2, <1>3 DEF PairingInv, RevokedNeverRedeemed, p
<1>7. SessionProvenance'
  BY <1>1 DEF PairingInv, SessionProvenance
<1> QED
  BY <1>4, <1>5, <1>6, <1>7 DEF PairingInv

\* A revoked pairing was in the table, so it was not consumed, and is out of
\* it.
LEMMA RevokePairingPairing ==
    ASSUME TypeOK, RequestOK, PairingInv, NEW r \in Request, RevokePairing(r)
    PROVE  PairingInv'
<1>1. /\ pairings' \subseteq pairings \ Revocable(req[r])
      /\ revoked' = revoked \union Revocable(req[r])
      /\ Revocable(req[r]) \subseteq pairings
      /\ UNCHANGED <<consumed, sessionLog, pairingLog>>
  BY LiveSubset DEF RevokePairing, Revocable, logs
<1>2. \A q \in Request : Redeeming(q)' =>
          Redeeming(q) /\ req'[q].target = req[q].target
  <2>1. Handle(r) /\ ~ConsumePairing(r)
    BY DEF Handle, RevokePairing, At, ConsumePairing
  <2> QED
    BY <2>1, RedeemingStep
<1> QED
  BY <1>1, <1>2 DEF PairingInv, PairingsGone, PairingSingleUse,
     RevokedNeverRedeemed, SessionProvenance

\* A new pairing is none of those that were consumed or revoked.
LEMMA MintPairingPairing ==
    ASSUME TypeOK, RequestOK, PairingInv, NEW r \in Request, MintPairing(r)
    PROVE  PairingInv'
<1> DEFINE e == [expiry |-> PairingExpiry(req[r].now),
                 origin |-> req[r].origin, issuer |-> req[r].cookie]
<1>a. req[r] \in RequestState /\ HandlerOK(r) /\ Handle(r)
  BY DEF TypeOK, RequestOK, Handle
<1>1. /\ pairings' \subseteq pairings \union {Len(pairingLog) + 1}
      /\ pairingLog' = Append(pairingLog, e)
      /\ req[r].pc = "mint_pairing"
      /\ UNCHANGED <<consumed, revoked, sessionLog>>
  BY LiveSubset DEF MintPairing, At, history
<1>2. e \in PairingRecord
  BY <1>a, LifetimeAssumption DEF MintPairing, At, HandlerOK, PairingRecord,
     PairingExpiry, RequestState
<1>3. /\ DOMAIN pairingLog = 1..Len(pairingLog) /\ Len(pairingLog) \in Nat
      /\ DOMAIN pairingLog' = 1..(Len(pairingLog) + 1)
      /\ \A i \in DOMAIN pairingLog : pairingLog'[i] = pairingLog[i]
      /\ pairingLog'[Len(pairingLog) + 1] = e
  <2> HIDE DEF e
  <2> QED  BY <1>1, <1>2, LogTypes, AppendLog
<1>4. /\ e.issuer \in DOMAIN sessionLog
      /\ e.origin = sessionLog[e.issuer].origin
  BY <1>a, <1>1 DEF HandlerOK
<1>5. \A q \in Request : Redeeming(q)' =>
          Redeeming(q) /\ req'[q].target = req[q].target
  <2>1. ~ConsumePairing(r)
    BY <1>1 DEF ConsumePairing
  <2> QED
    BY <1>a, <2>1, RedeemingStep
<1> HIDE DEF e
<1>6. PairingsGone'
  BY <1>1, <1>3 DEF PairingInv, PairingsGone, TypeOK
<1>7. PairingSingleUse'
  BY <1>1, <1>5 DEF PairingInv, PairingSingleUse
<1>8. RevokedNeverRedeemed'
  BY <1>1, <1>5 DEF PairingInv, RevokedNeverRedeemed
<1>9. SessionProvenance'
  BY <1>1, <1>3, <1>4 DEF PairingInv, SessionProvenance
<1> QED
  BY <1>6, <1>7, <1>8, <1>9 DEF PairingInv

\* Every step of a handler keeps what is said of pairings.
LEMMA HandlePairing ==
    ASSUME TypeOK, RequestOK, PairingInv, NEW r \in Request, Handle(r)
    PROVE  PairingInv'
<1>1. CASE MintSession(r) \/ ConsumePairing(r) \/ RevokePairing(r) \/ MintPairing(r)
  BY <1>1, MintSessionPairing, ConsumePairingPairing, RevokePairingPairing,
     MintPairingPairing
<1>2. CASE ~(MintSession(r) \/ ConsumePairing(r) \/ RevokePairing(r)
             \/ MintPairing(r))
  <2>1. UNCHANGED <<pairings, consumed, revoked, sessionLog, pairingLog>>
    BY <1>2 DEF Handle, ReadClock, EntropyFails, SessionUnauthorized,
       CsrfRejected, SessionAuthorized, SessionRevalidated, MintTicket,
       ConsumeTicket, RefuseTicket, tables, logs, history
  <2>2. \A q \in Request : Redeeming(q)' =>
            Redeeming(q) /\ req'[q].target = req[q].target
    BY <1>2, RedeemingStep
  <2> QED
    BY <2>1, <2>2 DEF PairingInv, PairingsGone, PairingSingleUse,
       RevokedNeverRedeemed, SessionProvenance
<1> QED
  BY <1>1, <1>2

-----------------------------------------------------------------------------
(* Tickets, and refusals *)

TicketsGone == \A b \in DOMAIN bridges : bridges[b].ticket \notin tickets

TicketInv ==
    /\ TicketsGone
    /\ TicketSingleUse
    /\ RefusedNotPending

\* A request that arrives touches no ticket.
LEMMA ArriveTicket ==
    ASSUME TypeOK, TicketInv, NEW r \in Request, Arrive(r)
    PROVE  TicketInv'
<1>1. PICK start : Arriving(start) /\ Begin(r, start)
  BY ArrivalShape
<1>2. UNCHANGED <<tickets, sessions, ticketLog, sessionLog, bridges,
                  refusedSessions, refusedTickets>>
  BY <1>1 DEF Begin, tables, logs, history
<1> QED
  BY <1>2 DEF TicketInv, TicketsGone, TicketSingleUse, RefusedNotPending

\* A session that is refused is not in the table that is left.
LEMMA HandleRefusedSessions ==
    ASSUME TypeOK, RequestOK, RefusedNotPending, NEW r \in Request, Handle(r)
    PROVE  refusedSessions' \intersect sessions' = {}
<1> USE DEF RefusedNotPending, tables, logs, history
<1>1. CASE SessionUnauthorized(r)
  BY <1>1 DEF SessionUnauthorized, SweepSessions, OwnOrigin, FoundSession, Live
<1>2. CASE MintSession(r)
  <2>1. /\ sessions' \subseteq sessions \union {Len(sessionLog')}
        /\ refusedSessions' = refusedSessions
        /\ \E e : sessionLog' = Append(sessionLog, e)
    BY <1>2, LiveSubset DEF MintSession
  <2>2. Len(sessionLog') \notin refusedSessions
    BY <2>1, LogTypes DEF TypeOK
  <2> QED
    BY <2>1, <2>2
<1>3. CASE ~(SessionUnauthorized(r) \/ MintSession(r))
  <2>1. sessions' \subseteq sessions /\ refusedSessions' = refusedSessions
    BY <1>3, LiveSubset DEF Handle, ReadClock, EntropyFails, CsrfRejected,
       SessionAuthorized, SessionRevalidated, SweepSessions, MintTicket,
       ConsumeTicket, RefuseTicket, MintPairing, RevokePairing, ConsumePairing
  <2> QED
    BY <2>1
<1> QED
  BY <1>1, <1>2, <1>3

\* Every step of a handler keeps what is said of tickets.
LEMMA HandleTicket ==
    ASSUME TypeOK, RequestOK, TicketInv, NEW r \in Request, Handle(r)
    PROVE  TicketInv'
<1> USE DEF tables, logs, history
<1>a. req[r] \in RequestState /\ HandlerOK(r)
  BY DEF TypeOK, RequestOK
<1>b. refusedSessions' \intersect sessions' = {}
  BY HandleRefusedSessions DEF TicketInv
<1>1. CASE MintTicket(r)
  <2> DEFINE e == [expiry |-> TicketExpiry(req[r].now),
                   instance |-> req[r].instance]
  <2>1. e \in TicketRecord
    BY <1>1, <1>a, LifetimeAssumption
       DEF MintTicket, At, HandlerOK, TicketRecord, TicketExpiry, RequestState
  <2>2. /\ ticketLog' = Append(ticketLog, e)
        /\ tickets' \subseteq tickets \union {Len(ticketLog')}
        /\ UNCHANGED <<bridges, refusedTickets>>
    BY <1>1, LiveSubset DEF MintTicket
  <2> HIDE DEF e
  <2>3. /\ Len(ticketLog') \notin DOMAIN ticketLog
        /\ DOMAIN ticketLog \subseteq DOMAIN ticketLog'
        /\ \A i \in DOMAIN ticketLog : ticketLog'[i] = ticketLog[i]
    BY <2>1, <2>2, LogTypes, AppendLog
  <2>4. TicketsGone' /\ TicketSingleUse'
    BY <2>2, <2>3 DEF TicketInv, TicketsGone, TicketSingleUse
  <2>5. refusedTickets' \intersect tickets' = {}
    BY <2>2, <2>3 DEF TicketInv, RefusedNotPending, TypeOK
  <2> QED
    BY <1>b, <2>4, <2>5 DEF TicketInv, RefusedNotPending
<1>2. CASE ConsumeTicket(r)
  <2> DEFINE e == [ticket |-> req[r].target, instance |-> req[r].instance]
             t == req[r].target
  <2>1. e \in BridgeRecord
    BY <1>2, <1>a DEF ConsumeTicket, At, HandlerOK, BridgeRecord, RequestState
  <2>2. /\ bridges' = Append(bridges, e)
        /\ tickets' \subseteq tickets \ {t}
        /\ t \in tickets
        /\ ticketLog[t].instance = req[r].instance
        /\ UNCHANGED <<ticketLog, refusedTickets>>
    BY <1>2, LiveSubset DEF ConsumeTicket, TicketsAfterUse, FoundTicket
  <2>3. e.ticket = t /\ e.instance = ticketLog[t].instance
    BY <2>2
  <2> HIDE DEF e, t
  <2>4. /\ DOMAIN bridges = 1..Len(bridges) /\ Len(bridges) \in Nat
        /\ DOMAIN bridges' = 1..(Len(bridges) + 1)
        /\ \A b \in DOMAIN bridges : bridges'[b] = bridges[b]
        /\ bridges'[Len(bridges) + 1] = e
    BY <2>1, <2>2, LogTypes, AppendLog
  <2>5. TicketsGone'
    BY <2>2, <2>3, <2>4 DEF TicketInv, TicketsGone
  <2>6. TicketSingleUse'
    <3>1. \A b \in DOMAIN bridges' :
             \/ b \in DOMAIN bridges /\ bridges'[b] = bridges[b]
             \/ b = Len(bridges) + 1 /\ bridges'[b].ticket = t
                                     /\ bridges'[b].instance = ticketLog[t].instance
      BY <2>3, <2>4
    <3>2. t \in DOMAIN ticketLog
      BY <2>2 DEF TypeOK
    <3>3. \A b \in DOMAIN bridges : bridges[b].ticket # t
      BY <2>2 DEF TicketInv, TicketsGone
    <3>4. \A b \in DOMAIN bridges' :
             /\ bridges'[b].ticket \in DOMAIN ticketLog
             /\ bridges'[b].instance = ticketLog[bridges'[b].ticket].instance
      BY <3>1, <3>2 DEF TicketInv, TicketSingleUse
    <3>5. \A a, b \in DOMAIN bridges' :
             bridges'[a].ticket = bridges'[b].ticket => a = b
      BY <3>1, <3>3 DEF TicketInv, TicketSingleUse
    <3> QED
      BY <2>2, <3>4, <3>5 DEF TicketSingleUse
  <2> QED
    BY <1>b, <2>2, <2>5, <2>6 DEF TicketInv, RefusedNotPending
<1>3. CASE RefuseTicket(r)
  <2>1. /\ tickets' \subseteq tickets
        /\ UNCHANGED <<ticketLog, bridges>>
    BY <1>3, LiveSubset DEF RefuseTicket, TicketsAfterRefusal
  <2>2. refusedTickets' \intersect tickets' = {}
    BY <1>3 DEF RefuseTicket, TicketsAfterRefusal, OwnInstance, FoundTicket,
       Live, TicketInv, RefusedNotPending
  <2> QED
    BY <1>b, <2>1, <2>2
       DEF TicketInv, TicketsGone, TicketSingleUse, RefusedNotPending
<1>4. CASE ~(MintTicket(r) \/ ConsumeTicket(r) \/ RefuseTicket(r))
  <2>1. UNCHANGED <<tickets, ticketLog, bridges, refusedTickets>>
    BY <1>4 DEF Handle, ReadClock, EntropyFails, SessionUnauthorized,
       CsrfRejected, SessionAuthorized, SessionRevalidated, MintSession,
       MintPairing, RevokePairing, ConsumePairing
  <2> QED
    BY <1>b, <2>1
       DEF TicketInv, TicketsGone, TicketSingleUse, RefusedNotPending
<1> QED
  BY <1>1, <1>2, <1>3, <1>4

-----------------------------------------------------------------------------
(* The cap on pairings *)

\* A set of numbers that is not empty has a least element.
LEMMA LeastElement ==
    ASSUME NEW T, T \subseteq Nat, T # {}
    PROVE  \E m \in T : \A n \in T : n >= m
<1> DEFINE R == {ss \in Nat \X Nat : ss[1] < ss[2]}
<1>1. OpToRel(<, Nat) = R
  BY Zenon DEF OpToRel
<1>2. IsWellFoundedOn(R, Nat)
  BY <1>1, NatLessThanWellFounded, Zenon
<1>3. PICK m \in T : \A n \in T : ~ (<<n, m>> \in R)
  <2> HIDE DEF R
  <2> QED
    BY <1>2, WFMin
<1>4. ASSUME NEW n \in T PROVE n >= m
  <2>1. n \in Nat /\ m \in Nat
    OBVIOUS
  <2>2. ~ (n < m)
    BY <1>3, <2>1
  <2> QED
    BY <2>1, <2>2
<1> QED
  BY <1>4

\* In a set in which every element has fewer than k above it in the set, there
\* are at most k elements.
LEMMA FewAbove ==
    ASSUME NEW T, T \subseteq Nat, IsFiniteSet(T), NEW k \in Nat,
           \A p \in T : Cardinality({n \in T : n > p}) < k
    PROVE  Cardinality(T) <= k
<1>1. CASE T = {}
  BY <1>1, FS_EmptySet
<1>2. CASE T # {}
  <2>1. PICK m \in T : \A n \in T : n >= m
    BY <1>2, LeastElement
  <2> DEFINE above == {n \in T : n > m}
  <2>2. T = above \union {m} /\ m \notin above
    <3>1. \A n \in T : n \in Nat /\ m \in Nat /\ n >= m
      BY <2>1
    <3>2. \A n \in T : n \in above \/ n = m
      BY <3>1
    <3>3. m \notin above
      BY <3>1
    <3> QED
      BY <3>2, <3>3
  <2>3. IsFiniteSet(above)
    BY FS_Subset
  <2>4. Cardinality(above) < k
    OBVIOUS
  <2> HIDE DEF above
  <2>5. Cardinality(T) = Cardinality(above) + 1
    BY <2>2, <2>3, FS_AddElement
  <2>6. Cardinality(above) \in Nat
    BY <2>3, FS_CardinalityType
  <2> QED
    BY <2>4, <2>5, <2>6
<1> QED
  BY <1>1, <1>2

CapInv == \A s \in Nat : Cardinality(Issued(pairings, s)) <= MaxPairings

\* Any part of the table of pairings is finite.
LEMMA TableFinite ==
    ASSUME TypeOK, NEW T, T \subseteq pairings
    PROVE  IsFiniteSet(T) /\ T \subseteq Nat /\ Cardinality(T) \in Nat
<1>1. DOMAIN pairingLog = 1..Len(pairingLog) /\ Len(pairingLog) \in Nat
  BY LogTypes, LenProperties
<1>2. IsFiniteSet(1..Len(pairingLog))
  BY <1>1, FS_Interval
<1>3. T \subseteq 1..Len(pairingLog)
  BY <1>1 DEF TypeOK
<1>4. IsFiniteSet(T)
  BY <1>2, <1>3, FS_Subset
<1>5. T \subseteq Nat
  BY <1>1, <1>3
<1> QED
  BY <1>4, <1>5, FS_CardinalityType

\* Removing entries cannot break the cap.
LEMMA FewerIssued ==
    ASSUME TypeOK, CapInv, pairings' \subseteq pairings,
           pairingLog' = pairingLog
    PROVE  CapInv'
<1> SUFFICES ASSUME NEW s \in Nat
             PROVE  Cardinality(Issued(pairings, s)') <= MaxPairings
  BY DEF CapInv
<1>1. Issued(pairings, s)' \subseteq Issued(pairings, s)
  BY DEF Issued
<1>2. Issued(pairings, s) \subseteq pairings
  BY DEF Issued
<1>3. /\ IsFiniteSet(Issued(pairings, s))
      /\ Cardinality(Issued(pairings, s)) \in Nat
  BY <1>2, TableFinite
<1>4. /\ Cardinality(Issued(pairings, s)') \in Nat
      /\ Cardinality(Issued(pairings, s)') <= Cardinality(Issued(pairings, s))
  BY <1>1, <1>3, FS_Subset, FS_CardinalityType
<1>5. Cardinality(Issued(pairings, s)) <= MaxPairings
  BY DEF CapInv
<1> QED
  BY <1>3, <1>4, <1>5, LifetimeAssumption

\* What eviction keeps leaves room for one more.
LEMMA KeptRoom ==
    ASSUME TypeOK, NEW table, table \subseteq pairings, NEW s
    PROVE  /\ IsFiniteSet(Issued(table, s) \ Evicted(table, s))
           /\ Cardinality(Issued(table, s) \ Evicted(table, s)) <= MaxPairings - 1
           /\ Cardinality(Issued(table, s) \ Evicted(table, s)) \in Nat
<1> DEFINE issued == Issued(table, s)
           kept == issued \ Evicted(table, s)
<1>1. issued \subseteq pairings /\ kept \subseteq issued
  BY DEF Issued
<1>2. IsFiniteSet(kept) /\ kept \subseteq Nat /\ Cardinality(kept) \in Nat
  BY <1>1, TableFinite
<1>3. ASSUME NEW p \in kept
      PROVE  Cardinality({n \in kept : n > p}) < MaxPairings - 1
  <2> DEFINE all == {n \in issued : n > p}
             some == {n \in kept : n > p}
  <2>1. ~ (Cardinality(all) >= MaxPairings - 1)
    BY DEF Evicted
  <2>2. some \subseteq all
    BY <1>1
  <2>3. IsFiniteSet(all) /\ Cardinality(all) \in Nat
    BY <1>1, TableFinite
  <2>4. Cardinality(some) <= Cardinality(all) /\ Cardinality(some) \in Nat
    BY <2>2, <2>3, FS_Subset, FS_CardinalityType
  <2> HIDE DEF all, some
  <2>5. Cardinality(some) < MaxPairings - 1
    BY <2>1, <2>3, <2>4, LifetimeAssumption
  <2> QED
    BY <2>5 DEF some
<1>4. MaxPairings - 1 \in Nat
  BY LifetimeAssumption
<1> HIDE DEF kept
<1>5. Cardinality(kept) <= MaxPairings - 1
  BY <1>2, <1>3, <1>4, FewAbove
<1> QED
  BY <1>2, <1>5 DEF kept

\* Whoever mints a pairing has the oldest of its own evicted for it.
LEMMA MintPairingCap ==
    ASSUME TypeOK, RequestOK, CapInv, NEW r \in Request, MintPairing(r)
    PROVE  CapInv'
<1> SUFFICES ASSUME NEW s \in Nat
             PROVE  Cardinality(Issued(pairings, s)') <= MaxPairings
  BY DEF CapInv
<1> DEFINE c == req[r].cookie
           id == Len(pairingLog) + 1
           live == Live(pairings, pairingLog, req[r].now)
           e == [expiry |-> PairingExpiry(req[r].now), origin |-> req[r].origin,
                 issuer |-> c]
           kept == Issued(live, c) \ Evicted(live, c)
<1>1. e \in PairingRecord
  <2>1. req[r] \in RequestState /\ HandlerOK(r)
    BY DEF TypeOK, RequestOK
  <2> QED
    BY <2>1, LifetimeAssumption
       DEF MintPairing, At, HandlerOK, PairingRecord, PairingExpiry, RequestState
<1>2. /\ pairings' = (live \ Evicted(live, c)) \union {id}
      /\ pairingLog' = Append(pairingLog, e)
  BY DEF MintPairing
<1>3. live \subseteq pairings
  BY LiveSubset
<1> HIDE DEF e, live
<1>4. /\ id \notin DOMAIN pairingLog
      /\ \A i \in DOMAIN pairingLog : pairingLog'[i] = pairingLog[i]
      /\ pairingLog'[id] = e
  BY <1>1, <1>2, LogTypes, AppendLog
<1>5. \A p \in pairings : pairingLog'[p] = pairingLog[p]
  BY <1>4 DEF TypeOK
<1>6. e.issuer = c
  BY DEF e
<1> HIDE DEF id, c
<1>7. CASE s # c
  <2>1. Issued(pairings, s)' \subseteq Issued(pairings, s)
    BY <1>2, <1>3, <1>4, <1>5, <1>6, <1>7 DEF Issued
  <2>2. Issued(pairings, s) \subseteq pairings
    BY DEF Issued
  <2>3. /\ IsFiniteSet(Issued(pairings, s))
        /\ Cardinality(Issued(pairings, s)) \in Nat
    BY <2>2, TableFinite
  <2>4. /\ Cardinality(Issued(pairings, s)') \in Nat
        /\ Cardinality(Issued(pairings, s)') <= Cardinality(Issued(pairings, s))
    BY <2>1, <2>3, FS_Subset, FS_CardinalityType
  <2>5. Cardinality(Issued(pairings, s)) <= MaxPairings
    BY DEF CapInv
  <2> QED
    BY <2>3, <2>4, <2>5, LifetimeAssumption
<1>8. CASE s = c
  <2>1. Issued(pairings, s)' \subseteq kept \union {id}
    BY <1>2, <1>3, <1>4, <1>5, <1>8 DEF Issued
  <2>2. /\ IsFiniteSet(kept)
        /\ Cardinality(kept) <= MaxPairings - 1
        /\ Cardinality(kept) \in Nat
    BY <1>3, KeptRoom
  <2> HIDE DEF kept
  <2>3. /\ IsFiniteSet(kept \union {id})
        /\ Cardinality(kept \union {id}) <= Cardinality(kept) + 1
        /\ Cardinality(kept \union {id}) \in Nat
    <3>1. /\ IsFiniteSet(kept \union {id})
          /\ \/ Cardinality(kept \union {id}) = Cardinality(kept)
             \/ Cardinality(kept \union {id}) = Cardinality(kept) + 1
      BY <2>2, FS_AddElement
    <3> QED
      BY <2>2, <3>1
  <2>4. /\ Cardinality(Issued(pairings, s)') <= Cardinality(kept \union {id})
        /\ Cardinality(Issued(pairings, s)') \in Nat
    BY <2>1, <2>3, FS_Subset, FS_CardinalityType
  <2> QED
    BY <2>2, <2>3, <2>4, LifetimeAssumption
<1> QED
  BY <1>7, <1>8

\* No other step adds a pairing.
LEMMA HandleCap ==
    ASSUME TypeOK, RequestOK, CapInv, NEW r \in Request, Handle(r)
    PROVE  CapInv'
<1>1. CASE MintPairing(r)
  BY <1>1, MintPairingCap
<1>2. CASE ~ MintPairing(r)
  <2>1. pairings' \subseteq pairings /\ pairingLog' = pairingLog
    BY <1>2, LiveSubset DEF Handle, ReadClock, EntropyFails,
       SessionUnauthorized, CsrfRejected, SessionAuthorized,
       SessionRevalidated, MintSession, MintTicket, ConsumeTicket,
       RefuseTicket, RevokePairing, ConsumePairing, PairingsAfterUse,
       tables, logs, history
  <2> QED
    BY <2>1, FewerIssued
<1> QED
  BY <1>1, <1>2

-----------------------------------------------------------------------------
(* The invariants *)

FullInv ==
    /\ TypeOK
    /\ RequestOK
    /\ PairingInv
    /\ TicketInv
    /\ CapInv

\* The invariant holds at first.
LEMMA InitFull == Init => FullInv
<1> SUFFICES ASSUME Init PROVE FullInv
  OBVIOUS
<1> USE DEF Init
<1>1. TypeOK /\ RequestOK
  BY InitInvariant
<1>2. PairingInv
  BY DEF PairingInv, PairingsGone, PairingSingleUse, RevokedNeverRedeemed,
     SessionProvenance, Redeeming, Free
<1>3. TicketInv
  BY DEF TicketInv, TicketsGone, TicketSingleUse, RefusedNotPending
<1>4. CapInv
  <2>1. \A s : Issued(pairings, s) = {}
    BY DEF Issued
  <2>2. Cardinality({}) = 0
    BY FS_EmptySet
  <2>3. 0 <= MaxPairings
    BY LifetimeAssumption
  <2>4. \A s : Cardinality(Issued(pairings, s)) <= MaxPairings
    BY <2>1, <2>2, <2>3
  <2> QED
    BY <2>4 DEF CapInv
<1> QED
  BY <1>1, <1>2, <1>3, <1>4 DEF FullInv

\* The invariant is kept by every step.
LEMMA NextFull == FullInv /\ [Next]_vars => FullInv'
<1> SUFFICES ASSUME FullInv, [Next]_vars PROVE FullInv'
  OBVIOUS
<1> USE DEF FullInv
<1>1. CASE UNCHANGED vars
  <2> USE <1>1 DEF vars, tables, logs, history
  <2>1. TypeOK'
    BY DEF TypeOK
  <2>2. RequestOK'
    BY DEF RequestOK, HandlerOK, Redeeming
  <2>3. PairingInv'
    BY DEF PairingInv, PairingsGone, PairingSingleUse, RevokedNeverRedeemed,
       SessionProvenance, Redeeming
  <2>4. TicketInv'
    BY DEF TicketInv, TicketsGone, TicketSingleUse, RefusedNotPending
  <2>5. CapInv'
    BY DEF CapInv, Issued
  <2> QED
    BY <2>1, <2>2, <2>3, <2>4, <2>5
<1>2. CASE Tick
  <2> USE <1>2 DEF Tick, tables, logs, history
  <2>1. TypeOK'
    BY DEF TypeOK
  <2>2. RequestOK'
    <3> SUFFICES ASSUME NEW r \in Request PROVE HandlerOK(r)'
      BY DEF RequestOK
    <3>1. req[r] \in RequestState /\ clock \in Nat /\ HandlerOK(r)
      BY DEF TypeOK, RequestOK
    <3>2. req[r].now \in Int
      BY <3>1 DEF RequestState, NoTime
    <3>3. req'[r].now <= clock'
      BY <3>1, <3>2 DEF HandlerOK
    <3> QED
      BY <3>1, <3>3 DEF HandlerOK, Redeeming
  <2>3. PairingInv'
    BY DEF PairingInv, PairingsGone, PairingSingleUse, RevokedNeverRedeemed,
       SessionProvenance, Redeeming
  <2>4. TicketInv'
    BY DEF TicketInv, TicketsGone, TicketSingleUse, RefusedNotPending
  <2>5. CapInv'
    BY DEF CapInv, Issued
  <2> QED
    BY <2>1, <2>2, <2>3, <2>4, <2>5
<1>3. ASSUME NEW r \in Request, Arrive(r) PROVE FullInv'
  <2>1. pairings' = pairings /\ pairingLog' = pairingLog
    BY <1>3, ArrivalShape DEF Begin, tables, logs
  <2> QED
    BY <1>3, <2>1, ArriveType, ArrivePairing, ArriveTicket, FewerIssued
<1>4. ASSUME NEW r \in Request, Handle(r) PROVE FullInv'
  BY <1>4, HandleType, HandleRequestOK, HandlePairing, HandleTicket, HandleCap
<1> QED
  BY <1>1, <1>2, <1>3, <1>4 DEF Next, Quiet

\* The invariant holds throughout.
LEMMA Invariance == Spec => []FullInv
BY InitFull, NextFull, PTL DEF Spec

\* The types are invariant: every entry of a table is in its log, every
\* handler is at a step of its program with the values that step reads.
THEOREM TypeCorrect == Spec => []TypeOK
<1>1. FullInv => TypeOK
  BY DEF FullInv
<1> QED
  BY <1>1, Invariance, PTL

\* consume_ticket: however many upgrades present a ticket at once, one gets
\* the stream, at the instance the ticket was minted for.
THEOREM TicketsOpenOneStream == Spec => []TicketSingleUse
<1>1. FullInv => TicketSingleUse
  BY DEF FullInv, TicketInv
<1> QED
  BY <1>1, Invariance, PTL

\* consume_pairing_at and mint_session: a pairing gives at most one session.
THEOREM PairingsGiveOneSession == Spec => []PairingSingleUse
<1>1. FullInv => PairingSingleUse
  BY DEF FullInv, PairingInv
<1> QED
  BY <1>1, Invariance, PTL

\* revoke_pairing: what it reported revoked never gives a session.
THEOREM RevocationHolds == Spec => []RevokedNeverRedeemed
<1>1. FullInv => RevokedNeverRedeemed
  BY DEF FullInv, PairingInv
<1> QED
  BY <1>1, Invariance, PTL

\* mint_pairing and pairing_redeem: a session has the origin of the session
\* that paired it, back to a login.
THEOREM SessionsComeFromLogins == Spec => []SessionProvenance
<1>1. FullInv => SessionProvenance
  BY DEF FullInv, PairingInv
<1> QED
  BY <1>1, Invariance, PTL

\* mint_pairing: no session exceeds MAX_PAIRINGS_PER_SESSION.
THEOREM PairingsAreCapped == Spec => []PairingCap
<1>1. FullInv => PairingCap
  BY LogTypes, LenProperties DEF FullInv, CapInv, PairingCap
<1> QED
  BY <1>1, Invariance, PTL

-----------------------------------------------------------------------------
(* What a step may never do *)

\* The shape of the steps that touch the ticket table.
LEMMA TicketStep ==
    ASSUME FullInv, NEW r \in Request, Handle(r)
    PROVE  \/ MintTicket(r) \/ ConsumeTicket(r) \/ RefuseTicket(r)
           \/ UNCHANGED <<tickets, ticketLog, bridges>>
BY DEF Handle, ReadClock, EntropyFails, SessionUnauthorized, CsrfRejected,
   SessionAuthorized, SessionRevalidated, MintSession, MintPairing,
   RevokePairing, ConsumePairing, tables, logs, history

\* A stream is opened by the ticket last added to the history.
LEMMA LastBridge ==
    ASSUME FullInv, NEW r \in Request, ConsumeTicket(r)
    PROVE  /\ bridges'[Len(bridges')].ticket = req[r].target
           /\ bridges' # bridges
           /\ {bridges'[b].ticket : b \in DOMAIN bridges'} =
                 {bridges[b].ticket : b \in DOMAIN bridges}
                    \union {req[r].target}
<1> DEFINE e == [ticket |-> req[r].target, instance |-> req[r].instance]
<1>1. e \in BridgeRecord
  <2>1. req[r] \in RequestState /\ HandlerOK(r)
    BY DEF FullInv, TypeOK, RequestOK
  <2> QED
    BY <2>1 DEF ConsumeTicket, At, HandlerOK, BridgeRecord, RequestState
<1>2. bridges' = Append(bridges, e) /\ e.ticket = req[r].target
  BY DEF ConsumeTicket
<1> HIDE DEF e
<1>3. /\ Len(bridges) \in Nat
      /\ Len(bridges') = Len(bridges) + 1
      /\ DOMAIN bridges = 1..Len(bridges)
      /\ DOMAIN bridges' = 1..(Len(bridges) + 1)
      /\ \A i \in DOMAIN bridges : bridges'[i] = bridges[i]
      /\ bridges'[Len(bridges) + 1] = e
  BY <1>1, <1>2, LogTypes, AppendLog DEF FullInv
<1>4. DOMAIN bridges' = DOMAIN bridges \union {Len(bridges) + 1}
  BY <1>3
<1>5. bridges' # bridges
  BY <1>3
<1>6. bridges'[Len(bridges')].ticket = req[r].target
  BY <1>2, <1>3
<1> DEFINE old == {bridges[b].ticket : b \in DOMAIN bridges}
           new == {bridges'[b].ticket : b \in DOMAIN bridges'}
<1>7. new \subseteq old \union {req[r].target}
  BY <1>2, <1>3, <1>4
<1>8. old \subseteq new
  <2> SUFFICES ASSUME NEW b \in DOMAIN bridges
               PROVE  bridges[b].ticket \in new
    OBVIOUS
  <2>1. b \in DOMAIN bridges' /\ bridges'[b].ticket = bridges[b].ticket
    BY <1>3, <1>4
  <2> QED
    BY <2>1
<1>9. req[r].target \in new
  <2>1. /\ Len(bridges) + 1 \in DOMAIN bridges'
        /\ bridges'[Len(bridges) + 1].ticket = req[r].target
    BY <1>2, <1>3, <1>4
  <2> QED
    BY <2>1
<1> QED
  BY <1>5, <1>6, <1>7, <1>8, <1>9

\* No step brings back what was refused.
LEMMA RefusalHolds == FullInv /\ [Next]_vars => [RefusedStaysRefused]_vars
<1> SUFFICES ASSUME FullInv, Next PROVE RefusedStaysRefused \/ UNCHANGED vars
  OBVIOUS
<1>1. RefusedNotPending
  BY DEF FullInv, TicketInv
<1>2. ASSUME NEW r \in Request, Admits(r)
      PROVE  req[r].cookie \notin refusedSessions
  <2>1. FoundSession(req[r]) # {}
    BY <1>2 DEF Admits, SessionAuthorized, CsrfRejected, SessionRevalidated
  <2>2. req[r].cookie \in sessions
    BY <2>1 DEF FoundSession, Live
  <2> QED
    BY <1>1, <2>2 DEF RefusedNotPending
<1>3. ASSUME NEW r \in Request, Handle(r), bridges' # bridges
      PROVE  bridges'[Len(bridges')].ticket \notin refusedTickets
  <2>1. ConsumeTicket(r)
    BY <1>3, TicketStep DEF MintTicket, RefuseTicket, history
  <2>2. req[r].target \in tickets
    BY <2>1 DEF ConsumeTicket, FoundTicket, Live
  <2> QED
    BY <1>1, <2>1, <2>2, LastBridge DEF RefusedNotPending
<1>4. ASSUME NEW r \in Request, Arrive(r) PROVE bridges' = bridges
  BY <1>4, ArrivalShape DEF Begin, history, FullInv
<1>5. CASE Tick \/ Quiet
  BY <1>2, <1>5 DEF Tick, Quiet, vars, history, RefusedStaysRefused
<1>6. CASE \E r \in Request : Arrive(r) \/ Handle(r)
  BY <1>2, <1>3, <1>4, <1>6 DEF RefusedStaysRefused
<1> QED
  BY <1>5, <1>6 DEF Next

\* valid_session and consume_ticket: what was answered 401 stays refused,
\* whatever handlers read the clock before that answer.
THEOREM RefusalsAreFinal == Spec => RefusalIsFinal
BY Invariance, RefusalHolds, PTL DEF Spec, RefusalIsFinal

-----------------------------------------------------------------------------
(* Tickets implement OneUse *)

\* At first there is no ticket, as in the abstract specification.
LEMMA TicketsInit == Init => OneTicket!Init
<1> SUFFICES ASSUME Init PROVE OneTicket!Init
  OBVIOUS
<1>1. Len(ticketLog) = 0
  BY EmptySeq DEF Init
<1>2. {bridges[b].ticket : b \in DOMAIN bridges} = {}
  BY DEF Init
<1> QED
  BY <1>1, <1>2 DEF Init, OneTicket!Init

\* Every step is one of the abstract ticket, or leaves it alone.
LEMMA TicketsNext == FullInv /\ [Next]_vars => [OneTicket!Next]_(OneTicket!vars)
<1> SUFFICES ASSUME FullInv, [Next]_vars
             PROVE  OneTicket!Next \/ UNCHANGED OneTicket!vars
  OBVIOUS
<1>1. CASE UNCHANGED <<tickets, ticketLog, bridges>>
  BY <1>1 DEF OneTicket!vars
<1>2. ASSUME NEW r \in Request, MintTicket(r) PROVE OneTicket!Mint
  <2> DEFINE e == [expiry |-> TicketExpiry(req[r].now),
                   instance |-> req[r].instance]
  <2>1. e \in TicketRecord
    <3>1. req[r] \in RequestState /\ HandlerOK(r)
      BY DEF FullInv, TypeOK, RequestOK
    <3> QED
      BY <1>2, <3>1, LifetimeAssumption
         DEF MintTicket, At, HandlerOK, TicketRecord, TicketExpiry, RequestState
  <2>2. /\ ticketLog' = Append(ticketLog, e)
        /\ tickets' \subseteq tickets \union {Len(ticketLog')}
        /\ Len(ticketLog') \in tickets'
        /\ bridges' = bridges
    BY <1>2, LiveSubset DEF MintTicket, history
  <2> HIDE DEF e
  <2>3. Len(ticketLog') = Len(ticketLog) + 1
    BY <2>1, <2>2, LogTypes, AppendLog DEF FullInv
  <2> QED
    BY <2>2, <2>3 DEF OneTicket!Mint
<1>3. ASSUME NEW r \in Request, ConsumeTicket(r)
      PROVE  \E i \in tickets : OneTicket!Spend(i)
  <2>1. /\ req[r].target \in tickets
        /\ tickets' \subseteq tickets \ {req[r].target}
        /\ ticketLog' = ticketLog
    BY <1>3, LiveSubset DEF ConsumeTicket, FoundTicket, TicketsAfterUse, logs
  <2>2. {bridges'[b].ticket : b \in DOMAIN bridges'} =
            {bridges[b].ticket : b \in DOMAIN bridges} \union {req[r].target}
    BY <1>3, LastBridge
  <2>3. PICK i \in tickets : i = req[r].target
    BY <2>1
  <2>4. OneTicket!Spend(i)
    BY <2>1, <2>2, <2>3 DEF OneTicket!Spend
  <2> QED
    BY <2>4
<1>4. ASSUME NEW r \in Request, RefuseTicket(r) PROVE OneTicket!Withdraw
  BY <1>4, LiveSubset
     DEF RefuseTicket, TicketsAfterRefusal, logs, OneTicket!Withdraw
<1>5. ASSUME NEW r \in Request, Handle(r)
      PROVE  OneTicket!Next \/ UNCHANGED OneTicket!vars
  <2>1. CASE MintTicket(r)
    BY <1>5, <1>2, <2>1 DEF OneTicket!Next
  <2>2. CASE ConsumeTicket(r)
    BY <1>3, <2>2 DEF OneTicket!Next
  <2>3. CASE RefuseTicket(r)
    BY <1>4, <2>3 DEF OneTicket!Next
  <2>4. CASE UNCHANGED <<tickets, ticketLog, bridges>>
    BY <1>1, <2>4
  <2> QED
    BY <1>5, <2>1, <2>2, <2>3, <2>4, TicketStep
<1>6. CASE \E r \in Request : Arrive(r)
  BY <1>1, <1>6, ArrivalShape DEF Begin, tables, logs, history, FullInv
<1>7. CASE Tick \/ Quiet \/ UNCHANGED vars
  BY <1>1, <1>7 DEF Tick, Quiet, vars, tables, logs, history
<1> QED
  BY <1>5, <1>6, <1>7 DEF Next

\* mint_ticket and consume_ticket: tickets are one-use credentials.
THEOREM TicketsImplementOneUse == Spec => TicketsAreOneUse
BY TicketsInit, TicketsNext, Invariance, PTL
   DEF Spec, TicketsAreOneUse, OneTicket!Spec

-----------------------------------------------------------------------------
(* Pairings implement OneUse *)

\* The steps that touch a pairing are these three.
LEMMA PairingStep ==
    ASSUME FullInv, NEW r \in Request, Handle(r)
    PROVE  \/ MintPairing(r) \/ RevokePairing(r) \/ ConsumePairing(r)
           \/ UNCHANGED <<pairings, pairingLog, consumed>>
BY DEF Handle, ReadClock, EntropyFails, SessionUnauthorized, CsrfRejected,
   SessionAuthorized, SessionRevalidated, MintSession, MintTicket,
   ConsumeTicket, RefuseTicket, tables, logs, history

\* The entry a step mints, and the log it leaves.
LEMMA MintedPairing ==
    ASSUME FullInv, NEW r \in Request, MintPairing(r)
    PROVE  /\ Len(pairingLog) \in Nat
           /\ Len(pairingLog') = Len(pairingLog) + 1
           /\ Len(pairingLog) + 1 \notin DOMAIN pairingLog
           /\ \A i \in DOMAIN pairingLog : pairingLog'[i] = pairingLog[i]
           /\ pairingLog'[Len(pairingLog')].issuer = req[r].cookie
<1> DEFINE e == [expiry |-> PairingExpiry(req[r].now), origin |-> req[r].origin,
                 issuer |-> req[r].cookie]
<1>1. e \in PairingRecord
  <2>1. req[r] \in RequestState /\ HandlerOK(r)
    BY DEF FullInv, TypeOK, RequestOK
  <2> QED
    BY <2>1, LifetimeAssumption
       DEF MintPairing, At, HandlerOK, PairingRecord, PairingExpiry, RequestState
<1>2. pairingLog' = Append(pairingLog, e) /\ e.issuer = req[r].cookie
  BY DEF MintPairing
<1> HIDE DEF e
<1> QED
  BY <1>1, <1>2, LogTypes, AppendLog DEF FullInv

\* At first there is no pairing, as in the abstract specification.
LEMMA PairingsInit == Init => OnePairing!Init
<1> SUFFICES ASSUME Init PROVE OnePairing!Init
  OBVIOUS
<1>1. Len(pairingLog) = 0
  BY EmptySeq DEF Init
<1> QED
  BY <1>1 DEF Init, OnePairing!Init

\* Every step is one of the abstract pairing, or leaves it alone.
LEMMA PairingsNext == FullInv /\ [Next]_vars => [OnePairing!Next]_(OnePairing!vars)
<1> SUFFICES ASSUME FullInv, [Next]_vars
             PROVE  OnePairing!Next \/ UNCHANGED OnePairing!vars
  OBVIOUS
<1>1. CASE UNCHANGED <<pairings, pairingLog, consumed>>
  BY <1>1 DEF OnePairing!vars
<1>2. ASSUME NEW r \in Request, MintPairing(r) PROVE OnePairing!Mint
  <2>1. /\ pairings' \subseteq pairings \union {Len(pairingLog) + 1}
        /\ Len(pairingLog) + 1 \in pairings'
        /\ consumed' = consumed
    BY <1>2, LiveSubset DEF MintPairing, history
  <2>2. Len(pairingLog') = Len(pairingLog) + 1
    BY <1>2, MintedPairing
  <2> QED
    BY <2>1, <2>2 DEF OnePairing!Mint
<1>3. ASSUME NEW r \in Request, RevokePairing(r) PROVE OnePairing!Withdraw
  BY <1>3, LiveSubset DEF RevokePairing, logs, OnePairing!Withdraw
<1>4. ASSUME NEW r \in Request, ConsumePairing(r)
      PROVE  OnePairing!Withdraw \/ \E i \in pairings : OnePairing!Spend(i)
  <2>1. /\ pairings' \subseteq pairings \ Redeemable(req[r])
        /\ pairingLog' = pairingLog
        /\ consumed' = consumed \union Redeemable(req[r])
    BY <1>4, LiveSubset DEF ConsumePairing, PairingsAfterUse, logs
  <2>2. CASE Redeemable(req[r]) = {}
    BY <2>1, <2>2 DEF OnePairing!Withdraw
  <2>3. CASE Redeemable(req[r]) # {}
    <3>1. PICK i \in pairings : Redeemable(req[r]) = {i}
      BY <2>3, LiveSubset DEF Redeemable
    <3>2. OnePairing!Spend(i)
      BY <2>1, <3>1 DEF OnePairing!Spend
    <3> QED
      BY <3>2
  <2> QED
    BY <2>2, <2>3
<1>5. ASSUME NEW r \in Request, Handle(r)
      PROVE  OnePairing!Next \/ UNCHANGED OnePairing!vars
  <2>1. CASE MintPairing(r)
    BY <1>2, <2>1 DEF OnePairing!Next
  <2>2. CASE RevokePairing(r)
    BY <1>3, <2>2 DEF OnePairing!Next
  <2>3. CASE ConsumePairing(r)
    BY <1>4, <2>3 DEF OnePairing!Next
  <2>4. CASE UNCHANGED <<pairings, pairingLog, consumed>>
    BY <1>1, <2>4
  <2> QED
    BY <1>5, <2>1, <2>2, <2>3, <2>4, PairingStep
<1>6. CASE \E r \in Request : Arrive(r)
  BY <1>1, <1>6, ArrivalShape DEF Begin, tables, logs, history, FullInv
<1>7. CASE Tick \/ Quiet \/ UNCHANGED vars
  BY <1>1, <1>7 DEF Tick, Quiet, vars, tables, logs, history
<1> QED
  BY <1>5, <1>6, <1>7 DEF Next

\* mint_pairing, revoke_pairing and consume_pairing_at: pairings are one-use
\* credentials.
THEOREM PairingsImplementOneUse == Spec => PairingsAreOneUse
BY PairingsInit, PairingsNext, Invariance, PTL
   DEF Spec, PairingsAreOneUse, OnePairing!Spec

-----------------------------------------------------------------------------
(* Nothing leaves its table early *)

\* The clock that a sweep uses is never ahead, so it keeps what is unexpired.
LEMMA SweepKeeps ==
    ASSUME NEW table, NEW log, NEW id \in table, NEW now \in Int,
           clock \in Nat, now <= clock, log[id].expiry \in Nat,
           log[id].expiry > clock
    PROVE  id \in Live(table, log, now)
BY DEF Live

\* The clock a handler holds is not ahead of the real one.
LEMMA HandlerClock ==
    ASSUME FullInv, NEW r \in Request
    PROVE  req[r].now \in Int /\ req[r].now <= clock /\ clock \in Nat
BY DEF FullInv, TypeOK, RequestOK, HandlerOK, RequestState, NoTime

\* What the tables name has an expiry.
LEMMA EntryTypes ==
    ASSUME FullInv
    PROVE  /\ \A t \in tickets : ticketLog[t].expiry \in Nat
           /\ \A s \in sessions : sessionLog[s].expiry \in Nat
           /\ \A p \in pairings : /\ pairingLog[p].expiry \in Nat
                                  /\ pairingLog[p].issuer \in Nat
<1>1. TypeOK
  BY DEF FullInv
<1>2. /\ \A t \in DOMAIN ticketLog : ticketLog[t] \in TicketRecord
      /\ \A s \in DOMAIN sessionLog : sessionLog[s] \in SessionRecord
      /\ \A p \in DOMAIN pairingLog : pairingLog[p] \in PairingRecord
  BY <1>1, LogTypes, ElementOfSeq
<1>3. /\ tickets \subseteq DOMAIN ticketLog
      /\ sessions \subseteq DOMAIN sessionLog
      /\ pairings \subseteq DOMAIN pairingLog
  BY <1>1 DEF TypeOK
<1> QED
  BY <1>2, <1>3 DEF TicketRecord, SessionRecord, PairingRecord

\* A ticket that is not expired leaves its table by opening a stream.
LEMMA TicketsKept ==
    ASSUME FullInv, NEW r \in Request, Handle(r),
           NEW t \in tickets \ tickets', ticketLog[t].expiry > clock
    PROVE  OpensStream(t)
<1>1. t \in Live(tickets, ticketLog, req[r].now)
  BY HandlerClock, EntryTypes, SweepKeeps
<1>2. ConsumeTicket(r) /\ t = req[r].target
  BY <1>1, TicketStep DEF MintTicket, ConsumeTicket, RefuseTicket,
     TicketsAfterUse, TicketsAfterRefusal
<1> QED
  BY <1>2, LastBridge DEF OpensStream

\* A session leaves its table when it is expired.
LEMMA SessionsKept ==
    ASSUME FullInv, NEW r \in Request, Handle(r),
           NEW s \in sessions \ sessions'
    PROVE  sessionLog[s].expiry <= clock
<1>1. sessions' = sessions \/ Live(sessions, sessionLog, req[r].now) \subseteq sessions'
  BY DEF Handle, ReadClock, EntropyFails, SessionUnauthorized, CsrfRejected,
     SessionAuthorized, SessionRevalidated, SweepSessions, MintSession,
     MintTicket, ConsumeTicket, RefuseTicket, MintPairing, RevokePairing,
     ConsumePairing, tables
<1>2. s \notin Live(sessions, sessionLog, req[r].now)
  BY <1>1
<1>3. sessionLog[s].expiry \in Nat
  BY EntryTypes
<1>4. ~ (sessionLog[s].expiry > clock)
  BY <1>2, <1>3, HandlerClock, SweepKeeps
<1> QED
  BY <1>3, <1>4, HandlerClock

\* A live pairing that minting evicts is the oldest one of a full issuer.
LEMMA EvictedIsOldest ==
    ASSUME FullInv, NEW table, table \subseteq pairings, NEW c \in Nat,
           NEW p \in Evicted(table, c)
    PROVE  /\ pairingLog[p].issuer = c
           /\ \A n \in Issued(pairings, c) : n >= p
           /\ Cardinality(Issued(pairings, c)) = MaxPairings
<1> DEFINE all == Issued(pairings, c)
           above == {n \in Issued(table, c) : n > p}
<1>1. /\ p \in all
      /\ above \subseteq all
      /\ all \subseteq pairings
      /\ above \subseteq pairings
      /\ pairingLog[p].issuer = c
  BY DEF Evicted, Issued
<1>2. Cardinality(above) >= MaxPairings - 1
  BY DEF Evicted
<1>3. TypeOK
  BY DEF FullInv
<1>4. /\ IsFiniteSet(all) /\ all \subseteq Nat /\ Cardinality(all) \in Nat
      /\ IsFiniteSet(above) /\ Cardinality(above) \in Nat
  BY <1>1, <1>3, TableFinite
<1>5. p \notin above
  BY <1>1, <1>4
<1>6. \A n \in above \union {p} : n >= p
  BY <1>1, <1>4
<1>7. Cardinality(all) <= MaxPairings
  BY DEF FullInv, CapInv
<1> HIDE DEF all, above
<1>8. /\ IsFiniteSet(above \union {p})
      /\ Cardinality(above \union {p}) = Cardinality(above) + 1
  BY <1>4, <1>5, FS_AddElement
<1>9. above \union {p} \subseteq all
  BY <1>1
<1>10. Cardinality(above \union {p}) <= Cardinality(all)
  BY <1>4, <1>9, FS_Subset
<1>11. /\ Cardinality(all) = MaxPairings
       /\ Cardinality(all) = Cardinality(above \union {p})
  BY <1>2, <1>4, <1>7, <1>8, <1>10, LifetimeAssumption
<1>12. all = above \union {p}
  BY <1>4, <1>9, <1>11, FS_Subset
<1> QED
  BY <1>1, <1>6, <1>11, <1>12 DEF all

\* A pairing that is not expired leaves its table by being revoked, consumed
\* or evicted by its issuer.
LEMMA PairingsKept ==
    ASSUME FullInv, NEW r \in Request, Handle(r),
           NEW p \in pairings \ pairings', pairingLog[p].expiry > clock
    PROVE  p \in revoked' \/ p \in consumed' \/ EvictedByIssuer(p)
<1>1. /\ p \in Live(pairings, pairingLog, req[r].now)
      /\ p \in Live(pairings, pairingLog, clock)
  BY HandlerClock, EntryTypes, SweepKeeps
<1>2. CASE RevokePairing(r)
  BY <1>1, <1>2 DEF RevokePairing
<1>3. CASE ConsumePairing(r)
  BY <1>1, <1>3 DEF ConsumePairing, PairingsAfterUse
<1>4. CASE MintPairing(r)
  <2> DEFINE live == Live(pairings, pairingLog, req[r].now)
             c == req[r].cookie
  <2>1. p \in Evicted(live, c)
    BY <1>1, <1>4 DEF MintPairing
  <2>2. c \in Nat
    BY DEF FullInv, TypeOK, RequestState
  <2>3. live \subseteq pairings
    BY LiveSubset
  <2> HIDE DEF live
  <2>4. /\ pairingLog[p].issuer = c
        /\ \A n \in Issued(pairings, c) : n >= p
        /\ Cardinality(Issued(pairings, c)) = MaxPairings
    BY <2>1, <2>2, <2>3, EvictedIsOldest
  <2>5. /\ Len(pairingLog') > Len(pairingLog)
        /\ pairingLog'[Len(pairingLog')].issuer = c
    BY <1>4, MintedPairing
  <2> QED
    BY <2>4, <2>5 DEF EvictedByIssuer
<1> QED
  BY <1>2, <1>3, <1>4, PairingStep

\* No step drops anything else.
LEMMA DropHolds == FullInv /\ [Next]_vars => [KeptUntilUsed]_vars
<1> SUFFICES ASSUME FullInv, Next PROVE KeptUntilUsed
  OBVIOUS
<1>1. CASE tables' = tables
  BY <1>1 DEF tables, KeptUntilUsed
<1>2. ASSUME NEW r \in Request, Handle(r) PROVE KeptUntilUsed
  BY <1>2, TicketsKept, SessionsKept, PairingsKept DEF KeptUntilUsed
<1>3. ASSUME NEW r \in Request, Arrive(r) PROVE tables' = tables
  BY <1>3, ArrivalShape DEF Begin, tables, FullInv
<1>4. CASE Tick \/ Quiet
  BY <1>1, <1>4 DEF Tick, Quiet, vars, tables
<1> QED
  BY <1>1, <1>2, <1>3, <1>4 DEF Next

\* The sweeps (retain) and the eviction of mint_pairing: an unexpired
\* credential leaves its table only by its own use.
THEOREM NothingDropsEarly == Spec => NoEarlyDrop
BY Invariance, DropHolds, PTL DEF Spec, NoEarlyDrop
=============================================================================
