------------------------------- MODULE Console -------------------------------
(***************************************************************************)
(* The console process: it loads one configuration, opens what it needs,   *)
(* serves requests and streams from it, and shuts down when interrupted.   *)
(***************************************************************************)
EXTENDS Proxy, WsBridge

CONSTANTS
    RawConfigs,     \* configuration files, see Config
    Overrides,      \* values of --listen, Absent when it is not given
    MaxOpen         \* Bound: connections served at once

ASSUME ConsoleAssumption ==
    /\ MaxOpen \in Nat
    /\ \A r \in RawConfigs : r.instance \in Seq({r.instance[i] : i \in DOMAIN r.instance})

VARIABLES
    raw, override,  \* the file and the command line of this run
    stage,          \* how far the process is
    code            \* what it exited with; Absent also if the signal killed it

process == <<raw, override, config, stage, code>>
vars == <<process, exchange, wsVars>>

Init ==
    /\ raw \in RawConfigs /\ override \in Overrides
    /\ config = Absent /\ stage = "arguments" /\ code = Absent
    /\ ProxyInit /\ BridgeInit

\* The process is gone, and its connections with it.
Exit(c) ==
    /\ stage' = "exited" /\ code' = c
    /\ exchange' = NoExchange
    /\ Dropped
    /\ UNCHANGED <<raw, override, config>>

\* parse_arguments: an unknown flag, or one without its value.
BadArguments == stage = "arguments" /\ Exit(2)

LoadConfig ==
    /\ stage = "arguments"
    /\ Accepted(raw, override)
    /\ config' = Parsed(raw, override) /\ stage' = "opening"
    /\ UNCHANGED <<raw, override, code, exchange, wsVars>>

RefuseConfig == stage = "arguments" /\ ~ Accepted(raw, override) /\ Exit(1)

\* Runtime, history store, TLS material, listener, in this order; each may fail.
OpeningFails == stage = "opening" /\ Exit(1)

Listen ==
    /\ stage = "opening"
    /\ stage' = "serving"
    /\ UNCHANGED <<raw, override, config, code, exchange, wsVars>>

\* The default action of the signal until the listener has its handler.  A
\* listener that shuts down takes no new connections, and has the old ones
\* end after the answer they are waiting for.
Interrupt ==
    \/ /\ stage = "serving"
       /\ stage' = "stopping"
       /\ UNCHANGED <<raw, override, config, code, exchange, wsVars>>
    \/ stage \in {"arguments", "opening"} /\ Exit(Absent)

\* The listener waits for answers, not for upgraded sockets.
Drained == stage = "stopping" /\ exchange.phase \in {"idle", "answered"} /\ Exit(0)

\* Mutation: streams that are open are waited for.
GraceWaits == stage = "stopping" /\ exchange.phase # "stream" /\ Exit(0)

\* SHUTDOWN_GRACE, on either kind of listener.
GraceElapses == stage = "stopping" /\ Exit(0)

Serve ==
    /\ stage = "serving"
    /\ Cardinality({c \in {"request", "stream"} :
                      IF c = "stream" THEN bridge.phase # "none"
                      ELSE exchange.phase # "idle"}) < MaxOpen
    /\ \/ \E r \in Requests : Arrive(r) /\ UNCHANGED wsVars
       \/ \E name \in InstanceNames(config) : Upgrade(name) /\ UNCHANGED exchange
    /\ UNCHANGED process

Running == stage \in {"serving", "stopping"}

ExchangeStep == Running /\ ProxyStep /\ UNCHANGED <<process, wsVars>>
TimesOut == Running /\ ExchangeTimesOut /\ UNCHANGED <<process, wsVars>>
BridgeWorks == Running /\ BridgeStep /\ UNCHANGED <<process, exchange>>

OtherSides ==
    /\ Running
    /\ \/ SideStep \/ TicketGranted \/ SocketOpens \/ ConnectFails \/ Forgotten
       \/ \E s \in Sides : ReadFails(s)
    /\ UNCHANGED <<process, exchange>>

Next ==
    \/ BadArguments \/ LoadConfig \/ RefuseConfig \/ OpeningFails \/ Listen
    \/ Interrupt \/ Drained \/ GraceElapses
    \/ Serve \/ ExchangeStep \/ BridgeWorks \/ OtherSides

\* Timers fire and the bridge's task runs; engines and browsers may do nothing
\* for ever, and nobody has to interrupt the console.
Fairness ==
    /\ WF_vars(TimesOut)
    /\ WF_vars(BridgeWorks)
    /\ WF_vars(GraceElapses)

Spec == Init /\ [][Next]_vars /\ Fairness

-----------------------------------------------------------------------------
(* Properties *)

\* The entry of the file that a path or a stream names: the only one of that
\* name, or the first for the paths without one.
Entry(name) ==
    IF Given(name)
    THEN raw.instance[CHOOSE i \in DOMAIN raw.instance : raw.instance[i].name = name]
    ELSE raw.instance[1]

\* The client verifies the engine as the file's entry says; what has no TLS
\* does not leave this host.
SentWhereConfigured(o, e) ==
    /\ o.to = e.base_url.authority
    /\ o.https = (e.base_url.scheme = "https")
    /\ IF o.https THEN o.trust = (IF Given(e.ca_file) THEN e.ca_file.content ELSE "platform")
       ELSE e.base_url.host = "loopback"

\* An engine gets its own key, over a connection its own entry vouches for,
\* and nothing the browser authenticates itself with; the browser gets no
\* cookie of an engine; the console's own key needs TLS beyond this host.  This relates the file to what is sent, through the loader, the map of
\* clients, the lookup by name and the header rewriting.
CredentialsStayApart ==
    /\ Given(exchange.sent) =>
          LET e == Entry(exchange.asked.prefix)
              h == exchange.sent.headers
          IN  /\ SentWhereConfigured(exchange.sent, e)
              /\ {"host", "authorization"} \subseteq DOMAIN h
              /\ h["host"] = <<e.base_url.authority>>
              /\ h["authorization"] = <<e.api_key_file.content>>
              /\ DOMAIN h \cap ({"cookie", "x-csrf-token"} \cup HOP_BY_HOP
                                \cup Named(exchange.asked.headers)) \subseteq {"host", "authorization"}
    /\ Given(exchange.answer) /\ exchange.phase # "body" =>
          "set-cookie" \notin DOMAIN exchange.answer.headers
    /\ Given(bridge.ticketRequest) =>
          /\ SentWhereConfigured(bridge.ticketRequest, Entry(bridge.instance))
          /\ bridge.ticketRequest.bearer = Entry(bridge.instance).api_key_file.content
    /\ Given(bridge.connection) =>
          /\ SentWhereConfigured(bridge.connection, Entry(bridge.instance))
          /\ ~ Given(bridge.connection.bearer)
    /\ Running => config.listen = "loopback" \/ config.tls

\* A request is answered whatever its engine does, or its browser has left.
RequestsAnswered == Awaiting ~> ~ Awaiting

\* An interrupted console exits, with streams open or not, and with success.
ShutdownEnds == stage = "stopping" ~> (stage = "exited" /\ code = 0)
=============================================================================
