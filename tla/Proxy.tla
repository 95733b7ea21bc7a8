-------------------------------- MODULE Proxy --------------------------------
(***************************************************************************)
(* The router and the reverse proxy: a request of the browser goes to the  *)
(* engine its path names, or to the default one, with the engine's key in  *)
(* place of everything the browser authenticated itself with.              *)
(*                                                                         *)
(* Exchanges share nothing but the configuration, so one slot stands for   *)
(* all of them.  A header map is a function from the names it has to the    *)
(* values of each, for Connection the tokens it lists.  What a request was  *)
(* authenticated with is decided in Credentials and only an outcome here.   *)
(***************************************************************************)
EXTENDS Config

CONSTANTS
    HeaderNames,
    Requests,       \* what browsers ask, see IsRequest
    Responses       \* the header maps engines answer with

VARIABLE exchange   \* the request in hand, what was sent for it, the answer

GET == "GET"
POST == "POST"

\* The routes that are forwarded: the methods they take and how they answer.
Routes ==
    [snapshot  |-> [methods |-> {GET},       streaming |-> FALSE],
     metrics   |-> [methods |-> {GET},       streaming |-> FALSE],
     nodes     |-> [methods |-> {GET, POST}, streaming |-> FALSE],
     telemetry |-> [methods |-> {GET},       streaming |-> TRUE],
     progress  |-> [methods |-> {GET},       streaming |-> TRUE],
     chat      |-> [methods |-> {POST},      streaming |-> TRUE]]

IsHeaderMap(h) == DOMAIN h \subseteq HeaderNames /\ \A n \in DOMAIN h : h[n] \in Seq(STRING)

IsRequest(r) ==
    /\ r.route \in DOMAIN Routes /\ r.method \in {GET, POST}
    /\ r.prefix \in STRING \cup {Absent}      \* the instance of /i/{instance}/...
    /\ r.authority \in STRING \cup {Absent}   \* of an HTTP/2 request URI
    /\ r.auth \in {"session", "session without csrf", "nothing"}
    /\ IsHeaderMap(r.headers)

ASSUME ProxyAssumption ==
    (\A r \in Requests : IsRequest(r)) /\ (\A h \in Responses : IsHeaderMap(h))

\* HTTP/2 has an authority and may have one Host that is the same.
AuthorityAgrees(r) ==
    Given(r.authority) /\ "host" \in DOMAIN r.headers => r.headers["host"] = <<r.authority>>

\* Authentication comes before the instance is looked up, so that nobody can
\* learn the names from the difference; only a POST needs the csrf token.
Rejection(r) ==
    IF r.auth = "nothing" THEN 401
    ELSE IF r.auth = "session without csrf" /\ r.method = POST THEN 403
    ELSE 0

-----------------------------------------------------------------------------
(* Headers *)

HOP_BY_HOP ==
    {"connection", "keep-alive", "proxy-authenticate", "proxy-authorization",
     "proxy-connection", "te", "trailer", "transfer-encoding", "upgrade"}

Without(h, names) == [n \in DOMAIN h \ names |-> h[n]]

\* The headers that Connection lists are of this hop too.
Named(h) ==
    IF "connection" \in DOMAIN h THEN {h["connection"][i] : i \in DOMAIN h["connection"]} ELSE {}

strip_hop_by_hop(h) == Without(h, Named(h) \cup HOP_BY_HOP)

sanitize_request_headers(h) ==
    Without(strip_hop_by_hop(h),
            {"authorization", "cookie", "x-csrf-token", "host", "accept-encoding"})

sanitize_response_headers(h) == Without(strip_hop_by_hop(h), {"set-cookie"})

-----------------------------------------------------------------------------
(* Exchanges *)

NoExchange == [phase |-> "idle", asked |-> Absent, sent |-> Absent, answer |-> Absent]

\* The head or the body of the engine's answer is awaited.
Awaiting == exchange.phase \in {"head", "body"}

Streaming == Routes[exchange.asked.route].streaming

\* The instance a path names; a root path is the default instance's.
Target(prefix) == IF Given(prefix) THEN Lookup(config, prefix) ELSE DefaultInstance(config)

\* Two headers are put in, in place of what was there.
WithKey(instance, h) ==
    [n \in DOMAIN h \cup {"host", "authorization"} |->
        CASE n = "host"          -> <<instance.authority>>
          [] n = "authorization" -> <<instance.bearer>>
          [] OTHER               -> h[n]]

\* Mutation: the key is put in before the headers are cleaned up.
CleanedLast(instance, r) ==
    [to |-> instance.authority, https |-> instance.https,
     trust |-> Clients(config)[instance.name],
     headers |-> strip_hop_by_hop(
        WithKey(instance, Without(r.headers, {"cookie", "x-csrf-token", "accept-encoding"})))]

\* What the engine gets, and the roots of the client that sends it.
Outbound(instance, r) ==
    [to |-> instance.authority, https |-> instance.https,
     trust |-> Clients(config)[instance.name],
     headers |-> WithKey(instance, sanitize_request_headers(r.headers))]

Answered(status, headers) ==
    [exchange EXCEPT !.phase = "answered", !.answer = [status |-> status, headers |-> headers]]

NoHeaders == << >>

\* normalize_request_authority, which is around the routes and their methods;
\* proxied and instance_proxied: refused here, or forwarded.
Arrive(r) ==
    /\ exchange.phase = "idle"
    /\ LET refused(status) ==
               exchange' = [NoExchange EXCEPT
                   !.phase = "answered", !.asked = r,
                   !.answer = [status |-> status, headers |-> NoHeaders]]
       IN  \/ ~ AuthorityAgrees(r) /\ refused(400)
           \/ /\ AuthorityAgrees(r)
              /\ \/ r.method \notin Routes[r.route].methods /\ refused(405)
                 \/ /\ r.method \in Routes[r.route].methods
                    /\ Rejection(r) # 0 /\ refused(Rejection(r))
                 \/ /\ r.method \in Routes[r.route].methods /\ Rejection(r) = 0
                    /\ Given(r.prefix) /\ r.prefix \notin InstanceNames(config)
                    /\ refused(404)
                 \/ /\ r.method \in Routes[r.route].methods /\ Rejection(r) = 0
                    /\ Given(r.prefix) => r.prefix \in InstanceNames(config)
                    /\ exchange' = [phase |-> "head", asked |-> r,
                                    sent |-> Outbound(Target(r.prefix), r),
                                    answer |-> Absent]

\* The engine's head.  A streaming answer is passed on at once, its body as it
\* comes; a buffered one waits for the whole body, under the same timeout.
HeadArrives(h) ==
    /\ exchange.phase = "head"
    /\ exchange' =
          IF Streaming
          THEN [Answered(200, sanitize_response_headers(h)) EXCEPT !.phase = "stream"]
          ELSE [exchange EXCEPT !.phase = "body",
                                !.answer = [status |-> 0, headers |-> h]]

BodyArrives ==
    /\ exchange.phase = "body"
    /\ exchange' = Answered(200, sanitize_response_headers(exchange.answer.headers))

\* The engine cannot be reached, or fails in the middle.
ExchangeFails == Awaiting /\ exchange' = Answered(502, NoHeaders)

\* Mutation: only the head is waited for under a timeout.
HeadTimesOut == exchange.phase = "head" /\ exchange' = Answered(502, NoHeaders)

\* HEAD_TIMEOUT until the head of a streaming answer, BUFFERED_TIMEOUT until
\* the end of a buffered one.
ExchangeTimesOut == Awaiting /\ exchange' = Answered(502, NoHeaders)

\* A stream has no timeout: it ends when the engine or the browser ends it.
StreamEnds == exchange.phase = "stream" /\ exchange' = [exchange EXCEPT !.phase = "answered"]

\* It has its answer, or it does not wait for one; the handler is dropped then.
BrowserLeaves == exchange.phase # "idle" /\ exchange' = NoExchange

ProxyInit == exchange = NoExchange

ProxyStep ==
    \/ \E h \in Responses : HeadArrives(h)
    \/ BodyArrives \/ ExchangeFails \/ ExchangeTimesOut \/ StreamEnds \/ BrowserLeaves
=============================================================================
