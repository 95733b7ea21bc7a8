------------------------------ MODULE MCConsole ------------------------------
(***************************************************************************)
(* One complete configuration and the files that differ from it in one or  *)
(* two keys, most of which the loader must refuse.                         *)
(***************************************************************************)
EXTENDS Console, TLC

File(content) == [kind |-> "regular", mode |-> "0600", holds |-> "key", content |-> content]
Certificates(content) == [File(content) EXCEPT !.mode = "0644", !.holds = "certificates"]

Origin(scheme, host, authority) ==
    [scheme |-> scheme, extra |-> {}, canonical |-> TRUE, host |-> host, authority |-> authority]

Base ==
    [listen |-> Absent, tls_cert |-> Absent, tls_key |-> Absent,
     access_key_file |-> File("console key"),
     history |-> [retention_days |-> Absent, enabled |-> Absent],
     has_page |-> TRUE, roots |-> TRUE,
     instance |->
        <<[name |-> "a", base_url |-> Origin("http", "loopback", "engine-a"),
           ca_file |-> Absent, api_key_file |-> File("key a")],
          [name |-> "b", base_url |-> Origin("https", "name", "engine-b"),
           ca_file |-> Certificates("ca b"), api_key_file |-> File("key b")]>>,
     agent |->
        <<[name |-> "g", base_url |-> Origin("http", "name", "agent-g"),
           instance |-> "a", kind |-> "gx10"],
          [name |-> "m", base_url |-> Origin("https", "name", "agent-m"),
           instance |-> "a", kind |-> "mac"]>>]

BadKeys(f) ==
    {[f EXCEPT !.kind = k] : k \in {"link", "directory", "missing"}}
        \cup {[f EXCEPT !.mode = "0640"]}
        \cup {[f EXCEPT !.holds = h] : h \in {"nothing", "spaces", "too much", "control bytes"}}

BadUrls(u) ==
    {[u EXCEPT !.scheme = "ftp"], [u EXCEPT !.canonical = FALSE]}
        \cup {[u EXCEPT !.extra = {x}] : x \in {"userinfo", "path", "query", "fragment"}}
        \cup {[u EXCEPT !.scheme = "http", !.host = h] : h \in {"localhost", "name", "lan"}}

Tls(c, cert, key, listen) == [c EXCEPT !.tls_cert = cert, !.tls_key = key, !.listen = listen]

MCRawConfigs ==
    LET Instance(i, field, x) == [Base EXCEPT !.instance[i] = [@ EXCEPT ![field] = x]]
        Agent(i, field, x) == [Base EXCEPT !.agent[i] = [@ EXCEPT ![field] = x]]
    IN  {Base, [Base EXCEPT !.instance = <<>>], [Base EXCEPT !.agent = <<>>, !.access_key_file.mode = "0400"],
         [Base EXCEPT !.has_page = FALSE], [Base EXCEPT !.roots = FALSE],
         [Base EXCEPT !.history.retention_days = 0],
         [Base EXCEPT !.listen = "lan"], [Base EXCEPT !.listen = "nonsense"],
         Tls(Base, Certificates("own"), File("own"), "lan"),
         Tls(Base, Certificates("own"), Absent, Absent),
         Tls(Base, Certificates("own"), [File("own") EXCEPT !.mode = "0400"], Absent),
         Instance(2, "name", "a"), Instance(1, "name", "a/b"),
         Instance(2, "ca_file", Absent), Instance(1, "ca_file", Certificates("ca a")),
         Instance(2, "ca_file", File("no certificates")),
         Agent(1, "kind", "mac"), Agent(1, "kind", "other"), Agent(2, "name", "g"),
         Agent(1, "instance", "c"), Agent(2, "instance", "b"),
         [Base EXCEPT !.instance = <<Base.instance[2], Base.instance[1]>>]}
        \cup {[Base EXCEPT !.access_key_file = f] : f \in BadKeys(File("console key"))}
        \cup {Instance(1, "api_key_file", f) : f \in BadKeys(File("key a"))}
        \cup {Instance(1, "base_url", u) : u \in BadUrls(Origin("http", "loopback", "engine-a"))}
        \cup {Agent(1, "base_url", u) : u \in {v \in BadUrls(Origin("http", "name", "agent-g")) :
                                             v.scheme = "ftp" \/ v.extra # {}}}

MCHeaderNames ==
    {"host", "authorization", "cookie", "x-csrf-token", "accept-encoding", "accept",
     "connection", "te", "x-hop", "set-cookie"}

Plain ==
    [route |-> "snapshot", method |-> "GET", prefix |-> Absent, authority |-> Absent,
     auth |-> "session",
     headers |-> [host |-> <<"console">>, cookie |-> <<"session">>, accept |-> <<"all">>]]

\* A request with a session that asks for some of its headers to be
\* taken off, among them the one the key will be in.
OwnHeaders ==
    [Plain EXCEPT !.prefix = "b",
        !.headers = [Plain.headers EXCEPT !.cookie = <<"session", "other">>] @@
            [n \in {"authorization", "x-csrf-token", "te", "x-hop"} |-> <<"browser">>] @@
            [n \in {"connection"} |-> <<"authorization", "x-hop">>]]

MCRequests ==
    {Plain, OwnHeaders,
     [Plain EXCEPT !.auth = "nothing"],
     [Plain EXCEPT !.method = "POST"],
     [Plain EXCEPT !.prefix = "c"],
     [Plain EXCEPT !.prefix = "b", !.route = "telemetry"],
     [Plain EXCEPT !.route = "chat", !.method = "POST", !.auth = "session without csrf"],
     [Plain EXCEPT !.route = "nodes", !.method = "POST", !.authority = "console"],
     [Plain EXCEPT !.authority = "other"]}

MCResponses ==
    {[n \in {"accept", "set-cookie", "x-hop"} |-> <<"engine">>] @@
     [n \in {"connection"} |-> <<"x-hop">>]}
==============================================================================
