------------------------------- MODULE Config -------------------------------
(***************************************************************************)
(* What the console accepts as a configuration, and what it makes of it.   *)
(* Every check of the loader refuses the whole file, so the file is        *)
(* accepted when all of them hold; their order only picks the message.     *)
(*                                                                         *)
(* A file on disk is what its checks look at: what kind of file it is, its *)
(* mode, what it holds, and an identity for its content.  A base_url is    *)
(* its scheme, the parts an origin must not have, the kind of host it      *)
(* names, and its authority.                                               *)
(***************************************************************************)
EXTENDS Naturals, Sequences

CONSTANTS
    Absent,         \* a key the TOML file, or the command line, does not have
    WellNamed       \* the names that match [A-Za-z0-9_-]{1,64}

ASSUME ConfigAssumption == Absent \notin WellNamed

VARIABLE config     \* the configuration in force, Absent until one is loaded

Given(x) == x # Absent

-----------------------------------------------------------------------------
(* Files *)

\* Opened with O_NOFOLLOW and inspected through the open descriptor.
PrivateFile(f, exact) ==
    /\ f.kind = "regular"
    /\ f.mode \in IF exact THEN {"0600"} ELSE {"0600", "0400"}

\* The path may be a link to a regular file; the size is bounded.
RegularFile(f) == f.kind \in {"regular", "link"} /\ f.holds # "too much"

KeyFile(f) == PrivateFile(f, FALSE) /\ f.holds \notin {"nothing", "spaces", "too much"}

-----------------------------------------------------------------------------
(* The checks *)

\* The command line overrides the file, which overrides the default.
ListenAddress(raw, override) ==
    IF Given(override) THEN override
    ELSE IF Given(raw.listen) THEN raw.listen ELSE "loopback"

\* resolve_console_tls: a listener beyond loopback needs both files.
ConsoleTlsAccepted(raw, listen) ==
    \/ ~ Given(raw.tls_cert) /\ ~ Given(raw.tls_key) /\ listen = "loopback"
    \/ /\ Given(raw.tls_cert) /\ Given(raw.tls_key)
       /\ RegularFile(raw.tls_cert) /\ raw.tls_cert.holds # "nothing"
       /\ PrivateFile(raw.tls_key, TRUE)
       /\ raw.tls_key.holds \notin {"nothing", "too much"}

Https(url) == url.scheme = "https"

\* An origin and nothing else.  A key travels in the clear only to an address
\* that is spelled as a loopback IP; "localhost" is not.
BaseUrlAccepted(url, engine) ==
    /\ url.scheme \in {"http", "https"}
    /\ url.extra = {}
    /\ url.canonical
    /\ engine /\ ~ Https(url) => url.host = "loopback"

\* Certificates of its own, or the platform's if the host has any.
TrustAccepted(ca, url, roots) ==
    Https(url) => IF Given(ca)
                  THEN RegularFile(ca) /\ ca.holds = "certificates"
                  ELSE roots

InstanceAccepted(r, roots) ==
    /\ r.name \in WellNamed
    /\ BaseUrlAccepted(r.base_url, TRUE)
    /\ Given(r.ca_file) => Https(r.base_url)
    /\ TrustAccepted(r.ca_file, r.base_url, roots)
    /\ KeyFile(r.api_key_file)
    /\ r.api_key_file.holds # "control bytes"

AgentAccepted(r, instances) ==
    /\ r.name \in WellNamed
    /\ BaseUrlAccepted(r.base_url, FALSE)
    /\ r.kind \in {"gx10", "mac"}
    /\ \E i \in DOMAIN instances : instances[i].name = r.instance

\* Two agents that cannot both be configured.
Collide(a, b) ==
    \/ a.name = b.name
    \/ a.instance = b.instance /\ a.kind = b.kind

HistoryAccepted(h) == Given(h.retention_days) => h.retention_days # 0

Accepted(raw, override) ==
    LET listen == ListenAddress(raw, override)
    IN  /\ listen \in {"loopback", "lan"}
        /\ ConsoleTlsAccepted(raw, listen)
        /\ KeyFile(raw.access_key_file)
        /\ HistoryAccepted(raw.history)
        /\ raw.has_page
        /\ raw.instance # <<>>
        /\ \A i \in DOMAIN raw.instance : InstanceAccepted(raw.instance[i], raw.roots)
        /\ \A i, j \in DOMAIN raw.instance :
              raw.instance[i].name = raw.instance[j].name => i = j
        /\ \A i \in DOMAIN raw.agent : AgentAccepted(raw.agent[i], raw.instance)
        /\ \A i, j \in DOMAIN raw.agent : Collide(raw.agent[i], raw.agent[j]) => i = j
        /\ (\E i \in DOMAIN raw.agent : Https(raw.agent[i].base_url)) => raw.roots

-----------------------------------------------------------------------------
(* The result *)

\* The roots a client of this origin verifies it against.
TrustOf(ca, url) ==
    IF ~ Https(url) THEN "nobody" ELSE IF Given(ca) THEN ca.content ELSE "platform"

ParsedInstance(r) ==
    [name |-> r.name, authority |-> r.base_url.authority, https |-> Https(r.base_url),
     bearer |-> r.api_key_file.content, trust |-> TrustOf(r.ca_file, r.base_url)]

Parsed(raw, override) ==
    [tls |-> Given(raw.tls_cert),
     listen |-> ListenAddress(raw, override),
     access_key |-> raw.access_key_file.content,
     history |-> Given(raw.history.enabled) => raw.history.enabled,
     instances |-> [i \in DOMAIN raw.instance |-> ParsedInstance(raw.instance[i])],
     agents |-> raw.agent]

-----------------------------------------------------------------------------
(* The state the handlers share: the configuration and one HTTP client for *)
(* each instance, with the roots of that instance.                         *)

InstanceNames(c) == {c.instances[i].name : i \in DOMAIN c.instances}

\* The first of the list that has the name.
Lookup(c, name) ==
    c.instances[CHOOSE i \in DOMAIN c.instances :
                   /\ c.instances[i].name = name
                   /\ \A j \in 1..(i - 1) : c.instances[j].name # name]

DefaultInstance(c) == c.instances[1]

\* Clients are collected into a map by name: a later one replaces an earlier.
Clients(c) ==
    [name \in InstanceNames(c) |->
        c.instances[CHOOSE i \in DOMAIN c.instances :
                       /\ c.instances[i].name = name
                       /\ \A j \in (i + 1)..Len(c.instances) :
                             c.instances[j].name # name].trust]
=============================================================================
