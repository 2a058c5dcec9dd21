------------------------------- MODULE HttpFetch -------------------------------
(***************************************************************************)
(* What one fetch of the HTTP transport does: its hops, the connections    *)
(* they use and the blame for a failure (HttpTransport._fetch, the         *)
(* httpcore connector and the classification of errors in                  *)
(* src/camouflare/http_transport.py).  Fetches follow each other and share *)
(* the kept-alive connections of the connector.  httpcore and the resolver *)
(* are nondeterministic: a name resolves differently every time.           *)
(***************************************************************************)
EXTENDS Naturals, FiniteSets

CONSTANTS Names,         \* host names
          Public,        \* addresses that are globally routable
          Private,       \* addresses that are not
          MaxRedirects,
          MaxKept        \* connections kept alive at the same time

Addresses == Public \cup Private

\* A URL is known by its scheme and its host, a name or the literal of an address.
Urls == [https : BOOLEAN, host : Names \cup Addresses]

\* What a caller asks for; block_private_targets comes from the settings.
Requests == [url : Urls, https_only : BOOLEAN, block : BOOLEAN, proxied : BOOLEAN]

VARIABLES
    pc,         \* where the fetch is
    request,    \* HttpFetch
    url,        \* current_url
    redirects,  \* redirects followed
    bound,      \* the hop carries the origin-bound headers
    targets,    \* addresses that connect_tcp still has to try
    address,    \* the address the hop is connected to, "proxy" through a proxy
    loose,      \* a socket the hop opened that no pool owns yet
    tunnel,     \* proxy_tunnel_open of the last hop
    pools,      \* kept-alive connections of the shared pools and of the fetch's own
    outcome     \* how the last fetch ended

hopVars == <<bound, targets, address, loose, tunnel>>
vars == <<pc, request, url, redirects, hopVars, pools, outcome>>

Steps == {"connect", "proxy", "handshake", "ready", "sent"}

Connections ==
    [pool : {"plain", "public", "own"}, https : BOOLEAN, host : Names \cup Addresses,
     to : Addresses \cup {"proxy"}]

TypeOK ==
    /\ pc \in Steps \cup {"idle", "hop"}
    /\ request \in Requests
    /\ url \in Urls
    /\ redirects \in 0 .. MaxRedirects
    /\ bound \in BOOLEAN
    /\ targets \subseteq Addresses
    /\ address \in Addresses \cup {"proxy", "none"}
    /\ loose \in BOOLEAN
    /\ tunnel \in BOOLEAN
    /\ pools \subseteq Connections
    /\ outcome \in {"none", "ok", "invalid", "proxy", "target"}

Init ==
    /\ pc = "idle"
    /\ request \in Requests
    /\ url = request.url
    /\ redirects = 0
    /\ bound = FALSE
    /\ targets = {}
    /\ address = "none"
    /\ loose = FALSE
    /\ tunnel = FALSE
    /\ pools = {}
    /\ outcome = "none"

-----------------------------------------------------------------------------
SameOrigin(u, v) == u.https = v.https /\ u.host = v.host

\* A proxy resolves and connects to the target itself.
BlocksFor(q) == q.block /\ ~q.proxied
Blocks == BlocksFor(request)

\* A bug for HopsAsAsked to find: blocked and free requests share their connections.
PoolForAll == IF request.proxied THEN "own" ELSE "plain"

\* The pool of HttpcoreConnector.session.
Pool == IF request.proxied THEN "own" ELSE IF Blocks THEN "public" ELSE "plain"

\* _check_target: before anything is sent and for every redirect.
Allowed(q, u) ==
    /\ q.https_only => u.https
    /\ BlocksFor(q) => u.host \notin Private

\* The locals of _fetch are gone.
Forget ==
    /\ url' = request.url
    /\ redirects' = 0
    /\ bound' = FALSE
    /\ targets' = {}
    /\ address' = "none"
    /\ tunnel' = FALSE

\* The fetch is over; the pool of a proxied fetch is closed with it.
End(how) ==
    /\ pc' = "idle"
    /\ outcome' = how
    /\ pools' = {c \in pools : c.pool # "own"}
    /\ loose' = FALSE
    /\ Forget
    /\ UNCHANGED request

\* classify_transport_error: through a proxy, what fails before the proxy has connected
\* the target is the proxy's.
Blame == IF request.proxied /\ ~tunnel THEN "proxy" ELSE "target"

-----------------------------------------------------------------------------
\* A request whose target is not allowed fails before any hop.
Start ==
    /\ pc = "idle"
    /\ request' \in Requests
    /\ url' = request'.url
    /\ redirects' = 0
    /\ bound' = FALSE
    /\ targets' = {}
    /\ address' = "none"
    /\ tunnel' = FALSE
    /\ outcome' = "none"
    /\ pc' = IF Allowed(request', url') THEN "hop" ELSE "idle"
    /\ UNCHANGED <<loose, pools>>

\* A bug for BlameFollowsHop to find: the hops of a fetch share their progress.
OpenHopShared(step, to, tried) ==
    /\ pc' = step
    /\ bound' = SameOrigin(url, request.url)
    /\ tunnel' = tunnel
    /\ address' = to
    /\ targets' = tried
    /\ UNCHANGED <<request, url, redirects, loose, pools, outcome>>

\* A hop begins: its headers, a new HopProgress and the way it takes to the target.
OpenHop(step, to, tried) ==
    /\ pc' = step
    /\ bound' = SameOrigin(url, request.url)
    /\ tunnel' = FALSE
    /\ address' = to
    /\ targets' = tried
    /\ UNCHANGED <<request, url, redirects, loose, pools, outcome>>

ReusesConnection ==
    /\ pc = "hop"
    /\ \E c \in pools :
         /\ c.pool = Pool /\ c.https = url.https /\ c.host = url.host
         /\ OpenHop("ready", c.to, {})

\* The addresses a host may resolve to: a literal is its own address.
Resolutions == IF url.host \in Names THEN SUBSET Addresses ELSE {{url.host}}

\* PublicAddressBackend: all addresses found must be public.
Vetted(found) == found \subseteq Public

Resolves ==
    /\ pc = "hop" /\ ~request.proxied
    /\ \E found \in Resolutions :
         IF found = {} THEN End("target")
         ELSE IF Blocks /\ ~Vetted(found) THEN End("invalid")
         ELSE OpenHop("connect", "none", found)

ConnectsProxy ==
    /\ pc = "hop" /\ request.proxied
    /\ OpenHop("proxy", "none", {})

\* The request's deadline has passed between two hops: no new hop is recorded.
HopTooLate == pc = "hop" /\ End(Blame)

Advance(p, to, open, opened) ==
    /\ pc' = p
    /\ address' = to
    /\ loose' = open
    /\ tunnel' = opened
    /\ targets' = {}
    /\ UNCHANGED <<request, url, redirects, bound, pools, outcome>>

\* The addresses are tried in turn, the same ones that were vetted.
Connects ==
    /\ pc = "connect"
    /\ \E a \in targets : Advance("handshake", a, TRUE, tunnel)

ConnectFails ==
    /\ pc = "connect"
    /\ \E a \in targets :
         IF targets = {a} THEN End(Blame)
         ELSE /\ targets' = targets \ {a}
              /\ UNCHANGED <<pc, request, url, redirects, bound, address, loose, tunnel, pools,
                             outcome>>

ProxyConnected == pc = "proxy" /\ Advance("handshake", "proxy", TRUE, tunnel)

\* TLS, SOCKS or CONNECT.  A SOCKS handshake, and the TLS that follows a CONNECT, show
\* that the proxy has reached the target; plain HTTP through an HTTP proxy has neither.
HandshakeDone ==
    /\ pc = "handshake"
    /\ \/ Advance("ready", address, loose, request.proxied)
       \/ ~url.https /\ Advance("ready", address, loose, tunnel)

\* The proxy answers that it cannot reach the target, or refuses.
ProxyRefuses ==
    /\ pc = "handshake" /\ request.proxied
    /\ End("target") \/ End("proxy")

\* The request goes out: from now on httpcore owns the socket.
Sends == pc = "ready" /\ Advance("sent", address, FALSE, TRUE)

\* A network failure, the deadline or a cancellation; a socket no pool owns is closed.
HopFails == pc \in Steps /\ End(Blame)

\* The connection goes back to its pool, is closed, or replaces another one.
Kept ==
    LET mine == [pool |-> Pool, https |-> url.https, host |-> url.host, to |-> address]
    IN  {P \in SUBSET (pools \cup {mine}) : Cardinality(P) \in MaxKept - 1 .. MaxKept} \cup {pools}

\* A redirect that can be followed; its target is checked like the first.
Redirects ==
    /\ pc = "sent"
    /\ redirects < MaxRedirects
    /\ \E next \in Urls :
         IF Allowed(request, next)
         THEN /\ pc' = "hop"
              /\ url' = next
              /\ redirects' = redirects + 1
              /\ pools' \in Kept
              /\ UNCHANGED <<request, hopVars, outcome>>
         ELSE End("invalid")

\* Any other response, also a redirect past the limit, is the caller's to judge.
Responds ==
    /\ pc = "sent"
    /\ pc' = "idle"
    /\ outcome' = "ok"
    /\ pools' \in {{c \in P : c.pool # "own"} : P \in Kept}
    /\ Forget
    /\ UNCHANGED <<request, loose>>

Next ==
    \/ Start
    \/ ReusesConnection \/ Resolves \/ ConnectsProxy \/ HopTooLate
    \/ Connects \/ ConnectFails \/ ProxyConnected \/ HandshakeDone \/ ProxyRefuses
    \/ Sends \/ HopFails
    \/ Redirects \/ Responds

Spec == Init /\ [][Next]_vars

-----------------------------------------------------------------------------
\* Headers bound to the origin of the request leave only for that very origin, also
\* after a chain of redirects that comes back to its host (http_transport.py:1192).
BoundHeadersStay ==
    pc = "sent" /\ bound => url = request.url

\* With private targets blocked, what a request reaches is public: no redirect, no
\* second answer of the resolver and no kept-alive connection opened without the block
\* leads elsewhere (http_transport.py:467).
SentToPublic == pc = "sent" /\ Blocks => address \in Public

\* A request that insists on https never sends a hop in the clear (http_transport.py:331).
HttpsOnlyStays == pc = "sent" /\ request.https_only => url.https

\* A failure is the proxy's only while the current hop has not passed it, whatever
\* earlier hops did, and the target's only once it has (http_transport.py:218).
BlameFollowsHop ==
    [][(pc \in Steps) /\ pc' = "idle" /\ outcome' \in {"proxy", "target"} /\ request.proxied =>
         /\ pc = "proxy" => outcome' = "proxy"
         /\ pc = "sent" => outcome' = "target"]_vars

\* No socket outlives its fetch outside of a pool (http_transport.py:875).
NoLooseSocket == pc = "idle" => ~loose
=============================================================================
