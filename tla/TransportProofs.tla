--------------------------- MODULE TransportProofs ---------------------------
(***************************************************************************)
(* What the HTTP transport guarantees for any names, addresses, redirects, *)
(* callers and slots: every hop is what its request asked for, a failure   *)
(* is blamed on who failed, and admission neither loses a slot nor lends   *)
(* it twice.  And for any body, cut into any chunks: decoding accepts what *)
(* is whole and hands all of it on, and reading keeps to its limit.        *)
(***************************************************************************)
EXTENDS MCTransport, WaitingLines, FiniteSetTheorems, TLAPS

(***************************************************************************)
(* Fetches.                                                                *)
(***************************************************************************)
\* The connections of the blocking pool lead to public addresses.
PoolsSound == \A c \in pools : c.pool = "public" => c.to \in Public

\* A hop goes to a target that was checked, with the headers of its origin.
HopChecked ==
    /\ hop # "idle" => Fetch!Allowed(request, url)
    /\ hop \in Fetch!Steps => bound = Fetch!SameOrigin(url, request.url)

\* What the hop tries is vetted, and so is what it is connected to.
HopVetted ==
    /\ hop = "connect" /\ Fetch!Blocks => targets \subseteq Public
    /\ hop \in {"handshake", "ready", "sent"} =>
         address \in Fetch!Addresses \cup {"proxy"} /\ (Fetch!Blocks => address \in Public)

\* Progress tells how far the hop is: before the proxy, or behind the target.
HopProgresses ==
    /\ hop = "proxy" => request.proxied /\ ~tunnel
    /\ hop = "sent" => tunnel
    /\ loose => hop \in {"handshake", "ready"}

FetchInv == Fetch!TypeOK /\ PoolsSound /\ HopChecked /\ HopVetted /\ HopProgresses

-----------------------------------------------------------------------------
\* What the constants say of redirects.
LEMMA NoneIsAllowed == MaxRedirects \in Nat /\ 0 \in 0 .. MaxRedirects
  <1>1. MaxRedirects \in Nat
    BY TransportAssumption
  <1> QED BY <1>1

\* The end of a fetch restores the invariant, from wherever it comes.
LEMMA EndKeeps ==
    ASSUME FetchInv, NEW how \in {"ok", "invalid", "proxy", "target"}, Fetch!End(how)
    PROVE  FetchInv'
  <1>1. /\ hop' = "idle" /\ outcome' = how /\ pools' = {c \in pools : c.pool # "own"}
        /\ loose' = FALSE /\ url' = request.url /\ redirects' = 0 /\ bound' = FALSE
        /\ targets' = {} /\ address' = "none" /\ tunnel' = FALSE /\ request' = request
    BY DEF Fetch!End, Fetch!Forget
  <1>2. Fetch!TypeOK'
    BY <1>1, NoneIsAllowed DEF FetchInv, Fetch!TypeOK, Fetch!Requests
  <1>3. PoolsSound'
    BY <1>1 DEF FetchInv, PoolsSound
  <1>4. ~loose'
    BY <1>1
  <1>5. HopChecked' /\ HopVetted' /\ HopProgresses'
    BY <1>1, <1>4 DEF HopChecked, HopVetted, HopProgresses, Fetch!Steps
  <1> QED BY <1>2, <1>3, <1>5 DEF FetchInv

\* A hop that opens as it should.
LEMMA OpenHopKeeps ==
    ASSUME FetchInv, hop = "hop",
           NEW step \in {"connect", "proxy", "ready"},
           NEW to \in Fetch!Addresses \cup {"proxy", "none"},
           NEW tried \in SUBSET Fetch!Addresses,
           step = "connect" /\ Fetch!Blocks => tried \subseteq Public,
           step = "proxy" => request.proxied,
           step = "ready" =>
               to \in Fetch!Addresses \cup {"proxy"} /\ (Fetch!Blocks => to \in Public),
           Fetch!OpenHop(step, to, tried)
    PROVE  FetchInv'
  <1>1. /\ hop' = step /\ bound' = Fetch!SameOrigin(url, request.url) /\ tunnel' = FALSE
        /\ address' = to /\ targets' = tried
        /\ request' = request /\ url' = url /\ redirects' = redirects
        /\ loose' = loose /\ pools' = pools /\ outcome' = outcome
    BY DEF Fetch!OpenHop
  <1>2. Fetch!TypeOK'
    BY <1>1 DEF FetchInv, Fetch!TypeOK, Fetch!Steps, Fetch!SameOrigin
  <1>3. PoolsSound' /\ HopVetted'
    BY <1>1 DEF FetchInv, PoolsSound, HopVetted, Fetch!Blocks, Fetch!BlocksFor
  <1>4. HopChecked' /\ HopProgresses'
    BY <1>1 DEF FetchInv, HopChecked, HopProgresses, Fetch!Steps, Fetch!SameOrigin,
                Fetch!Allowed, Fetch!BlocksFor
  <1> QED BY <1>2, <1>3, <1>4 DEF FetchInv

\* A hop that goes on as it should.
LEMMA AdvanceKeeps ==
    ASSUME FetchInv, hop \in Fetch!Steps,
           NEW p \in {"handshake", "ready", "sent"},
           NEW to \in Fetch!Addresses \cup {"proxy"}, NEW open \in BOOLEAN, NEW opened \in BOOLEAN,
           Fetch!Blocks => to \in Public,
           p = "sent" => opened /\ ~open,
           Fetch!Advance(p, to, open, opened)
    PROVE  FetchInv'
  <1>1. /\ hop' = p /\ address' = to /\ loose' = open /\ tunnel' = opened /\ targets' = {}
        /\ request' = request /\ url' = url /\ redirects' = redirects /\ bound' = bound
        /\ pools' = pools /\ outcome' = outcome
    BY DEF Fetch!Advance
  <1>2. Fetch!TypeOK'
    BY <1>1 DEF FetchInv, Fetch!TypeOK, Fetch!Steps
  <1>3. PoolsSound' /\ HopVetted'
    BY <1>1 DEF FetchInv, PoolsSound, HopVetted, Fetch!Blocks, Fetch!BlocksFor
  <1>4. HopChecked' /\ HopProgresses'
    BY <1>1 DEF FetchInv, HopChecked, HopProgresses, Fetch!Steps, Fetch!SameOrigin,
                Fetch!Allowed, Fetch!BlocksFor
  <1> QED BY <1>2, <1>3, <1>4 DEF FetchInv

-----------------------------------------------------------------------------
\* Kept connections are those of before and perhaps the hop's own, which is sound.
LEMMA KeptSound ==
    ASSUME FetchInv, hop = "sent", NEW P \in Fetch!Kept
    PROVE  /\ P \subseteq Fetch!Connections
           /\ \A c \in P : c.pool = "public" => c.to \in Public
  <1> DEFINE mine == [pool |-> Fetch!Pool, https |-> url.https, host |-> url.host,
                      to |-> address]
  <1>1. P \subseteq pools \cup {mine}
    BY DEF Fetch!Kept
  <1>2. mine \in Fetch!Connections
    BY DEF FetchInv, Fetch!TypeOK, HopVetted, Fetch!Connections, Fetch!Urls, Fetch!Pool
  <1>3. mine.pool = "public" => mine.to \in Public
    BY DEF FetchInv, HopVetted, Fetch!Pool
  <1>4. pools \subseteq Fetch!Connections /\ \A c \in pools : c.pool = "public" => c.to \in Public
    BY DEF FetchInv, Fetch!TypeOK, PoolsSound
  <1> HIDE DEF mine
  <1> QED BY <1>1, <1>2, <1>3, <1>4

\* Every step of a fetch preserves the invariant.
LEMMA FetchKeeps ==
    ASSUME FetchInv, Fetch!Next
    PROVE  FetchInv'
  <1>t. Fetch!TypeOK
    BY DEF FetchInv
  <1>1. CASE Fetch!Start
    <2>1. /\ request' \in Fetch!Requests /\ url' = request'.url /\ redirects' = 0
          /\ bound' = FALSE /\ targets' = {} /\ address' = "none" /\ tunnel' = FALSE
          /\ outcome' = "none" /\ pools' = pools /\ loose' = loose /\ hop = "idle"
          /\ hop' \in {"hop", "idle"}
      BY <1>1 DEF Fetch!Start
    <2>2. Fetch!TypeOK' /\ PoolsSound' /\ HopVetted' /\ HopProgresses'
      BY <2>1, NoneIsAllowed
         DEF FetchInv, Fetch!TypeOK, PoolsSound, HopVetted, HopProgresses, Fetch!Requests
    <2>3. HopChecked'
      BY <1>1, <2>1 DEF Fetch!Start, HopChecked, Fetch!Steps, Fetch!Allowed, Fetch!BlocksFor
    <2> QED BY <2>2, <2>3 DEF FetchInv
  <1>2. CASE Fetch!ReusesConnection
    <2>1. PICK c \in pools : /\ c.pool = Fetch!Pool
                             /\ Fetch!OpenHop("ready", c.to, {})
      BY <1>2 DEF Fetch!ReusesConnection
    <2>2. hop = "hop" /\ c.to \in Fetch!Addresses \cup {"proxy"}
      BY <1>2, <1>t DEF Fetch!ReusesConnection, Fetch!TypeOK, Fetch!Connections
    <2>3. Fetch!Blocks => c.to \in Public
      BY <2>1 DEF FetchInv, PoolsSound, Fetch!Pool, Fetch!Blocks, Fetch!BlocksFor
    <2> QED BY <2>1, <2>2, <2>3, OpenHopKeeps
  <1>3. CASE Fetch!Resolves
    <2>1. hop = "hop"
      BY <1>3 DEF Fetch!Resolves
    <2>2. PICK found \in Fetch!Resolutions :
              IF found = {} THEN Fetch!End("target")
              ELSE IF Fetch!Blocks /\ ~Fetch!Vetted(found) THEN Fetch!End("invalid")
              ELSE Fetch!OpenHop("connect", "none", found)
      BY <1>3 DEF Fetch!Resolves
    <2>3. found \subseteq Fetch!Addresses
      BY <1>t DEF Fetch!Resolutions, Fetch!TypeOK, Fetch!Urls
    <2>4. CASE Fetch!OpenHop("connect", "none", found) /\ ~(Fetch!Blocks /\ ~Fetch!Vetted(found))
      BY <2>1, <2>3, <2>4, OpenHopKeeps DEF Fetch!Vetted
    <2> QED BY <2>2, <2>4, EndKeeps
  <1>4. CASE Fetch!ConnectsProxy
    <2>1. hop = "hop" /\ request.proxied /\ Fetch!OpenHop("proxy", "none", {})
      BY <1>4 DEF Fetch!ConnectsProxy
    <2> QED BY <2>1, OpenHopKeeps
  <1>5. Fetch!Blame \in {"ok", "invalid", "proxy", "target"}
    BY DEF Fetch!Blame
  <1>6. CASE Fetch!HopTooLate \/ Fetch!HopFails
    BY <1>5, <1>6, EndKeeps DEF Fetch!HopTooLate, Fetch!HopFails
  <1>7. CASE Fetch!Connects
    <2>1. PICK a \in targets : Fetch!Advance("handshake", a, TRUE, tunnel)
      BY <1>7 DEF Fetch!Connects
    <2>2. hop = "connect" /\ hop \in Fetch!Steps /\ a \in Fetch!Addresses /\ tunnel \in BOOLEAN
      BY <1>7, <1>t DEF Fetch!Connects, Fetch!Steps, Fetch!TypeOK
    <2>3. Fetch!Blocks => a \in Public
      BY <2>2 DEF FetchInv, HopVetted
    <2> QED BY <2>1, <2>2, <2>3, AdvanceKeeps
  <1>8. CASE Fetch!ConnectFails
    <2>1. PICK a \in targets :
              \/ Fetch!End(Fetch!Blame)
              \/ /\ targets' = targets \ {a}
                 /\ UNCHANGED <<hop, request, url, redirects, bound, address, loose, tunnel,
                                pools, outcome>>
      BY <1>8 DEF Fetch!ConnectFails
    <2>2. CASE UNCHANGED <<hop, request, url, redirects, bound, address, loose, tunnel, pools,
                           outcome>> /\ targets' = targets \ {a}
      BY <2>2 DEF FetchInv, Fetch!TypeOK, PoolsSound, HopChecked, HopVetted, HopProgresses,
                  Fetch!Steps, Fetch!Allowed, Fetch!BlocksFor, Fetch!SameOrigin, Fetch!Blocks
    <2> QED BY <1>5, <2>1, <2>2, EndKeeps
  <1>9. CASE Fetch!ProxyConnected
    <2>1. hop = "proxy" /\ Fetch!Advance("handshake", "proxy", TRUE, tunnel)
      BY <1>9 DEF Fetch!ProxyConnected
    <2>2. hop \in Fetch!Steps /\ ~Fetch!Blocks /\ tunnel \in BOOLEAN
      BY <2>1, <1>t DEF Fetch!Steps, FetchInv, HopProgresses, Fetch!Blocks, Fetch!BlocksFor,
                        Fetch!TypeOK
    <2> QED BY <2>1, <2>2, AdvanceKeeps
  <1>10. CASE Fetch!HandshakeDone
    <2>1. /\ hop = "handshake"
          /\ \/ Fetch!Advance("ready", address, loose, request.proxied)
             \/ Fetch!Advance("ready", address, loose, tunnel)
      BY <1>10 DEF Fetch!HandshakeDone
    <2>2. /\ hop \in Fetch!Steps /\ address \in Fetch!Addresses \cup {"proxy"}
          /\ Fetch!Blocks => address \in Public
      BY <2>1 DEF Fetch!Steps, FetchInv, HopVetted
    <2>3. loose \in BOOLEAN /\ tunnel \in BOOLEAN /\ request.proxied \in BOOLEAN
      BY <1>t DEF Fetch!TypeOK, Fetch!Requests
    <2> QED BY <2>1, <2>2, <2>3, AdvanceKeeps
  <1>11. CASE Fetch!ProxyRefuses
    BY <1>11, EndKeeps DEF Fetch!ProxyRefuses
  <1>12. CASE Fetch!Sends
    <2>1. hop = "ready" /\ Fetch!Advance("sent", address, FALSE, TRUE)
      BY <1>12 DEF Fetch!Sends
    <2>2. /\ hop \in Fetch!Steps /\ address \in Fetch!Addresses \cup {"proxy"}
          /\ Fetch!Blocks => address \in Public
      BY <2>1 DEF Fetch!Steps, FetchInv, HopVetted
    <2> QED BY <2>1, <2>2, AdvanceKeeps
  <1>13. CASE Fetch!Redirects
    <2>1. PICK to \in Fetch!Urls :
              \/ Fetch!End("invalid")
              \/ /\ Fetch!Allowed(request, to)
                 /\ hop' = "hop" /\ url' = to /\ redirects' = redirects + 1
                 /\ pools' \in Fetch!Kept
                 /\ UNCHANGED <<request, bound, targets, address, loose, tunnel, outcome>>
      BY <1>13 DEF Fetch!Redirects, Fetch!hopVars
    <2>2. hop = "sent" /\ redirects < MaxRedirects
      BY <1>13 DEF Fetch!Redirects
    <2>3. CASE /\ Fetch!Allowed(request, to)
               /\ hop' = "hop" /\ url' = to /\ redirects' = redirects + 1
               /\ pools' \in Fetch!Kept
               /\ UNCHANGED <<request, bound, targets, address, loose, tunnel, outcome>>
      <3>1. Fetch!TypeOK' /\ PoolsSound'
        BY <2>2, <2>3, <1>t, KeptSound, NoneIsAllowed DEF Fetch!TypeOK, PoolsSound
      <3>2. HopChecked'
        BY <2>3 DEF HopChecked, Fetch!Steps, Fetch!Allowed, Fetch!BlocksFor
      <3>3. HopVetted' /\ HopProgresses'
        BY <2>2, <2>3 DEF FetchInv, HopVetted, HopProgresses
      <3> QED BY <3>1, <3>2, <3>3 DEF FetchInv
    <2> QED BY <2>1, <2>3, EndKeeps
  <1>14. CASE Fetch!Responds
    <2>1. /\ hop = "sent" /\ hop' = "idle" /\ outcome' = "ok" /\ url' = request.url
          /\ redirects' = 0 /\ bound' = FALSE /\ targets' = {} /\ address' = "none"
          /\ tunnel' = FALSE /\ request' = request /\ loose' = loose
      BY <1>14 DEF Fetch!Responds, Fetch!Forget
    <2>2. PICK P \in Fetch!Kept : pools' = {c \in P : c.pool # "own"}
      BY <1>14 DEF Fetch!Responds
    <2>3. Fetch!TypeOK' /\ PoolsSound'
      BY <2>1, <2>2, <1>t, KeptSound, NoneIsAllowed
         DEF Fetch!TypeOK, PoolsSound, Fetch!Requests
    <2>4. HopChecked' /\ HopVetted' /\ HopProgresses'
      BY <2>1 DEF FetchInv, HopChecked, HopVetted, HopProgresses, Fetch!Steps
    <2> QED BY <2>3, <2>4 DEF FetchInv
  <1> QED BY <1>1, <1>2, <1>3, <1>4, <1>6, <1>7, <1>8, <1>9, <1>10, <1>11, <1>12, <1>13, <1>14
          DEF Fetch!Next

\* Where fetches begin, and where they stand while another part of the transport runs.
LEMMA FetchStarts == Init => FetchInv
  <1> SUFFICES ASSUME Init PROVE FetchInv
    OBVIOUS
  <1>1. Fetch!Init
    BY DEF Init, FetchRests
  <1>2. /\ hop = "idle" /\ request \in Fetch!Requests /\ url = request.url /\ redirects = 0
        /\ bound = FALSE /\ targets = {} /\ address = "none" /\ loose = FALSE
        /\ tunnel = FALSE /\ pools = {} /\ outcome = "none"
    BY <1>1 DEF Fetch!Init
  <1>3. Fetch!TypeOK
    BY <1>2, NoneIsAllowed DEF Fetch!TypeOK, Fetch!Requests
  <1>4. ~loose
    BY <1>2
  <1> QED
    BY <1>2, <1>3, <1>4
       DEF FetchInv, PoolsSound, HopChecked, HopVetted, HopProgresses, Fetch!Steps

LEMMA FetchRestsKeeps ==
    ASSUME FetchInv, UNCHANGED fetchVars
    PROVE  FetchInv'
  BY DEF fetchVars, FetchInv, Fetch!TypeOK, PoolsSound, HopChecked, HopVetted, HopProgresses,
         Fetch!Blocks, Fetch!BlocksFor, Fetch!Allowed, Fetch!SameOrigin

\* A step of the transport is one of its fetches, or leaves them alone.
LEMMA FetchStep ==
    ASSUME [Next]_vars
    PROVE  Fetch!Next \/ UNCHANGED fetchVars
  BY DEF Next, vars, fetchVars

LEMMA FetchInvHolds == Spec => []FetchInv
  <1>1. FetchInv /\ [Next]_vars => FetchInv'
    BY FetchKeeps, FetchRestsKeeps, FetchStep
  <1> QED BY <1>1, FetchStarts, PTL DEF Spec

\* Whatever redirects, answers of the resolver and kept connections do, no header leaves for
\* a foreign origin, no private address is reached, no hop goes out in the clear against
\* the request's wish, and no socket is left over (HttpTransport._fetch,
\* PublicAddressBackend and the pools of HttpcoreConnector).
THEOREM EveryHopIsAsAsked == Spec => []HopsAsAsked
  <1>1. FetchInv => HopsAsAsked
    <2> SUFFICES ASSUME FetchInv PROVE HopsAsAsked
      OBVIOUS
    <2>1. Fetch!BoundHeadersStay
      <3> SUFFICES ASSUME hop = "sent", bound PROVE url = request.url
        BY DEF Fetch!BoundHeadersStay
      <3>1. Fetch!SameOrigin(url, request.url)
        BY DEF FetchInv, HopChecked, Fetch!Steps
      <3>2. url \in Fetch!Urls /\ request.url \in Fetch!Urls
        BY DEF FetchInv, Fetch!TypeOK, Fetch!Requests
      <3> QED BY <3>1, <3>2 DEF Fetch!SameOrigin, Fetch!Urls
    <2>2. Fetch!SentToPublic
      BY DEF FetchInv, HopVetted, Fetch!SentToPublic
    <2>3. Fetch!HttpsOnlyStays
      BY DEF FetchInv, HopChecked, Fetch!Allowed, Fetch!HttpsOnlyStays
    <2>4. Fetch!NoLooseSocket
      BY DEF FetchInv, HopProgresses, Fetch!NoLooseSocket
    <2> QED BY <2>1, <2>2, <2>3, <2>4 DEF FetchInv, HopsAsAsked
  <1> QED BY <1>1, FetchInvHolds, PTL

\* Until its hop has passed the proxy a failure is the proxy's, and once the request is on
\* its way it is the target's, for any number of hops before (classify_transport_error).
THEOREM FailuresAreBlamed == Spec => BlameFollowsHop
  <1> DEFINE Blamed ==
        (hop \in Fetch!Steps) /\ hop' = "idle" /\ outcome' \in {"proxy", "target"}
            /\ request.proxied =>
          /\ hop = "proxy" => outcome' = "proxy"
          /\ hop = "sent" => outcome' = "target"
  <1>1. FetchInv /\ [Next]_vars => [Blamed]_(Fetch!vars)
    <2> SUFFICES ASSUME FetchInv, [Next]_vars, hop \in Fetch!Steps, hop' = "idle",
                        outcome' \in {"proxy", "target"}, request.proxied,
                        hop \in {"proxy", "sent"}
                 PROVE  /\ hop = "proxy" => outcome' = "proxy"
                        /\ hop = "sent" => outcome' = "target"
      OBVIOUS
    <2>1. Fetch!Blame = IF hop = "proxy" THEN "proxy" ELSE "target"
      BY DEF Fetch!Blame, FetchInv, HopProgresses
    <2>2. CASE UNCHANGED fetchVars
      BY <2>2 DEF fetchVars
    <2>3. CASE Fetch!Next
      <3>1. \/ Fetch!ProxyConnected \/ Fetch!HopFails \/ Fetch!Redirects \/ Fetch!Responds
        BY <2>3 DEF Fetch!Next, Fetch!Start, Fetch!ReusesConnection, Fetch!Resolves,
                    Fetch!ConnectsProxy, Fetch!HopTooLate, Fetch!Connects, Fetch!ConnectFails,
                    Fetch!HandshakeDone, Fetch!ProxyRefuses, Fetch!Sends
      <3>2. CASE Fetch!ProxyConnected
        BY <3>2 DEF Fetch!ProxyConnected, Fetch!Advance
      <3>3. CASE Fetch!HopFails
        BY <3>3, <2>1 DEF Fetch!HopFails, Fetch!End
      <3>4. CASE Fetch!Redirects
        BY <3>4 DEF Fetch!Redirects, Fetch!End
      <3>5. CASE Fetch!Responds
        BY <3>5 DEF Fetch!Responds
      <3> QED BY <3>1, <3>2, <3>3, <3>4, <3>5
    <2> QED BY <2>2, <2>3, FetchStep
  <1> QED BY <1>1, FetchInvHolds, PTL DEF Spec, BlameFollowsHop, Fetch!BlameFollowsHop

-----------------------------------------------------------------------------
(***************************************************************************)
(* Admission.                                                              *)
(***************************************************************************)
\* Somebody leaves the line, wherever it is.
LEMMA LineGivenUp ==
    ASSUME NEW S, NEW q \in Seq(S), NEW members, Line(q, members), NEW r \in members
    PROVE  /\ Admission!RemoveFirst(q, r) \in Seq(S)
           /\ Line(Admission!RemoveFirst(q, r), members \ {r})
  <1>1. PICK n \in 1 .. Len(q) : q[n] = r
    BY DEF Line
  <1>2. Admission!RemoveFirst(q, r) = SubSeq(q, 1, n - 1) \o SubSeq(q, n + 1, Len(q))
    <2>1. {i \in 1 .. Len(q) : q[i] = r} = {n}
      BY <1>1 DEF Line
    <2>2. Admission!Min({n}) = n
      BY DEF Admission!Min
    <2>3. Admission!SelectInSeq(q, LAMBDA v : v = r) = n
      BY <2>1, <2>2 DEF Admission!SelectInSeq
    <2> QED BY <1>1, <2>3 DEF Admission!RemoveFirst, Admission!RemoveAt
  <1> QED BY <1>1, <1>2, LineLeft

\* Every slot is free, granted or in use, and the transport's own count is that of the
\* requests in use; the line consists of those that wait; shutdown is as far as it says.
AdmissionInv ==
    /\ Admission!TypeOK
    /\ Line(queue, Admission!In("queued"))
    /\ Admission!SlotsConserved
    /\ active = Cardinality(Admission!In("active"))
    /\ idle => active = 0
    /\ closer # "none" => ~accepting
    /\ closer \in {"woken", "done"} => active = 0

LEMMA SlotCount == MaxConcurrency \in Nat /\ IsFiniteSet(Callers)
  BY TransportAssumption

\* HttpTransport counts as this module does.
LEMMA SameCardinality == \A S : Admission!Cardinality(S) = Cardinality(S)
  BY DEF Admission!Cardinality, Cardinality, Admission!IsFiniteSet, IsFiniteSet

LEMMA Placed ==
    /\ \A p : Admission!In(p) \subseteq Callers /\ IsFiniteSet(Admission!In(p))
    /\ \A p : Cardinality(Admission!In(p)) \in Nat
    /\ \A p, r : r \in Admission!In(p) <=> r \in Callers /\ place[r] = p
  <1>1. \A p : Admission!In(p) = {r \in Callers : place[r] = p}
    BY DEF Admission!In
  <1>2. \A p : Admission!In(p) \in SUBSET Callers
    BY <1>1
  <1>3. \A p : IsFiniteSet(Admission!In(p))
    BY <1>2, SlotCount, FS_Subset
  <1> QED BY <1>1, <1>2, <1>3, FS_CardinalityType

\* The least of three numbers.
LEMMA LeastOfThree ==
    ASSUME NEW a \in Nat, NEW b \in Nat, NEW c \in Nat
    PROVE  LET n == Admission!Min({a, b, c})
           IN  n \in {a, b, c} /\ n <= a /\ n <= b /\ n <= c
  <1>1. \E x \in {a, b, c} : \A y \in {a, b, c} : x <= y
    <2>1. CASE a <= b /\ a <= c
      BY <2>1
    <2>2. CASE b <= a /\ b <= c
      BY <2>2
    <2>3. CASE c <= a /\ c <= b
      BY <2>3
    <2> QED BY <2>1, <2>2, <2>3
  <1> QED BY <1>1 DEF Admission!Min

\* A request changes its place and n others are granted a slot each, the first in line.
Moved(r, p, n) ==
    /\ place' = [q \in Callers |-> IF q = r THEN p
                                   ELSE IF q \in Front(queue, n) THEN "granted" ELSE place[q]]
    /\ queue' = SubSeq(queue, n + 1, Len(queue))

LEMMA PassedOn ==
    ASSUME AdmissionInv, NEW r \in Callers, NEW p, NEW back \in {0, 1}, NEW wakeups \in 0 .. 2,
           Admission!PassOn(r, p, back, wakeups)
    PROVE  \E n \in 0 .. Len(queue) :
             n <= free + back /\ free' = free + back - n /\ Moved(r, p, n)
  <1> DEFINE n == Admission!Min({wakeups, free + back, Len(queue)})
  <1>1. free + back \in Nat /\ Len(queue) \in Nat /\ wakeups \in Nat
    BY SlotCount DEF AdmissionInv, Admission!TypeOK
  <1>2. n \in 0 .. Len(queue) /\ n <= free + back
    BY <1>1, LeastOfThree
  <1>3. /\ place' = [q \in Callers |-> IF q = r THEN p
                                       ELSE IF \E i \in 1 .. n : queue[i] = q THEN "granted"
                                       ELSE place[q]]
        /\ queue' = SubSeq(queue, n + 1, Len(queue))
        /\ free' = free + back - n
    BY DEF Admission!PassOn
  <1> HIDE DEF n
  <1>4. \A q : (\E i \in 1 .. n : queue[i] = q) <=> q \in Front(queue, n)
    BY DEF Front
  <1>5. Moved(r, p, n)
    BY <1>3, <1>4 DEF Moved
  <1> QED BY <1>2, <1>3, <1>5

\* What the move of a request that has a slot changes.
LEMMA MoveCounted ==
    ASSUME AdmissionInv, NEW r \in Callers, place[r] \in {"granted", "active"},
           NEW p \in {"out", "active"}, NEW n \in 0 .. Len(queue), Moved(r, p, n)
    PROVE  /\ place' \in [Callers -> {"out", "queued", "granted", "active"}]
           /\ queue' \in Seq(Callers)
           /\ Line(queue', Admission!In("queued")')
           /\ Cardinality(Admission!In("granted")') =
                Cardinality(Admission!In("granted")) + n - (IF place[r] = "granted" THEN 1 ELSE 0)
           /\ Cardinality(Admission!In("active")') =
                Cardinality(Admission!In("active")) - (IF place[r] = "active" THEN 1 ELSE 0)
                  + (IF p = "active" THEN 1 ELSE 0)
  <1> DEFINE woken == Front(queue, n)
  <1>1. /\ place \in [Callers -> {"out", "queued", "granted", "active"}]
        /\ queue \in Seq(Callers) /\ Line(queue, Admission!In("queued"))
    BY DEF AdmissionInv, Admission!TypeOK
  <1>2. /\ SubSeq(queue, n + 1, Len(queue)) \in Seq(Callers)
        /\ Line(SubSeq(queue, n + 1, Len(queue)), Admission!In("queued") \ woken)
        /\ woken \subseteq Admission!In("queued")
        /\ IsFiniteSet(woken) /\ Cardinality(woken) = n
    BY <1>1, LineMoves, FrontCounted
  <1> HIDE DEF woken
  <1>3. /\ place' = [q \in Callers |-> IF q = r THEN p
                                       ELSE IF q \in woken THEN "granted" ELSE place[q]]
        /\ queue' = SubSeq(queue, n + 1, Len(queue))
    BY DEF Moved, woken
  <1>4. place' \in [Callers -> {"out", "queued", "granted", "active"}]
    BY <1>1, <1>3
  <1>5. /\ woken \subseteq Callers /\ r \notin woken
        /\ \A q \in woken : place[q] = "queued"
    BY <1>2, Placed
  <1>6. Admission!In("queued")' = Admission!In("queued") \ woken
    BY <1>1, <1>3, <1>5 DEF Admission!In
  <1>7. Admission!In("granted")' = (Admission!In("granted") \ {r}) \cup woken
    BY <1>1, <1>3, <1>5 DEF Admission!In
  <1>8. Admission!In("active")' =
          (Admission!In("active") \ {r}) \cup (IF p = "active" THEN {r} ELSE {})
    BY <1>1, <1>3, <1>5 DEF Admission!In
  <1>9. Cardinality(Admission!In("granted")') =
          Cardinality(Admission!In("granted")) + n - (IF place[r] = "granted" THEN 1 ELSE 0)
    <2> DEFINE others == Admission!In("granted") \ {r}
    <2>1. /\ IsFiniteSet(others)
          /\ Cardinality(others) =
               Cardinality(Admission!In("granted")) - (IF place[r] = "granted" THEN 1 ELSE 0)
          /\ Cardinality(others) \in Nat
      <3>1. /\ IsFiniteSet(Admission!In("granted"))
            /\ r \in Admission!In("granted") <=> place[r] = "granted"
        BY Placed
      <3>2. /\ IsFiniteSet(others)
            /\ Cardinality(others) =
                 IF r \in Admission!In("granted") THEN Cardinality(Admission!In("granted")) - 1
                 ELSE Cardinality(Admission!In("granted"))
        BY <3>1, FS_RemoveElement
      <3>3. Cardinality(others) \in Nat
        BY <3>2, FS_CardinalityType
      <3>4. Cardinality(Admission!In("granted")) \in Nat
        BY Placed
      <3> HIDE DEF others
      <3> QED BY <3>1, <3>2, <3>3, <3>4
    <2>2. others \cap woken = {}
      BY <1>5, Placed
    <2> HIDE DEF others
    <2>3. Cardinality(others \cup woken) = Cardinality(others) + n
      <3>1. Cardinality(others \cup woken)
              = Cardinality(others) + Cardinality(woken) - Cardinality(others \cap woken)
        BY <1>2, <2>1, FS_Union
      <3>2. Cardinality(others \cap woken) = 0
        BY <2>2, FS_EmptySet
      <3> QED BY <1>2, <2>1, <3>1, <3>2
    <2>4. Cardinality(Admission!In("granted")') = Cardinality(others) + n
      BY <1>7, <2>3 DEF others
    <2>5. Cardinality(Admission!In("granted")) \in Nat /\ n \in Nat
      BY <1>1, Placed
    <2> QED BY <2>1, <2>4, <2>5
  <1>10. Cardinality(Admission!In("active")') =
          Cardinality(Admission!In("active")) - (IF place[r] = "active" THEN 1 ELSE 0)
            + (IF p = "active" THEN 1 ELSE 0)
    <2> DEFINE others == Admission!In("active") \ {r}
    <2>1. /\ IsFiniteSet(others) /\ r \notin others
          /\ Cardinality(others) =
               Cardinality(Admission!In("active")) - (IF place[r] = "active" THEN 1 ELSE 0)
      <3>1. /\ IsFiniteSet(Admission!In("active"))
            /\ r \in Admission!In("active") <=> place[r] = "active"
        BY Placed
      <3>2. /\ IsFiniteSet(others)
            /\ Cardinality(others) =
                 IF r \in Admission!In("active") THEN Cardinality(Admission!In("active")) - 1
                 ELSE Cardinality(Admission!In("active"))
        BY <3>1, FS_RemoveElement
      <3>3. Cardinality(Admission!In("active")) \in Nat
        BY Placed
      <3>4. r \notin others
        OBVIOUS
      <3> HIDE DEF others
      <3> QED BY <3>1, <3>2, <3>3, <3>4
    <2>2. Admission!In("active")' = others \cup (IF p = "active" THEN {r} ELSE {})
      BY <1>8
    <2> HIDE DEF others
    <2>3. CASE p = "active"
      BY <2>1, <2>2, <2>3, FS_AddElement
    <2>4. CASE p = "out"
      <3>1. Admission!In("active")' = others
        BY <2>2, <2>4
      <3>2. Cardinality(others) \in Nat
        BY <2>1, FS_CardinalityType
      <3> QED BY <2>1, <2>4, <3>1, <3>2
    <2> QED BY <2>3, <2>4
  <1> QED BY <1>2, <1>3, <1>4, <1>6, <1>9, <1>10

\* Slots and those who have one, in numbers.
LEMMA Counts ==
    ASSUME AdmissionInv
    PROVE  /\ free \in Nat /\ active \in Nat
           /\ Cardinality(Admission!In("granted")) \in Nat
           /\ Cardinality(Admission!In("active")) = active
           /\ free + Cardinality(Admission!In("granted")) + active = MaxConcurrency
BY Placed, SlotCount, SameCardinality DEF AdmissionInv, Admission!TypeOK, Admission!SlotsConserved

\* What PassOn leaves of the invariant when the slot of r goes with r, or comes back.
Kept(p) ==
    /\ place' \in [Callers -> {"out", "queued", "granted", "active"}]
    /\ queue' \in Seq(Callers)
    /\ Line(queue', Admission!In("queued")')
    /\ free' \in 0 .. MaxConcurrency
    /\ Admission!SlotsConserved'
    /\ Cardinality(Admission!In("active")') = p
    /\ p \in 0 .. MaxConcurrency

LEMMA PassOnKeeps ==
    ASSUME AdmissionInv, NEW r \in Callers, place[r] \in {"granted", "active"},
           NEW p \in {"out", "active"}, NEW back \in {0, 1}, p = "out" <=> back = 1,
           NEW wakeups \in 0 .. 2, Admission!PassOn(r, p, back, wakeups)
    PROVE  Kept(active - (IF place[r] = "active" THEN 1 ELSE 0)
                  + (IF p = "active" THEN 1 ELSE 0))
  <1> DEFINE was == Cardinality(Admission!In("granted"))
             is == Cardinality(Admission!In("granted")')
             using == Cardinality(Admission!In("active")')
  <1>1. PICK n \in 0 .. Len(queue) :
            n <= free + back /\ free' = free + back - n /\ Moved(r, p, n)
    BY PassedOn
  <1>2. /\ place' \in [Callers -> {"out", "queued", "granted", "active"}]
        /\ queue' \in Seq(Callers)
        /\ Line(queue', Admission!In("queued")')
        /\ is = was + n - (IF place[r] = "granted" THEN 1 ELSE 0)
        /\ using = Cardinality(Admission!In("active")) - (IF place[r] = "active" THEN 1 ELSE 0)
                     + (IF p = "active" THEN 1 ELSE 0)
    BY <1>1, MoveCounted
  <1>3. n \in Nat
    BY DEF AdmissionInv, Admission!TypeOK
  <1>4. /\ free \in Nat /\ active \in Nat /\ was \in Nat
        /\ Cardinality(Admission!In("active")) = active
        /\ free + was + active = MaxConcurrency /\ MaxConcurrency \in Nat
    BY Counts, SlotCount
  <1>5. is \in Nat /\ using \in Nat
    <2>1. /\ Admission!In("granted")' \in SUBSET Callers
          /\ Admission!In("active")' \in SUBSET Callers
      BY DEF Admission!In
    <2> QED BY <2>1, SlotCount, FS_Subset, FS_CardinalityType
  <1> HIDE DEF was, is, using
  <1>6. free' \in Nat /\ free' + is + using = MaxConcurrency
    BY <1>1, <1>2, <1>3, <1>4
  <1>7. free' \in 0 .. MaxConcurrency /\ using \in 0 .. MaxConcurrency
    <2>1. \A a, b, c \in Nat : a + b + c \in Nat /\ a <= a + b + c /\ c <= a + b + c
      OBVIOUS
    <2>2. free' <= MaxConcurrency /\ using <= MaxConcurrency
      BY <1>5, <1>6, <2>1
    <2> QED BY <1>4, <1>5, <1>6, <2>2
  <1>8. Admission!SlotsConserved'
    BY <1>6, SameCardinality DEF is, using, Admission!SlotsConserved
  <1> QED BY <1>2, <1>4, <1>7, <1>8 DEF Kept, using

\* Every step of admission and shutdown preserves the invariant.
LEMMA AdmissionKeeps ==
    ASSUME AdmissionInv, Admission!Next
    PROVE  AdmissionInv'
  <1>t. /\ Admission!TypeOK /\ Line(queue, Admission!In("queued")) /\ Admission!SlotsConserved
        /\ active = Cardinality(Admission!In("active"))
        /\ idle => active = 0
        /\ closer # "none" => ~accepting
        /\ closer \in {"woken", "done"} => active = 0
    BY DEF AdmissionInv
  <1>1. ASSUME NEW r \in Callers, Admission!FetchAtOnce(r) PROVE AdmissionInv'
    <2>1. /\ place[r] = "out" /\ accepting /\ ~Admission!Locked
          /\ place' = [place EXCEPT ![r] = "active"] /\ free' = free - 1
          /\ active' = active + 1 /\ idle' = FALSE
          /\ queue' = queue /\ accepting' = accepting /\ closer' = closer
      BY <1>1 DEF Admission!FetchAtOnce
    <2>2. free # 0
      BY <2>1 DEF Admission!Locked
    <2>3. /\ Admission!In("queued")' = Admission!In("queued")
          /\ Admission!In("granted")' = Admission!In("granted")
          /\ Admission!In("active")' = Admission!In("active") \cup {r}
          /\ r \notin Admission!In("active")
      BY <2>1, <1>t DEF Admission!In, Admission!TypeOK
    <2>4. Cardinality(Admission!In("active")') = active + 1
      BY <2>3, <1>t, Placed, FS_AddElement
    <2>5. /\ free' \in 0 .. MaxConcurrency /\ active' \in 0 .. MaxConcurrency
          /\ free' + Cardinality(Admission!In("granted")) + active' = MaxConcurrency
      BY <2>1, <2>2, Counts, SlotCount
    <2>6. Admission!SlotsConserved'
      BY <2>1, <2>3, <2>4, <2>5, SameCardinality DEF Admission!SlotsConserved
    <2>7. Admission!TypeOK'
      BY <2>1, <2>5, <1>t DEF Admission!TypeOK
    <2>8. closer' = "none" /\ ~idle'
      BY <2>1, <1>t DEF Admission!TypeOK
    <2> QED BY <2>1, <2>3, <2>4, <2>6, <2>7, <2>8, <1>t DEF AdmissionInv
  <1>2. ASSUME NEW r \in Callers, Admission!FetchQueues(r) PROVE AdmissionInv'
    <2>1. /\ place[r] = "out"
          /\ place' = [place EXCEPT ![r] = "queued"] /\ queue' = Append(queue, r)
          /\ UNCHANGED <<free, active, accepting, idle, closer>>
      BY <1>2 DEF Admission!FetchQueues
    <2>2. /\ Admission!In("queued")' = Admission!In("queued") \cup {r}
          /\ Admission!In("granted")' = Admission!In("granted")
          /\ Admission!In("active")' = Admission!In("active")
          /\ r \notin Admission!In("queued")
      BY <2>1, <1>t DEF Admission!In, Admission!TypeOK
    <2>3. queue' \in Seq(Callers) /\ Line(queue', Admission!In("queued")')
      BY <2>1, <2>2, <1>t, LineGrows DEF Admission!TypeOK
    <2>4. Admission!SlotsConserved'
      BY <2>1, <2>2, <1>t DEF Admission!SlotsConserved
    <2>5. Admission!TypeOK'
      BY <2>1, <2>3, <1>t DEF Admission!TypeOK
    <2> QED BY <2>1, <2>2, <2>3, <2>4, <2>5, <1>t DEF AdmissionInv
  <1>3. ASSUME NEW r \in Callers, place[r] = "granted",
               NEW p \in {"out", "active"}, NEW back \in {0, 1}, p = "out" <=> back = 1,
               NEW wakeups \in 0 .. 2, Admission!PassOn(r, p, back, wakeups),
               accepting' = accepting, closer' = closer,
               p = "out" => active' = active /\ idle' = idle,
               p = "active" => accepting /\ active' = active + 1 /\ idle' = FALSE
        PROVE  AdmissionInv'
    <2>1. active \in Nat
      BY Counts
    <2>2. Kept(active')
      <3>1. Kept(active - 0 + (IF p = "active" THEN 1 ELSE 0))
        BY <1>3, PassOnKeeps
      <3>2. active - 0 + (IF p = "active" THEN 1 ELSE 0) = active'
        BY <1>3, <2>1
      <3> QED BY <3>1, <3>2
    <2>3. Admission!TypeOK'
      BY <1>3, <2>2, <1>t DEF Kept, Admission!TypeOK
    <2>4. active' = Cardinality(Admission!In("active")')
      BY <2>2 DEF Kept
    <2>5. (idle' => active' = 0) /\ (closer' \in {"woken", "done"} => active' = 0)
      <3>1. CASE p = "out"
        BY <1>3, <3>1, <1>t
      <3>2. CASE p = "active"
        BY <1>3, <3>2, <1>t
      <3> QED BY <3>1, <3>2
    <2> QED BY <1>3, <2>2, <2>3, <2>4, <2>5, <1>t DEF Kept, AdmissionInv
  <1>4. Admission!MoreWakeups \in {0, 1} /\ 1 + Admission!MoreWakeups \in 0 .. 2
    BY DEF Admission!MoreWakeups
  <1>5. ASSUME NEW r \in Callers, Admission!Admitted(r) PROVE AdmissionInv'
    <2>1. /\ place[r] = "granted" /\ accepting
          /\ Admission!PassOn(r, "active", 0, Admission!MoreWakeups)
          /\ active' = active + 1 /\ idle' = FALSE /\ accepting' = accepting /\ closer' = closer
      BY <1>5 DEF Admission!Admitted
    <2>2. 0 \in {0, 1} /\ ("active" = "out" <=> 0 = 1) /\ Admission!MoreWakeups \in 0 .. 2
      BY <1>4
    <2> QED BY <1>3, <2>1, <2>2
  <1>6. ASSUME NEW r \in Callers, Admission!Refused(r) PROVE AdmissionInv'
    <2>1. /\ place[r] = "granted"
          /\ Admission!PassOn(r, "out", 1, 1 + Admission!MoreWakeups)
          /\ active' = active /\ idle' = idle /\ accepting' = accepting /\ closer' = closer
      BY <1>6 DEF Admission!Refused
    <2> QED BY <1>3, <1>4, <2>1
  <1>7. ASSUME NEW r \in Callers, Admission!GivesUp(r) PROVE AdmissionInv'
    <2>1. CASE place[r] = "queued"
      <3>1. /\ place' = [place EXCEPT ![r] = "out"]
            /\ queue' = Admission!RemoveFirst(queue, r)
            /\ UNCHANGED <<free, active, accepting, idle, closer>>
        BY <1>7, <2>1 DEF Admission!GivesUp
      <3>2. /\ Admission!In("queued")' = Admission!In("queued") \ {r}
            /\ Admission!In("granted")' = Admission!In("granted")
            /\ Admission!In("active")' = Admission!In("active")
            /\ r \in Admission!In("queued")
        BY <2>1, <3>1, <1>t DEF Admission!In, Admission!TypeOK
      <3>3. queue' \in Seq(Callers) /\ Line(queue', Admission!In("queued")')
        BY <3>1, <3>2, <1>t, LineGivenUp DEF Admission!TypeOK
      <3>4. Admission!SlotsConserved'
        BY <3>1, <3>2, <1>t DEF Admission!SlotsConserved
      <3>5. Admission!TypeOK'
        BY <3>1, <3>3, <1>t DEF Admission!TypeOK
      <3> QED BY <3>1, <3>2, <3>3, <3>4, <3>5, <1>t DEF AdmissionInv
    <2>2. CASE place[r] # "queued"
      <3>1. /\ place[r] = "granted" /\ Admission!PassOn(r, "out", 1, 1)
            /\ active' = active /\ idle' = idle /\ accepting' = accepting /\ closer' = closer
        BY <1>7, <2>2 DEF Admission!GivesUp, Admission!GiveSlot
      <3>2. 1 \in {0, 1} /\ 1 \in 0 .. 2
        OBVIOUS
      <3> QED BY <1>3, <3>1, <3>2
    <2> QED BY <2>1, <2>2
  <1>8. ASSUME NEW r \in Callers, Admission!Release(r) PROVE AdmissionInv'
    <2>1. /\ place[r] = "active" /\ active' = active - 1 /\ Admission!PassOn(r, "out", 1, 1)
          /\ idle' = (idle \/ active' = 0) /\ accepting' = accepting
          /\ closer' = IF active' = 0 /\ closer = "waiting" THEN "woken" ELSE closer
      BY <1>8 DEF Admission!Release, Admission!GiveSlot
    <2>2. active \in Nat
      BY Counts
    <2>3. Kept(active')
      <3>1. Kept(active - 1 + 0)
        BY <2>1, PassOnKeeps
      <3>2. active - 1 + 0 = active'
        BY <2>1, <2>2
      <3> QED BY <3>1, <3>2
    <2>4. Admission!TypeOK'
      BY <2>1, <2>3, <1>t DEF Kept, Admission!TypeOK
    <2>5. active' \in Nat /\ active # 0
      BY <2>1, <2>2, <2>3 DEF Kept
    <2>6. /\ active' = Cardinality(Admission!In("active")')
          /\ idle' => active' = 0
          /\ closer' \in {"woken", "done"} => active' = 0
          /\ closer' # "none" => ~accepting'
      BY <2>1, <2>3, <2>5, <1>t DEF Kept
    <2> QED BY <2>3, <2>4, <2>6 DEF Kept, AdmissionInv
  <1>9. CASE Admission!Close \/ Admission!CloseResumes
    <2>1. /\ UNCHANGED <<place, queue, free, active, idle>>
          /\ accepting' \in BOOLEAN /\ closer' \in {"waiting", "done"}
          /\ ~accepting' /\ (closer' = "done" => active = 0)
      <3>1. CASE Admission!Close
        BY <3>1, <1>t DEF Admission!Close
      <3>2. CASE Admission!CloseResumes
        <4>1. /\ UNCHANGED <<place, queue, free, active, idle>>
              /\ closer = "woken" /\ closer' = "done" /\ accepting' = accepting
          BY <3>2 DEF Admission!CloseResumes
        <4>2. ~accepting /\ active = 0
          BY <4>1, <1>t
        <4>3. ~accepting'
          BY <4>1, <4>2
        <4>4. accepting' \in BOOLEAN
          BY <4>1, <1>t DEF Admission!TypeOK
        <4> QED BY <4>1, <4>2, <4>3, <4>4
      <3> QED BY <1>9, <3>1, <3>2
    <2>2. \A p : Admission!In(p)' = Admission!In(p)
      BY <2>1 DEF Admission!In
    <2>3. Admission!TypeOK' /\ Admission!SlotsConserved'
      BY <2>1, <2>2, <1>t DEF Admission!TypeOK, Admission!SlotsConserved
    <2> QED BY <2>1, <2>2, <2>3, <1>t DEF AdmissionInv
  <1> QED BY <1>1, <1>2, <1>5, <1>6, <1>7, <1>8, <1>9 DEF Admission!Next

LEMMA AdmissionStarts == Init => AdmissionInv
  <1> SUFFICES ASSUME Init PROVE AdmissionInv
    OBVIOUS
  <1>1. Admission!Init
    BY DEF Init
  <1>2. /\ place = [r \in Callers |-> "out"] /\ queue = <<>> /\ free = MaxConcurrency
        /\ active = 0 /\ accepting = TRUE /\ idle = TRUE /\ closer = "none"
    BY <1>1 DEF Admission!Init
  <1>3. \A p : p # "out" => Admission!In(p) = {}
    BY <1>2 DEF Admission!In
  <1>4. Admission!TypeOK
    BY <1>2, SlotCount DEF Admission!TypeOK
  <1>5. Cardinality(Admission!In("active")) = 0 /\ Cardinality(Admission!In("granted")) = 0
    BY <1>3, FS_EmptySet
  <1>6. Admission!SlotsConserved
    BY <1>2, <1>5, SlotCount, SameCardinality DEF Admission!SlotsConserved
  <1>7. Line(queue, Admission!In("queued"))
    BY <1>2, <1>3 DEF Line
  <1> QED BY <1>2, <1>4, <1>5, <1>6, <1>7 DEF AdmissionInv

LEMMA AdmissionRests ==
    ASSUME AdmissionInv, UNCHANGED admissionVars
    PROVE  AdmissionInv'
  <1>1. UNCHANGED <<place, queue, free, active, accepting, idle, closer>>
    BY DEF admissionVars
  <1>2. \A p : Admission!In(p)' = Admission!In(p)
    BY <1>1 DEF Admission!In
  <1>3. Admission!TypeOK' /\ Admission!SlotsConserved'
    BY <1>1, <1>2 DEF AdmissionInv, Admission!TypeOK, Admission!SlotsConserved
  <1> QED BY <1>1, <1>2, <1>3 DEF AdmissionInv

\* For any callers and any number of slots: grants, timeouts, refusals and the shutdown lose
\* no slot and lend none twice, and the connector is closed only under nobody
\* (HttpTransport._acquire, _release and close).
THEOREM SlotsAreExact == Spec => []AdmissionIsExact
  <1>1. [Next]_vars => Admission!Next \/ UNCHANGED admissionVars
    BY DEF Next, vars, admissionVars
  <1>2. AdmissionInv /\ [Next]_vars => AdmissionInv'
    BY <1>1, AdmissionKeeps, AdmissionRests
  <1>3. AdmissionInv => AdmissionIsExact
    <2> SUFFICES ASSUME AdmissionInv PROVE AdmissionIsExact
      OBVIOUS
    <2>1. active = 0 => Admission!In("active") = {}
      BY Placed, FS_EmptySet DEF AdmissionInv
    <2>2. Admission!ConnectorQuiet
      BY <2>1 DEF AdmissionInv, Admission!ConnectorQuiet
    <2> QED BY <2>2 DEF AdmissionInv, AdmissionIsExact
  <1> QED BY <1>2, <1>3, AdmissionStarts, PTL DEF Spec

-----------------------------------------------------------------------------
(***************************************************************************)
(* Reading bodies.                                                         *)
(***************************************************************************)
\* The chunks end one behind the other, the last where reading is.
ChunksGrow ==
    /\ Len(chunks) <= MaxChunks
    /\ sent = Reading!Through(Len(chunks))
    /\ \A i \in 1 .. Len(chunks) : Reading!Through(i - 1) < chunks[i] /\ chunks[i] <= sent
    /\ sent <= Limit + MaxChunk

\* Until a limit is passed, everything of the chunks before next was handed on.
HandedOn ==
    /\ next <= Len(chunks) + 1
    /\ kept = Reading!Through(next - 1) /\ kept <= Limit
    /\ body = decoded
    /\ ~coded => decoded = kept

ReadingInv ==
    /\ Reading!TypeOK
    /\ ChunksGrow
    /\ reader \in {"read", "decode"} => HandedOn
    /\ reader = "read" => next = 1
    /\ Reading!FullIsWhole /\ Reading!PrefixIsWhole

LEMMA Limits == Limit \in Nat /\ MaxChunk \in Nat /\ MaxChunk > 0 /\ MaxChunks \in Nat
  BY TransportAssumption

LEMMA ReadingStarts == Reading!Init => ReadingInv
  <1> SUFFICES ASSUME Reading!Init PROVE ReadingInv
    OBVIOUS
  <1>1. /\ chunks = <<>> /\ sent = 0 /\ next = 1 /\ decoded = 0 /\ kept = 0 /\ body = 0
        /\ mode \in {"full", "prefix"} /\ coded \in BOOLEAN
        /\ declared \in {"none", "fits", "exceeds"}
        /\ reader = IF mode = "full" /\ declared = "exceeds" THEN "error" ELSE "read"
    BY DEF Reading!Init
  <1>2. Len(chunks) = 0 /\ chunks \in Seq(Nat)
    BY <1>1
  <1>3. Reading!TypeOK
    BY <1>1, <1>2, Limits DEF Reading!TypeOK
  <1>4. ChunksGrow
    BY <1>1, <1>2, Limits DEF ChunksGrow, Reading!Through
  <1>5. HandedOn
    BY <1>1, <1>2, Limits DEF HandedOn, Reading!Through
  <1>6. Reading!FullIsWhole /\ Reading!PrefixIsWhole
    BY <1>1 DEF Reading!FullIsWhole, Reading!PrefixIsWhole
  <1> QED BY <1>1, <1>3, <1>4, <1>5, <1>6 DEF ReadingInv

\* A chunk that is collected moves the end.
LEMMA ReceiveKeeps ==
    ASSUME ReadingInv, Reading!ReceiveChunk
    PROVE  ReadingInv'
  <1>1. PICK size \in Reading!Sizes \ {0} :
          chunks' = Append(chunks, sent + size) /\ sent' = sent + size
    BY DEF Reading!ReceiveChunk
  <1>2. /\ reader = "read" /\ sent <= Limit /\ Len(chunks) < MaxChunks
        /\ UNCHANGED <<mode, coded, declared, next, decoded, kept, body, reader>>
    BY DEF Reading!ReceiveChunk, Reading!ReadsOn
  <1>3. size \in Nat /\ 0 < size /\ size <= MaxChunk
    BY Limits DEF Reading!Sizes
  <1>4. chunks \in Seq(Nat) /\ sent \in Nat
    BY DEF ReadingInv, Reading!TypeOK
  <1>5. /\ chunks' \in Seq(Nat) /\ Len(chunks') = Len(chunks) + 1
        /\ \A i \in 1 .. Len(chunks) : chunks'[i] = chunks[i]
        /\ chunks'[Len(chunks) + 1] = sent + size
    BY <1>1, <1>3, <1>4
  <1>6. Reading!TypeOK'
    BY <1>1, <1>2, <1>3, <1>4, <1>5 DEF ReadingInv, Reading!TypeOK
  <1>7. \A i \in 0 .. Len(chunks) : Reading!Through(i)' = Reading!Through(i)
    BY <1>4, <1>5 DEF Reading!Through
  <1>8. ChunksGrow'
    <2> PICK n \in Nat : n = Len(chunks)
      BY <1>4
    <2>1. Reading!Through(n + 1)' = sent + size
      BY <1>4, <1>5 DEF Reading!Through
    <2>2. Len(chunks') <= MaxChunks /\ sent' <= Limit + MaxChunk
      BY <1>1, <1>2, <1>3, <1>4, <1>5, Limits
    <2>3. sent' = Reading!Through(Len(chunks))'
      BY <1>1, <1>5, <2>1 DEF Reading!Through
    <2>4. ASSUME NEW i \in 1 .. Len(chunks')
          PROVE  Reading!Through(i - 1)' < chunks'[i] /\ chunks'[i] <= sent'
      <3>1. CASE i <= Len(chunks)
        <4>1. i \in 1 .. Len(chunks) /\ i - 1 \in 0 .. Len(chunks)
          BY <1>4, <3>1
        <4>2. chunks[i] \in Nat
          BY <1>4, <4>1
        <4>3. Reading!Through(i - 1) < chunks[i] /\ chunks[i] <= sent
          BY <4>1 DEF ReadingInv, ChunksGrow
        <4>4. chunks'[i] = chunks[i] /\ Reading!Through(i - 1)' = Reading!Through(i - 1)
          BY <1>5, <1>7, <4>1
        <4> QED BY <1>1, <1>3, <1>4, <4>2, <4>3, <4>4
      <3>2. CASE i = Len(chunks) + 1
        <4>1. Reading!Through(i - 1)' = sent
          BY <1>4, <1>7, <3>2 DEF ReadingInv, ChunksGrow
        <4> QED BY <1>1, <1>3, <1>4, <1>5, <3>2, <4>1
      <3> QED BY <1>4, <1>5, <3>1, <3>2
    <2> QED BY <2>2, <2>3, <2>4 DEF ChunksGrow
  <1>9. HandedOn'
    BY <1>2, <1>4, <1>5 DEF ReadingInv, HandedOn, Reading!Through
  <1>10. Reading!FullIsWhole' /\ Reading!PrefixIsWhole'
    BY <1>2 DEF Reading!FullIsWhole, Reading!PrefixIsWhole
  <1> QED BY <1>2, <1>6, <1>8, <1>9, <1>10 DEF ReadingInv

\* Nothing moves in the chunks once they are collected.
LEMMA ChunksRest ==
    ASSUME ReadingInv, UNCHANGED <<chunks, sent>>
    PROVE  ChunksGrow' /\ \A n : Reading!Through(n)' = Reading!Through(n)
  <1>1. \A n : Reading!Through(n)' = Reading!Through(n)
    BY DEF Reading!Through
  <1>2. Reading!Through(Len(chunks))' = Reading!Through(Len(chunks))
    BY DEF Reading!Through
  <1> QED BY <1>1, <1>2 DEF ReadingInv, ChunksGrow

\* The numbers of a decoding step: what passes of a chunk stays below the limit.
LEMMA TakeBounds ==
    ASSUME NEW size \in Nat, NEW received \in 0 .. Limit
    PROVE  /\ Reading!Take(size, received) \in Nat
           /\ Reading!Oversized(size, received) => received + Reading!Take(size, received) = Limit
           /\ ~Reading!Oversized(size, received) =>
                 Reading!Take(size, received) = size /\ received + size <= Limit
           /\ Reading!Oversized(size, received) => received + size > Limit
  BY Limits DEF Reading!Take, Reading!Oversized

LEMMA DecodeKeeps ==
    ASSUME ReadingInv, Reading!DecodeChunk
    PROVE  ReadingInv'
  <1> DEFINE size == Reading!Through(next) - Reading!Through(next - 1)
             part == Reading!Take(size, kept)
  <1>1. /\ reader = "decode" /\ next <= Len(chunks) /\ next' = next + 1
        /\ UNCHANGED <<mode, coded, declared, chunks, sent>>
    BY DEF Reading!DecodeChunk
  <1>2. ChunksGrow' /\ \A n : Reading!Through(n)' = Reading!Through(n)
    BY <1>1, ChunksRest
  <1>3. /\ next \in Nat /\ 1 <= next /\ chunks \in Seq(Nat) /\ Len(chunks) \in Nat
        /\ sent \in Nat /\ decoded \in Nat /\ mode \in {"full", "prefix"} /\ coded \in BOOLEAN
        /\ Len(chunks) <= MaxChunks
    BY DEF ReadingInv, Reading!TypeOK, ChunksGrow
  <1>4. next \in 1 .. Len(chunks) /\ Reading!Through(next) = chunks[next] /\ chunks[next] \in Nat
    BY <1>1, <1>3 DEF Reading!Through
  <1>5. /\ kept = Reading!Through(next - 1) /\ kept \in 0 .. Limit /\ body = decoded
        /\ ~coded => decoded = kept
    BY <1>1 DEF ReadingInv, Reading!TypeOK, HandedOn
  <1>6. kept < chunks[next] /\ chunks[next] <= sent
    BY <1>4, <1>5 DEF ReadingInv, ChunksGrow
  <1>7. size \in Nat /\ kept + size = chunks[next] /\ kept + size <= sent
    BY <1>3, <1>4, <1>5, <1>6
  <1>8. body \in 0 .. Limit
    BY DEF ReadingInv, Reading!TypeOK
  <1>9. next' \in 1 .. MaxChunks + 1 /\ next' <= Len(chunks') + 1 /\ next' - 1 = next
    BY <1>1, <1>3, Limits
  <1> HIDE DEF size
  <1>10. /\ part \in Nat
         /\ Reading!Oversized(size, kept) => kept + part = Limit
         /\ ~Reading!Oversized(size, kept) => part = size /\ kept + size <= Limit
         /\ Reading!Oversized(size, kept) => kept + size > Limit
    BY <1>5, <1>7, TakeBounds
  <1>11. CASE Reading!Oversized(size, kept) /\ mode = "full"
    <2>1. reader' = "error" /\ UNCHANGED <<decoded, kept, body>>
      BY <1>11 DEF Reading!DecodeChunk, size
    <2>2. sent > Limit
      BY <1>3, <1>5, <1>7, <1>10, <1>11, Limits
    <2>3. Reading!TypeOK'
      BY <1>1, <1>9, <2>1 DEF ReadingInv, Reading!TypeOK
    <2>4. Reading!FullIsWhole' /\ Reading!PrefixIsWhole'
      BY <1>1, <1>11, <2>1, <2>2 DEF Reading!FullIsWhole, Reading!PrefixIsWhole
    <2> QED BY <1>2, <2>1, <2>3, <2>4 DEF ReadingInv
  <1>12. CASE ~(Reading!Oversized(size, kept) /\ mode = "full")
    <2>1. PICK made \in IF coded /\ part > 0 THEN Reading!Sizes ELSE {part} :
            /\ kept' = kept + part
            /\ decoded' = decoded + made
            /\ IF Reading!Oversized(made, body) /\ mode = "full"
               THEN reader' = "error" /\ UNCHANGED body
               ELSE /\ body' = body + Reading!Take(made, body)
                    /\ reader' = IF Reading!Oversized(made, body) \/ Reading!Oversized(size, kept)
                                 THEN "prefix" ELSE "decode"
      BY <1>12 DEF Reading!DecodeChunk, size
    <2>2. made \in Nat /\ (~coded => made = part)
      BY <1>10, Limits DEF Reading!Sizes
    <2>3. /\ Reading!Take(made, body) \in Nat
          /\ Reading!Oversized(made, body) => body + Reading!Take(made, body) = Limit
          /\ ~Reading!Oversized(made, body) =>
                Reading!Take(made, body) = made /\ body + made <= Limit
          /\ Reading!Oversized(made, body) => body + made > Limit
      BY <1>8, <2>2, TakeBounds
    <2>4. kept' \in Nat /\ kept' <= Limit /\ decoded' \in Nat
      BY <1>3, <1>5, <1>10, <2>1, <2>2, Limits
    <2>5. CASE Reading!Oversized(made, body) /\ mode = "full"
      <3>1. reader' = "error" /\ body' = body
        BY <2>1, <2>5
      <3>2. decoded' > Limit
        BY <1>3, <1>5, <1>8, <2>1, <2>2, <2>3, <2>5, Limits
      <3>3. Reading!TypeOK'
        BY <1>1, <1>9, <2>4, <3>1 DEF ReadingInv, Reading!TypeOK
      <3>4. Reading!FullIsWhole' /\ Reading!PrefixIsWhole'
        BY <1>1, <2>5, <3>1, <3>2 DEF Reading!FullIsWhole, Reading!PrefixIsWhole
      <3> QED BY <1>2, <3>1, <3>3, <3>4 DEF ReadingInv
    <2>6. CASE ~Reading!Oversized(made, body) /\ ~Reading!Oversized(size, kept)
      <3>1. reader' = "decode" /\ body' = body + made /\ kept' = kept + size
        BY <1>10, <2>1, <2>3, <2>6
      <3>2. body' \in 0 .. Limit /\ body' = decoded'
        BY <1>5, <1>8, <2>1, <2>2, <2>3, <2>6, <3>1, Limits
      <3>3. kept' = chunks[next]
        BY <1>7, <3>1
      <3>4. kept' = Reading!Through(next - 1)'
        BY <1>1, <1>3, <1>9, <3>3 DEF Reading!Through
      <3>5. ~coded => decoded' = kept'
        BY <1>5, <1>10, <2>1, <2>2
      <3>6. HandedOn'
        BY <1>1, <1>9, <2>4, <3>2, <3>4, <3>5 DEF HandedOn
      <3>7. Reading!TypeOK'
        BY <1>1, <1>9, <2>4, <3>1, <3>2 DEF ReadingInv, Reading!TypeOK
      <3>8. Reading!FullIsWhole' /\ Reading!PrefixIsWhole'
        BY <3>1 DEF Reading!FullIsWhole, Reading!PrefixIsWhole
      <3> QED BY <1>2, <3>1, <3>6, <3>7, <3>8 DEF ReadingInv
    <2>7. CASE /\ mode = "prefix"
               /\ Reading!Oversized(made, body) \/ Reading!Oversized(size, kept)
      <3>1. reader' = "prefix" /\ body' = body + Reading!Take(made, body)
        BY <2>1, <2>7
      <3>2. body' \in 0 .. Limit
        BY <1>8, <2>3, <3>1, Limits
      <3>3. body' = IF decoded' < Limit THEN decoded' ELSE Limit
        <4>1. body + Reading!Take(made, body) =
                IF body + made < Limit THEN body + made ELSE Limit
          <5>1. CASE Reading!Oversized(made, body)
            BY <1>8, <2>2, <2>3, <5>1, Limits
          <5>2. CASE ~Reading!Oversized(made, body)
            BY <1>8, <2>2, <2>3, <5>2, Limits
          <5> QED BY <5>1, <5>2
        <4> QED BY <1>5, <2>1, <3>1, <4>1
      <3>4. ~coded => ~Reading!Oversized(made, body)
        BY <1>3, <1>5, <1>10, <2>2, <2>3, Limits
      <3>5. ~coded => body' = IF sent < Limit THEN sent ELSE Limit
        BY <1>3, <1>5, <1>7, <1>10, <2>2, <2>3, <2>7, <3>1, <3>4, Limits
      <3>6. Reading!TypeOK'
        BY <1>1, <1>9, <2>4, <3>1, <3>2 DEF ReadingInv, Reading!TypeOK
      <3>7. Reading!FullIsWhole'
        BY <1>1, <2>7 DEF Reading!FullIsWhole
      <3>8. Reading!PrefixIsWhole'
        BY <1>1, <2>4, <3>1, <3>3, <3>5 DEF Reading!PrefixIsWhole
      <3> QED BY <1>2, <3>1, <3>6, <3>7, <3>8 DEF ReadingInv
    <2> QED BY <1>3, <1>12, <2>5, <2>6, <2>7
  <1> QED BY <1>11, <1>12

\* Reading ends, and so does decoding: then all of the chunks were handed on.
LEMMA EndsKeep ==
    ASSUME ReadingInv, Reading!ReadingEnds \/ Reading!DecodingEnds
    PROVE  ReadingInv'
  <1>1. UNCHANGED <<mode, coded, declared, chunks, sent, next, decoded, kept, body>>
    BY DEF Reading!ReadingEnds, Reading!DecodingEnds
  <1>2. ChunksGrow' /\ \A n : Reading!Through(n)' = Reading!Through(n)
    BY <1>1, ChunksRest
  <1>3. /\ kept = Reading!Through(next - 1) /\ kept <= Limit /\ body = decoded
        /\ next <= Len(chunks) + 1
        /\ ~coded => decoded = kept
    BY DEF ReadingInv, HandedOn, Reading!ReadingEnds, Reading!DecodingEnds
  <1>4. /\ next \in Nat /\ Len(chunks) \in Nat /\ body \in 0 .. Limit
        /\ sent = Reading!Through(Len(chunks))
    BY DEF ReadingInv, Reading!TypeOK, ChunksGrow
  <1>5. reader' \in {"decode", "complete"} /\ Reading!TypeOK'
    BY <1>1 DEF Reading!ReadingEnds, Reading!DecodingEnds, ReadingInv, Reading!TypeOK
  <1>6. HandedOn'
    <2>1. Reading!Through(next - 1)' = Reading!Through(next - 1)
      BY <1>1 DEF Reading!Through
    <2> QED BY <1>1, <1>3, <2>1 DEF HandedOn
  <1>7. CASE reader' = "decode"
    BY <1>2, <1>5, <1>6, <1>7 DEF ReadingInv, Reading!FullIsWhole, Reading!PrefixIsWhole
  <1>8. CASE reader' = "complete"
    <2>1. next > Len(chunks)
      BY <1>8 DEF Reading!ReadingEnds, Reading!DecodingEnds
    <2>2. next - 1 = Len(chunks)
      BY <1>3, <1>4, <2>1
    <2>3. kept = sent
      BY <1>3, <1>4, <2>2
    <2>4. body' = decoded' /\ sent' = kept' /\ sent' <= Limit /\ body' <= Limit
          /\ (~coded' => body' = sent')
      BY <1>1, <1>3, <1>4, <2>3
    <2>5. body' \in Nat /\ sent' \in Nat
      BY <1>5 DEF Reading!TypeOK
    <2>6. /\ body' = IF decoded' < Limit THEN decoded' ELSE Limit
          /\ ~coded' => body' = IF sent' < Limit THEN sent' ELSE Limit
      BY <2>4, <2>5, Limits
    <2> QED BY <1>2, <1>5, <1>8, <2>4, <2>6
         DEF ReadingInv, Reading!FullIsWhole, Reading!PrefixIsWhole
  <1> QED BY <1>5, <1>7, <1>8

LEMMA ReadingRest ==
    ASSUME ReadingInv, UNCHANGED readingVars
    PROVE  ReadingInv'
  <1>1. UNCHANGED <<mode, coded, declared, chunks, sent, next, decoded, kept, body, reader>>
    BY DEF readingVars
  <1>2. ChunksGrow' /\ \A n : Reading!Through(n)' = Reading!Through(n)
    BY <1>1, ChunksRest
  <1>3. HandedOn => HandedOn'
    <2>1. Reading!Through(next - 1)' = Reading!Through(next - 1)
      BY <1>1 DEF Reading!Through
    <2> QED BY <1>1, <2>1 DEF HandedOn
  <1>4. Reading!TypeOK' /\ Reading!FullIsWhole' /\ Reading!PrefixIsWhole'
    BY <1>1 DEF ReadingInv, Reading!TypeOK, Reading!FullIsWhole, Reading!PrefixIsWhole
  <1> QED BY <1>1, <1>2, <1>3, <1>4 DEF ReadingInv

LEMMA ReadingHolds == Spec => []ReadingInv
  <1>1. [Next]_vars => Reading!Next \/ UNCHANGED readingVars
    BY DEF Next, vars, readingVars
  <1>2. ReadingInv /\ Reading!Next => ReadingInv'
    BY ReceiveKeeps, DecodeKeeps, EndsKeep DEF Reading!Next
  <1>3. Init => ReadingInv
    BY ReadingStarts DEF Init, ReadingRests
  <1> QED BY <1>1, <1>2, <1>3, ReadingRest, PTL DEF Spec

-----------------------------------------------------------------------------
(***************************************************************************)
(* Decoding bodies.                                                        *)
(***************************************************************************)
\* The bytes of the body that the decoder is done with.
Done == Len(bytes) - Len(input) - Len(rest)

\* The data among the first n bytes of w.
Data(w, n) == Cardinality({i \in 1 .. n : w[i] = "d"})

\* s stands in w behind the first n bytes.
Piece(w, n, s) == \A i \in 1 .. Len(s) : s[i] = w[n + i]

\* _input and what has not arrived are the rest of the body.
Aligned ==
    /\ Len(bytes) <= MaxWire
    /\ Done \in Nat
    /\ Piece(bytes, Done, input)
    /\ Piece(bytes, Done + Len(input), rest)

\* The parts of a gzip body that may follow each other.
Follows(x, y) == IF x \in {"h", "d"} THEN y \in {"d", "e"} ELSE y \in {"h", "0"}

\* The first n bytes of w are the beginning of a gzip body.
GzipBegins(w, n) ==
    /\ n > 0 => w[1] = "h"
    /\ \A i \in 1 .. n - 1 : Follows(w[i], w[i + 1])

\* The state s of the decompressor, after c members, tells where it is in them.
GzipAt(w, n, s, c) ==
    /\ GzipBegins(w, n)
    /\ s \in {"none", "body"}
    /\ s = "none" => IF c = 0 THEN n = 0 ELSE n > 0 /\ w[n] \in {"e", "0"}
    /\ s = "body" => n > 0 /\ w[n] \in {"h", "d"}

\* How a deflate body opens, and how long its header is.
Opened(w) == w[1] = "b" \/ (w[1] = "z" /\ w[2] = "y")

Opening(w) == IF w[1] = "z" THEN 2 ELSE 1

\* The first n bytes of w are the header of a deflate body, data, and its end when the
\* state s is at its end.
DeflateAt(w, n, s) ==
    /\ s \in {"none", "body", "eof"}
    /\ s = "none" => n = 0
    /\ s # "none" => Opened(w) /\ Opening(w) <= n
    /\ s = "body" => \A i \in Opening(w) + 1 .. n : w[i] = "d"
    /\ s = "eof" =>
          /\ Opening(w) < n /\ w[n] = "e"
          /\ \A i \in Opening(w) + 1 .. n - 1 : w[i] = "d"

\* A call hands on all it decoded, and leaves nothing in _input unless it has to be
\* repeated, or is too short to tell how a deflate body opens.
InputUsed ==
    decoder = "feed" =>
        /\ call = 0
        /\ input = <<>> \/ (coding = "deflate" /\ stream = "none" /\ Len(input) < 2)

CodingInv ==
    /\ Coding!TypeOK
    /\ Aligned
    /\ coding = "gzip" => GzipAt(bytes, Done, stream, completed)
    /\ coding = "deflate" => DeflateAt(bytes, Done, stream) /\ call = 0
    /\ InputUsed
    /\ output + call = Data(bytes, Done)
    /\ Coding!DecodesTheWhole

\* A set of numbers has a least one: numbers are well founded.
LEMMA LeastExists ==
    ASSUME NEW T, T \subseteq Nat, T # {}
    PROVE  \E m \in T : \A k \in T : m <= k
  <1>1. IsWellFoundedOn(OpToRel(<, Nat), Nat)
    BY NatLessThanWellFounded, Zenon
  <1>2. PICK m \in T : \A k \in T : ~(<<k, m>> \in OpToRel(<, Nat))
    BY <1>1, WFMin, Zenon
  <1>3. \A k \in T : ~(k < m)
    BY <1>2 DEF OpToRel
  <1> QED BY <1>3

\* How far a symbol runs at the head of a sequence.
LEMMA RunExists ==
    ASSUME NEW S, NEW s \in Seq(S), NEW x
    PROVE  \E n \in 0 .. Len(s) :
             /\ \A i \in 1 .. n : s[i] = x
             /\ n < Len(s) => s[n + 1] # x
  <1> DEFINE T == {n \in 0 .. Len(s) : n < Len(s) => s[n + 1] # x}
  <1>1. Len(s) \in T /\ T \subseteq Nat
    OBVIOUS
  <1>2. PICK n \in T : \A k \in T : n <= k
    BY <1>1, LeastExists
  <1>3. ASSUME NEW i \in 1 .. n PROVE s[i] = x
    <2>1. i - 1 \in 0 .. Len(s) /\ i - 1 < n /\ i - 1 < Len(s) /\ (i - 1) + 1 = i
      BY <1>2
    <2>2. i - 1 \notin T
      BY <1>2, <2>1
    <2> QED BY <2>1, <2>2
  <1> QED BY <1>2, <1>3

\* What DataRun and Nulls choose is there to be chosen.
LEMMA DataRunSound ==
    ASSUME NEW S, NEW s \in Seq(S)
    PROVE  /\ Coding!DataRun(s) \in 0 .. Len(s)
           /\ \A i \in 1 .. Coding!DataRun(s) : s[i] = "d"
           /\ Coding!DataRun(s) < Len(s) => s[Coding!DataRun(s) + 1] # "d"
  BY RunExists DEF Coding!DataRun

LEMMA NullsSound ==
    ASSUME NEW S, NEW s \in Seq(S)
    PROVE  /\ Coding!Nulls(s) \in 0 .. Len(s)
           /\ \A i \in 1 .. Coding!Nulls(s) : s[i] = "0"
           /\ Coding!Nulls(s) < Len(s) => s[Coding!Nulls(s) + 1] # "0"
  BY RunExists DEF Coding!Nulls

\* What is left of a sequence behind its first k elements.
LEMMA Suffix ==
    ASSUME NEW S, NEW s \in Seq(S), NEW k \in 0 .. Len(s)
    PROVE  /\ SubSeq(s, k + 1, Len(s)) \in Seq(S)
           /\ Len(SubSeq(s, k + 1, Len(s))) = Len(s) - k
           /\ \A i \in 1 .. Len(s) - k : SubSeq(s, k + 1, Len(s))[i] = s[k + i]
  OBVIOUS

\* Counting data, byte by byte and along a stretch of one kind.
LEMMA DataCounts ==
    ASSUME NEW w, NEW n \in Nat
    PROVE  IsFiniteSet({i \in 1 .. n : w[i] = "d"}) /\ Data(w, n) \in Nat
  <1>1. IsFiniteSet(1 .. n)
    BY FS_Interval
  <1>2. {i \in 1 .. n : w[i] = "d"} \in SUBSET (1 .. n)
    OBVIOUS
  <1>3. IsFiniteSet({i \in 1 .. n : w[i] = "d"})
    BY <1>1, <1>2, FS_Subset
  <1> QED BY <1>3, FS_CardinalityType DEF Data

LEMMA NoDataYet == ASSUME NEW w PROVE Data(w, 0) = 0
  <1>1. {i \in 1 .. 0 : w[i] = "d"} = {}
    OBVIOUS
  <1> QED BY <1>1, FS_EmptySet DEF Data

LEMMA DataRunCounts ==
    ASSUME NEW w, NEW n \in Nat, NEW m \in Nat, n <= m, \A i \in n + 1 .. m : w[i] = "d"
    PROVE  Data(w, m) = Data(w, n) + (m - n)
  <1> DEFINE A == {i \in 1 .. n : w[i] = "d"}
             B == n + 1 .. m
  <1>1. {i \in 1 .. m : w[i] = "d"} = A \cup B
    OBVIOUS
  <1>2. A \cap B = {}
    OBVIOUS
  <1>3. IsFiniteSet(A) /\ Cardinality(A) \in Nat
    BY DataCounts DEF Data
  <1>4. IsFiniteSet(B) /\ Cardinality(B) = m - n
    <2>1. n + 1 \in Int /\ m \in Int
      OBVIOUS
    <2>2. IsFiniteSet(B) /\ Cardinality(B) = IF n + 1 > m THEN 0 ELSE m - (n + 1) + 1
      BY <2>1, FS_Interval
    <2> QED BY <2>2
  <1>5. Cardinality(A \cap B) = 0
    BY <1>2, FS_EmptySet
  <1>6. Cardinality(A \cup B) = Cardinality(A) + Cardinality(B) - Cardinality(A \cap B)
    BY <1>3, <1>4, FS_Union
  <1>7. Data(w, m) = Cardinality(A \cup B) /\ Data(w, n) = Cardinality(A)
    BY <1>1 DEF Data
  <1> HIDE DEF A, B
  <1> QED BY <1>3, <1>4, <1>5, <1>6, <1>7

LEMMA DataSkips ==
    ASSUME NEW w, NEW n \in Nat, NEW m \in Nat, n <= m, \A i \in n + 1 .. m : w[i] # "d"
    PROVE  Data(w, m) = Data(w, n)
  <1>1. {i \in 1 .. m : w[i] = "d"} = {i \in 1 .. n : w[i] = "d"}
    OBVIOUS
  <1> QED BY <1>1 DEF Data

\* A prefix, byte by byte.
LEMMA PrefixMeans ==
    ASSUME NEW S, NEW s \in Seq(S), NEW t \in Seq(S)
    PROVE  Coding!IsPrefix(s, t) <=> Len(s) <= Len(t) /\ \A i \in 1 .. Len(s) : s[i] = t[i]
  <1> SUFFICES ASSUME Len(s) <= Len(t)
               PROVE  SubSeq(s, 1, Len(s)) = SubSeq(t, 1, Len(s)) <=>
                        \A i \in 1 .. Len(s) : s[i] = t[i]
    BY DEF Coding!IsPrefix
  <1> DEFINE u == SubSeq(t, 1, Len(s))
  <1>1. u \in Seq(S) /\ Len(u) = Len(s) /\ \A i \in 1 .. Len(s) : u[i] = t[i]
    OBVIOUS
  <1>2. SubSeq(s, 1, Len(s)) = s
    BY SubSeqFull
  <1>3. s = u <=> \A i \in 1 .. Len(s) : s[i] = u[i]
    BY <1>1, SeqEqual
  <1> QED BY <1>1, <1>2, <1>3

Kinds == {"gzip", "zlib", "raw", "body"}

\* The headers, and their lengths.
LEMMA Headers ==
    /\ Coding!Header("gzip") = <<"h">>
    /\ Coding!Header("zlib") = <<"z", "y">>
    /\ Coding!Header("raw") = <<"b">>
    /\ Coding!Header("body") = <<>>
  BY DEF Coding!Header

LEMMA HeaderLengths ==
    ASSUME NEW kind \in Kinds
    PROVE  Len(Coding!Header(kind)) \in Nat
  BY Headers DEF Kinds

\* What a call of zlib that made a result of s took from its head.
Used(head, made) == head + made.out + (IF made.eof THEN 1 ELSE 0)

\* The result made of s, which has a header of head bytes: data, perhaps the end of the
\* stream, and what is left.
Makes(S, s, head, limit, made) ==
    /\ made.out \in 0 .. limit /\ made.eof \in BOOLEAN
    /\ Used(head, made) \in 0 .. Len(s)
    /\ \A i \in 1 .. made.out : s[head + i] = "d"
    /\ made.eof => s[Used(head, made)] = "e"
    /\ ~made.eof /\ made.out < limit => Used(head, made) = Len(s)
    /\ made.left \in Seq(S) /\ Len(made.left) = Len(s) - Used(head, made)
    /\ \A i \in 1 .. Len(made.left) : made.left[i] = s[Used(head, made) + i]

\* What zlib makes of bytes that are well formed.
LEMMA DecompressSound ==
    ASSUME NEW S, NEW s \in Seq(S), NEW kind \in Kinds, NEW limit \in Nat \ {0},
           Len(Coding!Header(kind)) <= Len(s), Coding!WellFormed(kind, s)
    PROVE  Makes(S, s, Len(Coding!Header(kind)), limit, Coding!Decompress(kind, s, limit))
  <1> DEFINE made == Coding!Decompress(kind, s, limit)
             head == Len(Coding!Header(kind))
             used == Used(head, made)
             b == Coding!Body(kind, s)
             run == Coding!DataRun(b)
             out == IF run < limit THEN run ELSE limit
             ends == /\ out = run /\ run < Len(b)
                     /\ out < limit \/ eager
             from == out + (IF ends THEN 1 ELSE 0)
  <1>1. head \in Nat /\ head <= Len(s)
    BY HeaderLengths
  <1>2. /\ b \in Seq(S) /\ Len(b) = Len(s) - head
        /\ \A i \in 1 .. Len(s) - head : b[i] = s[head + i]
    BY <1>1, Suffix DEF Coding!Body
  <1>3. /\ run \in 0 .. Len(b)
        /\ \A i \in 1 .. run : b[i] = "d"
        /\ run < Len(b) => b[run + 1] = "e"
    BY <1>2, DataRunSound DEF Coding!WellFormed
  <1>4. /\ made.out = out /\ made.eof = ends
        /\ made.left = SubSeq(b, from + 1, Len(b))
    BY DEF Coding!Decompress
  <1> HIDE DEF made, b, run
  <1>5. out \in 0 .. limit /\ out <= run /\ out <= Len(b) /\ ends \in BOOLEAN
    BY <1>2, <1>3
  <1>6. from \in 0 .. Len(b)
    BY <1>2, <1>3, <1>5
  <1>7. used = head + from
    BY <1>1, <1>4, <1>5 DEF Used
  <1>e. ends => from = run + 1 /\ run < Len(b)
    BY <1>3
  <1>f. ~ends /\ out < limit => from = Len(b)
    <2> SUFFICES ASSUME ~ends, out < limit PROVE from = Len(b)
      OBVIOUS
    <2>1. out = run
      BY <1>2, <1>3
    <2>2. ~(run < Len(b))
      BY <2>1, Zenon
    <2>3. from = out
      BY <1>5
    <2>4. Len(b) \in Nat /\ run \in 0 .. Len(b)
      BY <1>2, <1>3
    <2>5. run = Len(b)
      BY <2>2, <2>4
    <2> HIDE DEF from, out
    <2> QED BY <2>1, <2>3, <2>5
  <1> HIDE DEF from, ends, out, used
  <1>8. /\ made.left \in Seq(S) /\ Len(made.left) = Len(b) - from
        /\ \A i \in 1 .. Len(b) - from : made.left[i] = b[from + i]
    <2> DEFINE tail == SubSeq(b, from + 1, Len(b))
    <2>1. /\ tail \in Seq(S) /\ Len(tail) = Len(b) - from
          /\ \A i \in 1 .. Len(b) - from : tail[i] = b[from + i]
      BY <1>2, <1>6, Suffix
    <2>2. made.left = tail
      BY <1>4
    <2> HIDE DEF tail
    <2> QED BY <2>1, <2>2
  <1>9. used \in 0 .. Len(s)
    BY <1>1, <1>2, <1>6, <1>7
  <1>10. \A i \in 1 .. made.out : s[head + i] = "d"
    <2> TAKE i \in 1 .. made.out
    <2>1. i \in 1 .. run /\ i \in 1 .. Len(s) - head
      BY <1>2, <1>3, <1>4, <1>5
    <2> QED BY <1>2, <1>3, <2>1
  <1>11. made.eof => s[used] = "e"
    <2> SUFFICES ASSUME ends PROVE s[used] = "e"
      BY <1>4
    <2>1. from = run + 1 /\ run < Len(b)
      BY <1>e
    <2>2. from \in 1 .. Len(s) - head
      BY <1>2, <1>3, <2>1
    <2> QED BY <1>2, <1>3, <1>7, <2>1, <2>2
  <1>12. ~made.eof /\ made.out < limit => used = Len(s)
    BY <1>1, <1>2, <1>4, <1>7, <1>f
  <1>13. \A i \in 1 .. Len(made.left) : made.left[i] = s[used + i]
    <2> TAKE i \in 1 .. Len(made.left)
    <2>1. /\ i \in 1 .. Len(b) - from /\ from + i \in 1 .. Len(s) - head
          /\ head + (from + i) = used + i
      BY <1>1, <1>2, <1>6, <1>7, <1>8
    <2> QED BY <1>2, <1>8, <2>1
  <1>14. Len(made.left) = Len(s) - used
    BY <1>1, <1>2, <1>6, <1>7, <1>8
  <1>15. made.out \in 0 .. limit /\ made.eof \in BOOLEAN
    BY <1>4, <1>5
  <1> HIDE DEF head
  <1> QED BY <1>8, <1>9, <1>10, <1>11, <1>12, <1>13, <1>14, <1>15
       DEF made, used, head, Makes

\* s goes wrong behind its first head bytes: after data that is not followed by an end.
Breaks(s, head) ==
    \E k \in head + 1 .. Len(s) :
        s[k] \notin {"d", "e"} /\ \A i \in head + 1 .. k - 1 : s[i] = "d"

\* What zlib refuses goes wrong behind the header, when there is one.
LEMMA IllFormedSound ==
    ASSUME NEW S, NEW s \in Seq(S), NEW kind \in Kinds,
           Coding!IsPrefix(Coding!Header(kind), s), ~Coding!WellFormed(kind, s)
    PROVE  Breaks(s, Len(Coding!Header(kind)))
  <1> DEFINE head == Len(Coding!Header(kind))
             b == Coding!Body(kind, s)
             run == Coding!DataRun(b)
  <1>1. head \in Nat /\ head <= Len(s)
    BY HeaderLengths DEF Coding!IsPrefix
  <1>2. /\ b \in Seq(S) /\ Len(b) = Len(s) - head
        /\ \A i \in 1 .. Len(s) - head : b[i] = s[head + i]
    BY <1>1, Suffix DEF Coding!Body
  <1>3. /\ run \in 0 .. Len(b)
        /\ \A i \in 1 .. run : b[i] = "d"
        /\ run < Len(b) => b[run + 1] # "d"
    BY <1>2, DataRunSound
  <1>4. run < Len(b) /\ b[run + 1] # "e"
    BY DEF Coding!WellFormed
  <1> HIDE DEF head, b, run
  <1>5. head + run + 1 \in head + 1 .. Len(s) /\ run + 1 \in 1 .. Len(s) - head
    BY <1>1, <1>2, <1>3, <1>4
  <1>6. s[head + run + 1] \notin {"d", "e"}
    <2>1. s[head + (run + 1)] = b[run + 1]
      BY <1>2, <1>5
    <2>2. head + run + 1 = head + (run + 1)
      BY <1>1, <1>3
    <2> QED BY <1>3, <1>4, <2>1, <2>2
  <1>7. ASSUME NEW i \in head + 1 .. head + run PROVE s[i] = "d"
    <2>1. i - head \in 1 .. run /\ i - head \in 1 .. Len(s) - head /\ head + (i - head) = i
      BY <1>1, <1>2, <1>3
    <2> QED BY <1>2, <1>3, <2>1
  <1>8. (head + run + 1) - 1 = head + run
    BY <1>1, <1>3
  <1> QED BY <1>5, <1>6, <1>7, <1>8 DEF head, Breaks

-----------------------------------------------------------------------------
\* The beginning of a gzip body grows by what may follow it: padding behind a member, a
\* header, data, and the end of a member.
LEMMA GzipGrows ==
    ASSUME NEW w, NEW n \in Nat, NEW m \in Nat, n <= m, GzipBegins(w, n),
           n = 0 /\ m > 0 => w[1] = "h",
           \A i \in 1 .. m - 1 : i >= n => Follows(w[i], w[i + 1])
    PROVE  GzipBegins(w, m)
  BY DEF GzipBegins

LEMMA GzipPads ==
    ASSUME NEW w, NEW n \in Nat, NEW k \in Nat, NEW c \in Nat \ {0}, GzipAt(w, n, "none", c),
           \A i \in n + 1 .. n + k : w[i] = "0"
    PROVE  GzipAt(w, n + k, "none", c)
  <1>1. n > 0 /\ w[n] \in {"e", "0"} /\ GzipBegins(w, n)
    BY DEF GzipAt
  <1>2. \A i \in n .. n + k : w[i] \in {"e", "0"}
    BY <1>1
  <1>3. ASSUME NEW i \in 1 .. (n + k) - 1, i >= n PROVE Follows(w[i], w[i + 1])
    <2>1. i \in n .. n + k /\ i + 1 \in n + 1 .. n + k
      BY <1>3
    <2> QED BY <1>2, <2>1 DEF Follows
  <1>4. n + k \in Nat /\ n <= n + k /\ n + k > 0 /\ n + k \in n .. n + k
    BY <1>1
  <1>5. GzipBegins(w, n + k)
    BY <1>1, <1>3, <1>4, GzipGrows
  <1> QED BY <1>2, <1>4, <1>5 DEF GzipAt

LEMMA GzipOpens ==
    ASSUME NEW w, NEW n \in Nat, NEW c \in Nat, GzipAt(w, n, "none", c), w[n + 1] = "h"
    PROVE  GzipAt(w, n + 1, "body", c)
  <1>1. GzipBegins(w, n) /\ (n > 0 => w[n] \in {"e", "0"})
    BY DEF GzipAt
  <1>2. ASSUME NEW i \in 1 .. (n + 1) - 1, i >= n PROVE Follows(w[i], w[i + 1])
    BY <1>1, <1>2 DEF Follows
  <1>3. n + 1 \in Nat /\ n <= n + 1 /\ n + 1 > 0
    OBVIOUS
  <1>4. n = 0 => w[1] = "h"
    OBVIOUS
  <1>5. GzipBegins(w, n + 1)
    BY <1>1, <1>2, <1>3, <1>4, GzipGrows
  <1> QED BY <1>3, <1>5 DEF GzipAt

LEMMA GzipRuns ==
    ASSUME NEW w, NEW n \in Nat, NEW k \in Nat, NEW c \in Nat, GzipAt(w, n, "body", c),
           \A i \in n + 1 .. n + k : w[i] = "d"
    PROVE  GzipAt(w, n + k, "body", c)
  <1>1. n > 0 /\ w[n] \in {"h", "d"} /\ GzipBegins(w, n)
    BY DEF GzipAt
  <1>2. \A i \in n .. n + k : w[i] \in {"h", "d"}
    BY <1>1
  <1>3. ASSUME NEW i \in 1 .. (n + k) - 1, i >= n PROVE Follows(w[i], w[i + 1])
    <2>1. i \in n .. n + k /\ i + 1 \in n + 1 .. n + k
      BY <1>3
    <2> QED BY <1>2, <2>1 DEF Follows
  <1>4. n + k \in Nat /\ n <= n + k /\ n + k > 0 /\ n + k \in n .. n + k
    BY <1>1
  <1>5. GzipBegins(w, n + k)
    BY <1>1, <1>3, <1>4, GzipGrows
  <1> QED BY <1>2, <1>4, <1>5 DEF GzipAt

LEMMA GzipEnds ==
    ASSUME NEW w, NEW n \in Nat, NEW c \in Nat, GzipAt(w, n, "body", c), w[n + 1] = "e"
    PROVE  GzipAt(w, n + 1, "none", c + 1)
  <1>1. n > 0 /\ w[n] \in {"h", "d"} /\ GzipBegins(w, n)
    BY DEF GzipAt
  <1>2. ASSUME NEW i \in 1 .. (n + 1) - 1, i >= n PROVE Follows(w[i], w[i + 1])
    <2>1. i = n
      BY <1>2
    <2> QED BY <1>1, <2>1 DEF Follows
  <1>3. n + 1 \in Nat /\ n <= n + 1 /\ n + 1 > 0 /\ c + 1 # 0 /\ n # 0
    BY <1>1
  <1>4. GzipBegins(w, n + 1)
    BY <1>1, <1>2, <1>3, GzipGrows
  <1> QED BY <1>3, <1>4 DEF GzipAt

\* What a gzip body is, byte by byte.
LEMMA GzipMeans ==
    ASSUME bytes \in Seq(Coding!Alphabet), Coding!GzipBody
    PROVE  /\ Len(bytes) > 0 /\ bytes[1] = "h" /\ bytes[Len(bytes)] \notin {"h", "d"}
           /\ \A i \in 1 .. Len(bytes) - 1 : Follows(bytes[i], bytes[i + 1])
  <1> DEFINE After(i) == IF i = Len(bytes) THEN "." ELSE bytes[i + 1]
  <1>1. Len(bytes) > 0 /\ bytes[1] = "h"
    BY EmptySeq DEF Coding!GzipBody
  <1>2. ASSUME NEW i \in 1 .. Len(bytes)
        PROVE  IF bytes[i] \in {"h", "d"} THEN After(i) \in {"d", "e"}
               ELSE After(i) \in {"h", "0", "."}
    BY DEF Coding!GzipBody
  <1>3. Len(bytes) \in 1 .. Len(bytes) /\ After(Len(bytes)) = "."
    BY <1>1
  <1>4. bytes[Len(bytes)] \notin {"h", "d"}
    BY <1>2, <1>3
  <1>5. ASSUME NEW i \in 1 .. Len(bytes) - 1 PROVE Follows(bytes[i], bytes[i + 1])
    <2>1. i \in 1 .. Len(bytes) /\ i + 1 \in 1 .. Len(bytes) /\ After(i) = bytes[i + 1]
      OBVIOUS
    <2>2. bytes[i + 1] # "."
      <3>1. bytes[i + 1] \in Coding!Alphabet
        BY <2>1
      <3> QED BY <3>1 DEF Coding!Alphabet
    <2> QED BY <1>2, <2>1, <2>2 DEF Follows
  <1> QED BY <1>1, <1>4, <1>5

\* The decompressor between two members at the end of the wire has seen a whole body.
LEMMA GzipWhole ==
    ASSUME bytes \in Seq(Coding!Alphabet), NEW c \in Nat \ {0},
           GzipAt(bytes, Len(bytes), "none", c)
    PROVE  Coding!GzipBody
  <1>1. /\ GzipBegins(bytes, Len(bytes)) /\ Len(bytes) > 0
        /\ bytes[Len(bytes)] \in {"e", "0"}
    BY DEF GzipAt
  <1>2. bytes # <<>> /\ bytes[1] = "h"
    BY <1>1 DEF GzipBegins
  <1>3. ASSUME NEW i \in 1 .. Len(bytes)
        PROVE  LET next_1 == IF i = Len(bytes) THEN "." ELSE bytes[i + 1] IN
               CASE bytes[i] \in {"h", "d"} -> next_1 \in {"d", "e"}
                 [] OTHER -> next_1 \in {"h", "0", "."}
    <2>1. CASE i = Len(bytes)
      BY <1>1, <2>1
    <2>2. CASE i # Len(bytes)
      <3>1. i \in 1 .. Len(bytes) - 1
        BY <2>2
      <3>2. Follows(bytes[i], bytes[i + 1])
        BY <1>1, <3>1 DEF GzipBegins
      <3> QED BY <2>2, <3>2 DEF Follows
    <2> QED BY <2>1, <2>2
  <1> QED BY <1>2, <1>3 DEF Coding!GzipBody

\* Where no part may follow the last one there is no gzip body.
LEMMA GzipBroken ==
    ASSUME bytes \in Seq(Coding!Alphabet), NEW k \in 2 .. Len(bytes),
           ~Follows(bytes[k - 1], bytes[k])
    PROVE  ~Coding!GzipBody
  <1>1. k - 1 \in 1 .. Len(bytes) - 1 /\ (k - 1) + 1 = k
    OBVIOUS
  <1> QED BY <1>1, GzipMeans

\* The numbers of the decoders.
LEMMA ChunkSize == ChunkBytes \in Nat /\ ChunkBytes > 0 /\ MaxWire \in Nat
  BY TransportAssumption

\* The types of the decoder's state, and where it is in the body.
LEMMA CodingTypes ==
    ASSUME CodingInv
    PROVE  /\ bytes \in Seq(Coding!Alphabet) /\ input \in Seq(Coding!Alphabet)
           /\ rest \in Seq(Coding!Alphabet)
           /\ Len(bytes) \in Nat /\ Len(input) \in Nat /\ Len(rest) \in Nat /\ Done \in Nat
           /\ Len(bytes) = Done + Len(input) + Len(rest)
           /\ completed \in Nat /\ output \in Nat /\ call \in 0 .. ChunkBytes - 1
  <1>1. /\ bytes \in Seq(Coding!Alphabet) /\ input \in Seq(Coding!Alphabet)
        /\ rest \in Seq(Coding!Alphabet)
        /\ completed \in Nat /\ output \in Nat /\ call \in 0 .. ChunkBytes - 1
    BY DEF CodingInv, Coding!TypeOK
  <1>2. Len(bytes) \in Nat /\ Len(input) \in Nat /\ Len(rest) \in Nat
    BY <1>1
  <1>3. Done \in Nat
    BY DEF CodingInv, Aligned
  <1> QED BY <1>1, <1>2, <1>3 DEF Done

\* A call that keeps the end q of what it was given moves on to the byte before it.
LEMMA InputMoves ==
    ASSUME CodingInv, NEW q \in Seq(Coding!Alphabet), NEW m \in Nat,
           m + Len(q) = Done + Len(input), Piece(bytes, m, q),
           input' = q, UNCHANGED <<bytes, rest>>
    PROVE  Done' = m /\ Aligned'
  <1>1. /\ Len(bytes) \in Nat /\ Len(rest) \in Nat /\ Len(input) \in Nat /\ Done \in Nat
        /\ Len(bytes) = Done + Len(input) + Len(rest)
    BY CodingTypes
  <1>2. Len(q) \in Nat
    OBVIOUS
  <1>3. Len(bytes) - Len(q) - Len(rest) = m
    BY <1>1, <1>2
  <1>4. Done' = m
    BY <1>3 DEF Done
  <1>5. Piece(bytes, m + Len(q), rest)
    BY DEF CodingInv, Aligned
  <1>6. Piece(bytes, Done, input)' /\ Piece(bytes, Done + Len(input), rest)'
    BY <1>4, <1>5 DEF Piece
  <1>7. Len(bytes) <= MaxWire
    BY DEF CodingInv, Aligned
  <1> QED BY <1>4, <1>6, <1>7 DEF Aligned

\* The end of a piece is a piece further on.
LEMMA PieceEnds ==
    ASSUME NEW w, NEW S, NEW s \in Seq(S), NEW q \in Seq(S), NEW n \in Nat, NEW k \in Nat,
           k + Len(q) = Len(s), Piece(w, n, s), \A i \in 1 .. Len(q) : q[i] = s[k + i]
    PROVE  Piece(w, n + k, q)
  <1> SUFFICES ASSUME NEW i \in 1 .. Len(q) PROVE q[i] = w[n + k + i]
    BY DEF Piece
  <1>1. k + i \in 1 .. Len(s) /\ n + (k + i) = n + k + i
    OBVIOUS
  <1>2. s[k + i] = w[n + (k + i)]
    BY <1>1 DEF Piece
  <1> QED BY <1>1, <1>2

\* What padding is skipped before the next member.
LEMMA PaddingSound ==
    ASSUME CodingInv, coding = "gzip"
    PROVE  \E k \in 0 .. Len(input) :
             LET p == Coding!Padding(input)
             IN  /\ p \in Seq(Coding!Alphabet) /\ k + Len(p) = Len(input)
                 /\ Piece(bytes, Done + k, p)
                 /\ \A i \in Done + 1 .. Done + k : bytes[i] = "0"
                 /\ stream # "none" \/ completed = 0 => k = 0
                 /\ stream = "none" /\ completed > 0 /\ Len(p) > 0 => p[1] # "0"
  <1> DEFINE p == Coding!Padding(input)
             k == Coding!Nulls(input)
  <1>1. /\ input \in Seq(Coding!Alphabet) /\ Len(input) \in Nat /\ Done \in Nat
        /\ completed \in Nat
    BY CodingTypes
  <1>2. Piece(bytes, Done, input)
    BY DEF CodingInv, Aligned
  <1>3. CASE ~(stream = "none" /\ completed > 0)
    <2>1. p = input
      BY <1>3 DEF Coding!Padding
    <2> HIDE DEF p
    <2>2. Piece(bytes, Done + 0, p)
      BY <1>1, <1>2, <2>1
    <2>3. \A i \in Done + 1 .. Done + 0 : bytes[i] = "0"
      BY <1>1
    <2>4. 0 \in 0 .. Len(input) /\ 0 + Len(p) = Len(input)
      BY <1>1, <2>1
    <2> QED BY <1>1, <1>3, <2>1, <2>2, <2>3, <2>4 DEF p
  <1>4. CASE stream = "none" /\ completed > 0
    <2>1. /\ k \in 0 .. Len(input)
          /\ \A i \in 1 .. k : input[i] = "0"
          /\ k < Len(input) => input[k + 1] # "0"
      BY <1>1, NullsSound
    <2>2. p = SubSeq(input, k + 1, Len(input))
      BY <1>4 DEF Coding!Padding
    <2> HIDE DEF p, k
    <2>3. /\ p \in Seq(Coding!Alphabet) /\ Len(p) = Len(input) - k
          /\ \A i \in 1 .. Len(input) - k : p[i] = input[k + i]
      BY <1>1, <2>1, <2>2, Suffix
    <2>4. k \in Nat /\ k + Len(p) = Len(input)
      BY <1>1, <2>1, <2>3
    <2>5. Piece(bytes, Done + k, p)
      BY <1>1, <1>2, <2>3, <2>4, PieceEnds
    <2>6. ASSUME NEW i \in Done + 1 .. Done + k PROVE bytes[i] = "0"
      <3>1. i - Done \in 1 .. k /\ i - Done \in 1 .. Len(input) /\ Done + (i - Done) = i
        BY <1>1, <2>1
      <3> QED BY <1>2, <2>1, <3>1 DEF Piece
    <2>7. Len(p) > 0 => p[1] # "0"
      BY <1>1, <2>1, <2>3, <2>4
    <2>8. ~(stream # "none" \/ completed = 0)
      BY <1>1, <1>4
    <2> QED BY <2>1, <2>3, <2>4, <2>5, <2>6, <2>7, <2>8 DEF p
  <1> QED BY <1>3, <1>4

\* The kind of a member in progress, and of one that begins.
GzipKind(s) == IF s = "none" THEN "gzip" ELSE s

\* A gzip stream that begins has its header at once.
LEMMA GzipHeads ==
    ASSUME coding = "gzip", NEW p \in Seq(Coding!Alphabet), Len(p) > 0
    PROVE  /\ Coding!IsPrefix(Coding!Header("gzip"), p) <=> p[1] = "h"
           /\ Coding!IsPrefix(p, Coding!Header("gzip")) => p[1] = "h"
           /\ Len(Coding!Header("gzip")) = 1
  <1> DEFINE S == Coding!Alphabet
  <1>1. Coding!Header("gzip") \in Seq(S) /\ Len(Coding!Header("gzip")) = 1
        /\ Coding!Header("gzip")[1] = "h"
    <2> "h" \in S
      BY DEF Coding!Alphabet
    <2> HIDE DEF S
    <2>1. <<"h">> \in Seq(S) /\ Len(<<"h">>) = 1 /\ <<"h">>[1] = "h"
      OBVIOUS
    <2> QED BY <2>1, Headers
  <1>2. 1 \in 1 .. 1 /\ 1 \in 1 .. Len(p) /\ \A i \in 1 .. 1 : i = 1
    OBVIOUS
  <1> QED BY <1>1, <1>2, PrefixMeans

\* A call of zlib moves the decoder on in the members of a gzip body.
LEMMA GzipTakes ==
    ASSUME coding = "gzip", NEW p \in Seq(Coding!Alphabet), NEW n \in Nat, NEW c \in Nat,
           NEW s, GzipAt(bytes, n, s, c), NEW limit \in Nat \ {0}, Piece(bytes, n, p),
           s = "none" => Len(p) > 0, Coding!WellFormed(GzipKind(s), p)
    PROVE  LET made == Coding!Decompress(GzipKind(s), p, limit)
           IN  \E m \in Nat :
                 /\ made.out \in 0 .. limit /\ made.eof \in BOOLEAN
                 /\ made.left \in Seq(Coding!Alphabet) /\ m + Len(made.left) = n + Len(p)
                 /\ Piece(bytes, m, made.left)
                 /\ Data(bytes, m) = Data(bytes, n) + made.out
                 /\ GzipAt(bytes, m, IF made.eof THEN "none" ELSE "body",
                                     IF made.eof THEN c + 1 ELSE c)
                 /\ ~made.eof /\ made.out < limit => made.left = <<>>
  <1>1. s \in {"none", "body"} /\ GzipKind(s) \in Kinds
    BY DEF GzipAt, GzipKind, Kinds
  <1> PICK kind \in Kinds : kind = GzipKind(s)
    BY <1>1
  <1> DEFINE made == Coding!Decompress(kind, p, limit)
             head == Len(Coding!Header(kind))
             used == Used(head, made)
             start == n + head
             end == start + made.out
  <1>3. Len(p) \in Nat /\ head \in 0 .. Len(p) /\ (head = IF s = "none" THEN 1 ELSE 0)
        /\ (s = "none" => p[1] = "h")
    <2>1. CASE s = "none"
      <3>1. kind = "gzip" /\ Len(p) > 0
        BY <2>1 DEF GzipKind
      <3>2. \/ Coding!IsPrefix(p, Coding!Header("gzip"))
            \/ Coding!IsPrefix(Coding!Header("gzip"), p)
        BY <3>1 DEF Coding!WellFormed
      <3>3. p[1] = "h" /\ Len(Coding!Header("gzip")) = 1
        BY <3>1, <3>2, GzipHeads
      <3>4. Len(p) \in Nat /\ head = 1
        BY <3>1, <3>3
      <3> HIDE DEF head
      <3> QED BY <2>1, <3>1, <3>3, <3>4
    <2>2. CASE s = "body"
      BY <2>2, Headers DEF GzipKind
    <2> QED BY <1>1, <2>1, <2>2
  <1>4. /\ made.out \in 0 .. limit /\ made.eof \in BOOLEAN
        /\ used \in 0 .. Len(p)
        /\ \A i \in 1 .. made.out : p[head + i] = "d"
        /\ made.eof => p[used] = "e"
        /\ ~made.eof /\ made.out < limit => used = Len(p)
        /\ made.left \in Seq(Coding!Alphabet) /\ Len(made.left) = Len(p) - used
        /\ \A i \in 1 .. Len(made.left) : made.left[i] = p[used + i]
    <2>1. Coding!WellFormed(kind, p) /\ head <= Len(p)
      BY <1>3
    <2>2. Makes(Coding!Alphabet, p, head, limit, made)
      BY <2>1, DecompressSound
    <2> HIDE DEF made, head
    <2> QED BY <2>2 DEF Makes
  <1> HIDE DEF made, head
  <1>a. /\ made.eof => used = head + made.out + 1
        /\ ~made.eof => used = head + made.out
    BY <1>3, <1>4 DEF Used
  <1>b. /\ start \in Nat /\ end \in Nat /\ start = n + head /\ end = start + made.out
        /\ used \in Nat /\ n + used \in Nat /\ end <= n + used
        /\ made.eof => n + used = end + 1
        /\ ~made.eof => n + used = end
    <2>0. head \in Nat /\ made.out \in Nat
      BY <1>3, <1>4
    <2>1. start \in Nat /\ end \in Nat /\ start = n + head /\ end = start + made.out
      BY <2>0
    <2>2. used \in Nat /\ n + used \in Nat /\ made.eof \in BOOLEAN
      <3> HIDE DEF used
      <3> QED BY <1>3, <1>4
    <2> HIDE DEF used, start, end
    <2>o. PICK out \in Nat : out = made.out
      BY <2>0
    <2>3. ASSUME made.eof PROVE n + used = end + 1
      <3>1. used = head + out + 1 /\ end = start + out
        BY <1>a, <2>o, <2>1, <2>3
      <3> QED BY <2>0, <2>1, <2>2, <3>1
    <2>4. ASSUME ~made.eof PROVE n + used = end
      <3>1. used = head + out /\ end = start + out
        BY <1>a, <2>o, <2>1, <2>4
      <3> QED BY <2>0, <2>1, <2>2, <3>1
    <2>5. end <= n + used
      BY <2>1, <2>2, <2>3, <2>4
    <2> QED BY <2>1, <2>2, <2>3, <2>4, <2>5
  <1> HIDE DEF used, start, end
  <1>5. GzipAt(bytes, start, "body", c)
    <2>1. CASE s = "none"
      <3>1. 1 \in 1 .. Len(p)
        BY <1>b, <1>3, <2>1
      <3>2. bytes[n + 1] = "h"
        BY <1>b, <1>3, <2>1, <3>1 DEF Piece
      <3> QED BY <1>b, <1>3, <2>1, <3>2, GzipOpens
    <2>2. CASE s = "body"
      BY <1>b, <1>3, <2>2
    <2> QED BY <1>1, <2>1, <2>2
  <1>6. ASSUME NEW i \in start + 1 .. end PROVE bytes[i] = "d"
    <2>0. made.out \in Nat /\ head \in Nat /\ Len(p) \in Nat /\ used <= Len(p)
      BY <1>3, <1>4
    <2>1. /\ i - start \in 1 .. made.out /\ i - n \in 1 .. Len(p)
          /\ i - n = head + (i - start) /\ n + (i - n) = i
      BY <1>b, <2>0
    <2> QED BY <1>4, <2>1 DEF Piece
  <1>7. start \in Nat /\ made.out \in Nat /\ end \in Nat
    BY <1>b, <1>3, <1>4
  <1>8. GzipAt(bytes, end, "body", c)
    BY <1>5, <1>6, <1>7, <1>b, GzipRuns
  <1>9. made.eof => bytes[end + 1] = "e"
    <2> SUFFICES ASSUME made.eof PROVE bytes[end + 1] = "e"
      OBVIOUS
    <2>1. used \in 1 .. Len(p) /\ n + used = end + 1
      BY <1>b, <1>3, <1>4
    <2>2. p[used] = bytes[n + used]
      BY <2>1 DEF Piece
    <2> QED BY <1>4, <2>1, <2>2
  <1>10. GzipAt(bytes, n + used, IF made.eof THEN "none" ELSE "body",
                                 IF made.eof THEN c + 1 ELSE c)
    <2>1. CASE made.eof
      <3>1. n + used = end + 1
        BY <1>b, <1>3, <1>4, <2>1
      <3> QED BY <1>7, <1>8, <1>9, <2>1, <3>1, GzipEnds
    <2>2. CASE ~made.eof
      <3>1. n + used = end
        BY <1>b, <1>3, <1>4, <2>2
      <3> QED BY <1>8, <2>2, <3>1
    <2> QED BY <1>4, <2>1, <2>2
  <1>11. Data(bytes, n + used) = Data(bytes, n) + made.out
    <2>1. Data(bytes, start) = Data(bytes, n)
      <3>1. ASSUME NEW i \in n + 1 .. start PROVE bytes[i] # "d"
        <4>1. s = "none" /\ i = n + 1 /\ 1 \in 1 .. Len(p)
          BY <1>b, <1>3, <3>1
        <4> QED BY <1>b, <1>3, <4>1 DEF Piece
      <3>2. n <= start
        BY <1>b, <1>3
      <3> QED BY <1>7, <3>1, <3>2, DataSkips
    <2>2. Data(bytes, end) = Data(bytes, start) + made.out
      <3>1. start <= end
            /\ end - start = made.out
        BY <1>7, <1>b
      <3> QED BY <1>6, <1>7, <3>1, DataRunCounts
    <2>3. Data(bytes, n + used) = Data(bytes, end)
      <3>1. CASE made.eof
        <4>1. n + used = end + 1
          BY <1>b, <1>3, <1>4, <3>1
        <4>2. \A i \in end + 1 .. n + used : i = end + 1
          BY <1>7, <1>b, <4>1
        <4>3. n + used \in Nat /\ end <= n + used
          BY <1>7, <1>b, <4>1
        <4> QED BY <1>7, <1>9, <3>1, <4>2, <4>3, DataSkips
      <3>2. CASE ~made.eof
        <4>1. n + used = end
          BY <1>b, <1>3, <1>4, <3>2
        <4> QED BY <4>1
      <3> QED BY <1>4, <3>1, <3>2
    <2> QED BY <2>1, <2>2, <2>3
  <1>12. n + used \in Nat /\ used \in Nat /\ (n + used) + Len(made.left) = n + Len(p)
         /\ used + Len(made.left) = Len(p)
    BY <1>b, <1>3, <1>4
  <1>13. Piece(bytes, n + used, made.left)
    BY <1>4, <1>12, PieceEnds
  <1>14. ~made.eof /\ made.out < limit => made.left = <<>>
    BY <1>b, <1>3, <1>4, EmptySeq
  <1> QED BY <1>4, <1>10, <1>11, <1>12, <1>13, <1>14 DEF made

\* What zlib refuses is the end of every gzip body.
LEMMA GzipRefuses ==
    ASSUME CodingInv, coding = "gzip", NEW p \in Seq(Coding!Alphabet), NEW n \in Nat,
           GzipAt(bytes, n, stream, completed), Piece(bytes, n, p), n + Len(p) <= Len(bytes),
           stream = "none" => Len(p) > 0 /\ (completed > 0 => p[1] # "0"),
           ~Coding!WellFormed(GzipKind(stream), p)
    PROVE  ~Coding!GzipBody
  <1>t. /\ bytes \in Seq(Coding!Alphabet) /\ Len(bytes) \in Nat /\ completed \in Nat
        /\ Len(p) \in Nat
    BY CodingTypes
  <1>1. stream \in {"none", "body"} /\ GzipKind(stream) \in Kinds
    BY DEF GzipAt, GzipKind, Kinds
  <1>3. CASE stream = "none" /\ p[1] # "h"
    <2>1. 1 \in 1 .. Len(p) /\ bytes[n + 1] = p[1]
      BY <1>3, <1>t DEF Piece
    <2>2. CASE completed = 0
      <3>1. n = 0
        BY <1>3, <2>2 DEF GzipAt
      <3> QED BY <1>3, <1>t, <2>1, <3>1, GzipMeans
    <2>3. CASE completed # 0
      <3>1. n > 0 /\ bytes[n] \in {"e", "0"} /\ p[1] # "0"
        BY <1>3, <1>t, <2>3 DEF GzipAt
      <3>2. n + 1 \in 2 .. Len(bytes) /\ (n + 1) - 1 = n
        BY <1>t, <2>1, <3>1
      <3>3. ~Follows(bytes[n], bytes[n + 1])
        BY <1>3, <2>1, <3>1 DEF Follows
      <3> QED BY <1>t, <3>2, <3>3, GzipBroken
    <2> QED BY <2>2, <2>3
  <1>4. CASE ~(stream = "none" /\ p[1] # "h")
    <2> DEFINE head == Len(Coding!Header(GzipKind(stream)))
    <2>1. head = (IF stream = "none" THEN 1 ELSE 0) /\ head <= Len(p)
          /\ Coding!IsPrefix(Coding!Header(GzipKind(stream)), p)
      <3>1. CASE stream = "none"
        <4>1. Len(p) > 0 /\ p[1] = "h" /\ GzipKind(stream) = "gzip"
          BY <1>4, <3>1 DEF GzipKind
        <4>2. Len(Coding!Header("gzip")) = 1 /\ Coding!IsPrefix(Coding!Header("gzip"), p)
          BY <4>1, GzipHeads
        <4>3. head = 1
          BY <4>1, <4>2
        <4> HIDE DEF head
        <4> QED BY <1>t, <3>1, <4>1, <4>2, <4>3
      <3>2. CASE stream = "body"
        <4>1. Coding!Header("body") = <<>> /\ <<>> \in Seq(Coding!Alphabet) /\ Len(<<>>) = 0
          BY Headers
        <4>2. Coding!IsPrefix(<<>>, p)
          <5> PICK e \in Seq(Coding!Alphabet) : e = <<>> /\ Len(e) = 0
            BY <4>1
          <5>1. Len(e) <= Len(p) /\ \A i \in 1 .. Len(e) : e[i] = p[i]
            BY <1>t
          <5>2. Coding!IsPrefix(e, p)
            BY <5>1, PrefixMeans
          <5> QED BY <5>2
        <4> QED BY <1>t, <3>2, <4>1, <4>2 DEF GzipKind
      <3> QED BY <1>1, <3>1, <3>2
    <2>2. PICK k \in head + 1 .. Len(p) :
            p[k] \notin {"d", "e"} /\ \A i \in head + 1 .. k - 1 : p[i] = "d"
      <3>1. Breaks(p, head)
        BY <1>1, <2>1, IllFormedSound
      <3> QED BY <3>1 DEF Breaks
    <2>3. bytes[n + k] \notin {"d", "e"}
      <3>1. k \in 1 .. Len(p)
        BY <1>t, <2>1
      <3> QED BY <2>2, <3>1 DEF Piece
    <2>4. n + k - 1 > 0 /\ bytes[n + k - 1] \in {"h", "d"}
      <3>1. CASE k = head + 1 /\ stream = "none"
        <4>1. 1 \in 1 .. Len(p) /\ n + k - 1 = n + 1 /\ n + k - 1 > 0
          BY <1>t, <2>1, <3>1
        <4> QED BY <1>4, <3>1, <4>1 DEF Piece
      <3>2. CASE k = head + 1 /\ stream = "body"
        <4>1. n + k - 1 = n
          BY <1>t, <2>1, <3>2
        <4> QED BY <3>2, <4>1 DEF GzipAt
      <3>3. CASE k # head + 1
        <4>1. /\ k - 1 \in head + 1 .. k - 1 /\ k - 1 \in 1 .. Len(p)
              /\ n + (k - 1) = n + k - 1 /\ n + k - 1 > 0
          BY <1>t, <2>1, <3>3
        <4> QED BY <2>2, <4>1 DEF Piece
      <3> QED BY <1>1, <3>1, <3>2, <3>3
    <2>5. n + k \in 2 .. Len(bytes) /\ (n + k) - 1 = n + k - 1
      BY <1>t, <2>1, <2>4
    <2>6. ~Follows(bytes[n + k - 1], bytes[n + k])
      BY <2>3, <2>4 DEF Follows
    <2> QED BY <1>t, <2>5, <2>6, GzipBroken
  <1> QED BY <1>3, <1>4

\* A call that fails or goes on: what has to be shown of its outcome.
LEMMA CallKeeps ==
    ASSUME CodingInv, UNCHANGED <<coding, bytes, eager, rest>>,
           NEW q \in Seq(Coding!Alphabet), NEW m \in Nat,
           m + Len(q) = Done + Len(input), Piece(bytes, m, q), input' = q,
           coding = "gzip" => GzipAt(bytes, m, stream', completed'),
           coding = "deflate" => DeflateAt(bytes, m, stream') /\ call' = 0,
           completed' \in Nat, output' \in Nat, call' \in 0 .. ChunkBytes - 1,
           output' + call' = Data(bytes, m),
           decoder' \in {"feed", "decompress"},
           decoder' = "feed" => call' = 0,
           decoder' = "feed" =>
               q = <<>> \/ (coding = "deflate" /\ stream' = "none" /\ Len(q) < 2)
    PROVE  CodingInv'
  <1>1. Done' = m /\ Aligned'
    BY InputMoves
  <1>2. stream' \in {"none", "body", "eof"}
    BY DEF CodingInv, Coding!TypeOK, GzipAt, DeflateAt
  <1>3. Coding!TypeOK'
    BY <1>2 DEF CodingInv, Coding!TypeOK, Coding!Alphabet
  <1>4. coding' = "gzip" => GzipAt(bytes, Done, stream, completed)'
    <2>1. GzipAt(bytes, Done, stream, completed)' <=> GzipAt(bytes, m, stream', completed')
      BY <1>1 DEF GzipAt, GzipBegins
    <2> QED BY <2>1
  <1>5. coding' = "deflate" => DeflateAt(bytes, Done, stream)' /\ call' = 0
    <2>1. DeflateAt(bytes, Done, stream)' <=> DeflateAt(bytes, m, stream')
      BY <1>1 DEF DeflateAt, Opened, Opening
    <2> QED BY <2>1
  <1>6. InputUsed'
    BY DEF InputUsed
  <1>7. output' + call' = Data(bytes, Done)'
    BY <1>1 DEF Data
  <1>8. Coding!DecodesTheWhole'
    BY DEF Coding!DecodesTheWhole
  <1> QED BY <1>1, <1>3, <1>4, <1>5, <1>6, <1>7, <1>8 DEF CodingInv

\* A verdict that is right changes nothing else.
LEMMA VerdictKeeps ==
    ASSUME CodingInv, Coding!DecodesTheWhole', decoder' \in {"ok", "error"},
           UNCHANGED <<coding, bytes, eager, rest, input, stream, completed, call, output>>
    PROVE  CodingInv'
  <1>1. Coding!TypeOK' /\ Aligned' /\ InputUsed'
    BY DEF CodingInv, Coding!TypeOK, Coding!Alphabet, Aligned, Piece, Done, InputUsed
  <1>2. Done' = Done
    BY DEF Done
  <1>3. coding' = "gzip" => GzipAt(bytes, Done, stream, completed)'
    BY <1>2 DEF CodingInv, GzipAt, GzipBegins
  <1>4. coding' = "deflate" => DeflateAt(bytes, Done, stream)' /\ call' = 0
    BY <1>2 DEF CodingInv, DeflateAt, Opened, Opening
  <1>5. output' + call' = Data(bytes, Done)'
    BY <1>2 DEF CodingInv, Data
  <1> QED BY <1>1, <1>3, <1>4, <1>5 DEF CodingInv

\* What a body means is decided when it is sent.
LEMMA MeaningRests ==
    ASSUME UNCHANGED <<coding, bytes>>
    PROVE  Coding!Meaningful' = Coding!Meaningful
  BY DEF Coding!Meaningful, Coding!GzipBody, Coding!DeflateBody

\* A body that is refused was none.
LEMMA RefusalKeeps ==
    ASSUME CodingInv, ~Coding!Meaningful, decoder' = "error",
           UNCHANGED <<coding, bytes, eager, rest, input, stream, completed, call, output>>
    PROVE  CodingInv'
  <1>1. Coding!DecodesTheWhole'
    BY MeaningRests DEF Coding!DecodesTheWhole
  <1> QED BY <1>1, VerdictKeeps

\* One turn of the loop of _GzipDecoder.decompress: all of its outcomes.
LEMMA GzipStepKeeps ==
    ASSUME CodingInv, Coding!GzipStep
    PROVE  CodingInv'
  <1> DEFINE p == Coding!Padding(input)
  <1>1. /\ coding = "gzip" /\ decoder = "decompress"
        /\ UNCHANGED <<coding, bytes, eager, rest>>
    BY DEF Coding!GzipStep
  <1>t. /\ bytes \in Seq(Coding!Alphabet) /\ input \in Seq(Coding!Alphabet)
        /\ Len(bytes) \in Nat /\ Len(input) \in Nat /\ Len(rest) \in Nat /\ Done \in Nat
        /\ Len(bytes) = Done + Len(input) + Len(rest)
        /\ completed \in Nat /\ output \in Nat /\ call \in 0 .. ChunkBytes - 1
    BY CodingTypes
  <1>2. PICK k \in 0 .. Len(input) :
          /\ p \in Seq(Coding!Alphabet) /\ k + Len(p) = Len(input)
          /\ Piece(bytes, Done + k, p)
          /\ \A i \in Done + 1 .. Done + k : bytes[i] = "0"
          /\ stream # "none" \/ completed = 0 => k = 0
          /\ stream = "none" /\ completed > 0 /\ Len(p) > 0 => p[1] # "0"
    BY <1>1, PaddingSound
  <1>3. PICK n \in Nat : n = Done + k
    BY <1>t
  <1>4. Len(p) \in Nat /\ n + Len(p) = Done + Len(input) /\ n + Len(p) <= Len(bytes)
    <2>1. Len(p) \in Nat /\ k + Len(p) = Len(input) /\ k \in Nat
      BY <1>t, <1>2
    <2> HIDE DEF p
    <2> QED BY <1>t, <1>3, <2>1
  <1>5. GzipAt(bytes, Done, stream, completed) /\ output + call = Data(bytes, Done)
    BY <1>1 DEF CodingInv
  <1>6. GzipAt(bytes, n, stream, completed)
    <2>1. CASE stream = "none" /\ completed # 0
      <3>1. k \in Nat /\ completed \in Nat \ {0} /\ GzipAt(bytes, Done, "none", completed)
        BY <1>5, <1>t, <2>1
      <3>2. GzipAt(bytes, Done + k, "none", completed)
        BY <1>2, <1>t, <3>1, GzipPads
      <3> QED BY <1>3, <2>1, <3>2
    <2>2. CASE ~(stream = "none" /\ completed # 0)
      <3>1. n = Done
        BY <1>2, <1>3, <1>t, <2>2
      <3> QED BY <1>5, <3>1
    <2> QED BY <2>1, <2>2
  <1>7. Data(bytes, n) = output + call
    <2>1. \A i \in Done + 1 .. n : bytes[i] # "d"
      BY <1>2, <1>3
    <2>2. Done <= n
      BY <1>3, <1>t
    <2> QED BY <1>3, <1>5, <1>t, <2>1, <2>2, DataSkips
  <1>8. PICK limit \in Nat \ {0} : limit = Coding!Room /\ limit = ChunkBytes - call
    BY <1>t, ChunkSize DEF Coding!Room
  <1> DEFINE kind == GzipKind(stream)
             made == Coding!Decompress(kind, p, limit)
  <1>9. \/ stream = "none" /\ p = <<>> /\ Coding!Return(call, FALSE) /\ input' = p
           /\ UNCHANGED <<stream, completed>>
        \/ /\ ~(stream = "none" /\ p = <<>>)
           /\ Coding!WellFormed(kind, p)
           /\ input' = made.left
           /\ stream' = IF made.eof THEN "none" ELSE "body"
           /\ completed' = IF made.eof THEN completed + 1 ELSE completed
           /\ IF Coding!Full(call + made.out) \/ ~made.eof
              THEN Coding!Return(call + made.out, Coding!Full(call + made.out))
              ELSE call' = call + made.out /\ UNCHANGED <<output, decoder>>
        \/ ~(stream = "none" /\ p = <<>>) /\ ~Coding!WellFormed(kind, p) /\ Coding!Fails
    BY <1>8 DEF Coding!GzipStep, GzipKind
  <1> HIDE DEF p
  <1>10. CASE stream = "none" /\ p = <<>> /\ Coding!Return(call, FALSE) /\ input' = p
              /\ UNCHANGED <<stream, completed>>
    <2>1. output' = output + call /\ call' = 0 /\ decoder' = "feed"
      BY <1>10 DEF Coding!Return
    <2>2. output' \in Nat /\ call' \in 0 .. ChunkBytes - 1 /\ output' + call' = Data(bytes, n)
      BY <1>7, <1>t, <2>1, ChunkSize
    <2>3. GzipAt(bytes, n, stream', completed') /\ completed' \in Nat
      BY <1>6, <1>t, <1>10
    <2> QED BY <1>1, <1>2, <1>3, <1>4, <1>10, <2>1, <2>2, <2>3, CallKeeps
  <1>11. CASE /\ ~(stream = "none" /\ p = <<>>)
              /\ Coding!WellFormed(kind, p)
              /\ input' = made.left
              /\ stream' = IF made.eof THEN "none" ELSE "body"
              /\ completed' = IF made.eof THEN completed + 1 ELSE completed
              /\ IF Coding!Full(call + made.out) \/ ~made.eof
                 THEN Coding!Return(call + made.out, Coding!Full(call + made.out))
                 ELSE call' = call + made.out /\ UNCHANGED <<output, decoder>>
    <2>1. stream = "none" => Len(p) > 0
      BY <1>2, <1>4, <1>11, EmptySeq
    <2>2. PICK m \in Nat :
            /\ made.out \in 0 .. limit /\ made.eof \in BOOLEAN
            /\ made.left \in Seq(Coding!Alphabet) /\ m + Len(made.left) = n + Len(p)
            /\ Piece(bytes, m, made.left)
            /\ Data(bytes, m) = Data(bytes, n) + made.out
            /\ GzipAt(bytes, m, IF made.eof THEN "none" ELSE "body",
                                IF made.eof THEN completed + 1 ELSE completed)
            /\ ~made.eof /\ made.out < limit => made.left = <<>>
      BY <1>1, <1>2, <1>3, <1>6, <1>11, <1>t, <2>1, GzipTakes
    <2> HIDE DEF made
    <2>3. PICK total \in Nat : total = call + made.out
      BY <1>t, <2>2
    <2>4. /\ Data(bytes, m) = output + total /\ total <= ChunkBytes
          /\ made.out < limit <=> ~Coding!Full(total)
      <3>0. Data(bytes, m) = Data(bytes, n) + made.out /\ made.out \in Nat /\ call \in Nat
        BY <1>t, <2>2
      <3>1. Data(bytes, m) = output + total
        BY <1>7, <1>t, <2>3, <3>0
      <3>2. made.out \in Nat /\ made.out <= limit /\ limit = ChunkBytes - call
        BY <1>8, <2>2
      <3>3. total <= ChunkBytes /\ (made.out < limit <=> ~(total >= ChunkBytes))
        BY <1>t, <2>3, <3>2, ChunkSize
      <3> QED BY <3>1, <3>3 DEF Coding!Full
    <2>5. GzipAt(bytes, m, stream', completed') /\ completed' \in Nat
      BY <1>11, <1>t, <2>2
    <2>6. CASE Coding!Full(total) \/ ~made.eof
      <3>1. /\ output' = output + total /\ call' = 0
            /\ decoder' = IF Coding!Full(total) THEN "decompress" ELSE "feed"
        BY <1>11, <2>3, <2>6 DEF Coding!Return
      <3>2. output' \in Nat /\ call' \in 0 .. ChunkBytes - 1 /\ output' + call' = Data(bytes, m)
        BY <1>t, <2>3, <2>4, <3>1, ChunkSize
      <3>3. decoder' = "feed" => made.left = <<>>
        BY <2>2, <2>4, <2>6, <3>1
      <3> QED BY <1>1, <1>4, <1>11, <2>2, <2>5, <3>1, <3>2, <3>3, CallKeeps
    <2>7. CASE ~(Coding!Full(total) \/ ~made.eof)
      <3>1. call' = total /\ output' = output /\ decoder' = "decompress"
        BY <1>1, <1>11, <2>3, <2>7
      <3>2. total \in 0 .. ChunkBytes - 1
        BY <2>3, <2>7, ChunkSize DEF Coding!Full
      <3>3. output' \in Nat /\ call' \in 0 .. ChunkBytes - 1 /\ output' + call' = Data(bytes, m)
        BY <1>t, <2>4, <3>1, <3>2
      <3> QED BY <1>1, <1>4, <1>11, <2>2, <2>5, <3>1, <3>3, CallKeeps
    <2> QED BY <2>6, <2>7
  <1>12. CASE ~(stream = "none" /\ p = <<>>) /\ ~Coding!WellFormed(kind, p) /\ Coding!Fails
    <2>1. stream = "none" => Len(p) > 0 /\ (completed > 0 => p[1] # "0")
      BY <1>2, <1>4, <1>12, EmptySeq
    <2>2. ~Coding!GzipBody
      BY <1>1, <1>2, <1>3, <1>4, <1>6, <1>12, <2>1, GzipRefuses
    <2>3. ~Coding!Meaningful
      BY <1>1, <2>2 DEF Coding!Meaningful
    <2> QED BY <1>1, <1>12, <2>3, RefusalKeeps DEF Coding!Fails
  <1> QED BY <1>9, <1>10, <1>11, <1>12

-----------------------------------------------------------------------------
\* Two pieces behind each other.
LEMMA PiecesJoin ==
    ASSUME NEW S, NEW s \in Seq(S), NEW t \in Seq(S), NEW w, NEW n \in Nat,
           Piece(w, n, s), Piece(w, n + Len(s), t)
    PROVE  /\ s \o t \in Seq(S) /\ Len(s \o t) = Len(s) + Len(t)
           /\ Piece(w, n, s \o t)
  <1>1. /\ s \o t \in Seq(S) /\ Len(s \o t) = Len(s) + Len(t)
        /\ \A i \in 1 .. Len(s) + Len(t) :
             (s \o t)[i] = IF i <= Len(s) THEN s[i] ELSE t[i - Len(s)]
    BY ConcatProperties
  <1>2. ASSUME NEW i \in 1 .. Len(s) + Len(t) PROVE (s \o t)[i] = w[n + i]
    <2>1. CASE i <= Len(s)
      <3>1. i \in 1 .. Len(s)
        BY <2>1
      <3> QED BY <1>1, <2>1, <3>1 DEF Piece
    <2>2. CASE ~(i <= Len(s))
      <3>1. i - Len(s) \in 1 .. Len(t) /\ n + Len(s) + (i - Len(s)) = n + i
        BY <2>2
      <3> QED BY <1>1, <2>2, <3>1 DEF Piece
    <2> QED BY <2>1, <2>2
  <1> QED BY <1>1, <1>2 DEF Piece

\* A chunk that arrives moves nothing of what is done.
LEMMA FeedKeeps ==
    ASSUME CodingInv, Coding!Feed
    PROVE  CodingInv'
  <1>1. PICK n \in 1 .. Len(rest) :
          /\ input' = input \o SubSeq(rest, 1, n)
          /\ rest' = SubSeq(rest, n + 1, Len(rest))
    BY DEF Coding!Feed
  <1>2. decoder' = "decompress"
        /\ UNCHANGED <<coding, bytes, eager, stream, completed, call, output>>
    BY DEF Coding!Feed
  <1>t. /\ bytes \in Seq(Coding!Alphabet) /\ input \in Seq(Coding!Alphabet)
        /\ rest \in Seq(Coding!Alphabet)
        /\ Len(bytes) \in Nat /\ Len(input) \in Nat /\ Len(rest) \in Nat /\ Done \in Nat
        /\ Len(bytes) = Done + Len(input) + Len(rest)
    BY CodingTypes
  <1> DEFINE chunk == SubSeq(rest, 1, n)
             more == SubSeq(rest, n + 1, Len(rest))
             all == input \o chunk
  <1>3. /\ chunk \in Seq(Coding!Alphabet) /\ Len(chunk) = n
        /\ \A i \in 1 .. n : chunk[i] = rest[i]
    BY <1>t
  <1>4. /\ more \in Seq(Coding!Alphabet) /\ Len(more) = Len(rest) - n
        /\ \A i \in 1 .. Len(rest) - n : more[i] = rest[n + i]
    BY <1>t, Suffix
  <1> HIDE DEF chunk, more
  <1>p. Piece(bytes, Done, input) /\ Piece(bytes, Done + Len(input), rest)
    BY DEF CodingInv, Aligned
  <1>5. /\ all \in Seq(Coding!Alphabet) /\ Len(all) = Len(input) + n
        /\ Piece(bytes, Done, all)
    <2>1. Piece(bytes, Done + Len(input), chunk)
      BY <1>3, <1>p, <1>t DEF Piece
    <2> QED BY <1>3, <1>p, <1>t, <2>1, PiecesJoin
  <1>6. input' = all /\ rest' = more
    BY <1>1 DEF chunk, more
  <1> HIDE DEF all
  <1>8. Piece(bytes, Done + Len(all), more)
    <2> SUFFICES ASSUME NEW i \in 1 .. Len(more) PROVE more[i] = bytes[Done + Len(all) + i]
      BY DEF Piece
    <2>1. /\ n + i \in 1 .. Len(rest) /\ i \in 1 .. Len(rest) - n
          /\ Done + Len(input) + (n + i) = Done + Len(all) + i
      BY <1>t, <1>4, <1>5
    <2> QED BY <1>4, <1>p, <2>1 DEF Piece
  <1>9. Done' = Done
    <2>1. Len(bytes) - Len(all) - Len(more) = Done
      BY <1>t, <1>4, <1>5
    <2> QED BY <1>2, <1>6, <2>1 DEF Done
  <1>10. Aligned'
    <2>1. Piece(bytes, Done, input)' /\ Piece(bytes, Done + Len(input), rest)'
      BY <1>2, <1>5, <1>6, <1>8, <1>9 DEF Piece
    <2>2. Len(bytes') <= MaxWire /\ Done' \in Nat
      BY <1>2, <1>9, <1>t DEF CodingInv, Aligned
    <2> QED BY <2>1, <2>2 DEF Aligned
  <1>11. Coding!TypeOK'
    BY <1>2, <1>4, <1>5, <1>6 DEF CodingInv, Coding!TypeOK, Coding!Alphabet
  <1>12. coding' = "gzip" => GzipAt(bytes, Done, stream, completed)'
    BY <1>2, <1>9 DEF CodingInv, GzipAt, GzipBegins
  <1>13. coding' = "deflate" => DeflateAt(bytes, Done, stream)' /\ call' = 0
    BY <1>2, <1>9 DEF CodingInv, DeflateAt, Opened, Opening
  <1>14. output' + call' = Data(bytes, Done)'
    BY <1>2, <1>9 DEF CodingInv, Data
  <1>15. InputUsed' /\ Coding!DecodesTheWhole'
    BY <1>2 DEF InputUsed, Coding!DecodesTheWhole
  <1> QED BY <1>10, <1>11, <1>12, <1>13, <1>14, <1>15 DEF CodingInv

\* What a deflate body is, byte by byte.
LEMMA DeflateMeans ==
    ASSUME Coding!DeflateBody
    PROVE  /\ Opened(bytes) /\ Opening(bytes) < Len(bytes) /\ bytes[Len(bytes)] = "e"
           /\ \A i \in Opening(bytes) + 1 .. Len(bytes) - 1 : bytes[i] = "d"
           /\ Len(bytes) \in Nat
  <1> DEFINE S == {"z", "y", "b", "d", "e"}
  <1>1. PICK kind \in {"zlib", "raw"}, n \in 0 .. MaxWire :
          bytes = Coding!Header(kind) \o [i \in 1 .. n |-> "d"] \o <<"e">>
    BY DEF Coding!DeflateBody
  <1> DEFINE head == Coding!Header(kind)
             data == [i \in 1 .. n |-> "d"]
             front == head \o data
  <1>2. /\ head \in Seq(S) /\ Len(head) = (IF kind = "zlib" THEN 2 ELSE 1)
        /\ kind = "zlib" => head[1] = "z" /\ head[2] = "y"
        /\ kind = "raw" => head[1] = "b"
    <2>1. CASE kind = "zlib"
      <3>1. head = <<"z", "y">>
        BY <2>1, Headers
      <3>2. /\ <<"z", "y">> \in Seq(S) /\ Len(<<"z", "y">>) = 2
            /\ <<"z", "y">>[1] = "z" /\ <<"z", "y">>[2] = "y"
        OBVIOUS
      <3> HIDE DEF S, head
      <3> QED BY <2>1, <3>1, <3>2
    <2>2. CASE kind = "raw"
      <3>1. head = <<"b">>
        BY <2>2, Headers
      <3>2. <<"b">> \in Seq(S) /\ Len(<<"b">>) = 1 /\ <<"b">>[1] = "b"
        OBVIOUS
      <3> HIDE DEF S, head
      <3> QED BY <2>2, <3>1, <3>2
    <2> QED BY <2>1, <2>2
  <1>3. n \in Nat
    BY ChunkSize
  <1>4. data \in Seq(S) /\ Len(data) = n /\ \A i \in 1 .. n : data[i] = "d"
    BY <1>3
  <1>5. <<"e">> \in Seq(S) /\ Len(<<"e">>) = 1 /\ <<"e">>[1] = "e"
    OBVIOUS
  <1> HIDE DEF S, head, data
  <1>6. /\ front \in Seq(S) /\ Len(front) = Len(head) + n
        /\ \A i \in 1 .. Len(head) + n :
             front[i] = IF i <= Len(head) THEN head[i] ELSE data[i - Len(head)]
    BY <1>2, <1>4, ConcatProperties
  <1>7. bytes = front \o <<"e">>
    BY <1>1 DEF head, data
  <1> HIDE DEF front
  <1>8. /\ Len(bytes) = Len(front) + 1
        /\ \A i \in 1 .. Len(front) + 1 :
             bytes[i] = IF i <= Len(front) THEN front[i] ELSE <<"e">>[i - Len(front)]
    BY <1>5, <1>6, <1>7, ConcatProperties
  <1>9. Len(head) \in {1, 2} /\ Len(front) \in Nat
    BY <1>2, <1>3, <1>6
  <1>10. \A i \in 1 .. Len(head) : bytes[i] = head[i]
    BY <1>3, <1>6, <1>8, <1>9
  <1>11. Opened(bytes) /\ Opening(bytes) = Len(head)
    <2>1. CASE kind = "zlib"
      <3>1. bytes[1] = "z" /\ bytes[2] = "y"
        BY <1>2, <1>10, <2>1
      <3> QED BY <1>2, <2>1, <3>1 DEF Opened, Opening
    <2>2. CASE kind = "raw"
      <3>1. bytes[1] = "b"
        BY <1>2, <1>10, <2>2
      <3> QED BY <1>2, <2>2, <3>1 DEF Opened, Opening
    <2> QED BY <2>1, <2>2
  <1>12. bytes[Len(bytes)] = "e"
    <2>1. Len(bytes) \in 1 .. Len(front) + 1 /\ Len(bytes) - Len(front) = 1
      BY <1>8, <1>9
    <2> QED BY <1>5, <1>8, <1>9, <2>1
  <1>13. ASSUME NEW i \in Len(head) + 1 .. Len(bytes) - 1 PROVE bytes[i] = "d"
    <2>1. /\ i \in 1 .. Len(front) + 1 /\ i <= Len(front) /\ i \in 1 .. Len(head) + n
          /\ ~(i <= Len(head)) /\ i - Len(head) \in 1 .. n
      BY <1>3, <1>6, <1>8, <1>9
    <2> QED BY <1>4, <1>6, <1>8, <2>1
  <1>14. Len(head) < Len(bytes) /\ Len(bytes) \in Nat
    BY <1>3, <1>6, <1>8, <1>9
  <1> QED BY <1>11, <1>12, <1>13, <1>14

\* A stream that is at its end where the wire ends was a whole body.
LEMMA DeflateWhole ==
    ASSUME bytes \in Seq(Coding!Alphabet), coding = "deflate", Len(bytes) <= MaxWire,
           DeflateAt(bytes, Len(bytes), "eof")
    PROVE  Coding!DeflateBody
  <1> DEFINE S == {"z", "y", "b", "d", "e"}
             kind == IF bytes[1] = "z" THEN "zlib" ELSE "raw"
             n == Len(bytes) - Opening(bytes) - 1
             head == Coding!Header(kind)
             data == [i \in 1 .. n |-> "d"]
             front == head \o data
             whole == front \o <<"e">>
  <1>1. /\ Opened(bytes) /\ Opening(bytes) < Len(bytes) /\ bytes[Len(bytes)] = "e"
        /\ \A i \in Opening(bytes) + 1 .. Len(bytes) - 1 : bytes[i] = "d"
        /\ Len(bytes) \in Nat
    BY DEF DeflateAt
  <1>2. bytes \in Seq(S)
    BY DEF Coding!Alphabet
  <1>3. /\ head \in Seq(S) /\ Len(head) = Opening(bytes) /\ Len(head) \in {1, 2}
        /\ \A i \in 1 .. Len(head) : bytes[i] = head[i]
        /\ kind \in {"zlib", "raw"}
    <2>1. CASE bytes[1] = "z"
      <3>1. head = <<"z", "y">> /\ bytes[2] = "y" /\ kind = "zlib"
        BY <1>1, <2>1, Headers DEF Opened
      <3>2. /\ <<"z", "y">> \in Seq(S) /\ Len(<<"z", "y">>) = 2
            /\ \A i \in 1 .. 2 : <<"z", "y">>[i] = IF i = 1 THEN "z" ELSE "y"
        OBVIOUS
      <3>3. Opening(bytes) = 2
        BY <2>1 DEF Opening
      <3> HIDE DEF S, head, kind
      <3> QED BY <2>1, <3>1, <3>2, <3>3
    <2>2. CASE bytes[1] # "z"
      <3>1. head = <<"b">> /\ bytes[1] = "b" /\ kind = "raw"
        BY <1>1, <2>2, Headers DEF Opened
      <3>2. /\ <<"b">> \in Seq(S) /\ Len(<<"b">>) = 1
            /\ \A i \in 1 .. 1 : <<"b">>[i] = "b" /\ i = 1
        OBVIOUS
      <3>3. Opening(bytes) = 1
        BY <2>2 DEF Opening
      <3> HIDE DEF S, head, kind
      <3> QED BY <2>2, <3>1, <3>2, <3>3
    <2> QED BY <2>1, <2>2
  <1> HIDE DEF head, kind
  <1>4. n \in 0 .. MaxWire /\ n \in Nat /\ Len(bytes) = Len(head) + n + 1
    BY <1>1, <1>3, ChunkSize
  <1> HIDE DEF n
  <1>5. data \in Seq(S) /\ Len(data) = n /\ \A i \in 1 .. n : data[i] = "d"
    BY <1>4
  <1>6. <<"e">> \in Seq(S) /\ Len(<<"e">>) = 1 /\ \A i \in 1 .. 1 : <<"e">>[i] = "e" /\ i = 1
    OBVIOUS
  <1>7. Piece(bytes, 0, head)
    BY <1>3 DEF Piece
  <1>8. Piece(bytes, 0 + Len(head), data)
    <2>1. ASSUME NEW i \in 1 .. n PROVE bytes[0 + Len(head) + i] = "d"
      <3>1. 0 + Len(head) + i \in Opening(bytes) + 1 .. Len(bytes) - 1
        BY <1>1, <1>3, <1>4
      <3> QED BY <1>1, <3>1
    <2> HIDE DEF data
    <2> QED BY <1>5, <2>1 DEF Piece
  <1> HIDE DEF S, data
  <1>9. front \in Seq(S) /\ Len(front) = Len(head) + n /\ Piece(bytes, 0, front)
    BY <1>3, <1>5, <1>7, <1>8, PiecesJoin
  <1> HIDE DEF front
  <1>10. Piece(bytes, 0 + Len(front), <<"e">>)
    <2>1. 0 + Len(front) + 1 = Len(bytes)
      BY <1>3, <1>4, <1>9
    <2> QED BY <1>1, <1>6, <2>1 DEF Piece
  <1>11. whole \in Seq(S) /\ Len(whole) = Len(front) + 1 /\ Piece(bytes, 0, whole)
    BY <1>6, <1>9, <1>10, PiecesJoin
  <1> HIDE DEF whole
  <1>12. Len(whole) = Len(bytes) /\ \A i \in 1 .. Len(bytes) : bytes[i] = whole[i]
    <2>1. Len(whole) = Len(bytes)
      BY <1>3, <1>4, <1>9, <1>11
    <2>2. \A i \in 1 .. Len(bytes) : 0 + i = i
      OBVIOUS
    <2> QED BY <1>11, <2>1, <2>2 DEF Piece
  <1>13. bytes = whole
    BY <1>2, <1>11, <1>12, SeqEqual
  <1> QED BY <1>3, <1>4, <1>13 DEF Coding!DeflateBody, whole, front, data, head

\* Which header a deflate body of two bytes or more is taken to have.
LEMMA DeflateHeads ==
    ASSUME coding = "deflate", NEW p \in Seq(Coding!Alphabet), Len(p) >= 2
    PROVE  /\ Coding!IsPrefix(Coding!Header("zlib"), p) <=> p[1] = "z" /\ p[2] = "y"
           /\ Coding!IsPrefix(Coding!Header("raw"), p) <=> p[1] = "b"
           /\ ~Coding!IsPrefix(p, Coding!Header("raw"))
           /\ Coding!IsPrefix(p, Coding!Header("zlib")) => p[1] = "z" /\ p[2] = "y"
           /\ Len(Coding!Header("zlib")) = 2 /\ Len(Coding!Header("raw")) = 1
  <1> DEFINE S == Coding!Alphabet
  <1>1. /\ Coding!Header("zlib") \in Seq(S) /\ Len(Coding!Header("zlib")) = 2
        /\ Coding!Header("zlib")[1] = "z" /\ Coding!Header("zlib")[2] = "y"
        /\ Coding!Header("raw") \in Seq(S) /\ Len(Coding!Header("raw")) = 1
        /\ Coding!Header("raw")[1] = "b"
    <2> {"z", "y", "b"} \subseteq S
      BY DEF Coding!Alphabet
    <2> HIDE DEF S
    <2>1. <<"z", "y">> \in Seq(S) /\ Len(<<"z", "y">>) = 2
          /\ <<"z", "y">>[1] = "z" /\ <<"z", "y">>[2] = "y"
      OBVIOUS
    <2>2. <<"b">> \in Seq(S) /\ Len(<<"b">>) = 1 /\ <<"b">>[1] = "b"
      OBVIOUS
    <2> QED BY <2>1, <2>2, Headers
  <1>2. /\ {1, 2} \subseteq 1 .. Len(p) /\ \A i \in 1 .. 2 : i \in {1, 2}
        /\ 1 \in 1 .. 2 /\ 2 \in 1 .. 2 /\ 1 \in 1 .. 1 /\ \A i \in 1 .. 1 : i = 1
        /\ 2 <= Len(p) /\ 1 <= Len(p) /\ ~(Len(p) <= 1)
    OBVIOUS
  <1>3. Coding!IsPrefix(Coding!Header("zlib"), p) <=> p[1] = "z" /\ p[2] = "y"
    BY <1>1, <1>2, PrefixMeans
  <1>4. Coding!IsPrefix(Coding!Header("raw"), p) <=> p[1] = "b"
    BY <1>1, <1>2, PrefixMeans
  <1>5. ~Coding!IsPrefix(p, Coding!Header("raw"))
    BY <1>1, <1>2, PrefixMeans
  <1>6. Coding!IsPrefix(p, Coding!Header("zlib")) => p[1] = "z" /\ p[2] = "y"
    BY <1>1, <1>2, PrefixMeans
  <1> QED BY <1>1, <1>3, <1>4, <1>5, <1>6

\* The kind of a stream in progress, and of the one that begins with p.
DeflateKind(s, p) == IF s = "none" THEN Coding!Kind(p) ELSE s

\* A call of zlib takes the header of a deflate body first.
LEMMA DeflateOpens ==
    ASSUME coding = "deflate", NEW p \in Seq(Coding!Alphabet), NEW n \in Nat,
           NEW s \in {"none", "body"}, DeflateAt(bytes, n, s), Piece(bytes, n, p),
           s = "none" => Len(p) >= 2, NEW kind, kind = DeflateKind(s, p),
           Coding!WellFormed(kind, p)
    PROVE  /\ kind \in Kinds /\ Len(Coding!Header(kind)) \in 0 .. Len(p)
           /\ DeflateAt(bytes, n + Len(Coding!Header(kind)), "body")
           /\ \A i \in n + 1 .. n + Len(Coding!Header(kind)) : bytes[i] # "d"
  <1>0. Len(p) \in Nat
    OBVIOUS
  <1>1. CASE s = "none"
    <2>1. n = 0 /\ Len(p) >= 2
      BY <1>1 DEF DeflateAt
    <2>2. bytes[1] = p[1] /\ bytes[2] = p[2]
      <3>1. 1 \in 1 .. Len(p) /\ 2 \in 1 .. Len(p)
        BY <1>0, <2>1
      <3> QED BY <2>1, <3>1 DEF Piece
    <2>3. CASE p[1] = "z" /\ p[2] = "y"
      <3>1. kind = "zlib"
        BY <1>1, <2>1, <2>3, DeflateHeads DEF DeflateKind, Coding!Kind
      <3>2. Len(Coding!Header(kind)) = 2
        BY <2>1, <3>1, DeflateHeads
      <3>3. Opened(bytes) /\ Opening(bytes) = 2
        BY <2>2, <2>3 DEF Opened, Opening
      <3>4. \A i \in 1 .. 2 : bytes[i] # "d"
        BY <2>2, <2>3
      <3>5. DeflateAt(bytes, 2, "body")
        BY <3>3 DEF DeflateAt
      <3>6. n + 1 = 1 /\ n + Len(Coding!Header(kind)) = 2
        BY <2>1, <3>2
      <3>7. kind \in Kinds
        BY <3>1 DEF Kinds
      <3>8. Len(Coding!Header(kind)) \in 0 .. Len(p)
        BY <1>0, <2>1, <3>2
      <3>9. DeflateAt(bytes, n + Len(Coding!Header(kind)), "body")
        BY <3>5, <3>6
      <3>10. \A i \in n + 1 .. n + Len(Coding!Header(kind)) : bytes[i] # "d"
        BY <3>4, <3>6
      <3> QED BY <3>7, <3>8, <3>9, <3>10
    <2>4. CASE ~(p[1] = "z" /\ p[2] = "y")
      <3>1. kind = "raw"
        BY <1>1, <2>1, <2>4, DeflateHeads DEF DeflateKind, Coding!Kind
      <3>2. Len(Coding!Header(kind)) = 1
        BY <2>1, <3>1, DeflateHeads
      <3>3. p[1] = "b"
        BY <2>1, <3>1, DeflateHeads DEF Coding!WellFormed
      <3>4. Opened(bytes) /\ Opening(bytes) = 1
        BY <2>2, <3>3 DEF Opened, Opening
      <3>5. \A i \in 1 .. 1 : bytes[i] # "d"
        BY <2>2, <3>3
      <3>6. DeflateAt(bytes, 1, "body")
        BY <3>4 DEF DeflateAt
      <3>7. n + 1 = 1 /\ n + Len(Coding!Header(kind)) = 1
        BY <2>1, <3>2
      <3>8. kind \in Kinds
        BY <3>1 DEF Kinds
      <3>9. Len(Coding!Header(kind)) \in 0 .. Len(p)
        BY <1>0, <2>1, <3>2
      <3>10. DeflateAt(bytes, n + Len(Coding!Header(kind)), "body")
        BY <3>6, <3>7
      <3>11. \A i \in n + 1 .. n + Len(Coding!Header(kind)) : bytes[i] # "d"
        BY <3>5, <3>7
      <3> QED BY <3>8, <3>9, <3>10, <3>11
    <2> QED BY <2>3, <2>4
  <1>2. CASE s = "body"
    <2>1. kind = "body" /\ Len(Coding!Header(kind)) = 0
      BY <1>2, Headers DEF DeflateKind
    <2> QED BY <1>0, <1>2, <2>1 DEF Kinds
  <1> QED BY <1>1, <1>2

\* The result made, of a call with the bytes from n to end, leaves the decoder at a byte m.
DeflateMoves(end, n, limit, made) ==
    \E m \in Nat :
        /\ made.out \in 0 .. limit /\ made.eof \in BOOLEAN
        /\ made.left \in Seq(Coding!Alphabet) /\ m + Len(made.left) = end
        /\ Piece(bytes, m, made.left)
        /\ Data(bytes, m) = Data(bytes, n) + made.out
        /\ DeflateAt(bytes, m, IF made.eof THEN "eof" ELSE "body")
        /\ ~made.eof /\ made.out < limit => made.left = <<>>

\* A call of zlib moves the decoder on in the stream of a deflate body.
LEMMA DeflateTakes ==
    ASSUME coding = "deflate", NEW p \in Seq(Coding!Alphabet), NEW n \in Nat,
           NEW s \in {"none", "body"}, DeflateAt(bytes, n, s), NEW limit \in Nat \ {0},
           Piece(bytes, n, p), s = "none" => Len(p) >= 2,
           Coding!WellFormed(DeflateKind(s, p), p)
    PROVE  DeflateMoves(n + Len(p), n, limit, Coding!Decompress(DeflateKind(s, p), p, limit))
  <1> DEFINE kind == DeflateKind(s, p)
             made == Coding!Decompress(kind, p, limit)
             head == Len(Coding!Header(kind))
             used == Used(head, made)
             start == n + head
             end == start + made.out
  <1>0. Len(p) \in Nat
    OBVIOUS
  <1>1. /\ kind \in Kinds /\ head \in 0 .. Len(p) /\ DeflateAt(bytes, start, "body")
        /\ \A i \in n + 1 .. start : bytes[i] # "d"
    BY DeflateOpens
  <1> HIDE DEF kind
  <1>2. Makes(Coding!Alphabet, p, head, limit, made)
    <2>1. head <= Len(p) /\ Coding!WellFormed(kind, p)
      BY <1>0, <1>1 DEF kind
    <2> QED BY <1>1, <2>1, DecompressSound
  <1> HIDE DEF made, head
  <1>3. /\ made.out \in 0 .. limit /\ made.eof \in BOOLEAN /\ used \in 0 .. Len(p)
        /\ \A i \in 1 .. made.out : p[head + i] = "d"
        /\ made.eof => p[used] = "e"
        /\ ~made.eof /\ made.out < limit => used = Len(p)
        /\ made.left \in Seq(Coding!Alphabet) /\ Len(made.left) = Len(p) - used
        /\ \A i \in 1 .. Len(made.left) : made.left[i] = p[used + i]
    BY <1>2 DEF Makes
  <1>4. /\ made.eof => used = head + made.out + 1
        /\ ~made.eof => used = head + made.out
    BY <1>0, <1>1, <1>3 DEF Used
  <1>5. /\ start \in Nat /\ end \in Nat /\ start = n + head /\ end = start + made.out
        /\ used \in Nat /\ n + used \in Nat /\ end <= n + used
        /\ made.eof => n + used = end + 1
        /\ ~made.eof => n + used = end
    <2>1. start \in Nat /\ end \in Nat /\ start = n + head /\ end = start + made.out
      BY <1>0, <1>1, <1>3
    <2>2. used \in Nat /\ n + used \in Nat
      BY <1>0, <1>3
    <2>3. (made.eof => n + used = end + 1) /\ (~made.eof => n + used = end)
      BY <1>0, <1>1, <1>3, <1>4, <2>1, <2>2
    <2>4. end <= n + used
      BY <1>3, <2>1, <2>2, <2>3
    <2> QED BY <2>1, <2>2, <2>3, <2>4
  <1> HIDE DEF used, start, end
  <1>6. ASSUME NEW i \in start + 1 .. end PROVE bytes[i] = "d"
    <2>1. /\ i - start \in 1 .. made.out /\ i - n \in 1 .. Len(p)
          /\ i - n = head + (i - start) /\ n + (i - n) = i
      BY <1>0, <1>1, <1>3, <1>4, <1>5
    <2> QED BY <1>3, <2>1 DEF Piece
  <1>7. /\ Opened(bytes) /\ Opening(bytes) <= start /\ Opening(bytes) \in {1, 2}
        /\ \A i \in Opening(bytes) + 1 .. start : bytes[i] = "d"
    BY <1>1 DEF DeflateAt, Opening
  <1>a. start <= end /\ Opening(bytes) <= end
    BY <1>3, <1>5, <1>7
  <1>8. ASSUME NEW i \in Opening(bytes) + 1 .. end PROVE bytes[i] = "d"
    <2>1. i \in Opening(bytes) + 1 .. start \/ i \in start + 1 .. end
      BY <1>5, <1>7
    <2> QED BY <1>6, <1>7, <2>1
  <1>9. made.eof => bytes[end + 1] = "e"
    <2> SUFFICES ASSUME made.eof PROVE bytes[end + 1] = "e"
      OBVIOUS
    <2>1. used \in 1 .. Len(p) /\ n + used = end + 1
      BY <1>0, <1>1, <1>3, <1>4, <1>5
    <2>2. p[used] = bytes[n + used]
      BY <2>1 DEF Piece
    <2> QED BY <1>3, <2>1, <2>2
  <1>10. DeflateAt(bytes, n + used, IF made.eof THEN "eof" ELSE "body")
    <2>1. CASE made.eof
      <3>1. n + used = end + 1 /\ (end + 1) - 1 = end /\ Opening(bytes) < end + 1
        BY <1>5, <1>7, <1>a, <2>1
      <3>2. Opening(bytes) <= end + 1 /\ \A i \in Opening(bytes) + 1 .. end : bytes[i] = "d"
        BY <1>5, <1>7, <1>8, <3>1
      <3>3. DeflateAt(bytes, end + 1, "eof")
        BY <1>7, <1>9, <2>1, <3>1, <3>2 DEF DeflateAt
      <3> QED BY <2>1, <3>1, <3>3
    <2>2. CASE ~made.eof
      <3>1. n + used = end /\ Opening(bytes) <= n + used
        BY <1>5, <1>7, <1>a, <2>2
      <3> QED BY <1>7, <1>8, <2>2, <3>1 DEF DeflateAt
    <2> QED BY <1>3, <2>1, <2>2
  <1>11. Data(bytes, n + used) = Data(bytes, n) + made.out
    <2>1. Data(bytes, start) = Data(bytes, n)
      <3>1. n <= start
        BY <1>0, <1>1, <1>5
      <3> QED BY <1>1, <1>5, <3>1, DataSkips
    <2>2. Data(bytes, end) = Data(bytes, start) + made.out
      <3>1. start <= end /\ end - start = made.out
        BY <1>3, <1>5
      <3>2. \A i \in start + 1 .. end : bytes[i] = "d"
        BY <1>6
      <3>3. Data(bytes, end) = Data(bytes, start) + (end - start)
        BY <1>5, <3>1, <3>2, DataRunCounts
      <3> QED BY <3>1, <3>3
    <2>3. Data(bytes, n + used) = Data(bytes, end)
      <3>1. CASE made.eof
        <4>1. \A i \in end + 1 .. n + used : i = end + 1
          BY <1>5, <3>1
        <4> QED BY <1>5, <1>9, <3>1, <4>1, DataSkips
      <3>2. CASE ~made.eof
        BY <1>5, <3>2
      <3> QED BY <1>3, <3>1, <3>2
    <2> QED BY <2>1, <2>2, <2>3
  <1>12. n + used \in Nat /\ used \in Nat /\ (n + used) + Len(made.left) = n + Len(p)
         /\ used + Len(made.left) = Len(p)
    BY <1>0, <1>3, <1>5
  <1>13. Piece(bytes, n + used, made.left)
    BY <1>3, <1>12, PieceEnds
  <1>14. ~made.eof /\ made.out < limit => made.left = <<>>
    BY <1>0, <1>3, EmptySeq
  <1>15. DeflateMoves(n + Len(p), n, limit, made)
    BY <1>3, <1>10, <1>11, <1>12, <1>13, <1>14 DEF DeflateMoves
  <1> QED BY <1>15 DEF made, kind

\* What zlib refuses is the end of every deflate body.
LEMMA DeflateRefuses ==
    ASSUME coding = "deflate", NEW p \in Seq(Coding!Alphabet), NEW n \in Nat,
           NEW s \in {"none", "body"}, DeflateAt(bytes, n, s), Piece(bytes, n, p),
           Len(bytes) \in Nat, n + Len(p) <= Len(bytes), s = "none" => Len(p) >= 2,
           ~Coding!WellFormed(DeflateKind(s, p), p)
    PROVE  ~Coding!DeflateBody
  <1> SUFFICES ASSUME Coding!DeflateBody PROVE FALSE
    OBVIOUS
  <1>1. /\ Opened(bytes) /\ Opening(bytes) < Len(bytes) /\ bytes[Len(bytes)] = "e"
        /\ \A i \in Opening(bytes) + 1 .. Len(bytes) - 1 : bytes[i] = "d"
    BY DeflateMeans
  <1> DEFINE kind == DeflateKind(s, p)
             head == Len(Coding!Header(kind))
  <1>2. Len(p) \in Nat /\ Opening(bytes) \in {1, 2}
    BY DEF Opening
  <1>3. /\ kind \in Kinds /\ head \in 0 .. Len(p) /\ Opening(bytes) <= n + head
        /\ Coding!IsPrefix(Coding!Header(kind), p)
    <2>1. CASE s = "none"
      <3>1. n = 0 /\ Len(p) >= 2
        BY <2>1 DEF DeflateAt
      <3>2. bytes[1] = p[1] /\ bytes[2] = p[2]
        <4>1. 1 \in 1 .. Len(p) /\ 2 \in 1 .. Len(p)
          BY <1>2, <3>1
        <4> QED BY <3>1, <4>1 DEF Piece
      <3>3. CASE bytes[1] = "z"
        <4>1. p[1] = "z" /\ p[2] = "y" /\ Opening(bytes) = 2
          BY <1>1, <3>2, <3>3 DEF Opened, Opening
        <4>2. kind = "zlib"
          BY <2>1, <3>1, <4>1, DeflateHeads DEF DeflateKind, Coding!Kind
        <4>3. Coding!IsPrefix(Coding!Header(kind), p) /\ head = 2
          BY <3>1, <4>1, <4>2, DeflateHeads
        <4> HIDE DEF head
        <4> QED BY <1>2, <3>1, <4>1, <4>2, <4>3 DEF Kinds
      <3>4. CASE bytes[1] # "z"
        <4>1. p[1] = "b" /\ Opening(bytes) = 1
          BY <1>1, <3>2, <3>4 DEF Opened, Opening
        <4>2. kind = "raw"
          BY <2>1, <3>1, <4>1, DeflateHeads DEF DeflateKind, Coding!Kind
        <4>3. Coding!IsPrefix(Coding!Header(kind), p) /\ head = 1
          BY <3>1, <4>1, <4>2, DeflateHeads
        <4> HIDE DEF head
        <4> QED BY <1>2, <3>1, <4>1, <4>2, <4>3 DEF Kinds
      <3> QED BY <3>3, <3>4
    <2>2. CASE s = "body"
      <3>1. kind = "body" /\ Coding!Header(kind) = <<>> /\ head = 0
        BY <2>2, Headers DEF DeflateKind
      <3>2. Coding!IsPrefix(<<>>, p)
        <4> PICK e \in Seq(Coding!Alphabet) : e = <<>> /\ Len(e) = 0
          BY EmptySeq
        <4>1. Len(e) <= Len(p) /\ \A i \in 1 .. Len(e) : e[i] = p[i]
          BY <1>2
        <4>2. Coding!IsPrefix(e, p)
          BY <4>1, PrefixMeans
        <4> QED BY <4>2
      <3>3. Opening(bytes) <= n
        BY <2>2 DEF DeflateAt
      <3>4. n + head = n /\ head \in 0 .. Len(p)
        BY <1>2, <3>1
      <3> HIDE DEF head
      <3> QED BY <3>1, <3>2, <3>3, <3>4 DEF Kinds
    <2> QED BY <2>1, <2>2
  <1> HIDE DEF kind
  <1>4. Breaks(p, head)
    <2>1. ~Coding!WellFormed(kind, p)
      BY DEF kind
    <2> QED BY <1>3, <2>1, IllFormedSound
  <1> HIDE DEF head
  <1>5. PICK k \in head + 1 .. Len(p) : p[k] \notin {"d", "e"}
    BY <1>4 DEF Breaks
  <1>6. /\ k \in 1 .. Len(p) /\ n + k \in Opening(bytes) + 1 .. Len(bytes)
        /\ n + k \in Opening(bytes) + 1 .. Len(bytes) - 1 \/ n + k = Len(bytes)
    BY <1>2, <1>3
  <1>7. bytes[n + k] \in {"d", "e"}
    BY <1>1, <1>6
  <1> QED BY <1>5, <1>6, <1>7 DEF Piece

\* Behind the end of the stream nothing may follow.
LEMMA NothingFollows ==
    ASSUME NEW m \in Nat, DeflateAt(bytes, m, "eof"), Len(bytes) \in Nat, m < Len(bytes)
    PROVE  ~Coding!DeflateBody
  <1> SUFFICES ASSUME Coding!DeflateBody PROVE FALSE
    OBVIOUS
  <1>1. \A i \in Opening(bytes) + 1 .. Len(bytes) - 1 : bytes[i] = "d"
    BY DeflateMeans
  <1>2. Opening(bytes) < m /\ bytes[m] = "e" /\ Opening(bytes) \in {1, 2}
    BY DEF DeflateAt, Opening
  <1>3. m \in Opening(bytes) + 1 .. Len(bytes) - 1
    BY <1>2
  <1> QED BY <1>1, <1>2, <1>3

\* A call of _DeflateDecoder.decompress: all of its outcomes.
LEMMA DeflateStepKeeps ==
    ASSUME CodingInv, Coding!DeflateStep
    PROVE  CodingInv'
  <1>1. /\ coding = "deflate" /\ decoder = "decompress"
        /\ UNCHANGED <<coding, bytes, eager, rest>>
    BY DEF Coding!DeflateStep
  <1>t. /\ bytes \in Seq(Coding!Alphabet) /\ input \in Seq(Coding!Alphabet)
        /\ Len(bytes) \in Nat /\ Len(input) \in Nat /\ Len(rest) \in Nat /\ Done \in Nat
        /\ Len(bytes) = Done + Len(input) + Len(rest)
        /\ completed \in Nat /\ output \in Nat /\ call \in 0 .. ChunkBytes - 1
    BY CodingTypes
  <1>2. /\ DeflateAt(bytes, Done, stream) /\ call = 0 /\ Piece(bytes, Done, input)
        /\ output + call = Data(bytes, Done)
    BY <1>1 DEF CodingInv, Aligned
  <1>3. stream \in {"none", "body", "eof"} /\ output = Data(bytes, Done) /\ output \in Nat
    BY <1>2, <1>t DEF DeflateAt
  <1> PICK limit \in Nat \ {0} : limit = ChunkBytes
    BY ChunkSize
  <1> DEFINE kind == DeflateKind(stream, input)
             made == Coding!Decompress(kind, input, limit)
  <1>4. \/ stream = "none" /\ Len(input) < 2 /\ Coding!Return(0, FALSE)
           /\ UNCHANGED <<input, stream, completed>>
        \/ stream = "eof" /\ input # <<>> /\ Coding!Fails
        \/ stream = "eof" /\ input = <<>> /\ Coding!Return(0, FALSE)
           /\ UNCHANGED <<input, stream, completed>>
        \/ /\ stream # "eof" /\ ~(stream = "none" /\ Len(input) < 2)
           /\ ~Coding!WellFormed(kind, input) \/ (made.eof /\ made.left # <<>>)
           /\ Coding!Fails
        \/ /\ stream # "eof" /\ ~(stream = "none" /\ Len(input) < 2)
           /\ ~(~Coding!WellFormed(kind, input) \/ (made.eof /\ made.left # <<>>))
           /\ stream' = IF made.eof THEN "eof" ELSE "body"
           /\ input' = made.left
           /\ Coding!Return(made.out, ~made.eof /\ made.out >= ChunkBytes)
           /\ UNCHANGED completed
    BY DEF Coding!DeflateStep, DeflateKind
  <1>5. ASSUME Coding!Return(0, FALSE), UNCHANGED <<input, stream, completed>>,
               input = <<>> \/ (stream = "none" /\ Len(input) < 2)
        PROVE  CodingInv'
    <2>1. output' = output + 0 /\ call' = 0 /\ decoder' = "feed"
      BY <1>5 DEF Coding!Return
    <2>2. output' \in Nat /\ call' \in 0 .. ChunkBytes - 1 /\ output' + call' = Data(bytes, Done)
      BY <1>3, <2>1, ChunkSize
    <2>3. DeflateAt(bytes, Done, stream') /\ completed' \in Nat
      BY <1>2, <1>5, <1>t
    <2> QED BY <1>1, <1>2, <1>5, <1>t, <2>1, <2>2, <2>3, CallKeeps
  <1>6. CASE stream = "eof" /\ input # <<>> /\ Coding!Fails
    <2>1. Done < Len(bytes)
      BY <1>6, <1>t, EmptySeq
    <2>2. ~Coding!DeflateBody
      BY <1>2, <1>6, <1>t, <2>1, NothingFollows
    <2>3. ~Coding!Meaningful
      BY <1>1, <2>2 DEF Coding!Meaningful
    <2> QED BY <1>1, <1>6, <2>3, RefusalKeeps DEF Coding!Fails
  <1>7. ASSUME stream # "eof", ~(stream = "none" /\ Len(input) < 2),
               Coding!WellFormed(kind, input)
        PROVE  DeflateMoves(Done + Len(input), Done, limit, made)
    <2>1. stream \in {"none", "body"} /\ (stream = "none" => Len(input) >= 2)
      BY <1>3, <1>7, <1>t
    <2>2. PICK n \in Nat : n = Done
      BY <1>t
    <2>3. DeflateAt(bytes, n, stream) /\ Piece(bytes, n, input)
      BY <1>2, <2>2
    <2>4. DeflateMoves(n + Len(input), n, limit, made)
      BY <1>1, <1>7, <1>t, <2>1, <2>3, DeflateTakes
    <2> QED BY <2>2, <2>4
  <1>8. CASE /\ stream # "eof" /\ ~(stream = "none" /\ Len(input) < 2)
             /\ ~Coding!WellFormed(kind, input) \/ (made.eof /\ made.left # <<>>)
             /\ Coding!Fails
    <2>1. CASE ~Coding!WellFormed(kind, input)
      <3>1. stream \in {"none", "body"} /\ (stream = "none" => Len(input) >= 2)
        BY <1>3, <1>8, <1>t
      <3>2. Done + Len(input) <= Len(bytes)
        BY <1>t
      <3>3. ~Coding!DeflateBody
        BY <1>1, <1>2, <1>t, <2>1, <3>1, <3>2, DeflateRefuses
      <3>4. ~Coding!Meaningful
        BY <1>1, <3>3 DEF Coding!Meaningful
      <3> QED BY <1>1, <1>8, <3>4, RefusalKeeps DEF Coding!Fails
    <2>2. CASE Coding!WellFormed(kind, input) /\ made.eof /\ made.left # <<>>
      <3>1. PICK m \in Nat :
              /\ made.left \in Seq(Coding!Alphabet) /\ m + Len(made.left) = Done + Len(input)
              /\ DeflateAt(bytes, m, IF made.eof THEN "eof" ELSE "body")
        BY <1>7, <1>8, <2>2 DEF DeflateMoves
      <3> HIDE DEF made
      <3>2. Len(made.left) \in Nat /\ Len(made.left) > 0
        BY <2>2, <3>1, EmptySeq
      <3>3. m < Len(bytes) /\ DeflateAt(bytes, m, "eof")
        BY <1>t, <2>2, <3>1, <3>2
      <3>4. ~Coding!DeflateBody
        BY <1>t, <3>3, NothingFollows
      <3>5. ~Coding!Meaningful
        BY <1>1, <3>4 DEF Coding!Meaningful
      <3> QED BY <1>1, <1>8, <3>5, RefusalKeeps DEF Coding!Fails
    <2> QED BY <1>8, <2>1, <2>2
  <1>9. CASE /\ stream # "eof" /\ ~(stream = "none" /\ Len(input) < 2)
             /\ ~(~Coding!WellFormed(kind, input) \/ (made.eof /\ made.left # <<>>))
             /\ stream' = IF made.eof THEN "eof" ELSE "body"
             /\ input' = made.left
             /\ Coding!Return(made.out, ~made.eof /\ made.out >= ChunkBytes)
             /\ UNCHANGED completed
    <2>1. PICK m \in Nat :
            /\ made.out \in 0 .. limit /\ made.eof \in BOOLEAN
            /\ made.left \in Seq(Coding!Alphabet) /\ m + Len(made.left) = Done + Len(input)
            /\ Piece(bytes, m, made.left)
            /\ Data(bytes, m) = Data(bytes, Done) + made.out
            /\ DeflateAt(bytes, m, IF made.eof THEN "eof" ELSE "body")
            /\ ~made.eof /\ made.out < limit => made.left = <<>>
      BY <1>7, <1>9 DEF DeflateMoves
    <2> HIDE DEF made
    <2>2. /\ output' = output + made.out /\ call' = 0
          /\ decoder' = IF ~made.eof /\ made.out >= ChunkBytes THEN "decompress" ELSE "feed"
      BY <1>9 DEF Coding!Return
    <2>3. output' \in Nat /\ call' \in 0 .. ChunkBytes - 1 /\ output' + call' = Data(bytes, m)
      BY <1>3, <2>1, <2>2, ChunkSize
    <2>4. decoder' = "feed" => made.left = <<>>
      <3>1. CASE made.eof
        BY <1>9, <3>1
      <3>2. CASE ~made.eof
        <4> SUFFICES ASSUME decoder' = "feed" PROVE made.left = <<>>
          OBVIOUS
        <4>1. ~(made.out >= ChunkBytes)
          BY <2>2, <3>2
        <4>2. made.out < limit
          BY <2>1, <4>1, ChunkSize
        <4> QED BY <2>1, <3>2, <4>2
      <3> QED BY <2>1, <3>1, <3>2
    <2>5. DeflateAt(bytes, m, stream') /\ completed' \in Nat
      BY <1>9, <1>t, <2>1
    <2> QED BY <1>1, <1>9, <2>1, <2>2, <2>3, <2>4, <2>5, CallKeeps
  <1> QED BY <1>4, <1>5, <1>6, <1>8, <1>9

-----------------------------------------------------------------------------
\* Where the decoder is when the whole body was given to it.
LEMMA AtTheEnd ==
    ASSUME CodingInv, decoder = "feed", rest = <<>>
    PROVE  /\ bytes \in Seq(Coding!Alphabet) /\ Len(bytes) \in Nat /\ Len(bytes) <= MaxWire
           /\ Done \in Nat /\ Len(bytes) = Done + Len(input) /\ completed \in Nat
           /\ input = <<>> => Done = Len(bytes)
           /\ output = Data(bytes, Done)
           /\ input = <<>> \/ (coding = "deflate" /\ stream = "none" /\ Len(input) < 2)
  <1>1. /\ bytes \in Seq(Coding!Alphabet) /\ Len(bytes) \in Nat /\ Len(input) \in Nat
        /\ Done \in Nat /\ Len(bytes) = Done + Len(input) + Len(rest)
        /\ completed \in Nat /\ output \in Nat
    BY CodingTypes
  <1>2. Len(rest) = 0 /\ (input = <<>> => Len(input) = 0)
    OBVIOUS
  <1>3. /\ call = 0
        /\ input = <<>> \/ (coding = "deflate" /\ stream = "none" /\ Len(input) < 2)
    BY DEF CodingInv, InputUsed
  <1>4. output = Data(bytes, Done)
    BY <1>1, <1>3 DEF CodingInv
  <1>5. Len(bytes) <= MaxWire
    BY DEF CodingInv, Aligned
  <1> QED BY <1>1, <1>2, <1>3, <1>4, <1>5

\* finish() of the decoders tells a whole gzip body from another.
LEMMA GzipVerdict ==
    ASSUME CodingInv, coding = "gzip", decoder = "feed", rest = <<>>
    PROVE  Coding!Complete <=> Coding!GzipBody
  <1>1. /\ bytes \in Seq(Coding!Alphabet) /\ Len(bytes) \in Nat /\ completed \in Nat
        /\ input = <<>> /\ Done = Len(bytes)
    BY AtTheEnd
  <1>2. GzipAt(bytes, Len(bytes), stream, completed)
    BY <1>1 DEF CodingInv
  <1>3. ASSUME Coding!Complete PROVE Coding!GzipBody
    <2>1. completed \in Nat \ {0} /\ stream = "none"
      BY <1>1, <1>3 DEF Coding!Complete
    <2> QED BY <1>1, <1>2, <2>1, GzipWhole
  <1>4. ASSUME Coding!GzipBody PROVE Coding!Complete
    <2>1. Len(bytes) > 0 /\ bytes[Len(bytes)] \notin {"h", "d"}
      BY <1>1, <1>4, GzipMeans
    <2>2. stream = "none" /\ completed # 0
      BY <1>1, <1>2, <2>1 DEF GzipAt
    <2> QED BY <1>1, <2>2 DEF Coding!Complete
  <1> QED BY <1>3, <1>4

LEMMA DeflateVerdict ==
    ASSUME CodingInv, coding = "deflate", decoder = "feed", rest = <<>>
    PROVE  Coding!Complete <=> Coding!DeflateBody
  <1>1. /\ bytes \in Seq(Coding!Alphabet) /\ Len(bytes) \in Nat /\ Len(bytes) <= MaxWire
        /\ Done \in Nat /\ Len(bytes) = Done + Len(input)
        /\ input = <<>> => Done = Len(bytes)
        /\ input = <<>> \/ (stream = "none" /\ Len(input) < 2)
    BY AtTheEnd
  <1>2. DeflateAt(bytes, Done, stream)
    BY DEF CodingInv
  <1>3. ASSUME Coding!Complete PROVE Coding!DeflateBody
    <2>1. stream = "eof" /\ input = <<>>
      BY <1>3 DEF Coding!Complete
    <2>2. DeflateAt(bytes, Len(bytes), "eof")
      BY <1>1, <1>2, <2>1
    <2> QED BY <1>1, <2>2, DeflateWhole
  <1>4. ASSUME Coding!DeflateBody PROVE Coding!Complete
    <2>1. /\ Opening(bytes) < Len(bytes) /\ bytes[Len(bytes)] = "e"
          /\ Opening(bytes) \in {1, 2}
      BY <1>4, DeflateMeans DEF Opening
    <2>2. CASE stream = "none"
      <3>1. Done = 0 /\ Len(input) >= 2 /\ Len(input) = Len(bytes)
        BY <1>1, <1>2, <2>1, <2>2 DEF DeflateAt
      <3>2. input = <<>>
        BY <1>1, <3>1
      <3>3. Done = Len(bytes)
        BY <1>1, <3>2
      <3> QED BY <2>1, <3>1, <3>3
    <2>3. CASE stream = "body"
      <3>1. input = <<>> /\ Done = Len(bytes)
        BY <1>1, <2>3
      <3>2. Len(bytes) \in Opening(bytes) + 1 .. Done
        BY <1>1, <2>1, <3>1
      <3>3. bytes[Len(bytes)] = "d"
        BY <1>2, <2>3, <3>2 DEF DeflateAt
      <3> QED BY <2>1, <3>3
    <2>4. CASE stream = "eof"
      BY <1>1, <2>4 DEF Coding!Complete
    <2>5. stream \in {"none", "body", "eof"}
      BY <1>2 DEF DeflateAt
    <2> QED BY <2>2, <2>3, <2>4, <2>5
  <1> QED BY <1>3, <1>4

\* finish() accepts what is whole and refuses the rest.
LEMMA FinishKeeps ==
    ASSUME CodingInv, Coding!Finish
    PROVE  CodingInv'
  <1>1. /\ decoder = "feed" /\ rest = <<>>
        /\ decoder' = IF Coding!Complete THEN "ok" ELSE "error"
        /\ UNCHANGED <<coding, bytes, eager, rest, input, stream, completed, call, output>>
    BY DEF Coding!Finish
  <1>2. Coding!Complete <=> Coding!Meaningful
    <2>1. coding \in {"gzip", "deflate"}
      BY DEF CodingInv, Coding!TypeOK
    <2> QED BY <1>1, <2>1, GzipVerdict, DeflateVerdict DEF Coding!Meaningful
  <1>3. CASE ~Coding!Complete
    BY <1>1, <1>2, <1>3, RefusalKeeps
  <1>4. CASE Coding!Complete
    <2>1. input = <<>>
      BY <1>4 DEF Coding!Complete
    <2>2. output = Data(bytes, Len(bytes))
      BY <1>1, <2>1, AtTheEnd
    <2>3. output' = Coding!Cardinality({i \in 1 .. Len(bytes') : bytes'[i] = "d"})
      BY <1>1, <2>2 DEF Data, Cardinality, Coding!Cardinality
    <2>4. decoder' = "ok" /\ Coding!Meaningful'
      BY <1>1, <1>2, <1>4, MeaningRests
    <2>5. Coding!DecodesTheWhole'
      BY <2>3, <2>4 DEF Coding!DecodesTheWhole
    <2> QED BY <1>1, <2>4, <2>5, VerdictKeeps
  <1> QED BY <1>3, <1>4

-----------------------------------------------------------------------------
\* Before the first chunk nothing is done.
LEMMA NothingDone ==
    ASSUME bytes \in Seq(Coding!Alphabet), Len(bytes) <= MaxWire, rest = bytes,
           input = <<>>, coding \in {"gzip", "deflate"}, eager \in BOOLEAN,
           stream = "none", completed = 0, call = 0, output = 0,
           decoder \in {"feed", "error"}, decoder = "error" => ~Coding!Meaningful
    PROVE  CodingInv
  <1>1. Len(bytes) \in Nat /\ Len(input) = 0
    OBVIOUS
  <1>2. Done = 0
    BY <1>1 DEF Done
  <1>3. Aligned
    <2>1. Piece(bytes, 0, input)
      BY <1>1 DEF Piece
    <2>2. Piece(bytes, 0 + Len(input), rest)
      BY <1>1 DEF Piece
    <2> QED BY <1>2, <2>1, <2>2 DEF Aligned
  <1>4. input \in Seq(Coding!Alphabet)
    BY EmptySeq
  <1>5. Coding!TypeOK
    BY <1>4, ChunkSize DEF Coding!TypeOK
  <1>6. GzipAt(bytes, 0, "none", 0) /\ DeflateAt(bytes, 0, "none")
    BY DEF GzipAt, GzipBegins, DeflateAt
  <1>7. output + call = Data(bytes, Done)
    BY <1>2, NoDataYet
  <1>8. Coding!DecodesTheWhole
    BY DEF Coding!DecodesTheWhole
  <1> QED BY <1>2, <1>3, <1>5, <1>6, <1>7, <1>8 DEF CodingInv, InputUsed

\* Every body starts with nothing done.
LEMMA CodingStarts == Coding!Init => CodingInv
  <1> SUFFICES ASSUME Coding!Init PROVE CodingInv
    OBVIOUS
  <1>1. /\ coding \in {"gzip", "deflate"} /\ eager \in BOOLEAN /\ rest = bytes
        /\ input = <<>> /\ stream = "none" /\ completed = 0 /\ call = 0 /\ output = 0
        /\ decoder = "feed"
    BY DEF Coding!Init
  <1>2. PICK n \in 0 .. MaxWire : bytes \in [1 .. n -> Coding!Alphabet]
    BY DEF Coding!Init
  <1>3. bytes \in Seq(Coding!Alphabet) /\ Len(bytes) = n /\ n <= MaxWire
    BY <1>2, ChunkSize
  <1> QED BY <1>1, <1>3, NothingDone

\* An empty body is none of gzip.
LEMMA CodingRestsSound == CodingRests => CodingInv
  <1> SUFFICES ASSUME CodingRests PROVE CodingInv
    OBVIOUS
  <1>1. /\ coding = "gzip" /\ eager = FALSE /\ bytes = <<>> /\ rest = <<>> /\ input = <<>>
        /\ stream = "none" /\ completed = 0 /\ call = 0 /\ output = 0 /\ decoder = "error"
    BY DEF CodingRests
  <1>2. bytes \in Seq(Coding!Alphabet) /\ Len(bytes) = 0
    BY <1>1, EmptySeq
  <1>3. ~Coding!Meaningful
    BY <1>1 DEF Coding!Meaningful, Coding!GzipBody
  <1>4. Len(bytes) <= MaxWire
    BY <1>2, ChunkSize
  <1>6. rest = bytes /\ eager \in BOOLEAN
    BY <1>1, Zenon
  <1>5. coding \in {"gzip", "deflate"} /\ decoder \in {"feed", "error"}
    BY <1>1
  <1> QED BY <1>1, <1>2, <1>3, <1>4, <1>5, <1>6, NothingDone

\* A body that is not decoded now stays as it is.
LEMMA CodingRest ==
    ASSUME CodingInv, UNCHANGED codingVars
    PROVE  CodingInv'
  <1>1. UNCHANGED <<coding, bytes, eager, rest, input, stream, completed, call, output, decoder>>
    BY DEF codingVars
  <1>2. Done' = Done
    BY <1>1 DEF Done
  <1>3. Coding!TypeOK' /\ Aligned' /\ InputUsed'
    BY <1>1, <1>2 DEF CodingInv, Coding!TypeOK, Coding!Alphabet, Aligned, Piece, InputUsed
  <1>4. coding' = "gzip" => GzipAt(bytes, Done, stream, completed)'
    BY <1>1, <1>2 DEF CodingInv, GzipAt, GzipBegins
  <1>5. coding' = "deflate" => DeflateAt(bytes, Done, stream)' /\ call' = 0
    BY <1>1, <1>2 DEF CodingInv, DeflateAt, Opened, Opening
  <1>6. output' + call' = Data(bytes, Done)'
    BY <1>1, <1>2 DEF CodingInv, Data
  <1>7. Coding!DecodesTheWhole'
    BY <1>1, MeaningRests DEF CodingInv, Coding!DecodesTheWhole
  <1> QED BY <1>3, <1>4, <1>5, <1>6, <1>7 DEF CodingInv

LEMMA CodingHolds == Spec => []CodingInv
  <1>1. [Next]_vars => Coding!Next \/ UNCHANGED codingVars
    BY DEF Next, vars, codingVars
  <1>2. CodingInv /\ Coding!Next => CodingInv'
    BY FeedKeeps, GzipStepKeeps, DeflateStepKeeps, FinishKeeps DEF Coding!Next
  <1>3. Init => CodingInv
    BY CodingStarts, CodingRestsSound DEF Init
  <1> QED BY <1>1, <1>2, <1>3, CodingRest, PTL DEF Spec

-----------------------------------------------------------------------------
\* For any limit, chunks, cuts and codings: a gzip or deflate body is accepted exactly when
\* it is whole and then handed on entirely, a full read hands on all of a body or fails
\* for its size, a prefix read gives its first bytes and never fails for its size, and
\* what is buffered passes the limit by less than a chunk (_GzipDecoder, _DeflateDecoder,
\* _limited_body_chunks and _read_response_body).
THEOREM BodiesHold == Spec => []BodiesAreWhole
  <1>1. CodingInv /\ ReadingInv => BodiesAreWhole
    <2> SUFFICES ASSUME CodingInv, ReadingInv PROVE BodiesAreWhole
      OBVIOUS
    <2>1. Reading!ReadIsBounded
      <3>1. sent \in Nat /\ sent <= Limit + MaxChunk
        BY DEF ReadingInv, ChunksGrow, Reading!TypeOK
      <3> QED BY <3>1, Limits DEF Reading!ReadIsBounded
    <2> QED BY <2>1 DEF CodingInv, ReadingInv, BodiesAreWhole
  <1> QED BY <1>1, CodingHolds, ReadingHolds, PTL
=============================================================================
