----------------------------- MODULE SocksBridge -----------------------------
(***************************************************************************)
(* The local SOCKS5 relay of src/camouflare/proxy.py: one handler task per *)
(* client connection, two pipes per established tunnel, and close().       *)
(* The octets are left out; a connection is known by its two sockets, the  *)
(* client's and the upstream proxy's.  asyncio's transports are external:  *)
(* closing one ends both directions, and its reader sees an end of file.   *)
(***************************************************************************)
EXTENDS FiniteSets

CONSTANT Clients   \* connections a browser may make

Sides == {"client", "upstream"}

\* A pipe is named by the socket it reads.
Other(side) == CHOOSE s \in Sides : s # side

VARIABLES
    closed,   \* _closed
    closer,   \* where close() is
    writers,  \* _client_writers
    pc,       \* connection -> where its handler is
    cancel,   \* connection -> cancellation of the handler: "no", "asked", "raised"
    wire,     \* connection -> side -> socket: "ended" and "reset" by the peer
    pipe,     \* connection -> side -> pipe task
    reply     \* connection -> the last reply of the handshake

vars == <<closed, closer, writers, pc, cancel, wire, pipe, reply>>

Running == {"created", "reading", "dialing", "authenticating", "hanging_up", "answering",
            "piping", "settling", "failing", "closing_upstream", "closing_client"}

TypeOK ==
    /\ closed \in BOOLEAN
    /\ closer \in {"idle", "gathering", "done"}
    /\ writers \subseteq Clients
    /\ pc \in [Clients -> Running \cup {"none", "backlog", "refused", "ended"}]
    /\ cancel \in [Clients -> {"no", "asked", "raised"}]
    /\ wire \in [Clients -> [Sides -> {"none", "open", "ended", "reset", "closed"}]]
    /\ pipe \in [Clients -> [Sides -> {"none", "running", "done", "failed", "cancelled"}]]
    /\ reply \in [Clients -> {"none", "success", "failure"}]
    /\ \A c \in Clients : c \in writers => pc[c] \notin {"none", "backlog", "refused"}

Init ==
    /\ closed = FALSE
    /\ closer = "idle"
    /\ writers = {}
    /\ pc = [c \in Clients |-> "none"]
    /\ cancel = [c \in Clients |-> "no"]
    /\ wire = [c \in Clients |-> [s \in Sides |-> "none"]]
    /\ pipe = [c \in Clients |-> [s \in Sides |-> "none"]]
    /\ reply = [c \in Clients |-> "none"]

-----------------------------------------------------------------------------
Goto(c, p) == pc' = [pc EXCEPT ![c] = p]

SetWire(c, side, state) == wire' = [wire EXCEPT ![c][side] = state]

\* StreamWriter.is_closing().
Closing(c, side) == wire[c][side] \in {"reset", "closed"}

\* The event loop accepts a connection; its callback runs in a later turn.
Connect(c) ==
    /\ pc[c] = "none" /\ ~closed
    /\ Goto(c, "backlog")
    /\ SetWire(c, "client", "open")
    /\ UNCHANGED <<closed, closer, writers, cancel, pipe, reply>>

\* The peer of a socket sends its end of file, or the connection is lost.
PeerLeaves(c, side) ==
    /\ wire[c][side] \in {"open", "ended"}
    /\ \E state \in {"ended", "reset"} \ {wire[c][side]} : SetWire(c, side, state)
    /\ UNCHANGED <<closed, closer, writers, pc, cancel, pipe, reply>>

AcceptClient(c) ==
    /\ pc[c] = "backlog"
    /\ IF closed
       THEN Goto(c, "refused") /\ SetWire(c, "client", "closed") /\ UNCHANGED writers
       ELSE Goto(c, "created") /\ writers' = writers \cup {c} /\ UNCHANGED wire
    /\ UNCHANGED <<closed, closer, cancel, pipe, reply>>

-----------------------------------------------------------------------------
(***************************************************************************)
(* The handler.  Its finally clause closes the upstream socket, when the   *)
(* handshake made one, and then the client's.                              *)
(***************************************************************************)
\* A bug for TunnelsAreClosed to find: the upstream socket is closed only after a failure.
UnwindClient(c) == SetWire(c, "client", "closed") /\ Goto(c, "closing_client")

Unwind(c) ==
    IF wire[c]["upstream"] \in {"none", "closed"}
    THEN SetWire(c, "client", "closed") /\ Goto(c, "closing_client")
    ELSE SetWire(c, "upstream", "closed") /\ Goto(c, "closing_upstream")

\* connected: the tunnel has been opened.
Connected(c) == pipe[c]["client"] # "none"

\* A failure is answered during the handshake, if the client is still there.
FailureReply(c) == ~Connected(c) /\ ~Closing(c, "client")

Fail(c) ==
    IF FailureReply(c)
    THEN /\ reply' = [reply EXCEPT ![c] = "failure"]
         /\ Goto(c, "failing")
         /\ UNCHANGED wire
    ELSE Unwind(c) /\ UNCHANGED reply

Start(c) ==
    /\ pc[c] = "created" /\ cancel[c] = "no"
    /\ Goto(c, "reading")
    /\ UNCHANGED <<closed, closer, writers, cancel, wire, pipe, reply>>

\* The request has been read; or the upstream connection is made.
HandshakeGoesOn(c) ==
    /\ cancel[c] = "no"
    /\ \/ /\ pc[c] = "reading" /\ ~Closing(c, "client")
          /\ Goto(c, "dialing")
          /\ UNCHANGED wire
       \/ /\ pc[c] = "dialing"
          /\ Goto(c, "authenticating")
          /\ SetWire(c, "upstream", "open")
    /\ UNCHANGED <<closed, closer, writers, cancel, pipe, reply>>

\* A malformed request, an end of file, no connection to the upstream, a failure of the
\* failure reply or of the success reply's drain.
HandshakeFails(c) ==
    /\ cancel[c] = "no"
    /\ \/ pc[c] \in {"reading", "dialing"}
       \/ pc[c] = "answering" /\ Closing(c, "client")
    /\ Fail(c)
    /\ UNCHANGED <<closed, closer, writers, cancel, pipe>>

HangUp(c) == Goto(c, "hanging_up") /\ SetWire(c, "upstream", "closed")

\* _connect_upstream closes what it opened.
AuthenticationFails(c) ==
    /\ pc[c] = "authenticating" /\ cancel[c] = "no"
    /\ HangUp(c)
    /\ UNCHANGED <<closed, closer, writers, cancel, pipe, reply>>

HungUp(c) ==
    /\ pc[c] = "hanging_up" /\ cancel[c] # "asked"
    /\ IF cancel[c] = "no" THEN Fail(c) ELSE Unwind(c) /\ UNCHANGED reply
    /\ UNCHANGED <<closed, closer, writers, cancel, pipe>>

\* The upstream proxy connects the target and the client is told.
Authenticated(c) ==
    /\ pc[c] = "authenticating" /\ cancel[c] = "no" /\ ~Closing(c, "upstream")
    /\ Goto(c, "answering")
    /\ reply' = [reply EXCEPT ![c] = "success"]
    /\ UNCHANGED <<closed, closer, writers, cancel, wire, pipe>>

TunnelOpens(c) ==
    /\ pc[c] = "answering" /\ cancel[c] = "no" /\ ~Closing(c, "client")
    /\ Goto(c, "piping")
    /\ pipe' = [pipe EXCEPT ![c] = [s \in Sides |-> "running"]]
    /\ UNCHANGED <<closed, closer, writers, cancel, wire, reply>>

\* A pipe that ends closes the socket it wrote to.
PipeEnds(c, side, how) ==
    /\ pipe' = [pipe EXCEPT ![c][side] = how]
    /\ SetWire(c, Other(side), "closed")

\* read() returned nothing: the peer's end of file, or the socket was closed here.
PipeReadsEnd(c, side) ==
    /\ pipe[c][side] = "running" /\ pc[c] = "piping"
    /\ wire[c][side] \in {"ended", "closed"}
    /\ PipeEnds(c, side, "done")
    /\ UNCHANGED <<closed, closer, writers, pc, cancel, reply>>

\* read() or drain() raised.
PipeFails(c, side) ==
    /\ pipe[c][side] = "running" /\ pc[c] = "piping"
    /\ wire[c][side] = "reset" \/ Closing(c, Other(side))
    /\ PipeEnds(c, side, "failed")
    /\ UNCHANGED <<closed, closer, writers, pc, cancel, reply>>

\* One direction failed, or both are done.
Joined(c) == (\E s \in Sides : pipe[c][s] = "failed") \/ \A s \in Sides : pipe[c][s] = "done"

PipesJoined(c) ==
    /\ pc[c] = "piping" /\ cancel[c] = "no" /\ Joined(c)
    /\ Goto(c, "settling")
    /\ UNCHANGED <<closed, closer, writers, cancel, wire, pipe, reply>>

\* The pipes that still run are cancelled and gathered.
PipeCancelled(c, side) ==
    /\ pc[c] = "settling" /\ pipe[c][side] = "running"
    /\ PipeEnds(c, side, "cancelled")
    /\ UNCHANGED <<closed, closer, writers, pc, cancel, reply>>

Settled(c) ==
    /\ pc[c] = "settling" /\ cancel[c] # "asked" /\ \A s \in Sides : pipe[c][s] # "running"
    /\ IF cancel[c] = "no" /\ \E s \in Sides : pipe[c][s] = "failed"
       THEN Fail(c)
       ELSE Unwind(c) /\ UNCHANGED reply
    /\ UNCHANGED <<closed, closer, writers, cancel, pipe>>

FailureSent(c) ==
    /\ pc[c] = "failing" /\ cancel[c] # "asked"
    /\ Unwind(c)
    /\ UNCHANGED <<closed, closer, writers, cancel, pipe, reply>>

UpstreamClosed(c) ==
    /\ pc[c] = "closing_upstream" /\ cancel[c] # "asked"
    /\ SetWire(c, "client", "closed")
    /\ Goto(c, "closing_client")
    /\ UNCHANGED <<closed, closer, writers, cancel, pipe, reply>>

ClientClosed(c) ==
    /\ pc[c] = "closing_client" /\ cancel[c] # "asked"
    /\ writers' = writers \ {c}
    /\ Goto(c, "ended")
    /\ UNCHANGED <<closed, closer, cancel, wire, pipe, reply>>

\* The cancellation arrives at the await the handler is in.  One that never started ends
\* at once, and so does one that is in its finally clause.
Cancelled(c) ==
    /\ cancel[c] = "asked" /\ pc[c] \in Running
    /\ cancel' = [cancel EXCEPT ![c] = "raised"]
    /\ CASE pc[c] \in {"created", "closing_upstream", "closing_client"} ->
              Goto(c, "ended") /\ UNCHANGED wire
         [] pc[c] = "authenticating" -> HangUp(c)
         [] pc[c] = "piping" -> Goto(c, "settling") /\ UNCHANGED wire
         [] pc[c] = "settling" -> UNCHANGED <<pc, wire>>
         [] OTHER -> Unwind(c)
    /\ UNCHANGED <<closed, closer, writers, pipe, reply>>

-----------------------------------------------------------------------------
Live == {c \in Clients : pc[c] \in Running}

\* The handlers that close() cancels, _handler_tasks.
Handlers == Live

CloseBegins ==
    /\ closer = "idle"
    /\ closed' = TRUE
    /\ wire' = [c \in Clients |->
                  IF c \in writers THEN [wire[c] EXCEPT !["client"] = "closed"] ELSE wire[c]]
    /\ cancel' = [c \in Clients |-> IF c \in Handlers THEN "asked" ELSE cancel[c]]
    /\ closer' = "gathering"
    /\ UNCHANGED <<writers, pc, pipe, reply>>

CloseEnds ==
    /\ closer = "gathering" /\ Live = {}
    /\ closer' = "done"
    /\ UNCHANGED <<closed, writers, pc, cancel, wire, pipe, reply>>

\* What the code does by itself; the handshake waits for the peers without a limit.
HandlerStep(c) ==
    \/ AcceptClient(c) \/ Start(c) \/ HungUp(c) \/ PipesJoined(c) \/ Settled(c)
    \/ FailureSent(c) \/ UpstreamClosed(c) \/ ClientClosed(c) \/ Cancelled(c)
    \/ \E s \in Sides : PipeReadsEnd(c, s) \/ PipeFails(c, s) \/ PipeCancelled(c, s)

PeerStep(c) ==
    \/ Connect(c) \/ HandshakeGoesOn(c) \/ HandshakeFails(c)
    \/ Authenticated(c) \/ AuthenticationFails(c) \/ TunnelOpens(c)
    \/ \E s \in Sides : PeerLeaves(c, s)

Next ==
    \/ \E c \in Clients : HandlerStep(c) \/ PeerStep(c)
    \/ CloseBegins \/ CloseEnds

Spec == Init /\ [][Next]_vars

Fairness == WF_vars(CloseEnds) /\ \A c \in Clients : WF_vars(HandlerStep(c))

FairSpec == Spec /\ Fairness

-----------------------------------------------------------------------------
Alive(c, side) == wire[c][side] \in {"open", "ended"}

\* A client that connects while the bridge closes gets no handler, and once close() has
\* returned no handler runs and no socket is open that it could have known
\* (proxy.py:84).
NothingAfterClose ==
    closer = "done" => \A c \in Clients :
        /\ pc[c] \notin Running
        /\ \A s \in Sides : Alive(c, s) => pc[c] = "backlog"

\* However a handler ends, it leaves neither of its two sockets open (proxy.py:136).
HandlersOwnSockets ==
    \A c \in Clients, s \in Sides : pc[c] = "ended" => ~Alive(c, s)

\* Behind the success reply comes nothing but the tunnel's data (proxy.py:129).
NoReplyInTunnel == [][\A c \in Clients : reply[c] = "success" => reply'[c] = "success"]_vars

\* close() ends although handshakes wait for peers that never answer, and after it
\* nothing stays open (proxy.py:73).
CloseLeavesNothing ==
    closed ~> closer = "done" /\ \A c \in Clients, s \in Sides : ~Alive(c, s)

\* When one end of a tunnel is lost its other end is closed and its handler ends
\* (proxy.py:220).
ErrorsEndTunnel ==
    \A c \in Clients :
        pc[c] = "piping" /\ (\E s \in Sides : wire[c][s] = "reset") ~>
            pc[c] = "ended" /\ \A s \in Sides : ~Alive(c, s)

\* What proxy.py:227 says: the end of one direction does not cut off the other, which
\* goes on until its own peer ends it.
OtherDirectionGoesOn ==
    [][\A c \in Clients, s \in Sides :
          ~closed /\ pipe[c][s] = "running" /\ pipe'[c][s] = "done" => wire[c][s] = "ended"]_vars
=============================================================================
