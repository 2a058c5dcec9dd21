---------------------------- MODULE BrowsersProofs ----------------------------
(***************************************************************************)
(* What holds of a browser process for any number of launches, callers of  *)
(* its close and connections to its SOCKS bridge: launches are serial, the *)
(* browser is left by one task at a time, and the bridge leaves no socket  *)
(* open.                                                                   *)
(***************************************************************************)
EXTENDS MCBrowsers, WaitingLines, FiniteSetTheorems, TLAPS

(***************************************************************************)
(* The bridge.                                                             *)
(***************************************************************************)
LEMMA TwoSides ==
    /\ Bridge!Sides = {"client", "upstream"}
    /\ Bridge!Other("client") = "upstream" /\ Bridge!Other("upstream") = "client"
  BY DEF Bridge!Sides, Bridge!Other

\* A socket that nobody can use any more.
Dead(state) == state \notin {"open", "ended"}

Places == Bridge!Running \cup {"none", "backlog", "refused", "ended"}

Sockets == [{"client", "upstream"} -> {"none", "open", "ended", "reset", "closed"}]

PipeTasks == [{"client", "upstream"} -> {"none", "running", "done", "failed", "cancelled"}]

\* What a handler at p leaves of its two sockets: the upstream socket exists only behind the
\* handshake's dial and is closed before the client's, and a handler that is cancelled has
\* lost its client already.  The bridge knows the client of every handler that runs.
Follow(p, sockets, cancelled, known) ==
    /\ p \in Bridge!Running => known
    /\ known => p \notin {"none", "backlog", "refused"}
    /\ p = "none" => sockets["client"] = "none"
    /\ p \in {"none", "backlog", "refused", "created", "reading", "dialing"} =>
         sockets["upstream"] = "none"
    /\ p \in {"refused", "closing_client"} => sockets["client"] = "closed"
    /\ p \in {"closing_upstream", "closing_client", "ended"} => Dead(sockets["upstream"])
    /\ p = "ended" => Dead(sockets["client"])
    /\ cancelled # "no" => sockets["client"] = "closed"

BridgeTypes ==
    /\ closed \in BOOLEAN /\ closer \in {"idle", "gathering", "done"} /\ writers \subseteq Clients
    /\ handler \in [Clients -> Places]
    /\ cancel \in [Clients -> {"no", "asked", "raised"}]
    /\ wire \in [Clients -> Sockets]
    /\ pipe \in [Clients -> PipeTasks]
    /\ reply \in [Clients -> {"none", "success", "failure"}]

BridgeInv ==
    /\ BridgeTypes
    /\ closed <=> closer # "idle"
    /\ closer = "done" => \A c \in Clients : handler[c] \notin Bridge!Running
    /\ \A c \in Clients : Follow(handler[c], wire[c], cancel[c], c \in writers)

-----------------------------------------------------------------------------
\* A step of connection c takes its handler to p and leaves it with these sockets.
Goes(c, p, sockets, cancelled, known) ==
    /\ UNCHANGED <<closed, closer>>
    /\ handler' = [handler EXCEPT ![c] = p]
    /\ wire' = [wire EXCEPT ![c] = sockets]
    /\ cancel' = [cancel EXCEPT ![c] = cancelled]
    /\ \A d \in Clients : d \in writers' <=> IF d = c THEN known ELSE d \in writers
    /\ writers' \subseteq Clients
    /\ pipe' \in [Clients -> PipeTasks]
    /\ reply' \in [Clients -> {"none", "success", "failure"}]

\* Such a step preserves the invariant if it leaves its own connection as it should, and
\* starts no handler behind the close.
LEMMA GoesKeeps ==
    ASSUME BridgeInv, NEW c \in Clients, NEW p \in Places, NEW sockets \in Sockets,
           NEW cancelled \in {"no", "asked", "raised"}, NEW known \in BOOLEAN,
           Goes(c, p, sockets, cancelled, known), Follow(p, sockets, cancelled, known),
           p \in Bridge!Running => handler[c] \in Bridge!Running \/ ~closed
    PROVE  BridgeInv'
  <1>1. BridgeTypes'
    BY DEF BridgeInv, BridgeTypes, Goes
  <1>2. ASSUME NEW d \in Clients
        PROVE  Follow(handler'[d], wire'[d], cancel'[d], d \in writers')
    <2>1. CASE d = c
      <3>1. handler'[d] = p /\ wire'[d] = sockets /\ cancel'[d] = cancelled
        BY <2>1 DEF BridgeInv, BridgeTypes, Goes
      <3>2. d \in writers' <=> known
        BY <2>1 DEF Goes
      <3> QED BY <3>1, <3>2 DEF Follow
    <2>2. CASE d # c
      <3>1. handler'[d] = handler[d] /\ wire'[d] = wire[d] /\ cancel'[d] = cancel[d]
        BY <2>2 DEF BridgeInv, BridgeTypes, Goes
      <3>2. d \in writers' <=> d \in writers
        BY <2>2 DEF Goes
      <3>3. Follow(handler[d], wire[d], cancel[d], d \in writers)
        BY DEF BridgeInv
      <3> QED BY <3>1, <3>2, <3>3 DEF Follow
    <2> QED BY <2>1, <2>2
  <1>3. ASSUME closer' = "done", NEW d \in Clients PROVE handler'[d] \notin Bridge!Running
    <2>1. closer = "done" /\ closed
      BY <1>3 DEF BridgeInv, Goes
    <2>2. \A e \in Clients : handler[e] \notin Bridge!Running
      BY <2>1 DEF BridgeInv
    <2>3. handler'[d] = IF d = c THEN p ELSE handler[d]
      BY DEF BridgeInv, BridgeTypes, Goes
    <2> QED BY <2>1, <2>2, <2>3
  <1>4. closed' <=> closer' # "idle"
    BY DEF BridgeInv, Goes
  <1> QED BY <1>1, <1>2, <1>3, <1>4 DEF BridgeInv, Follow, Bridge!Running

\* What is known of one connection.
LEMMA Connection ==
    ASSUME BridgeInv, NEW c \in Clients
    PROVE  /\ handler[c] \in Places /\ wire[c] \in Sockets /\ pipe[c] \in PipeTasks
           /\ cancel[c] \in {"no", "asked", "raised"}
           /\ cancel = [cancel EXCEPT ![c] = cancel[c]]
           /\ handler = [handler EXCEPT ![c] = handler[c]]
           /\ wire = [wire EXCEPT ![c] = wire[c]]
           /\ Follow(handler[c], wire[c], cancel[c], c \in writers)
           /\ handler[c] \in Bridge!Running => c \in writers
           /\ \A p : handler[c] = p => handler[c] \in Bridge!Running
                                        \/ p \in {"none", "backlog", "refused", "ended"}
  BY DEF BridgeInv, BridgeTypes, Follow, Places

\* A handler goes on to p with these sockets, perhaps with a cancellation that was raised.
RunsTo(c, p, sockets, k) ==
    /\ UNCHANGED <<closed, closer, writers>>
    /\ handler' = [handler EXCEPT ![c] = p]
    /\ wire' = [wire EXCEPT ![c] = sockets]
    /\ cancel' = [cancel EXCEPT ![c] = k]
    /\ pipe' \in [Clients -> PipeTasks]
    /\ reply' \in [Clients -> {"none", "success", "failure"}]
    /\ Follow(p, sockets, k, TRUE)

LEMMA RunsOn ==
    ASSUME BridgeInv, NEW c \in Clients, handler[c] \in Bridge!Running,
           NEW p \in Bridge!Running, NEW sockets \in Sockets,
           NEW k \in {"no", "asked", "raised"}, RunsTo(c, p, sockets, k)
    PROVE  BridgeInv'
  <1>1. BridgeTypes /\ c \in writers
    BY Connection DEF BridgeInv
  <1>2. p \in Places
    BY DEF Places
  <1>3. Goes(c, p, sockets, k, TRUE)
    BY <1>1 DEF Goes, BridgeTypes, RunsTo
  <1>4. Follow(p, sockets, k, TRUE)
    BY DEF RunsTo
  <1> QED BY <1>2, <1>3, <1>4, GoesKeeps

\* The finally clause of a handler.
LEMMA UnwindKeeps ==
    ASSUME BridgeInv, NEW c \in Clients, handler[c] \in Bridge!Running, Bridge!Unwind(c),
           NEW k \in {"no", "asked", "raised"}, k # "no" => cancel[c] # "no",
           UNCHANGED <<closed, closer, writers>>,
           cancel' = [cancel EXCEPT ![c] = k],
           pipe' \in [Clients -> PipeTasks],
           reply' \in [Clients -> {"none", "success", "failure"}]
    PROVE  BridgeInv'
  <1>1. wire[c] \in Sockets /\ (k # "no" => wire[c]["client"] = "closed")
    BY Connection DEF Follow
  <1>2. CASE wire[c]["upstream"] \in {"none", "closed"}
    <2> DEFINE sockets == [wire[c] EXCEPT !["client"] = "closed"]
    <2>1. /\ handler' = [handler EXCEPT ![c] = "closing_client"]
          /\ wire' = [wire EXCEPT ![c] = sockets]
      BY <1>2 DEF Bridge!Unwind, Bridge!Goto, Bridge!SetWire
    <2>2. /\ sockets \in Sockets /\ sockets["client"] = "closed"
          /\ sockets["upstream"] = wire[c]["upstream"]
      BY <1>1 DEF Sockets
    <2> HIDE DEF sockets
    <2>3. Follow("closing_client", sockets, k, TRUE) /\ "closing_client" \in Bridge!Running
      BY <1>2, <2>2 DEF Follow, Dead, Bridge!Running
    <2>4. RunsTo(c, "closing_client", sockets, k)
      BY <2>1, <2>3 DEF RunsTo
    <2> QED BY <2>2, <2>3, <2>4, RunsOn
  <1>3. CASE wire[c]["upstream"] \notin {"none", "closed"}
    <2> DEFINE sockets == [wire[c] EXCEPT !["upstream"] = "closed"]
    <2>1. /\ handler' = [handler EXCEPT ![c] = "closing_upstream"]
          /\ wire' = [wire EXCEPT ![c] = sockets]
      BY <1>3 DEF Bridge!Unwind, Bridge!Goto, Bridge!SetWire
    <2>2. /\ sockets \in Sockets /\ sockets["upstream"] = "closed"
          /\ sockets["client"] = wire[c]["client"]
      BY <1>1 DEF Sockets
    <2> HIDE DEF sockets
    <2>3. Follow("closing_upstream", sockets, k, TRUE) /\ "closing_upstream" \in Bridge!Running
      BY <1>1, <2>2 DEF Follow, Dead, Bridge!Running
    <2>4. RunsTo(c, "closing_upstream", sockets, k)
      BY <2>1, <2>3 DEF RunsTo
    <2> QED BY <2>2, <2>3, <2>4, RunsOn
  <1> QED BY <1>2, <1>3

\* A handler that fails.
LEMMA FailKeeps ==
    ASSUME BridgeInv, NEW c \in Clients, handler[c] \in Bridge!Running, Bridge!Fail(c),
           UNCHANGED <<closed, closer, writers, cancel, pipe>>
    PROVE  BridgeInv'
  <1>1. BridgeTypes
    BY DEF BridgeInv
  <1>2. CASE Bridge!FailureReply(c)
    <2>1. /\ reply' = [reply EXCEPT ![c] = "failure"] /\ wire' = wire
          /\ handler' = [handler EXCEPT ![c] = "failing"]
      BY <1>2 DEF Bridge!Fail, Bridge!Goto
    <2>2. Follow("failing", wire[c], cancel[c], TRUE) /\ "failing" \in Bridge!Running
      BY Connection DEF Follow, Bridge!Running
    <2>3. reply' \in [Clients -> {"none", "success", "failure"}] /\ pipe' \in [Clients -> PipeTasks]
      BY <1>1, <2>1 DEF BridgeTypes
    <2>4. RunsTo(c, "failing", wire[c], cancel[c])
      BY <2>1, <2>2, <2>3, Connection DEF RunsTo
    <2> QED BY <2>2, <2>4, Connection, RunsOn
  <1>3. CASE ~Bridge!FailureReply(c)
    <2>1. Bridge!Unwind(c) /\ reply' = reply
      BY <1>3 DEF Bridge!Fail
    <2>2. reply' \in [Clients -> {"none", "success", "failure"}] /\ pipe' \in [Clients -> PipeTasks]
      BY <1>1, <2>1 DEF BridgeTypes
    <2> QED BY <2>1, <2>2, Connection, UnwindKeeps
  <1> QED BY <1>2, <1>3

\* Between the dial and the finally clause nothing is asked of the sockets, but that a
\* cancelled handler has lost its client.
Midway == {"authenticating", "hanging_up", "answering", "piping", "settling", "failing"}

LEMMA MidwayFollows ==
    ASSUME NEW p \in Midway, NEW sockets, NEW k, k # "no" => sockets["client"] = "closed"
    PROVE  Follow(p, sockets, k, TRUE) /\ p \in Bridge!Running
  BY DEF Midway, Follow, Bridge!Running

\* Tasks and replies keep their types.
LEMMA PipeSet ==
    ASSUME BridgeInv, NEW c \in Clients, NEW side \in {"client", "upstream"},
           NEW state \in {"none", "running", "done", "failed", "cancelled"}
    PROVE  /\ [pipe EXCEPT ![c][side] = state] \in [Clients -> PipeTasks]
           /\ pipe \in [Clients -> PipeTasks]
  <1>1. pipe \in [Clients -> PipeTasks]
    BY DEF BridgeInv, BridgeTypes
  <1>2. pipe[c] \in PipeTasks
    BY <1>1
  <1>3. [pipe[c] EXCEPT ![side] = state] \in PipeTasks
    BY <1>2 DEF PipeTasks
  <1> QED BY <1>1, <1>3

LEMMA ReplySet ==
    ASSUME BridgeInv, NEW c \in Clients, NEW state \in {"none", "success", "failure"}
    PROVE  /\ [reply EXCEPT ![c] = state] \in [Clients -> {"none", "success", "failure"}]
           /\ reply \in [Clients -> {"none", "success", "failure"}]
  BY DEF BridgeInv, BridgeTypes

\* A pipe that ends closes the socket it wrote to.
LEMMA PipeEndsKeeps ==
    ASSUME BridgeInv, NEW c \in Clients, handler[c] \in {"piping", "settling"},
           NEW side \in {"client", "upstream"}, NEW how \in {"done", "failed", "cancelled"},
           Bridge!PipeEnds(c, side, how),
           UNCHANGED <<closed, closer, writers, handler, cancel, reply>>
    PROVE  BridgeInv'
  <1> DEFINE other == Bridge!Other(side)  sockets == [wire[c] EXCEPT ![other] = "closed"]
  <1>1. other \in {"client", "upstream"}
    BY TwoSides
  <1> HIDE DEF other
  <1>2. /\ wire' = [wire EXCEPT ![c] = sockets]
        /\ pipe' \in [Clients -> PipeTasks]
    BY PipeSet DEF Bridge!PipeEnds, Bridge!SetWire, other
  <1>3. /\ sockets \in Sockets
        /\ wire[c]["client"] = "closed" => sockets["client"] = "closed"
    BY <1>1, Connection DEF Sockets
  <1> HIDE DEF sockets
  <1>4. Follow(handler[c], sockets, cancel[c], TRUE) /\ handler[c] \in Bridge!Running
    <2>1. handler[c] \in Midway
      BY DEF Midway
    <2>2. cancel[c] # "no" => sockets["client"] = "closed"
      BY <1>3, Connection DEF Follow
    <2> QED BY <2>1, <2>2, MidwayFollows
  <1>5. RunsTo(c, handler[c], sockets, cancel[c])
    BY <1>2, <1>4, Connection, ReplySet DEF RunsTo
  <1> QED BY <1>3, <1>4, <1>5, Connection, RunsOn

\* A handler that goes on with its sockets as they are.
LEMMA WalksOn ==
    ASSUME BridgeInv, NEW c \in Clients, handler[c] \in Bridge!Running, NEW p \in Midway,
           handler' = [handler EXCEPT ![c] = p],
           UNCHANGED <<closed, closer, writers, wire, cancel>>,
           pipe' \in [Clients -> PipeTasks],
           reply' \in [Clients -> {"none", "success", "failure"}]
    PROVE  BridgeInv'
  <1>1. cancel[c] # "no" => wire[c]["client"] = "closed"
    BY Connection DEF Follow
  <1>2. Follow(p, wire[c], cancel[c], TRUE) /\ p \in Bridge!Running
    BY <1>1, MidwayFollows
  <1>3. RunsTo(c, p, wire[c], cancel[c])
    BY <1>2, Connection DEF RunsTo
  <1> QED BY <1>2, <1>3, Connection, RunsOn

\* The bridge gives up its upstream connection before the tunnel is open.
LEMMA HangUpKeeps ==
    ASSUME BridgeInv, NEW c \in Clients, handler[c] \in Bridge!Running, Bridge!HangUp(c),
           NEW k \in {"no", "asked", "raised"}, k # "no" => cancel[c] # "no",
           cancel' = [cancel EXCEPT ![c] = k],
           UNCHANGED <<closed, closer, writers, pipe, reply>>
    PROVE  BridgeInv'
  <1> DEFINE sockets == [wire[c] EXCEPT !["upstream"] = "closed"]
  <1>1. /\ handler' = [handler EXCEPT ![c] = "hanging_up"]
        /\ wire' = [wire EXCEPT ![c] = sockets]
    BY DEF Bridge!HangUp, Bridge!Goto, Bridge!SetWire
  <1>2. sockets \in Sockets /\ sockets["client"] = wire[c]["client"]
    BY Connection DEF Sockets
  <1> HIDE DEF sockets
  <1>3. Follow("hanging_up", sockets, k, TRUE) /\ "hanging_up" \in Bridge!Running
    <2>1. k # "no" => sockets["client"] = "closed"
      BY <1>2, Connection DEF Follow
    <2>2. "hanging_up" \in Midway
      BY DEF Midway
    <2> QED BY <2>1, <2>2, MidwayFollows
  <1>4. pipe' \in [Clients -> PipeTasks] /\ reply' \in [Clients -> {"none", "success", "failure"}]
    BY DEF BridgeInv, BridgeTypes
  <1>5. RunsTo(c, "hanging_up", sockets, k)
    BY <1>1, <1>3, <1>4 DEF RunsTo
  <1> QED BY <1>2, <1>3, <1>5, RunsOn

\* What the code does by itself preserves the invariant.
LEMMA HandlerStepKeeps ==
    ASSUME BridgeInv, NEW c \in Clients, Bridge!HandlerStep(c)
    PROVE  BridgeInv'
  <1>t. BridgeTypes /\ pipe \in [Clients -> PipeTasks]
        /\ reply \in [Clients -> {"none", "success", "failure"}]
    BY DEF BridgeInv, BridgeTypes
  <1>1. CASE Bridge!AcceptClient(c)
    <2>1. handler[c] = "backlog" /\ c \notin writers
      BY <1>1, Connection DEF Bridge!AcceptClient, Follow
    <2>2. CASE closed
      <3> DEFINE sockets == [wire[c] EXCEPT !["client"] = "closed"]
      <3>1. /\ handler' = [handler EXCEPT ![c] = "refused"]
            /\ wire' = [wire EXCEPT ![c] = sockets]
            /\ UNCHANGED <<closed, closer, writers, cancel, pipe, reply>>
        BY <1>1, <2>2 DEF Bridge!AcceptClient, Bridge!Goto, Bridge!SetWire
      <3>2. /\ sockets \in Sockets /\ sockets["client"] = "closed"
            /\ sockets["upstream"] = wire[c]["upstream"]
        BY Connection DEF Sockets
      <3> HIDE DEF sockets
      <3>3. Follow("refused", sockets, cancel[c], FALSE)
        BY <2>1, <3>2, Connection DEF Follow, Bridge!Running
      <3>4. Goes(c, "refused", sockets, cancel[c], FALSE)
        BY <2>1, <3>1, <1>t, Connection DEF Goes, BridgeTypes
      <3>5. "refused" \in Places /\ "refused" \notin Bridge!Running
        BY DEF Places, Bridge!Running
      <3>a. wire[c] \in Sockets /\ cancel[c] \in {"no", "asked", "raised"} /\ handler[c] \in Places
        BY Connection
      <3> QED BY <3>2, <3>3, <3>4, <3>5, <3>a, GoesKeeps
    <2>3. CASE ~closed
      <3>1. /\ handler' = [handler EXCEPT ![c] = "created"] /\ writers' = writers \cup {c}
            /\ UNCHANGED <<closed, closer, wire, cancel, pipe, reply>>
        BY <1>1, <2>3 DEF Bridge!AcceptClient, Bridge!Goto
      <3>2. Follow("created", wire[c], cancel[c], TRUE)
        BY <2>1, Connection DEF Follow
      <3>3. Goes(c, "created", wire[c], cancel[c], TRUE)
        BY <3>1, <1>t, Connection DEF Goes, BridgeTypes
      <3>4. "created" \in Places
        BY DEF Places, Bridge!Running
      <3>a. wire[c] \in Sockets /\ cancel[c] \in {"no", "asked", "raised"} /\ handler[c] \in Places
        BY Connection
      <3> QED BY <2>3, <3>2, <3>3, <3>4, <3>a, GoesKeeps
    <2> QED BY <2>2, <2>3
  <1>2. CASE Bridge!Start(c)
    <2>1. /\ handler[c] = "created" /\ handler' = [handler EXCEPT ![c] = "reading"]
          /\ UNCHANGED <<closed, closer, writers, cancel, wire, pipe, reply>>
      BY <1>2 DEF Bridge!Start, Bridge!Goto
    <2>2. /\ Follow("reading", wire[c], cancel[c], TRUE)
          /\ handler[c] \in Bridge!Running /\ "reading" \in Bridge!Running
      BY <2>1, Connection DEF Follow, Bridge!Running
    <2>3. RunsTo(c, "reading", wire[c], cancel[c])
      BY <2>1, <2>2, <1>t, Connection DEF RunsTo
    <2> QED BY <2>2, <2>3, Connection, RunsOn
  <1>3. ASSUME handler[c] \in Bridge!Running, Bridge!Unwind(c),
               UNCHANGED <<closed, closer, writers, cancel, pipe, reply>>
        PROVE  BridgeInv'
    BY <1>3, <1>t, Connection, UnwindKeeps
  <1>4. ASSUME handler[c] \in Bridge!Running, Bridge!Fail(c),
               UNCHANGED <<closed, closer, writers, cancel, pipe>>
        PROVE  BridgeInv'
    BY <1>4, FailKeeps
  <1>5. CASE Bridge!HungUp(c)
    <2>1. /\ handler[c] = "hanging_up" /\ UNCHANGED <<closed, closer, writers, cancel, pipe>>
          /\ Bridge!Fail(c) \/ (Bridge!Unwind(c) /\ reply' = reply)
      BY <1>5 DEF Bridge!HungUp
    <2>2. handler[c] \in Bridge!Running
      BY <2>1 DEF Bridge!Running
    <2> QED BY <2>1, <2>2, <1>3, <1>4
  <1>6. CASE Bridge!Settled(c)
    <2>1. /\ handler[c] = "settling" /\ UNCHANGED <<closed, closer, writers, cancel, pipe>>
          /\ Bridge!Fail(c) \/ (Bridge!Unwind(c) /\ reply' = reply)
      BY <1>6 DEF Bridge!Settled
    <2>2. handler[c] \in Bridge!Running
      BY <2>1 DEF Bridge!Running
    <2> QED BY <2>1, <2>2, <1>3, <1>4
  <1>7. CASE Bridge!FailureSent(c)
    <2>1. handler[c] \in Bridge!Running
      BY <1>7 DEF Bridge!FailureSent, Bridge!Running
    <2> QED BY <1>7, <2>1, <1>3 DEF Bridge!FailureSent
  <1>8. CASE Bridge!PipesJoined(c)
    <2>1. /\ handler[c] = "piping" /\ handler' = [handler EXCEPT ![c] = "settling"]
          /\ UNCHANGED <<closed, closer, writers, cancel, wire, pipe, reply>>
      BY <1>8 DEF Bridge!PipesJoined, Bridge!Goto
    <2>2. handler[c] \in Bridge!Running /\ "settling" \in Midway
      BY <2>1 DEF Bridge!Running, Midway
    <2> QED BY <2>1, <2>2, <1>t, WalksOn
  <1>9. CASE Bridge!UpstreamClosed(c)
    <2> DEFINE sockets == [wire[c] EXCEPT !["client"] = "closed"]
    <2>1. /\ handler[c] = "closing_upstream"
          /\ handler' = [handler EXCEPT ![c] = "closing_client"]
          /\ wire' = [wire EXCEPT ![c] = sockets]
          /\ UNCHANGED <<closed, closer, writers, cancel, pipe, reply>>
      BY <1>9 DEF Bridge!UpstreamClosed, Bridge!Goto, Bridge!SetWire
    <2>2. /\ sockets \in Sockets /\ sockets["client"] = "closed"
          /\ sockets["upstream"] = wire[c]["upstream"]
      BY Connection DEF Sockets
    <2> HIDE DEF sockets
    <2>3. /\ Follow("closing_client", sockets, cancel[c], TRUE)
          /\ handler[c] \in Bridge!Running /\ "closing_client" \in Bridge!Running
      BY <2>1, <2>2, Connection DEF Follow, Bridge!Running
    <2>4. RunsTo(c, "closing_client", sockets, cancel[c])
      BY <2>1, <2>3, <1>t, Connection DEF RunsTo
    <2> QED BY <2>2, <2>3, <2>4, Connection, RunsOn
  <1>10. CASE Bridge!ClientClosed(c)
    <2>1. /\ handler[c] = "closing_client" /\ handler' = [handler EXCEPT ![c] = "ended"]
          /\ writers' = writers \ {c}
          /\ UNCHANGED <<closed, closer, cancel, wire, pipe, reply>>
      BY <1>10 DEF Bridge!ClientClosed, Bridge!Goto
    <2>2. Follow("ended", wire[c], cancel[c], FALSE)
      BY <2>1, Connection DEF Follow, Dead, Bridge!Running
    <2>3. Goes(c, "ended", wire[c], cancel[c], FALSE)
      BY <2>1, <1>t, Connection DEF Goes, BridgeTypes
    <2>4. "ended" \in Places /\ "ended" \notin Bridge!Running
      BY DEF Places, Bridge!Running
    <2>a. wire[c] \in Sockets /\ cancel[c] \in {"no", "asked", "raised"} /\ handler[c] \in Places
      BY Connection
    <2> QED BY <2>2, <2>3, <2>4, <2>a, GoesKeeps
  <1>11. CASE Bridge!Cancelled(c)
    <2>1. /\ cancel[c] = "asked" /\ handler[c] \in Bridge!Running
          /\ cancel' = [cancel EXCEPT ![c] = "raised"]
          /\ UNCHANGED <<closed, closer, writers, pipe, reply>>
      BY <1>11 DEF Bridge!Cancelled
    <2>2. CASE handler[c] \in {"created", "closing_upstream", "closing_client"}
      <3>1. handler' = [handler EXCEPT ![c] = "ended"] /\ wire' = wire
        BY <1>11, <2>2 DEF Bridge!Cancelled, Bridge!Goto
      <3>2. Follow("ended", wire[c], "raised", TRUE)
        BY <2>1, <2>2, Connection DEF Follow, Dead, Bridge!Running
      <3>3. Goes(c, "ended", wire[c], "raised", TRUE)
        BY <2>1, <3>1, <1>t, Connection DEF Goes, BridgeTypes
      <3>4. "ended" \in Places /\ "ended" \notin Bridge!Running
        BY DEF Places, Bridge!Running
      <3> QED BY <3>2, <3>3, <3>4, Connection, GoesKeeps
    <2>3. CASE handler[c] = "authenticating"
      <3>1. Bridge!HangUp(c)
        BY <1>11, <2>3 DEF Bridge!Cancelled
      <3> QED BY <2>1, <3>1, HangUpKeeps
    <2>4. CASE handler[c] \in {"piping", "settling"}
      <3>1. /\ handler' = [handler EXCEPT ![c] = "settling"] /\ wire' = wire
        BY <1>11, <2>4, Connection DEF Bridge!Cancelled, Bridge!Goto
      <3>2. "settling" \in Midway
        BY DEF Midway
      <3>3. Follow("settling", wire[c], "raised", TRUE) /\ "settling" \in Bridge!Running
        BY <2>1, <3>2, Connection, MidwayFollows DEF Follow
      <3>4. RunsTo(c, "settling", wire[c], "raised")
        BY <2>1, <3>1, <3>3, <1>t, Connection DEF RunsTo
      <3> QED BY <2>1, <3>3, <3>4, Connection, RunsOn
    <2>5. CASE handler[c] \notin {"created", "closing_upstream", "closing_client",
                                  "authenticating", "piping", "settling"}
      <3>1. Bridge!Unwind(c)
        BY <1>11, <2>5 DEF Bridge!Cancelled
      <3> QED BY <2>1, <3>1, <1>t, UnwindKeeps
    <2> QED BY <2>2, <2>3, <2>4, <2>5
  <1>12. ASSUME NEW side \in Bridge!Sides,
                Bridge!PipeReadsEnd(c, side) \/ Bridge!PipeFails(c, side)
                  \/ Bridge!PipeCancelled(c, side)
         PROVE  BridgeInv'
    <2>1. /\ handler[c] \in {"piping", "settling"}
          /\ UNCHANGED <<closed, closer, writers, handler, cancel, reply>>
          /\ \E how \in {"done", "failed", "cancelled"} : Bridge!PipeEnds(c, side, how)
      BY <1>12 DEF Bridge!PipeReadsEnd, Bridge!PipeFails, Bridge!PipeCancelled
    <2>2. PICK how \in {"done", "failed", "cancelled"} : Bridge!PipeEnds(c, side, how)
      BY <2>1
    <2> QED BY <2>1, <2>2, TwoSides, PipeEndsKeeps
  <1> QED BY <1>1, <1>2, <1>5, <1>6, <1>7, <1>8, <1>9, <1>10, <1>11, <1>12
          DEF Bridge!HandlerStep

\* What the peers do, and the handshake with them, preserves the invariant.
LEMMA PeerStepKeeps ==
    ASSUME BridgeInv, NEW c \in Clients, Bridge!PeerStep(c)
    PROVE  BridgeInv'
  <1>t. BridgeTypes /\ pipe \in [Clients -> PipeTasks]
        /\ reply \in [Clients -> {"none", "success", "failure"}]
    BY DEF BridgeInv, BridgeTypes
  <1>1. CASE Bridge!Connect(c)
    <2> DEFINE sockets == [wire[c] EXCEPT !["client"] = "open"]
    <2>1. /\ handler[c] = "none" /\ handler' = [handler EXCEPT ![c] = "backlog"]
          /\ wire' = [wire EXCEPT ![c] = sockets]
          /\ UNCHANGED <<closed, closer, writers, cancel, pipe, reply>>
      BY <1>1 DEF Bridge!Connect, Bridge!Goto, Bridge!SetWire
    <2>2. sockets \in Sockets /\ sockets["upstream"] = wire[c]["upstream"]
      BY Connection DEF Sockets
    <2> HIDE DEF sockets
    <2>3. cancel[c] = "no" /\ c \notin writers /\ wire[c]["upstream"] = "none"
      BY <2>1, Connection DEF Follow
    <2>4. Follow("backlog", sockets, cancel[c], FALSE)
      BY <2>2, <2>3 DEF Follow, Bridge!Running
    <2>5. Goes(c, "backlog", sockets, cancel[c], FALSE)
      BY <2>1, <2>3, <1>t, Connection DEF Goes, BridgeTypes
    <2>6. "backlog" \in Places /\ "backlog" \notin Bridge!Running
      BY DEF Places, Bridge!Running
    <2>a. wire[c] \in Sockets /\ cancel[c] \in {"no", "asked", "raised"} /\ handler[c] \in Places
      BY Connection
    <2> QED BY <2>2, <2>4, <2>5, <2>6, <2>a, GoesKeeps
  <1>2. CASE Bridge!HandshakeGoesOn(c)
    <2>1. cancel[c] = "no" /\ UNCHANGED <<closed, closer, writers, cancel, pipe, reply>>
      BY <1>2 DEF Bridge!HandshakeGoesOn
    <2>2. CASE handler[c] = "reading"
      <3>1. handler' = [handler EXCEPT ![c] = "dialing"] /\ wire' = wire
        BY <1>2, <2>2 DEF Bridge!HandshakeGoesOn, Bridge!Goto
      <3>2. /\ Follow("dialing", wire[c], cancel[c], TRUE)
            /\ handler[c] \in Bridge!Running /\ "dialing" \in Bridge!Running
        BY <2>2, Connection DEF Follow, Bridge!Running
      <3>3. RunsTo(c, "dialing", wire[c], cancel[c])
        BY <2>1, <3>1, <3>2, <1>t, Connection DEF RunsTo
      <3> QED BY <3>2, <3>3, Connection, RunsOn
    <2>3. CASE handler[c] = "dialing"
      <3> DEFINE sockets == [wire[c] EXCEPT !["upstream"] = "open"]
      <3>1. /\ handler' = [handler EXCEPT ![c] = "authenticating"]
            /\ wire' = [wire EXCEPT ![c] = sockets]
        BY <1>2, <2>3 DEF Bridge!HandshakeGoesOn, Bridge!Goto, Bridge!SetWire
      <3>2. sockets \in Sockets
        BY Connection DEF Sockets
      <3> HIDE DEF sockets
      <3>3. /\ Follow("authenticating", sockets, cancel[c], TRUE)
            /\ handler[c] \in Bridge!Running /\ "authenticating" \in Bridge!Running
        BY <2>1, <2>3 DEF Follow, Bridge!Running
      <3>4. RunsTo(c, "authenticating", sockets, cancel[c])
        BY <2>1, <3>1, <3>3, <1>t, Connection DEF RunsTo
      <3> QED BY <3>2, <3>3, <3>4, Connection, RunsOn
    <2> QED BY <1>2, <2>2, <2>3 DEF Bridge!HandshakeGoesOn
  <1>3. CASE Bridge!HandshakeFails(c)
    <2>1. /\ handler[c] \in {"reading", "dialing", "answering"} /\ Bridge!Fail(c)
          /\ UNCHANGED <<closed, closer, writers, cancel, pipe>>
      BY <1>3 DEF Bridge!HandshakeFails
    <2>2. handler[c] \in Bridge!Running
      BY <2>1 DEF Bridge!Running
    <2> QED BY <2>1, <2>2, FailKeeps
  <1>4. CASE Bridge!Authenticated(c)
    <2>1. /\ handler[c] = "authenticating" /\ handler' = [handler EXCEPT ![c] = "answering"]
          /\ reply' = [reply EXCEPT ![c] = "success"]
          /\ UNCHANGED <<closed, closer, writers, cancel, wire, pipe>>
      BY <1>4 DEF Bridge!Authenticated, Bridge!Goto
    <2>2. handler[c] \in Bridge!Running /\ "answering" \in Midway
      BY <2>1 DEF Bridge!Running, Midway
    <2>3. reply' \in [Clients -> {"none", "success", "failure"}]
      BY <2>1, ReplySet
    <2> QED BY <2>1, <2>2, <2>3, <1>t, WalksOn
  <1>5. CASE Bridge!AuthenticationFails(c)
    <2>1. /\ handler[c] = "authenticating" /\ Bridge!HangUp(c)
          /\ UNCHANGED <<closed, closer, writers, cancel, pipe, reply>>
      BY <1>5 DEF Bridge!AuthenticationFails
    <2>2. handler[c] \in Bridge!Running
      BY <2>1 DEF Bridge!Running
    <2> QED BY <2>1, <2>2, Connection, HangUpKeeps
  <1>6. CASE Bridge!TunnelOpens(c)
    <2>1. /\ handler[c] = "answering" /\ handler' = [handler EXCEPT ![c] = "piping"]
          /\ pipe' = [pipe EXCEPT ![c] = [s \in Bridge!Sides |-> "running"]]
          /\ UNCHANGED <<closed, closer, writers, cancel, wire, reply>>
      BY <1>6 DEF Bridge!TunnelOpens, Bridge!Goto
    <2>2. handler[c] \in Bridge!Running /\ "piping" \in Midway
      BY <2>1 DEF Bridge!Running, Midway
    <2>3. [s \in Bridge!Sides |-> "running"] \in PipeTasks
      BY TwoSides DEF PipeTasks
    <2>4. pipe' \in [Clients -> PipeTasks]
      BY <2>1, <2>3, <1>t
    <2> QED BY <2>1, <2>2, <2>4, <1>t, WalksOn
  <1>7. ASSUME NEW side \in Bridge!Sides, Bridge!PeerLeaves(c, side)
        PROVE  BridgeInv'
    <2>1. PICK state \in {"ended", "reset"} : Bridge!SetWire(c, side, state)
      BY <1>7 DEF Bridge!PeerLeaves
    <2> DEFINE sockets == [wire[c] EXCEPT ![side] = state]
    <2>2. /\ wire' = [wire EXCEPT ![c] = sockets] /\ wire[c][side] \in {"open", "ended"}
          /\ UNCHANGED <<closed, closer, writers, handler, cancel, pipe, reply>>
      BY <1>7, <2>1 DEF Bridge!PeerLeaves, Bridge!SetWire
    <2>3. side \in {"client", "upstream"}
      BY TwoSides
    <2>4. /\ sockets \in Sockets
          /\ \A s \in {"client", "upstream"} : s # side => sockets[s] = wire[c][s]
      BY <2>3, Connection DEF Sockets
    <2> HIDE DEF sockets
    <2>5. Follow(handler[c], sockets, cancel[c], c \in writers)
      <3>1. CASE side = "client"
        BY <2>2, <2>4, <3>1, Connection DEF Follow, Dead
      <3>2. CASE side = "upstream"
        BY <2>2, <2>4, <3>2, Connection DEF Follow, Dead
      <3> QED BY <2>3, <3>1, <3>2
    <2>6. Goes(c, handler[c], sockets, cancel[c], c \in writers)
      BY <2>2, <1>t, Connection DEF Goes, BridgeTypes
    <2>7. (c \in writers) \in BOOLEAN
      OBVIOUS
    <2>a. wire[c] \in Sockets /\ cancel[c] \in {"no", "asked", "raised"} /\ handler[c] \in Places
      BY Connection
    <2> QED BY <2>4, <2>5, <2>6, <2>7, <2>a, GoesKeeps
  <1> QED BY <1>1, <1>2, <1>3, <1>4, <1>5, <1>6, <1>7 DEF Bridge!PeerStep

\* close() takes every client it knows from its handler, and ends when no handler runs.
LEMMA CloseKeeps ==
    ASSUME BridgeInv, Bridge!CloseBegins \/ Bridge!CloseEnds
    PROVE  BridgeInv'
  <1>t. BridgeTypes
    BY DEF BridgeInv
  <1>1. CASE Bridge!CloseBegins
    <2>1. /\ closer = "idle" /\ closed' = TRUE /\ closer' = "gathering"
          /\ wire' = [c \in Clients |->
                        IF c \in writers THEN [wire[c] EXCEPT !["client"] = "closed"]
                        ELSE wire[c]]
          /\ cancel' = [c \in Clients |->
                          IF handler[c] \in Bridge!Running THEN "asked" ELSE cancel[c]]
          /\ UNCHANGED <<writers, handler, pipe, reply>>
      BY <1>1 DEF Bridge!CloseBegins, Bridge!Handlers, Bridge!Live
    <2>2. ASSUME NEW c \in Clients
          PROVE  /\ wire'[c] \in Sockets
                 /\ wire'[c]["upstream"] = wire[c]["upstream"]
                 /\ wire'[c]["client"] =
                      IF c \in writers THEN "closed" ELSE wire[c]["client"]
      BY <2>1, Connection DEF Sockets
    <2>3. BridgeTypes'
      <3>1. wire' \in [Clients -> Sockets]
        BY <2>1, <2>2
      <3>2. cancel' \in [Clients -> {"no", "asked", "raised"}]
        BY <2>1, <1>t DEF BridgeTypes
      <3> QED BY <2>1, <3>1, <3>2, <1>t DEF BridgeTypes, Places, Bridge!Running
    <2>4. ASSUME NEW c \in Clients
          PROVE  Follow(handler'[c], wire'[c], cancel'[c], c \in writers')
      <3>1. cancel'[c] = IF handler[c] \in Bridge!Running THEN "asked" ELSE cancel[c]
        BY <2>1
      <3> QED BY <2>1, <2>2, <3>1, Connection DEF Follow, Dead
    <2>5. closed' <=> closer' # "idle"
      BY <2>1
    <2>6. closer' # "done"
      BY <2>1
    <2> QED BY <2>3, <2>4, <2>5, <2>6 DEF BridgeInv, Follow, Bridge!Running
  <1>2. CASE Bridge!CloseEnds
    <2>1. /\ closer = "gathering" /\ closer' = "done"
          /\ \A c \in Clients : handler[c] \notin Bridge!Running
          /\ UNCHANGED <<closed, writers, handler, cancel, wire, pipe, reply>>
      BY <1>2 DEF Bridge!CloseEnds, Bridge!Live
    <2>2. BridgeTypes'
      BY <2>1, <1>t DEF BridgeTypes, Places, Bridge!Running
    <2>3. closed' <=> closer' # "idle"
      BY <2>1 DEF BridgeInv
    <2> QED BY <2>1, <2>2, <2>3 DEF BridgeInv, Follow, Dead, Bridge!Running
  <1> QED BY <1>1, <1>2

LEMMA BridgeKeeps ==
    ASSUME BridgeInv, Bridge!Next
    PROVE  BridgeInv'
  BY HandlerStepKeeps, PeerStepKeeps, CloseKeeps DEF Bridge!Next

LEMMA BridgeStarts == Init => BridgeInv
  <1> SUFFICES ASSUME Init PROVE BridgeInv
    OBVIOUS
  <1>1. /\ closed = FALSE /\ closer = "idle" /\ writers = {}
        /\ handler = [c \in Clients |-> "none"] /\ cancel = [c \in Clients |-> "no"]
        /\ wire = [c \in Clients |-> [s \in {"client", "upstream"} |-> "none"]]
        /\ pipe = [c \in Clients |-> [s \in {"client", "upstream"} |-> "none"]]
        /\ reply = [c \in Clients |-> "none"]
    BY TwoSides DEF Init, Bridge!Init
  <1>2. BridgeTypes
    BY <1>1 DEF BridgeTypes, Places, Sockets, PipeTasks
  <1>3. ASSUME NEW c \in Clients PROVE Follow(handler[c], wire[c], cancel[c], c \in writers)
    BY <1>1 DEF Follow, Dead, Bridge!Running
  <1> QED BY <1>1, <1>2, <1>3 DEF BridgeInv

LEMMA BridgeRests ==
    ASSUME BridgeInv, UNCHANGED bridgeVars
    PROVE  BridgeInv'
  <1>1. UNCHANGED <<closed, closer, writers, handler, cancel, wire, pipe, reply>>
    BY DEF bridgeVars
  <1> QED
    BY <1>1 DEF BridgeInv, BridgeTypes, Places, Follow, Dead, Bridge!Running

\* For any number of connections, whatever their peers do and whenever the bridge is closed:
\* a handler that has ended has closed both sockets, and behind close() no handler runs and
\* no socket is open that it could have known (SocksBridge._handle_client and close).
THEOREM NoTunnelIsLeft == Spec => []TunnelsAreClosed
  <1>1. [Next]_vars => Bridge!Next \/ UNCHANGED bridgeVars
    BY DEF Next, vars, bridgeVars
  <1>2. BridgeInv /\ [Next]_vars => BridgeInv'
    BY <1>1, BridgeKeeps, BridgeRests
  <1>3. BridgeInv => TunnelsAreClosed
    <2> SUFFICES ASSUME BridgeInv PROVE TunnelsAreClosed
      OBVIOUS
    <2>1. Bridge!TypeOK
      BY TwoSides DEF BridgeInv, BridgeTypes, Places, Sockets, PipeTasks, Follow, Bridge!TypeOK
    <2>2. ASSUME NEW c \in Clients, NEW s \in Bridge!Sides, handler[c] = "ended"
          PROVE  ~Bridge!Alive(c, s)
      BY <2>2, Connection, TwoSides DEF Follow, Dead, Bridge!Alive
    <2>3. ASSUME closer = "done", NEW c \in Clients
          PROVE  /\ handler[c] \notin Bridge!Running
                 /\ \A s \in Bridge!Sides : Bridge!Alive(c, s) => handler[c] = "backlog"
      <3>1. handler[c] \in {"none", "backlog", "refused", "ended"}
        BY <2>3, Connection DEF BridgeInv, Places
      <3>2. handler[c] # "backlog" =>
              wire[c]["client"] \notin {"open", "ended"} /\ wire[c]["upstream"] \notin {"open", "ended"}
        BY <3>1, Connection DEF Follow, Dead
      <3>3. handler[c] \notin Bridge!Running
        BY <2>3 DEF BridgeInv
      <3> QED BY <3>2, <3>3, TwoSides DEF Bridge!Alive
    <2>4. Bridge!NothingAfterClose
      BY <2>3 DEF Bridge!NothingAfterClose
    <2>5. Bridge!HandlersOwnSockets
      BY <2>2 DEF Bridge!HandlersOwnSockets
    <2> QED BY <2>1, <2>4, <2>5 DEF TunnelsAreClosed
  <1> QED BY <1>2, <1>3, BridgeStarts, PTL DEF Spec

-----------------------------------------------------------------------------
(***************************************************************************)
(* The close of a browser.                                                 *)
(***************************************************************************)
HandleTypes ==
    /\ handleClosed \in BOOLEAN
    /\ close_task \in Callers \cup {None}
    /\ exits \in [Callers -> {"none", "running", "returned", "raised"}]
    /\ \A e \in called_back : e \in Callers /\ exits[e] \in {"returned", "raised"}
    /\ awaits \in [Callers -> Callers \cup {None}]
    /\ caller \in [Callers -> {"out", "waiting", "cancelled", "returned", "raised"}]

\* The task that is kept is the one exit whose end the handle has not heard of, or the one
\* whose success it has; an exit is started by a call that has begun.
OneTask ==
    /\ \A e \in Callers : exits[e] # "none" /\ e \notin called_back => close_task = e
    /\ \A e \in Callers : exits[e] # "none" => caller[e] # "out"
    /\ close_task # None => exits[close_task] # "none"
    /\ handleClosed => close_task # None /\ close_task \in called_back

\* The handle is closed when it has heard of a success, and callers are told of one only
\* when there was one.
TruthTold ==
    /\ handleClosed <=> \E e \in called_back : exits[e] = "returned"
    /\ \A c \in Callers : caller[c] = "returned" => \E e \in Callers : exits[e] = "returned"

HandleInv == HandleTypes /\ OneTask /\ TruthTold

LEMMA HandleKeeps ==
    ASSUME HandleInv, Handle!Next
    PROVE  HandleInv'
  <1>n. None \notin Callers
    BY BrowsersAssumption
  <1>t. HandleTypes /\ OneTask /\ TruthTold
    BY DEF HandleInv
  <1>1. ASSUME NEW c \in Callers, Handle!AlreadyClosed(c) PROVE HandleInv'
    <2>1. /\ handleClosed /\ caller' = [caller EXCEPT ![c] = "returned"]
          /\ UNCHANGED <<handleClosed, close_task, exits, called_back, awaits>>
      BY <1>1 DEF Handle!AlreadyClosed, Handle!Leave
    <2>2. HandleTypes' /\ OneTask'
      BY <2>1, <1>t DEF HandleTypes, OneTask
    <2>3. TruthTold'
      <3>1. \E e \in Callers : exits[e] = "returned"
        BY <2>1, <1>t DEF TruthTold, HandleTypes
      <3> QED BY <2>1, <3>1, <1>t DEF TruthTold
    <2> QED BY <2>2, <2>3 DEF HandleInv
  <1>2. ASSUME NEW c \in Callers, Handle!Close(c) PROVE HandleInv'
    <2>1. caller[c] = "out" /\ ~handleClosed /\ UNCHANGED <<handleClosed, called_back>>
          /\ exits[c] = "none" /\ c \notin called_back
      BY <1>2, <1>t DEF Handle!Close, HandleTypes, OneTask
    <2>2. CASE close_task = None
      <3>1. /\ close_task' = c /\ exits' = [exits EXCEPT ![c] = "running"]
            /\ awaits' = [awaits EXCEPT ![c] = c] /\ caller' = [caller EXCEPT ![c] = "waiting"]
        BY <1>2, <2>2 DEF Handle!Close, Handle!StartsExit, Handle!Leave
      <3>2. \A e \in Callers : exits[e] # "none" => e \in called_back
        BY <1>n, <2>2, <1>t DEF OneTask
      <3>3. HandleTypes'
        BY <2>1, <3>1, <1>t DEF HandleTypes
      <3>4. OneTask'
        BY <2>1, <3>1, <3>2, <1>t DEF OneTask, HandleTypes
      <3>5. TruthTold'
        <4>1. \A e \in Callers : e # c => exits'[e] = exits[e]
          BY <3>1, <1>t DEF HandleTypes
        <4>2. \A e \in Callers : exits[e] = "returned" => exits'[e] = "returned"
          BY <2>1, <4>1
        <4>3. \A e \in called_back : e \in Callers /\ exits'[e] = exits[e]
          BY <2>1, <4>1, <1>t DEF HandleTypes
        <4>4. \A d \in Callers : caller'[d] = "returned" => caller[d] = "returned"
          BY <3>1, <1>t DEF HandleTypes
        <4>5. handleClosed' <=> \E e \in called_back' : exits'[e] = "returned"
          BY <2>1, <4>3, <1>t DEF TruthTold
        <4> QED BY <4>2, <4>4, <4>5, <1>t DEF TruthTold
      <3> QED BY <3>3, <3>4, <3>5 DEF HandleInv
    <2>3. CASE close_task # None
      <3>1. /\ awaits' = [awaits EXCEPT ![c] = close_task]
            /\ caller' = [caller EXCEPT ![c] =
                 IF exits[close_task] \in {"returned", "raised"} THEN exits[close_task]
                 ELSE "waiting"]
            /\ UNCHANGED <<close_task, exits>>
        BY <1>2, <2>3 DEF Handle!Close, Handle!StartsExit, Handle!Leave, Handle!Ended
      <3>2. close_task \in Callers /\ exits[close_task] # "none"
        BY <2>3, <1>t DEF HandleTypes, OneTask
      <3>3. HandleTypes' /\ OneTask'
        BY <2>1, <3>1, <3>2, <1>t DEF HandleTypes, OneTask
      <3>4. \A d \in Callers : caller'[d] = "returned" =>
              caller[d] = "returned" \/ exits[close_task] = "returned"
        BY <3>1, <1>t DEF HandleTypes
      <3>5. TruthTold'
        BY <2>1, <3>1, <3>2, <3>4, <1>t DEF TruthTold
      <3> QED BY <3>3, <3>5 DEF HandleInv
    <2> QED BY <2>2, <2>3
  <1>3. ASSUME NEW e \in Callers, Handle!ExitEnds(e) PROVE HandleInv'
    <2>1. PICK how \in {"returned", "raised"} : exits' = [exits EXCEPT ![e] = how]
      BY <1>3 DEF Handle!ExitEnds, Handle!Ended
    <2>2. /\ exits[e] = "running"
          /\ UNCHANGED <<handleClosed, close_task, called_back, awaits, caller>>
      BY <1>3 DEF Handle!ExitEnds
    <2>3. e \notin called_back
      BY <2>2, <1>t DEF HandleTypes
    <2>4. HandleTypes' /\ OneTask'
      BY <2>1, <2>2, <2>3, <1>t DEF HandleTypes, OneTask
    <2>5. \A d \in Callers : d # e => exits'[d] = exits[d]
      BY <2>1, <1>t DEF HandleTypes
    <2>6. \A d \in called_back : exits'[d] = exits[d]
      BY <2>3, <2>5, <1>t DEF HandleTypes
    <2>7. \A d \in Callers : exits[d] = "returned" => exits'[d] = "returned"
      BY <2>2, <2>5
    <2>8. TruthTold'
      BY <2>2, <2>6, <2>7, <1>t DEF TruthTold
    <2> QED BY <2>4, <2>8 DEF HandleInv
  <1>4. ASSUME NEW e \in Callers, Handle!BrowserCloseFinished(e) PROVE HandleInv'
    <2>1. /\ exits[e] \in {"returned", "raised"} /\ e \notin called_back
          /\ called_back' = called_back \cup {e} /\ UNCHANGED <<exits, awaits, caller>>
      BY <1>4 DEF Handle!BrowserCloseFinished, Handle!Finished, Handle!Ended
    <2>2. close_task = e /\ ~handleClosed
      BY <2>1, <1>t DEF OneTask
    <2>3. CASE exits[e] = "returned"
      <3>1. handleClosed' = TRUE /\ close_task' = close_task
        BY <1>4, <2>3 DEF Handle!BrowserCloseFinished, Handle!Succeeded
      <3> QED BY <1>n, <2>1, <2>2, <2>3, <3>1, <1>t DEF HandleInv, HandleTypes, OneTask, TruthTold
    <2>4. CASE exits[e] = "raised"
      <3>1. handleClosed' = handleClosed /\ close_task' = None
        BY <1>4, <2>2, <2>4 DEF Handle!BrowserCloseFinished, Handle!Succeeded, Handle!Cleared
      <3>2. HandleTypes' /\ OneTask'
        BY <2>1, <2>2, <3>1, <1>t DEF HandleTypes, OneTask
      <3>3. TruthTold'
        BY <2>1, <2>4, <3>1, <1>t DEF TruthTold
      <3> QED BY <3>2, <3>3 DEF HandleInv
    <2> QED BY <2>1, <2>3, <2>4
  <1>5. ASSUME NEW c \in Callers, Handle!Resume(c) \/ Handle!CallerCancelled(c)
        PROVE  HandleInv'
    <2>1. PICK how \in {"cancelled", "returned", "raised"} :
              /\ caller' = [caller EXCEPT ![c] = how]
              /\ how = "returned" => awaits[c] \in called_back /\ exits[awaits[c]] = "returned"
      BY <1>5, <1>t DEF Handle!Resume, Handle!CallerCancelled, Handle!Leave, HandleTypes
    <2>2. UNCHANGED <<handleClosed, close_task, exits, called_back, awaits>>
      BY <1>5 DEF Handle!Resume, Handle!CallerCancelled
    <2>3. HandleTypes' /\ OneTask'
      BY <2>1, <2>2, <1>t DEF HandleTypes, OneTask
    <2>4. \A d \in Callers : caller'[d] = "returned" =>
            caller[d] = "returned" \/ \E e \in Callers : exits[e] = "returned"
      BY <2>1, <1>t DEF HandleTypes
    <2>5. TruthTold'
      BY <2>2, <2>4, <1>t DEF TruthTold
    <2> QED BY <2>3, <2>5 DEF HandleInv
  <1> QED BY <1>1, <1>2, <1>3, <1>4, <1>5 DEF Handle!Next

\* The parts of what is promised of the handle.
LEMMA HandlePromises ==
    ASSUME HandleInv
    PROVE  /\ Handle!TypeOK /\ Handle!OneExitAtATime /\ Handle!ClosedOnce
           /\ Handle!AnswersAreTrue
  <1>t. HandleTypes /\ OneTask /\ TruthTold
    BY DEF HandleInv
  <1>1. Handle!TypeOK
    BY <1>t DEF HandleTypes, Handle!TypeOK, Handle!Ended
  <1>2. \A e \in Callers : exits[e] = "running" => close_task = e /\ e \notin called_back
    BY <1>t DEF HandleTypes, OneTask
  <1>3. Handle!OneExitAtATime
    <2> DEFINE R == {e \in Callers : exits[e] = "running"}
    <2>1. R \in SUBSET {close_task}
      BY <1>2
    <2>2. IsFiniteSet({close_task}) /\ Cardinality({close_task}) = 1
      BY FS_Singleton
    <2>3. Cardinality(R) <= 1 /\ Cardinality(R) \in Nat
      BY <2>1, <2>2, FS_Subset, FS_CardinalityType
    <2>4. Handle!Cardinality(R) = Cardinality(R)
      BY DEF Handle!Cardinality, Cardinality, Handle!IsFiniteSet, IsFiniteSet
    <2> QED BY <2>3, <2>4 DEF Handle!OneExitAtATime
  <1>4. Handle!ClosedOnce
    BY <1>2, <1>t DEF OneTask, TruthTold, Handle!ClosedOnce
  <1>5. Handle!AnswersAreTrue
    BY <1>t DEF TruthTold, Handle!AnswersAreTrue
  <1> QED BY <1>1, <1>3, <1>4, <1>5

(***************************************************************************)
(* The launches.                                                           *)
(***************************************************************************)
LaunchPlaces == {"out", "queued", "entering", "leaving", "up", "failed"}

ManagerStates == {"none", "entering", "up", "exiting", "exited"}

\* The launches that wait for the lock, and the places of the one that holds it.
Waiting == {l \in Launches : launch[l] = "queued"}

Holding == {"entering", "leaving"}

LaunchTypes ==
    /\ launch \in [Launches -> LaunchPlaces]
    /\ queue \in Seq(Launches)
    /\ manager \in [Launches -> ManagerStates]
    /\ cancels \in [Launches -> 0 .. MaxCancels]
    /\ asked \subseteq Launches

\* The lock has one holder, its line is made of those that wait, and a manager is entered
\* under the lock.
LaunchInv ==
    /\ LaunchTypes
    /\ Line(queue, Waiting)
    /\ \A l, m \in Launches : launch[l] \in Holding /\ launch[m] \in Holding => l = m
    /\ \A l \in Launches : manager[l] = "entering" => launch[l] = "entering"

\* A step of launch l takes it to p and its manager to m.
LaunchGoes(l, p, m) ==
    /\ launch' = [launch EXCEPT ![l] = p]
    /\ manager' = [manager EXCEPT ![l] = m]
    /\ cancels' \in [Launches -> 0 .. MaxCancels]
    /\ asked' \subseteq Launches

LEMMA LaunchGoesKeeps ==
    ASSUME LaunchInv, NEW l \in Launches, NEW p \in LaunchPlaces, NEW m \in ManagerStates,
           LaunchGoes(l, p, m), m = "entering" => p = "entering",
           p \in Holding => launch[l] \in Holding \/ ~Launch!Held,
           queue' \in Seq(Launches),
           Line(queue', IF p = "queued" THEN Waiting \cup {l} ELSE Waiting \ {l})
    PROVE  LaunchInv'
  <1>t. /\ launch \in [Launches -> LaunchPlaces] /\ manager \in [Launches -> ManagerStates]
        /\ launch' = [launch EXCEPT ![l] = p] /\ manager' = [manager EXCEPT ![l] = m]
    BY DEF LaunchInv, LaunchTypes, LaunchGoes
  <1>1. LaunchTypes'
    BY <1>t DEF LaunchGoes, LaunchTypes
  <1>2. Line(queue', Waiting')
    <2>1. Waiting' = IF p = "queued" THEN Waiting \cup {l} ELSE Waiting \ {l}
      BY <1>t DEF Waiting
    <2> QED BY <2>1
  <1>3. ASSUME NEW a \in Launches, NEW b \in Launches,
               launch'[a] \in Holding, launch'[b] \in Holding
        PROVE  a = b
    <2>1. \A x, y \in Launches : launch[x] \in Holding /\ launch[y] \in Holding => x = y
      BY DEF LaunchInv
    <2>2. \A x \in Launches : launch'[x] = IF x = l THEN p ELSE launch[x]
      BY <1>t
    <2>3. \A x \in Launches : p \in Holding /\ launch[l] \notin Holding => launch[x] \notin Holding
      BY DEF Launch!Held, Holding
    <2> QED BY <1>3, <2>1, <2>2, <2>3
  <1>4. \A a \in Launches : manager'[a] = "entering" => launch'[a] = "entering"
    BY <1>t DEF LaunchInv
  <1> QED BY <1>1, <1>2, <1>3, <1>4 DEF LaunchInv

\* RemoveFirst takes out the one place a member has in line.
LEMMA LaunchLineLeft ==
    ASSUME LaunchInv, NEW l \in Launches
    PROVE  Launch!QueueLeft(l) \in Seq(Launches) /\ Line(Launch!QueueLeft(l), Waiting \ {l})
  <1>t. queue \in Seq(Launches) /\ Line(queue, Waiting)
    BY DEF LaunchInv, LaunchTypes
  <1>1. CASE l \in Waiting
    <2>1. PICK n \in 1 .. Len(queue) : queue[n] = l
      BY <1>1, <1>t DEF Line
    <2>2. {i \in 1 .. Len(queue) : queue[i] = l} = {n}
      BY <2>1, <1>t DEF Line
    <2>3. Launch!Min({n}) = n
      BY DEF Launch!Min
    <2>4. Launch!SelectInSeq(queue, LAMBDA v : v = l) = n
      BY <2>2, <2>3 DEF Launch!SelectInSeq
    <2>5. Launch!QueueLeft(l) = SubSeq(queue, 1, n - 1) \o SubSeq(queue, n + 1, Len(queue))
      BY <2>1, <2>4 DEF Launch!QueueLeft, Launch!RemoveFirst, Launch!RemoveAt
    <2> QED BY <2>1, <2>5, <1>t, LineLeft
  <1>2. CASE l \notin Waiting
    <2>1. \A i \in 1 .. Len(queue) : queue[i] # l
      BY <1>2, <1>t DEF Line
    <2>2. Launch!QueueLeft(l) = queue
      BY <2>1 DEF Launch!QueueLeft, Launch!RemoveFirst
    <2>3. Waiting \ {l} = Waiting
      BY <1>2
    <2> QED BY <2>2, <2>3, <1>t
  <1> QED BY <1>1, <1>2

\* A launch that is not in line moves without disturbing it.
LEMMA LaunchMoves ==
    ASSUME LaunchInv, NEW l \in Launches, launch[l] # "queued",
           NEW p \in LaunchPlaces \ {"queued"}, NEW m \in ManagerStates, LaunchGoes(l, p, m),
           m = "entering" => p = "entering",
           p \in Holding => launch[l] \in Holding \/ ~Launch!Held,
           queue' = queue
    PROVE  LaunchInv'
  <1>1. queue \in Seq(Launches) /\ Line(queue, Waiting)
    BY DEF LaunchInv, LaunchTypes
  <1>2. Waiting \ {l} = Waiting
    BY DEF Waiting
  <1> QED BY <1>1, <1>2, LaunchGoesKeeps

LEMMA LaunchKeeps ==
    ASSUME LaunchInv, Launch!Next
    PROVE  LaunchInv'
  <1>t. /\ launch \in [Launches -> LaunchPlaces] /\ manager \in [Launches -> ManagerStates]
        /\ cancels \in [Launches -> 0 .. MaxCancels] /\ asked \subseteq Launches
        /\ queue \in Seq(Launches) /\ Line(queue, Waiting)
        /\ \A l \in Launches : manager[l] = "entering" => launch[l] = "entering"
    BY DEF LaunchInv, LaunchTypes
  <1>m. MaxCancels \in Nat
    BY BrowsersAssumption
  <1> USE DEF Launch!Goto, Launch!SetManager
  <1>0. PICK l \in Launches :
            \/ Launch!Launch(l) \/ Launch!LockTaken(l) \/ Launch!Cancel(l) \/ Launch!Entered(l)
            \/ Launch!EnterFails(l) \/ Launch!ExitEnds(l) \/ Launch!LaunchFailed(l)
            \/ Launch!CancelRaised(l)
    BY DEF Launch!Next
  <1>s. launch = [launch EXCEPT ![l] = launch[l]] /\ manager = [manager EXCEPT ![l] = manager[l]]
    BY <1>t
  <1>1. CASE Launch!Launch(l)
    <2>1. CASE Launch!Held \/ queue # <<>>
      <3>1. LaunchGoes(l, "queued", manager[l]) /\ queue' = Append(queue, l) /\ launch[l] = "out"
        BY <1>1, <2>1, <1>t, <1>s DEF Launch!Launch, LaunchGoes
      <3>2. l \notin Waiting /\ manager[l] # "entering" /\ manager[l] \in ManagerStates
        BY <3>1, <1>t DEF Waiting
      <3>3. queue' \in Seq(Launches) /\ Line(queue', Waiting \cup {l})
        BY <3>1, <3>2, <1>t, LineGrows
      <3>4. "queued" \in LaunchPlaces /\ "queued" \notin Holding
        BY DEF LaunchPlaces, Holding
      <3> QED BY <3>1, <3>2, <3>3, <3>4, LaunchGoesKeeps
    <2>2. CASE ~(Launch!Held \/ queue # <<>>)
      <3>1. LaunchGoes(l, "entering", "entering") /\ queue' = queue /\ launch[l] = "out"
        BY <1>1, <2>2, <1>t DEF Launch!Launch, LaunchGoes
      <3>2. "entering" \in LaunchPlaces \ {"queued"} /\ "entering" \in ManagerStates
        BY DEF LaunchPlaces, ManagerStates
      <3> QED BY <2>2, <3>1, <3>2, LaunchMoves
    <2> QED BY <2>1, <2>2
  <1>2. CASE Launch!LockTaken(l)
    <2>1. /\ LaunchGoes(l, "entering", "entering") /\ queue' = Tail(queue)
          /\ queue # <<>> /\ Head(queue) = l /\ ~Launch!Held
      BY <1>2, <1>t DEF Launch!LockTaken, LaunchGoes
    <2>2. queue' \in Seq(Launches) /\ Line(queue', Waiting \ {l})
      BY <2>1, <1>t, LineServed
    <2>3. "entering" \in LaunchPlaces /\ "entering" \in ManagerStates /\ "entering" # "queued"
      BY DEF LaunchPlaces, ManagerStates
    <2> QED BY <2>1, <2>2, <2>3, LaunchGoesKeeps
  <1>3. CASE Launch!Cancel(l)
    <2>1. /\ UNCHANGED <<launch, queue, manager>> /\ asked' = asked \cup {l}
          /\ cancels' = [cancels EXCEPT ![l] = @ + 1] /\ cancels[l] < MaxCancels
      BY <1>3 DEF Launch!Cancel
    <2>2. cancels[l] + 1 \in 0 .. MaxCancels
      BY <2>1, <1>t, <1>m
    <2>3. LaunchTypes'
      BY <2>1, <2>2, <1>t DEF LaunchTypes
    <2>4. Waiting' = Waiting
      BY <2>1 DEF Waiting
    <2> QED BY <2>1, <2>3, <2>4 DEF LaunchInv
  <1>4. CASE Launch!Entered(l)
    <2>1. LaunchGoes(l, "up", "up") /\ queue' = queue /\ launch[l] = "entering"
      BY <1>4, <1>t DEF Launch!Entered, LaunchGoes
    <2>2. "up" \in LaunchPlaces \ {"queued"} /\ "up" \in ManagerStates /\ "up" \notin Holding
      BY DEF LaunchPlaces, ManagerStates, Holding
    <2> QED BY <2>1, <2>2, LaunchMoves
  <1>5. CASE Launch!EnterFails(l)
    <2>1. LaunchGoes(l, "leaving", "exiting") /\ queue' = queue /\ launch[l] = "entering"
      BY <1>5, <1>t DEF Launch!EnterFails, LaunchGoes
    <2>2. /\ "leaving" \in LaunchPlaces \ {"queued"} /\ "exiting" \in ManagerStates
          /\ "entering" \in Holding
      BY DEF LaunchPlaces, ManagerStates, Holding
    <2> QED BY <2>1, <2>2, LaunchMoves
  <1>6. CASE Launch!ExitEnds(l)
    <2>1. /\ manager' = [manager EXCEPT ![l] = "exited"]
          /\ UNCHANGED <<launch, queue, cancels, asked>>
      BY <1>6 DEF Launch!ExitEnds
    <2>2. LaunchTypes'
      BY <2>1, <1>t DEF LaunchTypes, ManagerStates
    <2>3. Waiting' = Waiting
      BY <2>1 DEF Waiting
    <2>4. \A a \in Launches : manager'[a] = "entering" => launch'[a] = "entering"
      BY <2>1, <1>t
    <2> QED BY <2>1, <2>2, <2>3, <2>4 DEF LaunchInv
  <1>7. CASE Launch!LaunchFailed(l)
    <2>1. LaunchGoes(l, "failed", manager[l]) /\ queue' = queue /\ launch[l] = "leaving"
      BY <1>7, <1>t, <1>s DEF Launch!LaunchFailed, LaunchGoes
    <2>2. /\ "failed" \in LaunchPlaces \ {"queued"} /\ "failed" \notin Holding
          /\ manager[l] \in ManagerStates /\ manager[l] # "entering"
      BY <2>1, <1>t DEF LaunchPlaces, Holding
    <2> QED BY <2>1, <2>2, LaunchMoves
  <1>8. CASE Launch!CancelRaised(l)
    <2>1. /\ LaunchGoes(l, "failed", manager[l]) /\ queue' = Launch!QueueLeft(l)
          /\ launch[l] \in {"queued", "leaving"}
      BY <1>8, <1>t DEF Launch!CancelRaised, Launch!ManagerAfter, LaunchGoes
    <2>2. /\ "failed" \in LaunchPlaces /\ "failed" \notin Holding /\ "failed" # "queued"
          /\ manager[l] \in ManagerStates /\ manager[l] # "entering"
      BY <2>1, <1>t DEF LaunchPlaces, Holding
    <2>3. queue' \in Seq(Launches) /\ Line(queue', Waiting \ {l})
      BY <2>1, LaunchLineLeft
    <2> QED BY <2>1, <2>2, <2>3, LaunchGoesKeeps
  <1> QED BY <1>0, <1>1, <1>2, <1>3, <1>4, <1>5, <1>6, <1>7, <1>8

\* The parts of what is promised of the launches: whoever is in a virtual display that is set
\* up or, while its launch waits for that, torn down, holds the lock.
LEMMA LaunchPromises ==
    ASSUME LaunchInv
    PROVE  Launch!TypeOK /\ Launch!LaunchesSerial
  <1>t. /\ LaunchTypes /\ Line(queue, Waiting)
        /\ \A l, m \in Launches : launch[l] \in Holding /\ launch[m] \in Holding => l = m
        /\ \A l \in Launches : manager[l] = "entering" => launch[l] = "entering"
    BY DEF LaunchInv
  <1>1. Launch!TypeOK
    <2>1. Launch!ToSet(queue) = {queue[i] : i \in 1 .. Len(queue)}
      BY <1>t DEF Launch!ToSet, LaunchTypes
    <2>2. Launch!ToSet(queue) = {l \in Launches : launch[l] = "queued"}
      BY <2>1, <1>t DEF Line, Waiting
    <2> QED BY <2>2, <1>t DEF LaunchTypes, LaunchPlaces, ManagerStates, Launch!TypeOK
  <1>2. ASSUME \A l \in Launches : manager[l] = "exiting" => launch[l] = "leaving"
        PROVE  Launch!Cardinality(Launch!InDisplay) <= 1
    <2>1. \A l, m \in Launch!InDisplay : l = m
      BY <1>2, <1>t DEF Launch!InDisplay, Holding
    <2>2. Cardinality(Launch!InDisplay) \in Nat /\ Cardinality(Launch!InDisplay) <= 1
      <3>1. CASE Launch!InDisplay = {}
        BY <3>1, FS_EmptySet
      <3>2. CASE Launch!InDisplay # {}
        <4>1. PICK l : l \in Launch!InDisplay
          BY <3>2
        <4>2. Launch!InDisplay = {l}
          BY <2>1, <4>1
        <4> QED BY <4>2, FS_Singleton
      <3> QED BY <3>1, <3>2
    <2>3. Launch!Cardinality(Launch!InDisplay) = Cardinality(Launch!InDisplay)
      BY DEF Launch!Cardinality, Cardinality, Launch!IsFiniteSet, IsFiniteSet
    <2> QED BY <2>2, <2>3
  <1> QED BY <1>1, <1>2 DEF Launch!LaunchesSerial

(***************************************************************************)
(* Launches and handles together.                                          *)
(***************************************************************************)
LEMMA BrowsersStart == Init => LaunchInv /\ HandleInv
  <1> SUFFICES ASSUME Init PROVE LaunchInv /\ HandleInv
    OBVIOUS
  <1>1. LaunchInv
    <2>1. /\ launch = [l \in Launches |-> "out"] /\ queue = <<>>
          /\ manager = [l \in Launches |-> "none"]
          /\ cancels = [l \in Launches |-> 0] /\ asked = {}
      BY DEF Init, Launch!Init
    <2>2. LaunchTypes
      BY <2>1, BrowsersAssumption DEF LaunchTypes, LaunchPlaces, ManagerStates
    <2>3. Line(queue, Waiting)
      BY <2>1 DEF Line, Waiting
    <2> QED BY <2>1, <2>2, <2>3 DEF LaunchInv, Holding
  <1>2. HandleInv
    BY BrowsersAssumption
    DEF Init, Handle!Init, HandleInv, HandleTypes, OneTask, TruthTold, Handle!Ended
  <1> QED BY <1>1, <1>2

LEMMA BrowsersRest ==
    /\ LaunchInv /\ UNCHANGED launchVars => LaunchInv'
    /\ HandleInv /\ UNCHANGED handleVars => HandleInv'
  <1>1. LaunchInv /\ UNCHANGED launchVars => LaunchInv'
    BY DEF launchVars, LaunchInv, LaunchTypes, Waiting
  <1>2. HandleInv /\ UNCHANGED handleVars => HandleInv'
    BY DEF handleVars, HandleInv, HandleTypes, OneTask, TruthTold, Handle!Ended
  <1> QED BY <1>1, <1>2

\* For any number of launches and of callers of a close: while every teardown is waited for,
\* no launch overlaps another or the teardown of a failed one (browser.py:333), and a browser
\* is left by one task at a time, not again once that succeeded, and nobody hears that it is
\* closed before it is (BrowserHandle.close and _close_once, browser.py:49).
THEOREM BrowsersAreExitedOnce == Spec => []BrowsersExitOnce
  <1> DEFINE Inv == LaunchInv /\ HandleInv
  <1>1. [Next]_vars => /\ Launch!Next \/ UNCHANGED launchVars
                       /\ Handle!Next \/ UNCHANGED handleVars
    BY DEF Next, vars, launchVars, handleVars
  <1>2. Inv /\ [Next]_vars => Inv'
    BY <1>1, LaunchKeeps, HandleKeeps, BrowsersRest
  <1>3. Inv => BrowsersExitOnce
    BY LaunchPromises, HandlePromises DEF BrowsersExitOnce
  <1>4. Init => Inv
    BY BrowsersStart
  <1> HIDE DEF Inv
  <1> QED BY <1>2, <1>3, <1>4, PTL DEF Spec
=============================================================================
