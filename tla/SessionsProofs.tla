---------------------------- MODULE SessionsProofs ----------------------------
(***************************************************************************)
(* Theorems about Sessions for every number of ids, sessions and requests: *)
(* an id has one session at most and MAX_SESSIONS is kept, a request that  *)
(* works in a session has its lock and its context, nothing a session owns *)
(* is left behind, and the manager implements SessionIds.                  *)
(***************************************************************************)
EXTENDS Sessions, FiniteSetTheorems, SequenceTheorems, TLAPS

\* Where a request builds, or undoes, a session of its own.
Building == {"lease", "open", "refused", "failed", "discard", "unwind"}

Both == {"context", "proxy"}

\* The values of the variables that say who owns what.
Shape ==
    /\ registry \in [Ids -> Sessions \cup {None}]
    /\ closing \in [Ids -> Sessions \cup {None}]
    /\ sid \in [Sessions -> Ids \cup {None}]
    /\ expired \subseteq Sessions
    /\ holder \in [Sessions -> Requests \cup {"closer", "nobody"}]
    /\ closer \in [Sessions -> {"none", "created", "queued", "cleaning"}]
    /\ root \in [Sessions -> {"none", "context", "proxy", "unwinding", "ok", "failed"}]
    /\ alive \in [Sessions -> SUBSET Both]
    /\ pc \in [Requests -> InContext \cup Building
                             \cup {"idle", "lock", "await", "destroy", "rotate"}]
    /\ target \in [Requests -> Ids \cup {None}]
    /\ sess \in [Requests -> Sessions \cup {None}]
    /\ built \in [Requests -> Sessions \cup {None}]
    /\ \A r \in Requests :
          /\ pc[r] # "idle" => target[r] \in Ids
          /\ pc[r] \in Building <=> built[r] # None
          /\ pc[r] \in CheckedOut \cup {"destroy", "rotate"} => sess[r] \in Sessions

\* The session is registered under its id, or it is the tombstone of its id.
Owned(s) == sid[s] # None /\ (registry[sid[s]] = s \/ closing[sid[s]] = s)

\* Nothing of the session has been closed, nor is about to be.
Whole(s) == root[s] = "none" /\ alive[s] = Both

\* An id has a session or a tombstone but not both; a registered session is whole, and a
\* tombstone stays until its closing task ends.
Registry ==
    /\ \A i \in Ids : registry[i] # None =>
          /\ closing[i] = None /\ sid[registry[i]] = i
          /\ closer[registry[i]] = "none" /\ Whole(registry[i])
    /\ \A i \in Ids : closing[i] # None =>
          /\ sid[closing[i]] = i /\ closer[closing[i]] # "none"
          /\ closer[closing[i]] # "cleaning" => Whole(closing[i])
    /\ \A s \in Sessions :
          /\ closer[s] # "none" => Owned(s)
          /\ sid[s] # None /\ alive[s] # {} => Owned(s)

\* What a request builds is its own: it has no id yet and no other request knows it.
Attempts ==
    \A r \in Requests : built[r] # None =>
        /\ sid[built[r]] = None
        /\ \A q \in Requests : sess[q] # built[r] /\ (q # r => built[q] # built[r])
        /\ pc[r] \in {"lease", "open"} => root[built[r]] = "none" /\ "proxy" \in alive[built[r]]
        /\ pc[r] = "open" => alive[built[r]] = Both

\* Who holds the lock of a session works in it, or closes it.
Locks ==
    /\ \A s \in Sessions, r \in Requests :
          holder[s] = r <=> pc[r] \in InContext /\ sess[r] = s
    /\ \A s \in Sessions : holder[s] = "closer" <=> closer[s] = "cleaning"

\* A request works only in a session that is registered or waits to be closed.
UsersKnow == \A r \in Requests : pc[r] \in InContext => Owned(sess[r])

\* Nothing that exists is forgotten.
NoOrphans ==
    \A s \in Sessions : alive[s] # {} =>
        Owned(s) \/ (\E r \in Requests : built[r] = s) \/ Ended(s)

IInv == Shape /\ Registry /\ Attempts /\ Locks /\ UsersKnow /\ NoOrphans

-----------------------------------------------------------------------------
\* No session is an id, and no request is called like the closing task or like nobody.
LEMMA NamesApart ==
    None \notin Sessions \cup Ids /\ "closer" \notin Requests /\ "nobody" \notin Requests
  BY SessionsAssumption DEF SessionsAssumption

\* What _start_closing_unlocked does to the sessions registered under ids.
LEMMA Withdrawn ==
    ASSUME IInv, NEW ids \in SUBSET Live, StartClosing(ids)
    PROVE  /\ registry' \in [Ids -> Sessions \cup {None}]
           /\ closing' \in [Ids -> Sessions \cup {None}]
           /\ closer' \in [Sessions -> {"none", "created", "queued", "cleaning"}]
           /\ \A i \in ids : registry'[i] = None /\ closing'[i] = registry[i]
           /\ \A i \in Ids \ ids : registry'[i] = registry[i] /\ closing'[i] = closing[i]
           /\ \A i \in ids : closer'[registry[i]] = "created"
           /\ \A s \in Sessions :
                 closer'[s] # closer[s] => sid[s] \in ids /\ registry[sid[s]] = s
  BY NamesApart DEF IInv, Shape, Registry, Live, StartClosing

\* Only registered sessions are pruned.
LEMMA ExpiredLive == ASSUME IInv, NEW x PROVE Expired(x) \in SUBSET Live
  BY NamesApart DEF IInv, Shape, Expired, Live

\* An identifier that is fresh for a request is not used by anybody else.
LEMMA FreshAttempt ==
    ASSUME IInv, NEW r \in Requests, NEW s \in Sessions, Fresh(r, s)
    PROVE  /\ \A i \in Ids : registry[i] # s /\ closing[i] # s
           /\ ~Owned(s) /\ closer[s] = "none" /\ alive[s] = {} /\ holder[s] # "closer"
           /\ \A q \in Requests : q # r => sess[q] # s /\ built[q] # s
  BY NamesApart
  DEF IInv, Shape, Registry, Locks, Owned, Fresh, Registered, Tombstones

\* A request builds a session, or undoes what it has built.
LEMMA BuildSteps ==
    ASSUME IInv, NEW r \in Requests,
           BuildStarts(r) \/ BuildRefused(r) \/ BuildFails(r) \/ BuildRegisters(r) \/
           BuildDiscarded(r) \/ FailureEnds(r) \/ CancelLease(r) \/ CancelProxyClose(r) \/
           CancelDiscard(r)
    PROVE  IInv'
  <1> USE NamesApart
      DEF managerVars, lockVars, closeVars, workVars, creationVars,
          requestVars
  <1>1. CASE BuildStarts(r)
    BY <1>1
    DEF BuildStarts,
        IInv, Shape, Registry, Attempts, Locks, UsersKnow, NoOrphans, Ended, InContext,
        Building, Owned, Whole, Both, CheckedOut
  <1>2. CASE BuildRefused(r)
    <2>1. Shape'
      BY <1>2 DEF BuildRefused, IInv,
                Shape, CheckedOut, InContext, Building, Both
    <2>2. Registry'
      BY <1>2 DEF BuildRefused, IInv,
                Shape, Registry, Attempts, Locks, Owned, Whole, Building
    <2>3. Attempts'
      BY <1>2 DEF BuildRefused, IInv,
                Shape, Attempts, Registry, Owned, InContext, Building, CheckedOut, Both
    <2>4. Locks'
      BY <1>2 DEF BuildRefused, IInv,
                Shape, Locks, Registry, Attempts, InContext, Building
    <2>5. UsersKnow'
      BY <1>2 DEF BuildRefused, IInv,
                Shape, Attempts, Registry, UsersKnow, Owned, InContext, Building
    <2>6. NoOrphans'
      BY <1>2 DEF BuildRefused, IInv,
                Shape, Registry, Attempts, NoOrphans, Ended, Owned, InContext, Building
    <2> QED BY <2>1, <2>2, <2>3, <2>4, <2>5, <2>6 DEF IInv
  <1>3. CASE BuildFails(r)
    <2>1. Shape'
      BY <1>3 DEF BuildFails, LeaveCreating, IInv,
                Shape, CheckedOut, InContext, Building, Both
    <2>2. Registry'
      BY <1>3 DEF BuildFails, LeaveCreating, IInv,
                Shape, Registry, Attempts, Locks, Owned, Whole, Building
    <2>3. Attempts'
      BY <1>3 DEF BuildFails, LeaveCreating, IInv,
                Shape, Attempts, Registry, Owned, InContext, Building, CheckedOut, Both
    <2>4. Locks'
      BY <1>3 DEF BuildFails, LeaveCreating, IInv,
                Shape, Locks, Registry, Attempts, InContext, Building
    <2>5. UsersKnow'
      BY <1>3 DEF BuildFails, LeaveCreating, IInv,
                Shape, Attempts, Registry, UsersKnow, Owned, InContext, Building
    <2>6. NoOrphans'
      BY <1>3 DEF BuildFails, LeaveCreating, IInv,
                Shape, Registry, Attempts, NoOrphans, Ended, Owned, InContext, Building
    <2> QED BY <2>1, <2>2, <2>3, <2>4, <2>5, <2>6 DEF IInv
  <1>4. CASE BuildRegisters(r)
    <2>1. Shape'
      BY <1>4 DEF BuildRegisters, LeaveCreating, MayRegister, GotSession, CheckOut, Proceed, Leave,
                IInv, Shape, CheckedOut, InContext, Building, Both
    <2>2. Registry'
      <3> DEFINE s == built[r]  i == target[r]
      <3>1. /\ s \in Sessions /\ i \in Ids /\ pc[r] = "open" /\ sid[s] = None /\ Whole(s)
            /\ registry[i] = None /\ closing[i] = None
            /\ registry' = [registry EXCEPT ![i] = s] /\ sid' = [sid EXCEPT ![s] = i]
            /\ UNCHANGED <<closing, closer, root, alive>>
        BY <1>4 DEF BuildRegisters, MayRegister, IInv, Shape, Attempts, Building, Whole
      <3>2. closer[s] = "none"
        BY <3>1 DEF IInv, Registry, Owned
      <3>3. Shape
        BY DEF IInv
      <3> HIDE DEF s, i
      <3> QED BY <3>1, <3>2, <3>3 DEF IInv, Shape, Registry, Owned, Whole
    <2>3. Attempts'
      BY <1>4 DEF BuildRegisters, LeaveCreating, MayRegister, GotSession, CheckOut, Proceed, Leave,
                IInv, Shape, Attempts, Registry, Owned, InContext, Building, CheckedOut, Both
    <2>4. Locks'
      <3> DEFINE s == built[r]
      <3>1. /\ s \in Sessions /\ pc[r] = "open" /\ UNCHANGED closer
            /\ \A q \in Requests : holder[s] # q /\ (pc[q] \in InContext => sess[q] # s)
        BY <1>4 DEF BuildRegisters, IInv, Shape, Locks, Attempts, Building
      <3>2. CASE Leave(r) /\ UNCHANGED lockVars
        BY <3>1, <3>2 DEF IInv, Shape, Locks, InContext, Leave
      <3>3. CASE holder[s] = "nobody" /\ holder' = [holder EXCEPT ![s] = r]
                 /\ Proceed(r, "page", "use", target[r], s)
        BY <3>1, <3>3 DEF IInv, Shape, Locks, InContext, Proceed
      <3>4. CASE UNCHANGED holder /\ Proceed(r, "lock", "use", target[r], s)
        BY <3>1, <3>4 DEF IInv, Shape, Locks, InContext, Proceed
      <3> QED BY <1>4, <3>2, <3>3, <3>4 DEF BuildRegisters, GotSession, CheckOut
    <2>5. UsersKnow'
      BY <1>4 DEF BuildRegisters, LeaveCreating, MayRegister, GotSession, CheckOut, Proceed, Leave,
                IInv, Shape, Attempts, Registry, UsersKnow, Owned, InContext, Building
    <2>6. NoOrphans'
      BY <1>4 DEF BuildRegisters, LeaveCreating, MayRegister, GotSession, CheckOut, Proceed, Leave,
                IInv, Shape, Registry, Attempts, NoOrphans, Ended, Owned, InContext, Building
    <2> QED BY <2>1, <2>2, <2>3, <2>4, <2>5, <2>6 DEF IInv
  <1>5. CASE BuildDiscarded(r)
    <2>1. Shape'
      BY <1>5 DEF BuildDiscarded, LeaveCreating, IInv,
                Shape, CheckedOut, InContext, Building, Both
    <2>2. Registry'
      BY <1>5 DEF BuildDiscarded, LeaveCreating, IInv,
                Shape, Registry, Attempts, Locks, Owned, Whole, Building
    <2>3. Attempts'
      BY <1>5 DEF BuildDiscarded, LeaveCreating, IInv,
                Shape, Attempts, Registry, Owned, InContext, Building, CheckedOut, Both
    <2>4. Locks'
      BY <1>5 DEF BuildDiscarded, LeaveCreating, IInv,
                Shape, Locks, Registry, Attempts, InContext, Building
    <2>5. UsersKnow'
      <3> SUFFICES ASSUME NEW q \in Requests, pc'[q] \in InContext PROVE Owned(sess[q])'
        BY DEF UsersKnow
      <3>1. UNCHANGED <<registry, closing, sid>>
        BY <1>5 DEF BuildDiscarded
      <3>2. q # r
        BY <1>5 DEF BuildDiscarded, IInv, Shape, InContext
      <3>3. pc[q] \in InContext /\ sess'[q] = sess[q]
        BY <1>5, <3>2 DEF BuildDiscarded, IInv, Shape
      <3> QED BY <3>1, <3>3 DEF IInv, UsersKnow, Owned
    <2>6. NoOrphans'
      BY <1>5 DEF BuildDiscarded, LeaveCreating, IInv,
                Shape, Registry, Attempts, NoOrphans, Ended, Owned, InContext, Building
    <2> QED BY <2>1, <2>2, <2>3, <2>4, <2>5, <2>6 DEF IInv
  <1>6. CASE FailureEnds(r)
    BY <1>6
    DEF FailureEnds, Leave,
        IInv, Shape, Registry, Attempts, Locks, UsersKnow, NoOrphans, Ended, InContext,
        Building, Owned, Whole, Both, CheckedOut
  <1>7. CASE CancelLease(r)
    BY <1>7
    DEF CancelLease, Leave,
        IInv, Shape, Registry, Attempts, Locks, UsersKnow, NoOrphans, Ended, InContext,
        Building, Owned, Whole, Both, CheckedOut
  <1>8. CASE CancelProxyClose(r)
    BY <1>8
    DEF CancelProxyClose, Leave,
        IInv, Shape, Registry, Attempts, Locks, UsersKnow, NoOrphans, Ended, InContext,
        Building, Owned, Whole, Both, CheckedOut
  <1>9. CASE CancelDiscard(r)
    BY <1>9
    DEF CancelDiscard,
        IInv, Shape, Registry, Attempts, Locks, UsersKnow, NoOrphans, Ended, InContext,
        Building, Owned, Whole, Both, CheckedOut
  <1> QED BY <1>1, <1>2, <1>3, <1>4, <1>5, <1>6, <1>7, <1>8, <1>9

\* A request goes on with a session that another has built.
LEMMA WinnerSteps ==
    ASSUME IInv, NEW r \in Requests,
           DiscardEnds(r) \/ RefusedEnds(r) \/ AwaitEnds(r)
    PROVE  IInv'
  <1> USE NamesApart
      DEF managerVars, lockVars, closeVars, workVars, creationVars,
          requestVars
  <1>1. /\ UNCHANGED <<registry, closing, closer, sid, root, alive, expired>>
        /\ built' = [built EXCEPT ![r] = None] \/ UNCHANGED built
        /\ built[r] # None => Ended(built[r])
    BY DEF DiscardEnds, RefusedEnds, AwaitEnds, GotSession, CheckOut, Proceed, Leave, IInv, Shape,
           Building
  <1>2. Registry'
    BY <1>1 DEF IInv, Registry, Owned, Whole
  <1>3. NoOrphans'
    BY <1>1 DEF IInv, Shape, NoOrphans, Owned, Ended
  <1>4. /\ pc[r] \in {"discard", "refused", "await"} /\ target[r] \in Ids
        /\ \/ Leave(r) /\ UNCHANGED lockVars
           \/ Proceed(r, "await", cmd[r], target[r], None) /\ UNCHANGED lockVars
           \/ \E s \in Sessions :
                 /\ \A q \in Requests : built[q] # s
                 /\ \/ /\ registry[target[r]] = s /\ holder[s] = "nobody"
                       /\ holder' = [holder EXCEPT ![s] = r]
                       /\ Proceed(r, "page", "use", target[r], s)
                    \/ UNCHANGED holder /\ Proceed(r, "lock", "use", target[r], s)
    <2>1. pc[r] \in {"discard", "refused", "await"} /\ target[r] \in Ids
      BY DEF DiscardEnds, RefusedEnds, AwaitEnds, IInv, Shape
    <2>2. ASSUME NEW s \in Sessions, \A q \in Requests : built[q] # s,
                 NEW current \in BOOLEAN, current => registry[target[r]] = s,
                 GotSession(r, s, current)
          PROVE  \/ Leave(r) /\ UNCHANGED lockVars
                 \/ /\ registry[target[r]] = s /\ holder[s] = "nobody"
                    /\ holder' = [holder EXCEPT ![s] = r]
                    /\ Proceed(r, "page", "use", target[r], s)
                 \/ UNCHANGED holder /\ Proceed(r, "lock", "use", target[r], s)
      BY <2>2 DEF GotSession, CheckOut
    <2>3. ASSUME registry[target[r]] # None
          PROVE  /\ registry[target[r]] \in Sessions
                 /\ \A q \in Requests : built[q] # registry[target[r]]
      BY <2>1, <2>3 DEF IInv, Shape, Registry, Attempts
    <2>4. CASE DiscardEnds(r)
      <3>1. CASE Leave(r) /\ UNCHANGED lockVars
        BY <2>1, <3>1
      <3>2. CASE sess[r] # None /\ GotSession(r, sess[r], registry[target[r]] = sess[r])
        <4>1. sess[r] \in Sessions /\ \A q \in Requests : built[q] # sess[r]
          BY <3>2 DEF IInv, Shape, Attempts
        <4>2. (registry[target[r]] = sess[r]) \in BOOLEAN
          OBVIOUS
        <4> QED BY <2>1, <2>2, <3>2, <4>1, <4>2
      <3> QED BY <2>4, <3>1, <3>2 DEF DiscardEnds
    <2>5. CASE RefusedEnds(r)
      BY <2>1, <2>2, <2>3, <2>5 DEF RefusedEnds
    <2>6. CASE AwaitEnds(r)
      BY <2>1, <2>2, <2>3, <2>6 DEF AwaitEnds
    <2> QED BY <2>4, <2>5, <2>6
  <1>5. CASE Leave(r) /\ UNCHANGED lockVars
    <2>1. Shape' /\ Attempts'
      BY <1>1, <1>4, <1>5 DEF Leave, IInv, Shape, Attempts, InContext, CheckedOut, Building
    <2>2. Locks' /\ UsersKnow'
      BY <1>1, <1>4, <1>5 DEF Leave, IInv, Shape, Locks, UsersKnow, Owned, InContext
    <2> QED BY <1>2, <1>3, <2>1, <2>2 DEF IInv
  <1>6. CASE Proceed(r, "await", cmd[r], target[r], None) /\ UNCHANGED lockVars
    <2>1. Shape' /\ Attempts'
      BY <1>1, <1>4, <1>6 DEF Proceed, IInv, Shape, Attempts, InContext, CheckedOut, Building
    <2>2. Locks' /\ UsersKnow'
      BY <1>1, <1>4, <1>6 DEF Proceed, IInv, Shape, Locks, UsersKnow, Owned, InContext
    <2> QED BY <1>2, <1>3, <2>1, <2>2 DEF IInv
  <1>7. ASSUME NEW s \in Sessions, \A q \in Requests : built[q] # s,
               registry[target[r]] = s, holder[s] = "nobody",
               holder' = [holder EXCEPT ![s] = r], Proceed(r, "page", "use", target[r], s)
        PROVE  IInv'
    <2>1. Shape' /\ Attempts'
      BY <1>1, <1>4, <1>7 DEF Proceed, IInv, Shape, Attempts, InContext, CheckedOut, Building
    <2>2. Locks'
      BY <1>1, <1>4, <1>7 DEF Proceed, IInv, Shape, Locks, InContext
    <2>3. UsersKnow'
      BY <1>1, <1>4, <1>7 DEF Proceed, IInv, Shape, Registry, UsersKnow, Owned, InContext
    <2> QED BY <1>2, <1>3, <2>1, <2>2, <2>3 DEF IInv
  <1>8. ASSUME NEW s \in Sessions, \A q \in Requests : built[q] # s,
               UNCHANGED holder, Proceed(r, "lock", "use", target[r], s)
        PROVE  IInv'
    <2>1. Shape' /\ Attempts'
      BY <1>1, <1>4, <1>8 DEF Proceed, IInv, Shape, Attempts, InContext, CheckedOut, Building
    <2>2. Locks' /\ UsersKnow'
      BY <1>1, <1>4, <1>8 DEF Proceed, IInv, Shape, Locks, UsersKnow, Owned, InContext
    <2> QED BY <1>2, <1>3, <2>1, <2>2 DEF IInv
  <1> QED BY <1>4, <1>5, <1>6, <1>7, <1>8

\* A request gets the lock, works in its session and leaves it.
LEMMA UseSteps ==
    ASSUME IInv, NEW r \in Requests,
           LockTurn(r) \/ PageOpens(r) \/ SolveEnds(r) \/ ProbeSucceeds(r) \/
           ContextUnusable(r) \/ PagesClosed(r) \/ CancelLock(r) \/ CancelInContext(r)
    PROVE  IInv'
  <1> USE NamesApart
      DEF managerVars, lockVars, closeVars, workVars, creationVars,
          requestVars
  <1>1. CASE LockTurn(r)
    <2>1. Shape'
      <3>1. CASE /\ pc' = [pc EXCEPT ![r] = "page"] /\ holder' = [holder EXCEPT ![sess[r]] = r]
                 /\ pc[r] = "lock"
                 /\ UNCHANGED <<registry, closing, sid, expired, closer, root, alive, target, sess,
                                built>>
        BY <3>1 DEF IInv, Shape, CheckedOut, InContext, Building
      <3>2. CASE /\ Leave(r)
                 /\ UNCHANGED <<registry, closing, sid, expired, holder, closer, root, alive>>
        BY <3>2 DEF IInv, Shape, Leave, CheckedOut, InContext, Building
      <3> QED BY <1>1, <3>1, <3>2 DEF LockTurn
    <2>2. Registry'
      BY <1>1 DEF LockTurn, Leave, IInv,
                Shape, Registry, Attempts, Locks, Owned, Whole, Building
    <2>3. Attempts'
      BY <1>1 DEF LockTurn, Leave, IInv,
                Shape, Attempts, Registry, Owned, InContext, Building, CheckedOut, Both
    <2>4. Locks'
      BY <1>1 DEF LockTurn, Leave, IInv,
                Shape, Locks, Registry, Attempts, InContext, Building
    <2>5. UsersKnow'
      <3> SUFFICES ASSUME NEW q \in Requests, pc'[q] \in InContext PROVE Owned(sess[q])'
        BY DEF UsersKnow
      <3>1. UNCHANGED <<registry, closing, sid>>
        BY <1>1 DEF LockTurn
      <3>2. CASE q = r
        <4>1. sess'[r] = sess[r] /\ registry[target[r]] = sess[r] /\ target[r] \in Ids
          BY <1>1, <3>2 DEF LockTurn, Leave, IInv, Shape, InContext
        <4>2. sess[r] \in Sessions
          BY <1>1 DEF LockTurn, IInv, Shape, CheckedOut
        <4> QED BY <3>1, <3>2, <4>1, <4>2 DEF IInv, Registry, Owned
      <3>3. CASE q # r
        <4>1. pc[q] \in InContext /\ sess'[q] = sess[q]
          BY <1>1, <3>3 DEF LockTurn, Leave, IInv, Shape
        <4> QED BY <3>1, <4>1 DEF IInv, UsersKnow, Owned
      <3> QED BY <3>2, <3>3
    <2>6. NoOrphans'
      BY <1>1 DEF LockTurn, Leave, IInv,
                Shape, Registry, Attempts, NoOrphans, Ended, Owned, InContext, Building
    <2> QED BY <2>1, <2>2, <2>3, <2>4, <2>5, <2>6 DEF IInv
  <1>2. CASE PageOpens(r)
    BY <1>2
    DEF PageOpens, Within,
        IInv, Shape, Registry, Attempts, Locks, UsersKnow, NoOrphans, Ended, InContext,
        Building, Owned, Whole, Both, CheckedOut
  <1>3. CASE SolveEnds(r)
    BY <1>3
    DEF SolveEnds, Within,
        IInv, Shape, Registry, Attempts, Locks, UsersKnow, NoOrphans, Ended, InContext,
        Building, Owned, Whole, Both, CheckedOut
  <1>4. CASE ProbeSucceeds(r)
    BY <1>4
    DEF ProbeSucceeds, Within,
        IInv, Shape, Registry, Attempts, Locks, UsersKnow, NoOrphans, Ended, InContext,
        Building, Owned, Whole, Both, CheckedOut
  <1>5. CASE ContextUnusable(r)
    BY <1>5
    DEF ContextUnusable, StartClosing,
        IInv, Shape, Registry, Attempts, Locks, UsersKnow, NoOrphans, Ended, InContext,
        Building, Owned, Whole, Both, CheckedOut
  <1>6. CASE PagesClosed(r)
    <2>1. Shape'
      BY <1>6 DEF PagesClosed, Leave, IInv,
                Shape, CheckedOut, InContext, Building, Both
    <2>2. Registry'
      BY <1>6 DEF PagesClosed, Leave, IInv,
                Shape, Registry, Attempts, Locks, Owned, Whole, Building
    <2>3. Attempts'
      BY <1>6 DEF PagesClosed, Leave, IInv,
                Shape, Attempts, Registry, Owned, InContext, Building, CheckedOut, Both
    <2>4. Locks'
      BY <1>6 DEF PagesClosed, Leave, IInv,
                Shape, Locks, Registry, Attempts, InContext, Building
    <2>5. UsersKnow'
      BY <1>6 DEF PagesClosed, Leave, IInv,
                Shape, Attempts, Registry, UsersKnow, Owned, InContext, Building
    <2>6. NoOrphans'
      BY <1>6 DEF PagesClosed, Leave, IInv,
                Shape, Registry, Attempts, NoOrphans, Ended, Owned, InContext, Building
    <2> QED BY <2>1, <2>2, <2>3, <2>4, <2>5, <2>6 DEF IInv
  <1>7. CASE CancelLock(r)
    <2>1. Shape'
      BY <1>7 DEF CancelLock, Leave, IInv,
                Shape, CheckedOut, InContext, Building, Both
    <2>2. Registry'
      BY <1>7 DEF CancelLock, Leave, IInv,
                Shape, Registry, Attempts, Locks, Owned, Whole, Building
    <2>3. Attempts'
      BY <1>7 DEF CancelLock, Leave, IInv,
                Shape, Attempts, Registry, Owned, InContext, Building, CheckedOut, Both
    <2>4. Locks'
      BY <1>7 DEF CancelLock, Leave, IInv,
                Shape, Locks, Registry, Attempts, InContext, Building
    <2>5. UsersKnow'
      BY <1>7 DEF CancelLock, Leave, IInv,
                Shape, Attempts, Registry, UsersKnow, Owned, InContext, Building
    <2>6. NoOrphans'
      BY <1>7 DEF CancelLock, Leave, IInv,
                Shape, Registry, Attempts, NoOrphans, Ended, Owned, InContext, Building
    <2> QED BY <2>1, <2>2, <2>3, <2>4, <2>5, <2>6 DEF IInv
  <1>8. CASE CancelInContext(r)
    BY <1>8
    DEF CancelInContext, Within,
        IInv, Shape, Registry, Attempts, Locks, UsersKnow, NoOrphans, Ended, InContext,
        Building, Owned, Whole, Both, CheckedOut
  <1> QED BY <1>1, <1>2, <1>3, <1>4, <1>5, <1>6, <1>7, <1>8

\* A request has waited for a tombstone, or is cancelled while it waits.
LEMMA WaitSteps ==
    ASSUME IInv, NEW r \in Requests,
           DestroyEnds(r) \/ CancelWaiting(r)
    PROVE  IInv'
  <1> USE NamesApart
      DEF managerVars, lockVars, closeVars, workVars, creationVars,
          requestVars
  <1>1. CASE DestroyEnds(r)
    BY <1>1
    DEF DestroyEnds, Leave,
        IInv, Shape, Registry, Attempts, Locks, UsersKnow, NoOrphans, Ended, InContext,
        Building, Owned, Whole, Both, CheckedOut
  <1>2. CASE CancelWaiting(r)
    BY <1>2
    DEF CancelWaiting, Leave,
        IInv, Shape, Registry, Attempts, Locks, UsersKnow, NoOrphans, Ended, InContext,
        Building, Owned, Whole, Both, CheckedOut
  <1> QED BY <1>1, <1>2

\* A cleanup moves on: what it closes is given up already.
LEMMA CleanupMoves ==
    ASSUME IInv, NEW s \in Sessions, NEW p \in {"context", "proxy", "unwinding"},
           NEW q \in {"proxy", "unwinding", "ok", "failed"}, RootMoves(s, p, q)
    PROVE  IInv'
  <1> USE NamesApart
  <1>1. /\ root[s] = p /\ root' = [root EXCEPT ![s] = q]
        /\ UNCHANGED <<registry, closing, sid, expired, holder, closer, alive, pc, target, sess,
                       built>>
    BY DEF RootMoves, managerVars, lockVars, requestVars
  <1>2. root'[s] # "none" /\ root[s] # "none" /\ ~Ended(s)
    BY <1>1 DEF IInv, Shape, Ended
  <1>3. \A t \in Sessions \ {s} : root'[t] = root[t]
    BY <1>1 DEF IInv, Shape
  <1>4. Shape'
    BY <1>1 DEF IInv, Shape
  <1>5. \A t \in Sessions : Owned(t)' = Owned(t) /\ (Whole(t) <=> Whole(t)')
    BY <1>1, <1>2, <1>3 DEF Owned, Whole
  <1>6. Registry'
    BY <1>1, <1>5 DEF IInv, Shape, Registry
  <1>7. Attempts'
    BY <1>1, <1>2, <1>3 DEF IInv, Shape, Attempts
  <1>8. Locks'
    BY <1>1 DEF IInv, Locks
  <1>9. UsersKnow'
    BY <1>1 DEF IInv, UsersKnow, Owned
  <1>10. NoOrphans'
    BY <1>1, <1>2, <1>3, <1>5 DEF IInv, NoOrphans, Ended
  <1> QED BY <1>4, <1>6, <1>7, <1>8, <1>9, <1>10 DEF IInv

\* A closing task waits for the lock of its session, or gets it and starts to clean.
LEMMA CloserMoves ==
    ASSUME IInv, NEW s \in Sessions, CloseSessionStarts(s) \/ CloserLocks(s)
    PROVE  IInv'
  <1> USE NamesApart
  <1>1. /\ closer[s] \in {"created", "queued"}
        /\ UNCHANGED <<registry, closing, sid, expired, alive, pc, target, sess, built>>
        /\ \/ holder[s] = "nobody" /\ CleaningBegins(s)
           \/ closer' = [closer EXCEPT ![s] = "queued"] /\ UNCHANGED <<holder, root>>
    BY DEF CloseSessionStarts, CloserLocks, managerVars, requestVars
  <1>2. /\ Owned(s) /\ sid[s] \in Ids /\ registry[sid[s]] # s /\ closing[sid[s]] = s
        /\ \A i \in Ids : registry[i] # s
    BY <1>1 DEF IInv, Shape, Registry, Owned
  <1>3. Whole(s) /\ \A r \in Requests : built[r] # s
    BY <1>1, <1>2 DEF IInv, Shape, Registry, Attempts
  <1>4. CASE closer' = [closer EXCEPT ![s] = "queued"] /\ UNCHANGED <<holder, root>>
    <2>1. Shape' /\ Attempts' /\ UsersKnow' /\ NoOrphans'
      BY <1>1, <1>4 DEF IInv, Shape, Attempts, UsersKnow, NoOrphans, Owned, Ended
    <2>2. Registry'
      BY <1>1, <1>2, <1>4 DEF IInv, Shape, Registry, Owned, Whole
    <2>3. Locks'
      BY <1>1, <1>4 DEF IInv, Shape, Locks
    <2> QED BY <2>1, <2>2, <2>3 DEF IInv
  <1>5. CASE holder[s] = "nobody" /\ CleaningBegins(s)
    <2>1. /\ holder' = [holder EXCEPT ![s] = "closer"]
          /\ closer' = [closer EXCEPT ![s] = "cleaning"]
          /\ root' = [root EXCEPT ![s] = "context"]
      BY <1>5 DEF CleaningBegins
    <2>2. Shape'
      BY <1>1, <2>1 DEF IInv, Shape
    <2>3. Registry'
      BY <1>1, <1>2, <2>1 DEF IInv, Shape, Registry, Owned, Whole
    <2>4. Attempts'
      BY <1>1, <1>3, <2>1 DEF IInv, Shape, Attempts
    <2>5. Locks'
      BY <1>1, <1>5, <2>1 DEF IInv, Shape, Locks
    <2>6. UsersKnow'
      BY <1>1 DEF IInv, UsersKnow, Owned
    <2>7. NoOrphans'
      BY <1>1, <1>2, <2>1 DEF IInv, Shape, NoOrphans, Owned, Ended
    <2> QED BY <2>2, <2>3, <2>4, <2>5, <2>6, <2>7 DEF IInv
  <1> QED BY <1>1, <1>4, <1>5

\* Something of a session that is given up goes away.
LEMMA ResourceGoes == ASSUME IInv, NEW s \in Sessions, ResourceCloses(s) PROVE IInv'
  <1> USE NamesApart
  <1>1. PICK x \in alive[s] : /\ alive' = [alive EXCEPT ![s] = @ \ {x}]
                              /\ root[s] # "none"
    BY DEF ResourceCloses
  <1>2. UNCHANGED <<registry, closing, sid, expired, holder, closer, root, pc, target, sess, built>>
    BY DEF ResourceCloses, managerVars, lockVars, requestVars
  <1>3. /\ alive'[s] \subseteq alive[s]
        /\ \A t \in Sessions \ {s} : alive'[t] = alive[t]
    BY <1>1 DEF IInv, Shape
  <1>4. Shape'
    BY <1>1, <1>2 DEF IInv, Shape
  <1>5. \A t \in Sessions : Owned(t)' = Owned(t) /\ (Whole(t) <=> Whole(t)')
    BY <1>1, <1>2, <1>3 DEF Owned, Whole
  <1>6. \A t \in Sessions : alive'[t] # {} => alive[t] # {}
    BY <1>3
  <1>7. Registry'
    BY <1>2, <1>5, <1>6 DEF IInv, Shape, Registry
  <1>8. Attempts'
    BY <1>1, <1>2, <1>3 DEF IInv, Shape, Attempts
  <1>9. Locks'
    BY <1>2 DEF IInv, Locks
  <1>10. UsersKnow'
    BY <1>2 DEF IInv, UsersKnow, Owned
  <1>11. NoOrphans'
    BY <1>2, <1>5, <1>6 DEF IInv, NoOrphans, Ended
  <1> QED BY <1>4, <1>7, <1>8, <1>9, <1>10, <1>11 DEF IInv

\* The closing task ends: nothing is left of the session, and its tombstone goes.
LEMMA TombstoneGoes == ASSUME IInv, NEW s \in Sessions, CloseSessionEnds(s) PROVE IInv'
  <1> USE NamesApart
  <1>1. /\ closer[s] = "cleaning" /\ alive[s] = {} /\ Ended(s)
        /\ holder' = [holder EXCEPT ![s] = "nobody"]
        /\ closer' = [closer EXCEPT ![s] = "none"]
        /\ closing' = [i \in Ids |-> IF closing[i] = s THEN None ELSE closing[i]]
        /\ UNCHANGED <<registry, sid, expired, root, alive, pc, target, sess, built>>
    BY DEF CloseSessionEnds, requestVars
  <1>2. holder[s] = "closer" /\ \A r \in Requests : pc[r] \in InContext => sess[r] # s
    BY <1>1 DEF IInv, Shape, Locks
  <1>3. \A t \in Sessions \ {s} : Owned(t)' <=> Owned(t)
    BY <1>1 DEF IInv, Shape, Owned
  <1>4. Shape'
    BY <1>1 DEF IInv, Shape
  <1>5. Registry'
    <2>1. \A i \in Ids : registry[i] # None =>
            /\ closing'[i] = None /\ sid[registry[i]] = i
            /\ closer'[registry[i]] = "none" /\ Whole(registry[i])
      BY <1>1 DEF IInv, Shape, Registry
    <2>2. \A i \in Ids : closing'[i] # None =>
            /\ closing'[i] = closing[i] /\ sid[closing[i]] = i /\ closer'[closing[i]] # "none"
            /\ closer'[closing[i]] # "cleaning" => Whole(closing[i])
      BY <1>1 DEF IInv, Shape, Registry
    <2>3. \A t \in Sessions : /\ closer'[t] # "none" => Owned(t)'
                              /\ sid'[t] # None /\ alive'[t] # {} => Owned(t)'
      BY <1>1, <1>3 DEF IInv, Shape, Registry
    <2> QED BY <1>1, <2>1, <2>2, <2>3 DEF Registry, Whole
  <1>6. Attempts'
    BY <1>1 DEF IInv, Attempts
  <1>7. Locks'
    BY <1>1, <1>2 DEF IInv, Shape, Locks
  <1>8. UsersKnow'
    <2> SUFFICES ASSUME NEW r \in Requests, pc[r] \in InContext PROVE Owned(sess[r])'
      BY <1>1 DEF UsersKnow
    <2>1. sess[r] \in Sessions \ {s} /\ Owned(sess[r])
      BY <1>2 DEF IInv, Shape, UsersKnow, CheckedOut
    <2> QED BY <1>1, <1>3, <2>1 DEF Owned
  <1>9. NoOrphans'
    BY <1>1, <1>3 DEF IInv, NoOrphans, Ended
  <1> QED BY <1>4, <1>5, <1>6, <1>7, <1>8, <1>9 DEF IInv

\* A session expires, or its closing task and its cleanups take a step.
LEMMA ClosingSteps ==
    ASSUME IInv, NEW s \in Sessions,
           CloseSessionStarts(s) \/ CloserLocks(s) \/ RootProceeds(s) \/ RootTimesOut(s) \/
           ResourceCloses(s) \/ CloseSessionEnds(s) \/ SessionExpires(s)
    PROVE  IInv'
  <1>1. CASE RootProceeds(s) \/ RootTimesOut(s)
    BY <1>1, CleanupMoves DEF RootProceeds, RootTimesOut
  <1>2. CASE SessionExpires(s)
    <2>1. /\ expired' \subseteq Sessions
          /\ UNCHANGED <<registry, closing, sid, holder, closer, root, alive, pc, target, sess,
                         built>>
      BY <1>2 DEF SessionExpires, managerVars, lockVars, closeVars, workVars, requestVars, IInv,
                  Shape
    <2> QED BY <2>1 DEF IInv, Shape, Registry, Attempts, Locks, UsersKnow, NoOrphans, Owned, Whole,
                        Ended
  <1> QED BY <1>1, <1>2, CloserMoves, ResourceGoes, TombstoneGoes

\* An owned session stays owned when sessions are withdrawn.
LEMMA OwnedStays ==
    ASSUME IInv, NEW ids \in SUBSET Live, StartClosing(ids), NEW s \in Sessions, Owned(s),
           sid'[s] = sid[s]
    PROVE  Owned(s)'
  <1>1. sid[s] \in Ids
    BY DEF IInv, Shape, Owned
  <1>2. CASE sid[s] \in ids
    <2>1. registry[sid[s]] = s
      BY <1>1, <1>2, NamesApart DEF IInv, Registry, Owned, Live
    <2> QED BY <1>1, <1>2, <2>1, Withdrawn DEF Owned
  <1>3. CASE sid[s] \notin ids
    BY <1>1, <1>3, Withdrawn DEF Owned
  <1> QED BY <1>2, <1>3

\* Sessions that are withdrawn keep the registry in order, also when one that nobody owns
\* is set up anew at the same time.
LEMMA WithdrawnRegistry ==
    ASSUME IInv, NEW ids \in SUBSET Live, StartClosing(ids),
           sid' \in [Sessions -> Ids \cup {None}],
           \A s \in Sessions : \/ sid'[s] = sid[s] /\ root'[s] = root[s] /\ alive'[s] = alive[s]
                               \/ sid'[s] = None /\ ~Owned(s) /\ closer[s] = "none"
    PROVE  Registry'
  <1> USE NamesApart
  <1>0. \A s \in Sessions : Owned(s) =>
            Owned(s)' /\ sid'[s] = sid[s] /\ root'[s] = root[s] /\ alive'[s] = alive[s]
    BY OwnedStays DEF Owned
  <1>1. ASSUME NEW i \in Ids, registry'[i] # None
        PROVE  /\ closing'[i] = None /\ sid'[registry'[i]] = i
               /\ closer'[registry'[i]] = "none" /\ Whole(registry[i])'
    <2>1. /\ i \notin ids /\ registry'[i] = registry[i] /\ closing'[i] = closing[i]
          /\ registry[i] \in Sessions
      BY <1>1, Withdrawn DEF IInv, Shape
    <2>2. sid[registry[i]] = i /\ closer[registry[i]] = "none" /\ Whole(registry[i])
      BY <1>1, <2>1 DEF IInv, Registry
    <2>3. Owned(registry[i])
      BY <1>1, <2>1, <2>2 DEF Owned
    <2>4. closer'[registry[i]] = "none"
      BY <2>1, <2>2, Withdrawn
    <2> QED BY <1>0, <1>1, <2>1, <2>2, <2>3, <2>4 DEF IInv, Registry, Whole
  <1>2. ASSUME NEW i \in Ids, closing'[i] # None
        PROVE  /\ sid'[closing'[i]] = i /\ closer'[closing'[i]] # "none"
               /\ closer'[closing'[i]] # "cleaning" => Whole(closing[i])'
    <2>1. CASE i \in ids
      <3>1. closing'[i] = registry[i] /\ closer'[registry[i]] = "created" /\ registry[i] \in Sessions
        BY <2>1, Withdrawn DEF IInv, Shape, Live
      <3>2. sid[registry[i]] = i /\ Whole(registry[i]) /\ Owned(registry[i])
        BY <2>1 DEF IInv, Registry, Owned, Live
      <3> QED BY <1>0, <3>1, <3>2 DEF Whole
    <2>2. CASE i \notin ids
      <3>1. closing'[i] = closing[i] /\ closing[i] \in Sessions
        BY <1>2, <2>2, Withdrawn DEF IInv, Shape
      <3>2. /\ sid[closing[i]] = i /\ closer[closing[i]] # "none"
            /\ closer[closing[i]] # "cleaning" => Whole(closing[i])
        BY <1>2, <3>1 DEF IInv, Registry
      <3>3. closer'[closing[i]] = closer[closing[i]]
        BY <2>2, <3>1, <3>2, Withdrawn
      <3>4. Owned(closing[i])
        BY <1>2, <3>1, <3>2 DEF Owned
      <3> QED BY <1>0, <3>1, <3>2, <3>3, <3>4 DEF Whole
    <2> QED BY <2>1, <2>2
  <1>3. ASSUME NEW s \in Sessions
        PROVE  /\ closer'[s] # "none" => Owned(s)'
               /\ sid'[s] # None /\ alive'[s] # {} => Owned(s)'
    <2>1. CASE Owned(s)
      BY <1>0, <2>1
    <2>2. CASE ~Owned(s)
      <3>1. closer[s] = "none" /\ closer'[s] = closer[s]
        BY <2>2, Withdrawn DEF IInv, Registry, Shape, Live, Owned
      <3> QED BY <2>2, <3>1 DEF IInv, Registry
    <2> QED BY <2>1, <2>2
  <1> QED BY <1>1, <1>2, <1>3 DEF Registry

\* Sessions are withdrawn, and nothing else happens.
LEMMA PruneHolds ==
    ASSUME IInv, NEW ids \in SUBSET Live, StartClosing(ids),
           UNCHANGED <<sid, root, alive, holder, expired, requestVars>>
    PROVE  IInv'
  <1> USE NamesApart DEF requestVars
  <1>1. Shape'
    BY Withdrawn DEF IInv, Shape
  <1>2. Registry'
    BY WithdrawnRegistry DEF IInv, Shape
  <1>3. Attempts'
    BY DEF IInv, Attempts
  <1>4. Locks'
    <2>1. \A s \in Sessions : closer'[s] = "cleaning" <=> closer[s] = "cleaning"
      BY Withdrawn DEF IInv, Shape, Registry, Live
    <2> QED BY <2>1 DEF IInv, Locks
  <1>5. UsersKnow'
    <2> SUFFICES ASSUME NEW q \in Requests, pc[q] \in InContext PROVE Owned(sess[q])'
      BY DEF UsersKnow
    <2> QED BY OwnedStays DEF IInv, Shape, UsersKnow, CheckedOut
  <1>6. NoOrphans'
    BY OwnedStays DEF IInv, NoOrphans, Ended
  <1> QED BY <1>1, <1>2, <1>3, <1>4, <1>5, <1>6 DEF IInv

\* Sessions are withdrawn while request r, which works in none, moves to p.
LEMMA WithdrawnHolds ==
    ASSUME IInv, NEW ids \in SUBSET Live, StartClosing(ids),
           UNCHANGED <<sid, root, alive, holder, expired>>,
           NEW r \in Requests, pc[r] \in {"idle", "rotate"}, NEW p \in {"idle", "rotate", "destroy"},
           NEW i \in Ids \cup {None}, NEW t \in Sessions \cup {None},
           p # "idle" => i \in Ids /\ t \in Sessions,
           t # None => sid[t] # None,
           pc' = [pc EXCEPT ![r] = p], target' = [target EXCEPT ![r] = i],
           sess' = [sess EXCEPT ![r] = t], built' = [built EXCEPT ![r] = None]
    PROVE  IInv'
  <1> USE NamesApart
  <1>1. Shape'
    BY Withdrawn DEF IInv, Shape, CheckedOut, InContext, Building
  <1>2. Registry'
    BY WithdrawnRegistry DEF IInv, Shape
  <1>3. Attempts'
    BY DEF IInv, Shape, Attempts, Building
  <1>4. Locks'
    <2>1. \A s \in Sessions : closer'[s] = "cleaning" <=> closer[s] = "cleaning"
      BY Withdrawn DEF IInv, Shape, Registry, Live
    <2> QED BY <2>1 DEF IInv, Shape, Locks, InContext
  <1>5. UsersKnow'
    BY OwnedStays DEF IInv, Shape, UsersKnow, InContext, CheckedOut
  <1>6. NoOrphans'
    BY OwnedStays DEF IInv, Shape, NoOrphans, Building, Ended
  <1> QED BY <1>1, <1>2, <1>3, <1>4, <1>5, <1>6 DEF IInv

\* Sessions are withdrawn while request r begins to build session s.
LEMMA BuildingBegins ==
    ASSUME IInv, NEW ids \in SUBSET Live, StartClosing(ids), UNCHANGED holder,
           NEW r \in Requests, pc[r] \in {"idle", "rotate"}, NEW i \in Ids,
           NEW s \in Sessions, Fresh(r, s),
           pc' = [pc EXCEPT ![r] = "lease"], target' = [target EXCEPT ![r] = i],
           sess' = [sess EXCEPT ![r] = None], built' = [built EXCEPT ![r] = s],
           alive' = [alive EXCEPT ![s] = {"proxy"}], root' = [root EXCEPT ![s] = "none"],
           sid' = [sid EXCEPT ![s] = None], expired' = expired \ {s}
    PROVE  IInv'
  <1> USE NamesApart
  <1>1. Shape'
    BY Withdrawn DEF IInv, Shape, CheckedOut, InContext, Building, Both
  <1>2. Registry'
    BY WithdrawnRegistry, FreshAttempt DEF IInv, Shape
  <1>3. Attempts'
    BY FreshAttempt DEF IInv, Shape, Attempts, Building
  <1>4. Locks'
    <2>1. \A t \in Sessions : closer'[t] = "cleaning" <=> closer[t] = "cleaning"
      BY Withdrawn DEF IInv, Shape, Registry, Live
    <2> QED BY <2>1 DEF IInv, Shape, Locks, InContext
  <1>5. UsersKnow'
    <2> SUFFICES ASSUME NEW q \in Requests, pc'[q] \in InContext
                 PROVE  Owned(sess[q])' /\ sess'[q] = sess[q]
      BY DEF UsersKnow, Owned
    <2>1. q # r /\ pc[q] \in InContext /\ sess'[q] = sess[q]
      BY DEF IInv, Shape, InContext
    <2>2. Owned(sess[q]) /\ sess[q] \in Sessions /\ sess[q] # s
      BY <2>1, FreshAttempt DEF IInv, Shape, UsersKnow, CheckedOut
    <2> QED BY <2>1, <2>2, OwnedStays DEF IInv, Shape, Owned
  <1>6. NoOrphans'
    <2> SUFFICES ASSUME NEW t \in Sessions, alive'[t] # {}
                 PROVE  Owned(t)' \/ (\E q \in Requests : built'[q] = t) \/ Ended(t)'
      BY DEF NoOrphans
    <2>1. CASE t = s
      BY <2>1 DEF IInv, Shape
    <2>2. CASE t # s
      <3>1. sid'[t] = sid[t] /\ root'[t] = root[t] /\ alive'[t] = alive[t]
        BY <2>2 DEF IInv, Shape
      <3>2. built[r] = None
        BY DEF IInv, Shape, Building
      <3>3. Owned(t) \/ (\E q \in Requests : built[q] = t /\ q # r) \/ Ended(t)
        BY <3>1, <3>2 DEF IInv, NoOrphans
      <3> QED BY <3>1, <3>3, OwnedStays DEF IInv, Shape, Ended
    <2> QED BY <2>1, <2>2
  <1> QED BY <1>1, <1>2, <1>3, <1>4, <1>5, <1>6 DEF IInv

\* Withdrawing nothing is no step of the registry.
LEMMA NothingWithdrawn ==
    ASSUME IInv, UNCHANGED <<registry, closing, closer>>
    PROVE  StartClosing({}) /\ {} \in SUBSET Live
  BY DEF IInv, Shape, StartClosing

\* A request begins to build a session, or is refused because its id is still closing.
LEMMA StartBuildingHolds ==
    ASSUME IInv, NEW ids \in SUBSET Live, StartClosing(ids), UNCHANGED holder,
           NEW r \in Requests, pc[r] \in {"idle", "rotate"}, NEW i \in Ids, NEW c,
           StartBuilding(r, c, i)
    PROVE  IInv'
  <1>1. CASE Leave(r) /\ UNCHANGED <<sid, expired, workVars>>
    BY <1>1, WithdrawnHolds DEF Leave, workVars
  <1>2. CASE ~(Leave(r) /\ UNCHANGED <<sid, expired, workVars>>)
    <2>1. PICK s \in Sessions :
            /\ Fresh(r, s)
            /\ pc' = [pc EXCEPT ![r] = "lease"]
            /\ target' = [target EXCEPT ![r] = i]
            /\ sess' = [sess EXCEPT ![r] = None]
            /\ built' = [built EXCEPT ![r] = s]
            /\ alive' = [alive EXCEPT ![s] = {"proxy"}]
            /\ root' = [root EXCEPT ![s] = "none"]
            /\ sid' = [sid EXCEPT ![s] = None]
            /\ expired' = expired \ {s}
      BY <1>2 DEF StartBuilding
    <2> QED BY <2>1, BuildingBegins
  <1> QED BY <1>1, <1>2

\* A request takes a registered session, or queues for it, while others are withdrawn.
LEMMA CheckedOutAtOnce ==
    ASSUME IInv, NEW ids \in SUBSET Live, StartClosing(ids),
           UNCHANGED <<sid, root, alive, expired>>,
           NEW r \in Requests, pc[r] = "idle", NEW i \in Ids \ ids, registry[i] # None,
           CheckOut(r, i, registry[i], TRUE)
    PROVE  IInv'
  <1> USE NamesApart
  <1> DEFINE s == registry[i]
  <1>1. /\ s \in Sessions /\ s # None /\ sid[s] = i /\ closer[s] = "none" /\ Owned(s)
        /\ registry'[i] = s
    BY Withdrawn DEF IInv, Shape, Registry, Owned
  <1>2. PICK p \in {"page", "lock"} :
          /\ p = "page" => holder[s] = "nobody" /\ holder' = [holder EXCEPT ![s] = r]
          /\ p = "lock" => holder' = holder
          /\ pc' = [pc EXCEPT ![r] = p] /\ target' = [target EXCEPT ![r] = i]
          /\ sess' = [sess EXCEPT ![r] = s] /\ built' = [built EXCEPT ![r] = None]
    BY DEF CheckOut, Proceed
  <1> HIDE DEF s
  <1>3. Shape'
    BY <1>1, <1>2, Withdrawn DEF IInv, Shape, CheckedOut, InContext, Building
  <1>4. Registry'
    BY WithdrawnRegistry DEF IInv, Shape
  <1>5. Attempts'
    BY <1>1, <1>2 DEF IInv, Shape, Attempts, Building
  <1>6. Locks'
    <2>1. \A t \in Sessions : closer'[t] = "cleaning" <=> closer[t] = "cleaning"
      BY Withdrawn DEF IInv, Shape, Registry, Live
    <2> QED BY <1>1, <1>2, <2>1 DEF IInv, Shape, Locks, InContext
  <1>7. UsersKnow'
    BY <1>1, <1>2, OwnedStays DEF IInv, Shape, UsersKnow, InContext, CheckedOut
  <1>8. NoOrphans'
    BY <1>2, OwnedStays DEF IInv, Shape, NoOrphans, Building, Ended
  <1> QED BY <1>3, <1>4, <1>5, <1>6, <1>7, <1>8 DEF IInv

\* A command begins, or a rotation goes on to build.
LEMMA BeginSteps ==
    ASSUME IInv, NEW r \in Requests,
           \/ \E i \in Ids : BeginCreate(r, i) \/ BeginUse(r, i) \/ BeginDestroy(r, i)
           \/ RotateEnds(r)
    PROVE  IInv'
  <1> USE NamesApart
  <1>1. ASSUME NEW i \in Ids, BeginCreate(r, i) PROVE IInv'
    <2>1. pc[r] = "idle" /\ StartClosing(Expired(i)) /\ UNCHANGED holder
      BY <1>1 DEF BeginCreate, lockVars
    <2>2. CASE UNCHANGED <<requestVars, sid, expired, workVars>>
      BY <2>1, <2>2, ExpiredLive, PruneHolds DEF workVars
    <2>3. CASE StartBuilding(r, "create", i)
      BY <2>1, <2>3, ExpiredLive, StartBuildingHolds
    <2> QED BY <1>1, <2>2, <2>3 DEF BeginCreate
  <1>2. ASSUME NEW i \in Ids, BeginUse(r, i) PROVE IInv'
    <2>1. pc[r] = "idle"
      BY <1>2 DEF BeginUse
    <2>2. CASE /\ registry[i] # None /\ StartClosing(Expired(i))
               /\ CheckOut(r, i, registry[i], TRUE) /\ UNCHANGED <<sid, expired, workVars>>
      <3>1. i \in Ids \ Expired(i)
        BY DEF Expired
      <3> QED BY <2>1, <2>2, <3>1, ExpiredLive, CheckedOutAtOnce DEF workVars
    <2>3. CASE /\ registry[i] # None /\ StartClosing(Expired(i) \cup {i})
               /\ Proceed(r, "rotate", "use", i, registry[i])
               /\ UNCHANGED <<sid, expired, lockVars, workVars>>
      <3>1. Expired(i) \cup {i} \in SUBSET Live
        BY <2>3, ExpiredLive DEF Live
      <3>2. registry[i] \in Sessions /\ sid[registry[i]] # None
        BY <2>3 DEF IInv, Shape, Registry
      <3> QED BY <2>1, <2>3, <3>1, <3>2, WithdrawnHolds DEF Proceed, lockVars, workVars
    <2>4. CASE StartClosing(Expired(i)) /\ StartBuilding(r, "use", i) /\ UNCHANGED lockVars
      BY <2>1, <2>4, ExpiredLive, StartBuildingHolds DEF lockVars
    <2> QED BY <1>2, <2>2, <2>3, <2>4 DEF BeginUse
  <1>3. ASSUME NEW i \in Ids, BeginDestroy(r, i) PROVE IInv'
    <2>1. /\ pc[r] = "idle" /\ StartClosing({i} \cap Live)
          /\ UNCHANGED <<sid, root, alive, holder, expired>>
      BY <1>3 DEF BeginDestroy, lockVars, workVars
    <2>2. PICK s \in Sessions : sid[s] # None /\ Proceed(r, "destroy", "destroy", i, s)
      BY <1>3 DEF BeginDestroy, IInv, Shape, Registry
    <2> QED BY <2>1, <2>2, WithdrawnHolds DEF Proceed
  <1>4. CASE RotateEnds(r)
    <2>1. /\ pc[r] = "rotate" /\ target[r] \in Ids /\ UNCHANGED holder
          /\ StartClosing({}) /\ {} \in SUBSET Live
      BY <1>4, NothingWithdrawn DEF RotateEnds, lockVars, IInv, Shape
    <2>2. CASE Leave(r) /\ UNCHANGED <<sid, expired, workVars>>
      BY <2>1, <2>2, WithdrawnHolds DEF Leave, workVars
    <2>3. CASE StartBuilding(r, "use", target[r])
      BY <2>1, <2>3, StartBuildingHolds
    <2> QED BY <1>4, <2>2, <2>3 DEF RotateEnds
  <1> QED BY <1>1, <1>2, <1>3, <1>4


\* The reaper prunes, or the manager closes.
LEMMA ManagerSteps ==
    ASSUME IInv, Reap \/ CloseManager
    PROVE  IInv'
  <1>1. CASE Reap
    BY <1>1, ExpiredLive, PruneHolds DEF Reap, lockVars, workVars
  <1>2. CASE CloseManager
    BY <1>2, PruneHolds DEF CloseManager, lockVars, workVars
  <1> QED BY <1>1, <1>2

\* The invariant holds before the first request.
LEMMA InitHolds == Init => IInv
  BY NamesApart
  DEF Init, IInv, Shape, Registry, Attempts, Locks, UsersKnow, NoOrphans,
      InContext, Building, CheckedOut, Both, Owned

\* Every step preserves the invariant.
LEMMA NextHolds == IInv /\ [Next]_vars => IInv'
  <1> SUFFICES ASSUME IInv, [Next]_vars PROVE IInv'
    OBVIOUS
  <1>1. CASE UNCHANGED vars
    <2>1. UNCHANGED <<registry, closing, closed, sid, expired, holder, closer, root, alive, pc,
                      target, sess, built>>
      BY <1>1 DEF vars, managerVars, lockVars, closeVars, workVars, requestVars
    <2>2. Shape' /\ Registry'
      BY <2>1 DEF IInv, Shape, Registry, Owned, Whole
    <2>3. Attempts' /\ Locks' /\ UsersKnow' /\ NoOrphans'
      BY <2>1 DEF IInv, Attempts, Locks, UsersKnow, NoOrphans, Owned, Ended
    <2> QED BY <2>2, <2>3 DEF IInv
  <1>2. ASSUME NEW r \in Requests, Begin(r) \/ RequestStep(r) \/ RequestFails(r) PROVE IInv'
    BY <1>2, BuildSteps, WinnerSteps, UseSteps, WaitSteps, BeginSteps
    DEF Begin, RequestStep, RequestFails, AwaitWoken, AwaitTimesOut
  <1>3. ASSUME NEW s \in Sessions, CloserStep(s) \/ RootTimesOut(s) \/ SessionExpires(s) PROVE IInv'
    BY <1>3, ClosingSteps DEF CloserStep
  <1>4. CASE Reap \/ CloseManager
    BY <1>4, ManagerSteps
  <1> QED BY <1>1, <1>2, <1>3, <1>4 DEF Next

\* The inductive invariant of the session manager and its requests.
THEOREM SessionsInvariant == Spec => []IInv
  BY InitHolds, NextHolds, PTL DEF Spec

-----------------------------------------------------------------------------
\* A request that works in a session alone holds its lock, and the session is whole.
THEOREM ContextsAreHeld == Spec => []ContextHeldWhileUsed
  <1>1. IInv => ContextHeldWhileUsed
    <2> SUFFICES ASSUME IInv, NEW r \in Requests, pc[r] \in InContext
                 PROVE  /\ holder[sess[r]] = r /\ root[sess[r]] = "none"
                        /\ "context" \in alive[sess[r]]
      BY DEF ContextHeldWhileUsed
    <2>1. sess[r] \in Sessions /\ holder[sess[r]] = r /\ Owned(sess[r])
      BY DEF IInv, Shape, CheckedOut, Locks, UsersKnow
    <2>2. closer[sess[r]] # "cleaning"
      BY <2>1, NamesApart DEF IInv, Locks
    <2>3. Whole(sess[r])
      BY <2>1, <2>2, NamesApart
      DEF IInv, Shape, Registry, Owned
    <2> QED BY <2>1, <2>3 DEF Whole, Both
  <1> QED BY <1>1, SessionsInvariant, PTL

\* Whatever exists of a session belongs to somebody who will close it.
THEOREM NothingIsOrphaned == Spec => []NoOrphanResources
  <1>1. IInv => NoOrphanResources
    <2> SUFFICES ASSUME IInv, NEW s \in Sessions, alive[s] # {}
                 PROVE  \/ s \in Registered \cup Tombstones
                        \/ \E r \in Requests : built[r] = s
                        \/ Ended(s)
      BY DEF NoOrphanResources
    <2>1. CASE Owned(s)
      BY <2>1, NamesApart
      DEF IInv, Shape, Owned, Registered, Tombstones
    <2> QED BY <2>1 DEF IInv, NoOrphans
  <1> QED BY <1>1, SessionsInvariant, PTL

\* A page is opened only in a session that is registered at that moment.
THEOREM PagesInCurrentSessions == Spec => PagesOnlyInCurrentSessions
  <1>1. IInv /\ [Next]_vars =>
           [\A r \in Requests : pc[r] # "page" /\ pc'[r] = "page" =>
                                    registry'[target'[r]] = sess'[r]]_vars
    <2> SUFFICES ASSUME IInv, Next, NEW r \in Requests, pc[r] # "page", pc'[r] = "page"
                 PROVE  registry'[target'[r]] = sess'[r]
      OBVIOUS
    <2> USE DEF IInv, Shape, Building
    <2>1. ASSUME NEW q \in Requests, NEW i \in Ids, BeginUse(q, i)
          PROVE  registry'[target'[r]] = sess'[r]
      <3>1. CASE StartClosing(Expired(i)) /\ CheckOut(q, i, registry[i], TRUE)
        <4>1. q = r /\ target'[r] = i /\ sess'[r] = registry[i]
          BY <3>1 DEF CheckOut, Proceed, Leave
        <4>2. i \in Ids \ Expired(i) /\ Expired(i) \in SUBSET Live
          BY ExpiredLive DEF Expired
        <4>3. registry'[i] = registry[i]
          BY <3>1, <4>2, Withdrawn
        <4> QED BY <4>1, <4>3
      <3>2. CASE Proceed(q, "rotate", "use", i, registry[i])
        BY <3>2 DEF Proceed
      <3>3. CASE StartBuilding(q, "use", i)
        BY <3>3 DEF StartBuilding, Leave
      <3> QED BY <2>1, <3>1, <3>2, <3>3 DEF BeginUse
    <2>2. ASSUME NEW q \in Requests, BuildRegisters(q) PROVE registry'[target'[r]] = sess'[r]
      BY <2>2 DEF BuildRegisters, GotSession, CheckOut, Proceed, Leave
    <2>3. ASSUME NEW q \in Requests, DiscardEnds(q) PROVE registry'[target'[r]] = sess'[r]
      BY <2>3 DEF DiscardEnds, GotSession, CheckOut, Proceed, Leave, managerVars
    <2>4. ASSUME NEW q \in Requests, RefusedEnds(q) PROVE registry'[target'[r]] = sess'[r]
      BY <2>4 DEF RefusedEnds, GotSession, CheckOut, Proceed, Leave, managerVars
    <2>5. ASSUME NEW q \in Requests, AwaitEnds(q) PROVE registry'[target'[r]] = sess'[r]
      BY <2>5 DEF AwaitEnds, GotSession, CheckOut, Proceed, Leave, managerVars
    <2>6. ASSUME NEW q \in Requests, LockTurn(q) PROVE registry'[target'[r]] = sess'[r]
      BY <2>6 DEF LockTurn, Leave, managerVars
    <2>7. ASSUME NEW q \in Requests,
                 \/ \E i \in Ids : BeginCreate(q, i) \/ BeginDestroy(q, i)
                 \/ DestroyEnds(q) \/ RotateEnds(q) \/ BuildStarts(q) \/ BuildRefused(q)
                 \/ BuildDiscarded(q) \/ FailureEnds(q) \/ BuildFails(q)
          PROVE  FALSE
      <3>1. ASSUME NEW c, NEW i, StartBuilding(q, c, i) PROVE FALSE
        BY <3>1 DEF StartBuilding, Leave
      <3>2. CASE \E i \in Ids : BeginCreate(q, i) \/ BeginDestroy(q, i)
        BY <3>1, <3>2 DEF BeginCreate, BeginDestroy, Proceed, requestVars
      <3>3. CASE RotateEnds(q)
        BY <3>1, <3>3 DEF RotateEnds, Leave
      <3>4. CASE DestroyEnds(q) \/ BuildStarts(q) \/ BuildRefused(q) \/ FailureEnds(q)
        BY <3>4 DEF DestroyEnds, BuildStarts, BuildRefused, FailureEnds, Leave
      <3>5. ASSUME NEW p \in {"discard", "failed"}, pc' = [pc EXCEPT ![q] = p]
            PROVE  FALSE
        BY <3>5
      <3>6. CASE BuildDiscarded(q)
        BY <3>5, <3>6 DEF BuildDiscarded
      <3>7. CASE BuildFails(q)
        BY <3>5, <3>7 DEF BuildFails
      <3> QED BY <2>7, <3>2, <3>3, <3>4, <3>6, <3>7
    <2>8. ASSUME NEW q \in Requests,
                 \/ PageOpens(q) \/ SolveEnds(q) \/ ProbeSucceeds(q) \/ PagesClosed(q)
                 \/ ContextUnusable(q) \/ CancelWaiting(q) \/ CancelLease(q) \/ CancelLock(q)
                 \/ CancelProxyClose(q) \/ CancelDiscard(q) \/ CancelInContext(q)
          PROVE  FALSE
      BY <2>8
      DEF PageOpens, SolveEnds, ProbeSucceeds, PagesClosed, ContextUnusable, CancelWaiting,
          CancelLease, CancelLock, CancelProxyClose, CancelDiscard, CancelInContext, Within, Leave
    <2>9. ASSUME \/ Reap \/ CloseManager
                 \/ \E s \in Sessions : CloserStep(s) \/ RootTimesOut(s) \/ SessionExpires(s)
          PROVE  FALSE
      BY <2>9
      DEF Reap, CloseManager, CloserStep, CloseSessionStarts, CloserLocks, RootProceeds,
          ResourceCloses, CloseSessionEnds, RootTimesOut, RootMoves, SessionExpires, requestVars
    <2> QED BY <2>1, <2>2, <2>3, <2>4, <2>5, <2>6, <2>7, <2>8, <2>9
            DEF Next, Begin, RequestStep, RequestFails, AwaitWoken, AwaitTimesOut
  <1> QED BY <1>1, SessionsInvariant, PTL DEF Spec, PagesOnlyInCurrentSessions

-----------------------------------------------------------------------------
(***************************************************************************)
(* The manager implements SessionIds.                                      *)
(***************************************************************************)
\* What a step can do to the registry and its tombstones.
LEMMA RegistrySteps ==
    ASSUME IInv, Next
    PROVE  \/ UNCHANGED <<registry, closing>>
           \/ \E ids \in SUBSET Live : StartClosing(ids)
           \/ \E r \in Requests : BuildRegisters(r)
           \/ \E s \in Sessions : CloseSessionEnds(s)
  <1>1. ASSUME NEW r \in Requests, NEW i \in Ids, BeginCreate(r, i) \/ BeginUse(r, i)
        PROVE  \E ids \in SUBSET Live : StartClosing(ids)
    <2>1. StartClosing(Expired(i)) \/ (registry[i] # None /\ StartClosing(Expired(i) \cup {i}))
      BY <1>1 DEF BeginCreate, BeginUse
    <2>2. Expired(i) \in SUBSET Live /\ (registry[i] # None => Expired(i) \cup {i} \in SUBSET Live)
      BY ExpiredLive DEF Live
    <2> QED BY <2>1, <2>2
  <1>2. ASSUME NEW r \in Requests, NEW i \in Ids, BeginDestroy(r, i)
        PROVE  \E ids \in SUBSET Live : StartClosing(ids)
    BY <1>2 DEF BeginDestroy
  <1>3. ASSUME NEW r \in Requests, ContextUnusable(r)
        PROVE  \E ids \in SUBSET Live : StartClosing(ids)
    <2>1. {i \in Ids : i = sid[sess[r]] /\ registry[i] = sess[r]} \in SUBSET Live
      BY <1>3, NamesApart
      DEF ContextUnusable, IInv, Shape, Live, CheckedOut, InContext
    <2> QED BY <1>3, <2>1 DEF ContextUnusable
  <1>4. ASSUME Reap \/ CloseManager PROVE \E ids \in SUBSET Live : StartClosing(ids)
    BY <1>4, ExpiredLive DEF Reap, CloseManager
  <1>5. ASSUME NEW r \in Requests,
               \/ DestroyEnds(r) \/ RotateEnds(r) \/ BuildStarts(r) \/ BuildRefused(r)
               \/ BuildDiscarded(r) \/ FailureEnds(r) \/ BuildFails(r) \/ DiscardEnds(r)
               \/ RefusedEnds(r) \/ AwaitEnds(r) \/ LockTurn(r) \/ PageOpens(r)
               \/ SolveEnds(r) \/ ProbeSucceeds(r) \/ PagesClosed(r) \/ CancelWaiting(r)
               \/ CancelLease(r) \/ CancelLock(r) \/ CancelProxyClose(r) \/ CancelDiscard(r)
               \/ CancelInContext(r)
        PROVE  UNCHANGED <<registry, closing>>
    BY <1>5
    DEF DestroyEnds, RotateEnds, BuildStarts, BuildRefused, BuildDiscarded, FailureEnds, BuildFails,
        DiscardEnds, RefusedEnds, AwaitEnds, LockTurn, PageOpens, SolveEnds, ProbeSucceeds,
        PagesClosed, CancelWaiting, CancelLease, CancelLock, CancelProxyClose, CancelDiscard,
        CancelInContext, Within, managerVars
  <1>6. ASSUME NEW s \in Sessions,
               \/ CloseSessionStarts(s) \/ CloserLocks(s) \/ RootProceeds(s) \/ ResourceCloses(s)
               \/ RootTimesOut(s) \/ SessionExpires(s)
        PROVE  UNCHANGED <<registry, closing>>
    BY <1>6
    DEF CloseSessionStarts, CloserLocks, RootProceeds, ResourceCloses, RootTimesOut, RootMoves,
        SessionExpires, managerVars
  <1> QED BY <1>1, <1>2, <1>3, <1>4, <1>5, <1>6
          DEF Next, Begin, RequestStep, RequestFails, CloserStep, AwaitWoken, AwaitTimesOut

\* SessionIds counts as the manager does.
LEMMA SameCount == ASSUME NEW S PROVE SI!Cardinality(S) = Cardinality(S)
  BY DEF SI!Cardinality, Cardinality

\* No id is live and reserved.
LEMMA LiveOrReserved == ASSUME IInv PROVE Live \cap Reserved = {}
  BY DEF IInv, Registry, Live, Reserved

\* Every step of the manager is a step of SessionIds, or none.
LEMMA StepsImplement == ASSUME IInv, Next PROVE [SI!Next]_<<Live, Reserved>>
  <1> USE NamesApart
  <1>1. CASE UNCHANGED <<registry, closing>>
    BY <1>1 DEF Live, Reserved
  <1>2. ASSUME NEW ids \in SUBSET Live, StartClosing(ids)
        PROVE  [SI!Next]_<<Live, Reserved>>
    <2>1. Live' = Live \ ids
      BY <1>2, Withdrawn DEF Live
    <2>2. Reserved' = Reserved \cup ids
      BY <1>2, Withdrawn DEF Live, Reserved
    <2>3. CASE ids = {}
      BY <2>1, <2>2, <2>3
    <2>4. CASE ids # {}
      BY <2>1, <2>2, <2>4 DEF SI!Next, SI!Withdraw
    <2> QED BY <2>3, <2>4
  <1>3. ASSUME NEW r \in Requests, BuildRegisters(r) PROVE SI!Next
    <2>1. /\ target[r] \in Ids /\ built[r] \in Sessions /\ MayRegister(target[r])
          /\ registry' = [registry EXCEPT ![target[r]] = built[r]] /\ UNCHANGED closing
      BY <1>3 DEF BuildRegisters, IInv, Shape, Building
    <2>2. target[r] \notin Live \cup Reserved /\ UNCHANGED Reserved
      BY <2>1 DEF MayRegister, Live, Reserved
    <2>3. Live' = Live \cup {target[r]}
      BY <2>1 DEF Live, IInv, Shape
    <2>4. SI!Register(target[r])
      BY <2>1, <2>2, <2>3, SameCount DEF SI!Register, MayRegister
    <2> QED BY <2>1, <2>4 DEF SI!Next
  <1>4. ASSUME NEW s \in Sessions, CloseSessionEnds(s) PROVE SI!Next
    <2>1. /\ closer[s] = "cleaning" /\ UNCHANGED registry
          /\ closing' = [i \in Ids |-> IF closing[i] = s THEN None ELSE closing[i]]
      BY <1>4 DEF CloseSessionEnds
    <2>2. Owned(s) /\ sid[s] \in Ids
      BY <2>1 DEF IInv, Shape, Registry, Owned
    <2>3. closing[sid[s]] = s
      BY <2>1, <2>2 DEF IInv, Registry, Owned
    <2>4. \A i \in Ids : closing[i] = s => i = sid[s]
      BY DEF IInv, Registry
    <2>5. Reserved' = Reserved \ {sid[s]} /\ sid[s] \in Reserved /\ UNCHANGED Live
      BY <2>1, <2>2, <2>3, <2>4 DEF Reserved, Live
    <2> QED BY <2>2, <2>5 DEF SI!Next, SI!Release
  <1> QED BY <1>1, <1>2, <1>3, <1>4, RegistrySteps

\* The manager keeps the promise of SessionIds.
THEOREM ManagerImplementsSessionIds == Spec => ImplementsSessionIds
  <1>1. Init => SI!Init
    BY DEF Init, SI!Init, Live, Reserved
  <1>2. IInv /\ [Next]_vars => [SI!Next]_<<Live, Reserved>>
    <2>1. CASE Next
      BY <2>1, StepsImplement
    <2>2. CASE UNCHANGED vars
      BY <2>2 DEF vars, managerVars, Live, Reserved
    <2> QED BY <2>1, <2>2
  <1> QED BY <1>1, <1>2, SessionsInvariant, PTL DEF Spec, ImplementsSessionIds, SI!Spec

-----------------------------------------------------------------------------
(***************************************************************************)
(* The limit on sessions.                                                  *)
(***************************************************************************)
\* Ids in use, for a registered session or for one that goes away.
Bounded == Cardinality(Live \cup Reserved) <= MaxSessions

\* Sets of ids are finite.
LEMMA IdsFinite ==
    /\ IsFiniteSet(Live) /\ IsFiniteSet(Reserved) /\ IsFiniteSet(Live \cup Reserved)
    /\ Cardinality(Live) \in Nat /\ Cardinality(Reserved) \in Nat
    /\ Cardinality(Live \cup Reserved) \in Nat
  <1>1. Live \subseteq Ids /\ Reserved \subseteq Ids /\ Live \cup Reserved \subseteq Ids
    BY DEF Live, Reserved
  <1> QED BY <1>1, SessionsAssumption, FS_Subset, FS_CardinalityType DEF SessionsAssumption

\* The limit is kept by every step.
LEMMA BoundKept == IInv /\ Bounded /\ [Next]_vars => Bounded'
  <1> SUFFICES ASSUME IInv, Bounded, [Next]_vars PROVE Bounded'
    OBVIOUS
  <1> USE SessionsAssumption DEF SessionsAssumption
  <1>1. CASE UNCHANGED <<Live, Reserved>>
    BY <1>1 DEF Bounded
  <1>2. ASSUME NEW i \in Ids, SI!Register(i) PROVE Bounded'
    <2>1. Cardinality(Live \cup Reserved) < MaxSessions
      <3>1. Cardinality(Live \cup Reserved)
              = Cardinality(Live) + Cardinality(Reserved) - Cardinality(Live \cap Reserved)
        BY IdsFinite, FS_Union
      <3>2. Cardinality(Live \cap Reserved) = 0
        BY LiveOrReserved, FS_EmptySet
      <3>3. Cardinality(Live) + Cardinality(Reserved) < MaxSessions
        BY <1>2, SameCount DEF SI!Register
      <3> QED BY <3>1, <3>2, <3>3, IdsFinite
    <2>2. (Live \cup Reserved)' = (Live \cup Reserved) \cup {i}
      BY <1>2 DEF SI!Register
    <2>3. Cardinality((Live \cup Reserved) \cup {i}) = Cardinality(Live \cup Reserved) + 1
      BY <1>2, IdsFinite, FS_AddElement DEF SI!Register
    <2> QED BY <2>1, <2>2, <2>3, IdsFinite DEF Bounded
  <1>3. ASSUME NEW ids \in SUBSET Live, SI!Withdraw(ids) PROVE Bounded'
    <2>1. (Live \cup Reserved)' = Live \cup Reserved
      BY <1>3 DEF SI!Withdraw
    <2> QED BY <2>1 DEF Bounded
  <1>4. ASSUME NEW i \in Ids, SI!Release(i) PROVE Bounded'
    <2>1. (Live \cup Reserved)' \subseteq Live \cup Reserved
      BY <1>4 DEF SI!Release
    <2>2. Cardinality((Live \cup Reserved)') <= Cardinality(Live \cup Reserved)
      BY <2>1, IdsFinite, FS_Subset
    <2>3. IsFiniteSet((Live \cup Reserved)')
      BY <2>1, IdsFinite, FS_Subset
    <2>4. Cardinality((Live \cup Reserved)') \in Nat
      BY <2>3, FS_CardinalityType
    <2> QED BY <2>2, <2>4, IdsFinite DEF Bounded
  <1>5. [SI!Next]_<<Live, Reserved>>
    <2>1. CASE UNCHANGED vars
      BY <2>1 DEF vars, managerVars, Live, Reserved
    <2> QED BY <2>1, StepsImplement
  <1> QED BY <1>1, <1>2, <1>3, <1>4, <1>5 DEF SI!Next

\* An id has at most one session with anything left of it, and MAX_SESSIONS is kept.
THEOREM OneSessionForAnId == Spec => []OneSessionPerId
  <1>1. Init => Bounded
    <2> SUFFICES ASSUME Init PROVE Cardinality(Live \cup Reserved) <= MaxSessions
      BY DEF Bounded
    <2>1. Live \cup Reserved = {}
      BY DEF Init, Live, Reserved
    <2> QED BY <2>1, FS_EmptySet, SessionsAssumption DEF SessionsAssumption
  <1>2. IInv /\ Bounded => OneSessionPerId
    <2> SUFFICES ASSUME IInv, Bounded PROVE OneSessionPerId
      OBVIOUS
    <2>1. ASSUME NEW s \in HeldIds
          PROVE  s \in Sessions /\ sid[s] \in Live \cup Reserved
                 /\ (registry[sid[s]] = s \/ closing[sid[s]] = s) /\ sid[s] \in Ids
      BY <2>1, NamesApart
      DEF HeldIds, IInv, Shape, Registry, Owned, Live, Reserved
    <2>2. ASSUME NEW s \in HeldIds, NEW t \in HeldIds, sid[s] = sid[t] PROVE s = t
      BY <2>1, <2>2, NamesApart DEF IInv, Registry
    <2>3. Cardinality(HeldIds) <= Cardinality(Live \cup Reserved)
      <3> DEFINE f == [s \in HeldIds |-> sid[s]]
      <3>1. f \in Injection(HeldIds, Live \cup Reserved)
        BY <2>1, <2>2 DEF Injection, IsInjective
      <3> QED BY <3>1, IdsFinite, FS_Injection
    <2>4. IsFiniteSet(HeldIds) /\ Cardinality(HeldIds) \in Nat
      <3> DEFINE f == [s \in HeldIds |-> sid[s]]
      <3>1. f \in Injection(HeldIds, Live \cup Reserved)
        BY <2>1, <2>2 DEF Injection, IsInjective
      <3> QED BY <3>1, IdsFinite, FS_Injection, FS_CardinalityType
    <2> QED BY <2>2, <2>3, <2>4, IdsFinite, SessionsAssumption
            DEF OneSessionPerId, Bounded, SessionsAssumption
  <1> QED BY <1>1, <1>2, BoundKept, SessionsInvariant, PTL DEF Spec

-----------------------------------------------------------------------------
(***************************************************************************)
(* The checkouts of a session.                                             *)
(***************************************************************************)
\* The requests that have a session checked out.
Users(s) == {r \in Requests : pc[r] \in CheckedOut /\ sess[r] = s}

\* The counters, one by one.
Counted == in_use \in [Sessions -> Int] /\ \A s \in Sessions : in_use[s] = Cardinality(Users(s))

\* Counters and users change together.
LEMMA SetsOfUsers ==
    ASSUME NEW s \in Sessions, NEW r
    PROVE  /\ Cardinality(Users(s)) \in Nat
           /\ r \notin Users(s) => Cardinality(Users(s) \cup {r}) = Cardinality(Users(s)) + 1
           /\ r \in Users(s) => Cardinality(Users(s) \ {r}) = Cardinality(Users(s)) - 1
  <1>1. IsFiniteSet(Users(s))
    BY SessionsAssumption, FS_Subset DEF SessionsAssumption, Users
  <1> QED BY <1>1, FS_CardinalityType, FS_AddElement, FS_RemoveElement

\* A step that moves no request into a session, nor out of one.
LEMMA NobodyMoves ==
    ASSUME Counted, UNCHANGED in_use,
           \A q \in Requests : \/ pc[q] \notin CheckedOut /\ pc'[q] \notin CheckedOut
                               \/ /\ pc[q] \in CheckedOut /\ pc'[q] \in CheckedOut
                                  /\ sess'[q] = sess[q]
    PROVE  Counted'
  <1>1. \A s \in Sessions : Users(s)' = Users(s)
    BY DEF Users
  <1> QED BY <1>1 DEF Counted

\* A request that checks out a session is counted for it.
LEMMA OneChecksOut ==
    ASSUME Counted, NEW r \in Requests, NEW s \in Sessions,
           pc[r] \notin CheckedOut, pc'[r] \in CheckedOut, sess'[r] = s,
           \A q \in Requests \ {r} : pc'[q] = pc[q] /\ sess'[q] = sess[q],
           in_use' = [in_use EXCEPT ![s] = @ + 1]
    PROVE  Counted'
  <1>1. /\ r \notin Users(s) /\ Users(s)' = Users(s) \cup {r}
        /\ \A t \in Sessions \ {s} : Users(t)' = Users(t)
    BY DEF Users
  <1>2. Cardinality(Users(s)') = Cardinality(Users(s)) + 1
    BY <1>1, SetsOfUsers
  <1>3. in_use'[s] = Cardinality(Users(s)') /\ in_use' \in [Sessions -> Int]
    BY <1>2 DEF Counted
  <1>4. \A t \in Sessions \ {s} : in_use'[t] = Cardinality(Users(t)')
    BY <1>1 DEF Counted
  <1> QED BY <1>3, <1>4 DEF Counted

\* A request that gives its session back is discounted.
LEMMA OneGivesBack ==
    ASSUME Counted, NEW r \in Requests, NEW s \in Sessions,
           pc[r] \in CheckedOut, sess[r] = s, pc'[r] \notin CheckedOut,
           \A q \in Requests \ {r} : pc'[q] = pc[q] /\ sess'[q] = sess[q],
           in_use' = [in_use EXCEPT ![s] = @ - 1]
    PROVE  Counted'
  <1>1. /\ r \in Users(s) /\ Users(s)' = Users(s) \ {r}
        /\ \A t \in Sessions \ {s} : Users(t)' = Users(t)
    BY DEF Users
  <1>2. Cardinality(Users(s)') = Cardinality(Users(s)) - 1
    BY <1>1, SetsOfUsers
  <1> QED BY <1>1, <1>2 DEF Counted

\* Who gets a session counts for it, unless it leaves.
LEMMA GettingCounts ==
    ASSUME IInv, Counted, NEW r \in Requests, pc[r] \notin CheckedOut,
           NEW s \in Sessions, NEW i, NEW current,
           CheckOut(r, i, s, current) \/ GotSession(r, s, current)
    PROVE  Counted'
  <1> USE DEF IInv, Shape
  <1>1. CASE Leave(r) /\ UNCHANGED in_use
    BY <1>1, NobodyMoves DEF Leave, CheckedOut, InContext
  <1>2. ASSUME NEW p \in CheckedOut, NEW j, Proceed(r, p, "use", j, s),
               in_use' = [in_use EXCEPT ![s] = @ + 1]
        PROVE  Counted'
    <2>1. /\ pc'[r] = p /\ sess'[r] = s
          /\ \A q \in Requests \ {r} : pc'[q] = pc[q] /\ sess'[q] = sess[q]
      BY <1>2 DEF Proceed
    <2> QED BY <1>2, <2>1, OneChecksOut
  <1>3. "page" \in CheckedOut /\ "lock" \in CheckedOut
    BY DEF CheckedOut, InContext
  <1>4. ASSUME NEW j, CheckOut(r, j, s, current) PROVE Counted'
    BY <1>1, <1>2, <1>3, <1>4 DEF CheckOut, lockVars
  <1> QED BY <1>1, <1>4 DEF GotSession, lockVars

\* The counters are kept by every step.
LEMMA CountsKept == IInv /\ Counted /\ [Next]_vars => Counted'
  <1> SUFFICES ASSUME IInv, Counted, Next PROVE Counted'
    <2>1. CASE UNCHANGED vars
      BY <2>1, NobodyMoves DEF vars, lockVars, requestVars
    <2> QED BY <2>1
  <1> USE NamesApart
  <1>1. ASSUME NEW r \in Requests, NEW c, NEW i, pc[r] \notin CheckedOut, UNCHANGED in_use,
               StartBuilding(r, c, i)
        PROVE  Counted'
    <2>1. /\ pc'[r] \notin CheckedOut
          /\ \A q \in Requests \ {r} : pc'[q] = pc[q] /\ sess'[q] = sess[q]
      BY <1>1 DEF StartBuilding, Leave, CheckedOut, InContext, IInv, Shape
    <2> QED BY <1>1, <2>1, NobodyMoves
  <1>2. ASSUME NEW r \in Requests, NEW i \in Ids, BeginCreate(r, i) PROVE Counted'
    <2>1. pc[r] \notin CheckedOut /\ UNCHANGED in_use
      BY <1>2 DEF BeginCreate, CheckedOut, InContext, lockVars
    <2> QED BY <1>1, <1>2, <2>1, NobodyMoves DEF BeginCreate, requestVars
  <1>3. ASSUME NEW r \in Requests, NEW i \in Ids, BeginUse(r, i) PROVE Counted'
    <2>1. pc[r] \notin CheckedOut
      BY <1>3 DEF BeginUse, CheckedOut, InContext
    <2>2. CASE registry[i] # None /\ CheckOut(r, i, registry[i], TRUE)
      <3>1. registry[i] \in Sessions
        BY <2>2 DEF IInv, Shape
      <3> QED BY <2>1, <2>2, <3>1, GettingCounts
    <2>3. CASE UNCHANGED lockVars /\ Proceed(r, "rotate", "use", i, registry[i])
      BY <2>1, <2>3, NobodyMoves DEF Proceed, lockVars, CheckedOut, InContext, IInv, Shape
    <2>4. CASE UNCHANGED lockVars /\ StartBuilding(r, "use", i)
      BY <1>1, <2>1, <2>4 DEF lockVars
    <2> QED BY <1>3, <2>2, <2>3, <2>4 DEF BeginUse
  <1>4. ASSUME NEW r \in Requests,
               \/ BuildRegisters(r) \/ DiscardEnds(r) \/ RefusedEnds(r) \/ AwaitEnds(r)
        PROVE  Counted'
    <2>1. pc[r] \in {"open", "discard", "refused", "await"} /\ target[r] \in Ids
      BY <1>4 DEF BuildRegisters, DiscardEnds, RefusedEnds, AwaitEnds, IInv, Shape
    <2>2. pc[r] \notin CheckedOut
      BY <2>1 DEF CheckedOut, InContext
    <2>3. ASSUME NEW s \in Sessions, NEW current, GotSession(r, s, current) PROVE Counted'
      BY <2>2, <2>3, GettingCounts
    <2>4. CASE Leave(r) /\ UNCHANGED lockVars
      BY <2>2, <2>4, NobodyMoves DEF Leave, lockVars, CheckedOut, InContext, IInv, Shape
    <2>5. CASE Proceed(r, "await", cmd[r], target[r], None) /\ UNCHANGED lockVars
      BY <2>2, <2>5, NobodyMoves DEF Proceed, lockVars, CheckedOut, InContext, IInv, Shape
    <2>6. registry[target[r]] # None => registry[target[r]] \in Sessions
      BY <2>1 DEF IInv, Shape
    <2>7. CASE BuildRegisters(r)
      <3>1. built[r] \in Sessions
        BY <2>7 DEF BuildRegisters, IInv, Shape, Building
      <3> QED BY <2>3, <2>7, <3>1 DEF BuildRegisters
    <2>8. CASE DiscardEnds(r)
      BY <2>3, <2>4, <2>8 DEF DiscardEnds, IInv, Shape
    <2>9. CASE RefusedEnds(r)
      BY <2>3, <2>4, <2>5, <2>6, <2>9 DEF RefusedEnds
    <2>10. CASE AwaitEnds(r)
      BY <2>3, <2>4, <2>6, <2>10 DEF AwaitEnds
    <2> QED BY <1>4, <2>7, <2>8, <2>9, <2>10
  <1>5. ASSUME NEW r \in Requests, RotateEnds(r) PROVE Counted'
    <2>1. pc[r] \notin CheckedOut /\ UNCHANGED in_use
      BY <1>5 DEF RotateEnds, CheckedOut, InContext, lockVars
    <2>2. CASE Leave(r)
      BY <2>1, <2>2, NobodyMoves DEF Leave, CheckedOut, InContext, IInv, Shape
    <2> QED BY <1>1, <1>5, <2>1, <2>2 DEF RotateEnds
  <1>6. ASSUME NEW r \in Requests, LockTurn(r) \/ PagesClosed(r) \/ CancelLock(r)
        PROVE  Counted'
    <2>1. pc[r] \in CheckedOut /\ sess[r] \in Sessions
      BY <1>6 DEF LockTurn, PagesClosed, CancelLock, CheckedOut, InContext, IInv, Shape
    <2>2. CASE pc' = [pc EXCEPT ![r] = "page"] /\ UNCHANGED <<in_use, sess>>
      BY <2>1, <2>2, NobodyMoves DEF CheckedOut, InContext, IInv, Shape
    <2>3. CASE Leave(r) /\ in_use' = [in_use EXCEPT ![sess[r]] = @ - 1]
      <3>1. /\ pc'[r] \notin CheckedOut
            /\ \A q \in Requests \ {r} : pc'[q] = pc[q] /\ sess'[q] = sess[q]
        BY <2>3 DEF Leave, CheckedOut, InContext, IInv, Shape
      <3> QED BY <2>1, <2>3, <3>1, OneGivesBack
    <2> QED BY <1>6, <2>2, <2>3 DEF LockTurn, PagesClosed, CancelLock
  <1>7. ASSUME NEW r \in Requests,
               \/ PageOpens(r) \/ SolveEnds(r) \/ ProbeSucceeds(r) \/ CancelInContext(r)
               \/ ContextUnusable(r)
        PROVE  Counted'
    <2>1. \E p \in InContext : pc' = [pc EXCEPT ![r] = p]
      BY <1>7 DEF PageOpens, SolveEnds, ProbeSucceeds, CancelInContext, ContextUnusable, Within,
                  InContext
    <2>2. pc[r] \in InContext /\ UNCHANGED <<in_use, sess>>
      BY <1>7 DEF PageOpens, SolveEnds, ProbeSucceeds, CancelInContext, ContextUnusable, Within,
                  InContext, lockVars
    <2> QED BY <2>1, <2>2, NobodyMoves DEF CheckedOut, IInv, Shape
  <1>8. ASSUME NEW r \in Requests,
               \/ \E i \in Ids : BeginDestroy(r, i)
               \/ DestroyEnds(r) \/ BuildStarts(r) \/ BuildRefused(r) \/ BuildDiscarded(r)
               \/ FailureEnds(r) \/ BuildFails(r) \/ CancelWaiting(r) \/ CancelLease(r)
               \/ CancelProxyClose(r) \/ CancelDiscard(r)
        PROVE  Counted'
    <2>1. pc[r] \notin CheckedOut /\ UNCHANGED in_use
      BY <1>8 DEF BeginDestroy, DestroyEnds, BuildStarts, BuildRefused, BuildDiscarded, FailureEnds,
                  BuildFails, CancelWaiting, CancelLease, CancelProxyClose, CancelDiscard,
                  CheckedOut, InContext, lockVars
    <2>2. \E p \in {"idle", "open", "refused", "discard", "failed", "unwind", "destroy"} :
             pc' = [pc EXCEPT ![r] = p]
      BY <1>8 DEF BeginDestroy, DestroyEnds, BuildStarts, BuildRefused, BuildDiscarded, FailureEnds,
                  BuildFails, CancelWaiting, CancelLease, CancelProxyClose, CancelDiscard, Leave,
                  Proceed
    <2>3. \A q \in Requests \ {r} : sess'[q] = sess[q]
      <3>1. CASE Leave(r)
        BY <3>1 DEF Leave, IInv, Shape
      <3>2. CASE \E i \in Ids : BeginDestroy(r, i)
        BY <3>2 DEF BeginDestroy, Proceed, IInv, Shape
      <3>3. CASE BuildDiscarded(r)
        BY <3>3 DEF BuildDiscarded, IInv, Shape
      <3>4. CASE BuildStarts(r) \/ BuildRefused(r) \/ BuildFails(r) \/ CancelDiscard(r)
        BY <3>4 DEF BuildStarts, BuildRefused, BuildFails, CancelDiscard
      <3> QED BY <1>8, <3>1, <3>2, <3>3, <3>4
              DEF DestroyEnds, FailureEnds, CancelWaiting, CancelLease, CancelProxyClose
    <2>4. pc'[r] \notin CheckedOut /\ \A q \in Requests \ {r} : pc'[q] = pc[q]
      BY <2>2 DEF CheckedOut, InContext, IInv, Shape
    <2> QED BY <2>1, <2>3, <2>4, NobodyMoves
  <1>9. ASSUME \/ Reap \/ CloseManager
               \/ \E s \in Sessions : CloserStep(s) \/ RootTimesOut(s) \/ SessionExpires(s)
        PROVE  Counted'
    <2>1. UNCHANGED <<in_use, pc, sess>>
      BY <1>9
      DEF Reap, CloseManager, CloserStep, CloseSessionStarts, CloserLocks, RootProceeds,
          ResourceCloses, CloseSessionEnds, RootTimesOut, RootMoves, SessionExpires, requestVars,
          lockVars
    <2> QED BY <2>1, NobodyMoves
  <1> QED BY <1>2, <1>3, <1>4, <1>5, <1>6, <1>7, <1>8, <1>9
          DEF Next, Begin, RequestStep, RequestFails, AwaitWoken, AwaitTimesOut

\* A session is used by one request at a time, which has its lock and its context, and its
\* counter tells how many requests have it checked out.
THEOREM UsesAreExclusive == Spec => []UseIsExclusive
  <1>1. Init => Counted
    <2> SUFFICES ASSUME Init PROVE Counted
      OBVIOUS
    <2>1. \A s \in Sessions : Users(s) = {}
      BY DEF Init, Users, CheckedOut, InContext
    <2>2. in_use = [s \in Sessions |-> 0]
      BY DEF Init
    <2> QED BY <2>1, <2>2, FS_EmptySet DEF Counted
  <1>2. Counted => InUseExact
    BY DEF Counted, InUseExact, Users
  <1> QED BY <1>1, <1>2, CountsKept, SessionsInvariant, ContextsAreHeld, PTL
          DEF Spec, UseIsExclusive

-----------------------------------------------------------------------------
(***************************************************************************)
(* What takes a session away from those who use it.                        *)
(***************************************************************************)
\* A session somebody has checked out is neither pruned nor rotated: only a command that
\* names its id, the request that found it unusable, and shutdown withdraw it.
LEMMA WithdrawnInUse ==
    ASSUME IInv, InUseExact, Next,
           NEW r \in Requests, pc[r] \in CheckedOut, registry[target[r]] = sess[r],
           registry'[target[r]] # sess[r]
    PROVE  \/ closed' # closed
           \/ \E q \in Requests : pc[q] = "idle" /\ pc'[q] = "destroy" /\ target'[q] = target[r]
           \/ \E q \in Requests : /\ pc[q] \in {"page", "probe"} /\ pc'[q] = "pages"
                                  /\ sess[q] = sess[r]
  <1> DEFINE i == target[r]  s == sess[r]
  <1> USE NamesApart DEF IInv, Shape
  <1>1. i \in Ids /\ s \in Sessions /\ s # None /\ in_use[s] > 0
    <2>1. i \in Ids /\ s \in Sessions
      BY DEF CheckedOut, InContext
    <2>2. IsFiniteSet(Users(s)) /\ r \in Users(s)
      BY FS_Subset, SessionsAssumption DEF SessionsAssumption, Users
    <2>3. Cardinality(Users(s)) \in Nat \ {0}
      BY <2>2, FS_CardinalityType, FS_EmptySet
    <2>4. in_use[s] = Cardinality(Users(s))
      BY <2>1 DEF InUseExact, Users
    <2> QED BY <2>1, <2>3, <2>4
  <1>2. \A x : i \notin Expired(x)
    BY <1>1 DEF Expired
  <1>3. ASSUME NEW ids \in SUBSET Live, StartClosing(ids) PROVE i \in ids
    BY <1>1, <1>3, Withdrawn
  <1>4. ASSUME NEW x, StartClosing(Expired(x)) PROVE FALSE
    BY <1>2, <1>3, <1>4, ExpiredLive
  <1>5. ASSUME NEW q \in Requests, NEW j \in Ids, BeginCreate(q, j) \/ BeginUse(q, j)
        PROVE  FALSE
    <2>1. /\ registry[j] # None /\ ~Usable(registry[j]) /\ StartClosing(Expired(j) \cup {j})
      BY <1>4, <1>5 DEF BeginCreate, BeginUse
    <2>2. j = i
      <3>1. Expired(j) \cup {j} \in SUBSET Live
        BY <2>1, ExpiredLive DEF Live
      <3> QED BY <1>2, <1>3, <2>1, <3>1
    <2> QED BY <1>1, <2>1, <2>2 DEF Usable
  <1>6. ASSUME NEW q \in Requests, NEW j \in Ids, BeginDestroy(q, j)
        PROVE  pc[q] = "idle" /\ pc'[q] = "destroy" /\ target'[q] = i
    <2>1. i \in {j} \cap Live
      BY <1>3, <1>6 DEF BeginDestroy
    <2> QED BY <1>6, <2>1 DEF BeginDestroy, Proceed
  <1>7. ASSUME NEW q \in Requests, ContextUnusable(q)
        PROVE  pc[q] \in {"page", "probe"} /\ pc'[q] = "pages" /\ sess[q] = s
    <2> DEFINE gone == {j \in Ids : j = sid[sess[q]] /\ registry[j] = sess[q]}
    <2>1. gone \in SUBSET Live
      BY <1>7 DEF ContextUnusable, Live, CheckedOut, InContext
    <2>2. i \in gone
      BY <1>3, <1>7, <2>1 DEF ContextUnusable
    <2> QED BY <1>7, <2>2 DEF ContextUnusable
  <1>8. ASSUME NEW q \in Requests, BuildRegisters(q) PROVE FALSE
    BY <1>1, <1>8 DEF BuildRegisters, MayRegister
  <1>9. ASSUME UNCHANGED registry PROVE FALSE
    BY <1>9
  <1>10. ASSUME Reap PROVE FALSE
    BY <1>4, <1>10 DEF Reap
  <1>11. ASSUME CloseManager PROVE closed' # closed
    BY <1>11 DEF CloseManager
  <1>12. ASSUME NEW q \in Requests,
                \/ DestroyEnds(q) \/ RotateEnds(q) \/ BuildStarts(q) \/ BuildRefused(q)
                \/ BuildDiscarded(q) \/ FailureEnds(q) \/ BuildFails(q) \/ DiscardEnds(q)
                \/ RefusedEnds(q) \/ AwaitEnds(q) \/ LockTurn(q) \/ PageOpens(q)
                \/ SolveEnds(q) \/ ProbeSucceeds(q) \/ PagesClosed(q) \/ CancelWaiting(q)
                \/ CancelLease(q) \/ CancelLock(q) \/ CancelProxyClose(q) \/ CancelDiscard(q)
                \/ CancelInContext(q)
         PROVE  UNCHANGED registry
    BY <1>12
    DEF DestroyEnds, RotateEnds, BuildStarts, BuildRefused, BuildDiscarded, FailureEnds, BuildFails,
        DiscardEnds, RefusedEnds, AwaitEnds, LockTurn, PageOpens, SolveEnds, ProbeSucceeds,
        PagesClosed, CancelWaiting, CancelLease, CancelLock, CancelProxyClose, CancelDiscard,
        CancelInContext, Within, managerVars
  <1>13. ASSUME NEW t \in Sessions, CloserStep(t) \/ RootTimesOut(t) \/ SessionExpires(t)
         PROVE  UNCHANGED registry
    BY <1>13
    DEF CloserStep, CloseSessionStarts, CloserLocks, RootProceeds, ResourceCloses, CloseSessionEnds,
        RootTimesOut, RootMoves, SessionExpires, managerVars
  <1> QED BY <1>5, <1>6, <1>7, <1>8, <1>9, <1>10, <1>11, <1>12, <1>13
          DEF Next, Begin, RequestStep, RequestFails, AwaitWoken, AwaitTimesOut

\* A session somebody has checked out leaves the registry only when it is destroyed by
\* name, by the request that found it unusable, or at shutdown.
THEOREM CheckedOutSessionsAreKept == Spec => CheckedOutSessionsStay
  <1>1. IInv /\ InUseExact /\ [Next]_vars =>
           [\A r \in Requests :
              pc[r] \in CheckedOut /\ registry[target[r]] = sess[r]
                  /\ registry'[target[r]] # sess[r] =>
              \/ closed' # closed
              \/ \E q \in Requests : /\ pc[q] = "idle" /\ pc'[q] = "destroy"
                                     /\ target'[q] = target[r]
              \/ \E q \in Requests : /\ pc[q] \in {"page", "probe"} /\ pc'[q] = "pages"
                                     /\ sess[q] = sess[r]]_vars
    BY WithdrawnInUse
  <1>2. UseIsExclusive => InUseExact
    BY DEF UseIsExclusive
  <1> QED BY <1>1, <1>2, SessionsInvariant, UsesAreExclusive, PTL
          DEF Spec, CheckedOutSessionsStay

-----------------------------------------------------------------------------
(***************************************************************************)
(* Types: the queues of the locks and the counters of the creations.       *)
(***************************************************************************)
\* w waits in a queue.
Waits(queue, w) == \E n \in 1 .. Len(queue) : queue[n] = w

\* Who waits for a lock is in its queue, so the queue is not empty when its turn comes.
Queues ==
    /\ waiters \in [Sessions -> Seq(Requests \cup {"closer"})]
    /\ \A r \in Requests : pc[r] = "lock" => Waits(waiters[sess[r]], r)
    /\ \A s \in Sessions : closer[s] = "queued" => Waits(waiters[s], "closer")

\* A queue without its n-th waiter keeps the others.
LEMMA WithoutKeeps ==
    ASSUME NEW S, NEW q \in Seq(S), NEW n \in 1 .. Len(q)
    PROVE  /\ Without(q, n) \in Seq(S)
           /\ \A w : w # q[n] /\ Waits(q, w) => Waits(Without(q, n), w)
  <1> DEFINE left == SubSeq(q, 1, n - 1)  right == SubSeq(q, n + 1, Len(q))
  <1>1. /\ left \in Seq(S) /\ Len(left) = n - 1
        /\ \A k \in 1 .. n - 1 : left[k] = q[k]
    OBVIOUS
  <1>2. /\ right \in Seq(S) /\ Len(right) = Len(q) - n
        /\ \A k \in 1 .. Len(q) - n : right[k] = q[n + k]
    OBVIOUS
  <1>3. Without(q, n) = left \o right
    BY DEF Without
  <1> HIDE DEF left, right
  <1>4. /\ left \o right \in Seq(S) /\ Len(left \o right) = Len(q) - 1
        /\ \A k \in 1 .. n - 1 : (left \o right)[k] = q[k]
        /\ \A k \in n .. Len(q) - 1 : (left \o right)[k] = q[k + 1]
    <2>1. /\ left \o right \in Seq(S) /\ Len(left \o right) = Len(left) + Len(right)
          /\ \A k \in 1 .. Len(left) + Len(right) :
                (left \o right)[k] = IF k <= Len(left) THEN left[k] ELSE right[k - Len(left)]
      BY <1>1, <1>2, ConcatProperties
    <2>2. Len(left) = n - 1 /\ Len(left) + Len(right) = Len(q) - 1
      BY <1>1, <1>2
    <2>3. ASSUME NEW k \in n .. Len(q) - 1 PROVE (left \o right)[k] = q[k + 1]
      <3>1. /\ k \in 1 .. Len(left) + Len(right) /\ ~(k <= Len(left))
            /\ k - Len(left) \in 1 .. Len(q) - n /\ n + (k - Len(left)) = k + 1
        BY <2>2
      <3> QED BY <1>2, <2>1, <3>1
    <2>4. ASSUME NEW k \in 1 .. n - 1 PROVE (left \o right)[k] = q[k]
      BY <1>1, <2>1, <2>2
    <2> QED BY <2>1, <2>2, <2>3, <2>4
  <1>5. ASSUME NEW m \in 1 .. Len(q), m # n
        PROVE  \E k \in 1 .. Len(left \o right) : (left \o right)[k] = q[m]
    <2>1. CASE m < n
      <3>1. m \in 1 .. n - 1 /\ m \in 1 .. Len(left \o right)
        BY <1>4, <2>1
      <3> QED BY <1>4, <3>1
    <2>2. CASE m > n
      <3>1. m - 1 \in n .. Len(q) - 1 /\ m - 1 \in 1 .. Len(left \o right) /\ (m - 1) + 1 = m
        BY <1>4, <2>2
      <3> QED BY <1>4, <3>1
    <2> QED BY <1>5, <2>1, <2>2
  <1> QED BY <1>3, <1>4, <1>5 DEF Waits

\* The waiter whose turn it is leaves the queue, and the others keep waiting.
LEMMA TailKeeps ==
    ASSUME NEW S, NEW q \in Seq(S), q # <<>>
    PROVE  /\ Tail(q) \in Seq(S)
           /\ \A w : w # Head(q) /\ Waits(q, w) => Waits(Tail(q), w)
  <1>1. /\ Tail(q) \in Seq(S) /\ Len(Tail(q)) = Len(q) - 1 /\ Head(q) = q[1]
        /\ \A k \in 1 .. Len(q) - 1 : Tail(q)[k] = q[k + 1]
    OBVIOUS
  <1>2. ASSUME NEW m \in 1 .. Len(q), q[m] # Head(q)
        PROVE  \E k \in 1 .. Len(Tail(q)) : Tail(q)[k] = q[m]
    <2>1. m - 1 \in 1 .. Len(q) - 1 /\ (m - 1) + 1 = m
      BY <1>1, <1>2
    <2> QED BY <1>1, <2>1
  <1> QED BY <1>1, <1>2 DEF Waits

\* A new waiter is queued behind the others.
LEMMA AppendKeeps ==
    ASSUME NEW S, NEW q \in Seq(S), NEW w \in S
    PROVE  /\ Append(q, w) \in Seq(S)
           /\ Waits(Append(q, w), w)
           /\ \A v : Waits(q, v) => Waits(Append(q, w), v)
  <1>1. /\ Append(q, w) \in Seq(S)
        /\ \A m \in 1 .. Len(q) : m \in 1 .. Len(Append(q, w)) /\ Append(q, w)[m] = q[m]
        /\ Len(q) + 1 \in 1 .. Len(Append(q, w)) /\ Append(q, w)[Len(q) + 1] = w
    OBVIOUS
  <1> QED BY <1>1 DEF Waits

\* A step that leaves the queues alone, and after which nobody else waits.
LEMMA QueuesUnmoved ==
    ASSUME Queues, UNCHANGED waiters,
           \A q \in Requests : pc'[q] = "lock" => pc[q] = "lock" /\ sess'[q] = sess[q],
           \A s \in Sessions : closer'[s] = "queued" => closer[s] = "queued"
    PROVE  Queues'
BY DEF Queues

\* The queue of one session changes.
LEMMA QueueMoves ==
    ASSUME IInv, Queues, NEW s \in Sessions, NEW queue \in Seq(Requests \cup {"closer"}),
           waiters' = [waiters EXCEPT ![s] = queue],
           \A q \in Requests : pc'[q] = "lock" =>
               \/ sess'[q] = s /\ Waits(queue, q)
               \/ /\ pc[q] = "lock" /\ sess'[q] = sess[q]
                  /\ Waits(waiters[s], q) => Waits(queue, q),
           \A t \in Sessions : closer'[t] = "queued" =>
               \/ t = s /\ Waits(queue, "closer")
               \/ /\ closer[t] = "queued"
                  /\ Waits(waiters[s], "closer") => Waits(queue, "closer")
    PROVE  Queues'
  <1>1. waiters \in [Sessions -> Seq(Requests \cup {"closer"})]
    BY DEF Queues
  <1>2. /\ waiters' \in [Sessions -> Seq(Requests \cup {"closer"})]
        /\ waiters'[s] = queue /\ \A t \in Sessions \ {s} : waiters'[t] = waiters[t]
    BY <1>1
  <1>3. \A q \in Requests : pc[q] = "lock" => sess[q] \in Sessions
    BY DEF IInv, Shape, CheckedOut
  <1> QED BY <1>2, <1>3 DEF Queues

\* A request that gets a session joins its queue unless the lock is free.
LEMMA GettingQueues ==
    ASSUME IInv, Queues, NEW r \in Requests, pc[r] # "lock", NEW s \in Sessions, NEW i,
           NEW current, CheckOut(r, i, s, current) \/ GotSession(r, s, current),
           \A t \in Sessions : closer'[t] = "queued" => closer[t] = "queued"
    PROVE  Queues'
  <1> USE NamesApart DEF IInv, Shape
  <1>1. CASE Leave(r) /\ UNCHANGED waiters
    BY <1>1, QueuesUnmoved DEF Leave
  <1>2. ASSUME NEW j, Proceed(r, "page", "use", j, s), UNCHANGED waiters PROVE Queues'
    BY <1>2, QueuesUnmoved DEF Proceed
  <1>3. ASSUME NEW j, Proceed(r, "lock", "use", j, s),
               waiters' = [waiters EXCEPT ![s] = Append(@, r)]
        PROVE  Queues'
    <2> DEFINE queue == Append(waiters[s], r)
    <2>1. waiters[s] \in Seq(Requests \cup {"closer"}) /\ r \in Requests \cup {"closer"}
      BY DEF Queues
    <2>2. /\ queue \in Seq(Requests \cup {"closer"}) /\ Waits(queue, r)
          /\ \A v : Waits(waiters[s], v) => Waits(queue, v)
      BY <2>1, AppendKeeps
    <2>3. /\ waiters' = [waiters EXCEPT ![s] = queue]
          /\ sess'[r] = s
          /\ \A q \in Requests \ {r} : pc'[q] = pc[q] /\ sess'[q] = sess[q]
      BY <1>3 DEF Proceed
    <2> HIDE DEF queue
    <2>4. ASSUME NEW q \in Requests, pc'[q] = "lock"
          PROVE  \/ sess'[q] = s /\ Waits(queue, q)
                 \/ /\ pc[q] = "lock" /\ sess'[q] = sess[q]
                    /\ Waits(waiters[s], q) => Waits(queue, q)
      BY <2>2, <2>3, <2>4
    <2>5. ASSUME NEW t \in Sessions, closer'[t] = "queued"
          PROVE  /\ closer[t] = "queued"
                 /\ Waits(waiters[s], "closer") => Waits(queue, "closer")
      BY <2>2, <2>5
    <2> QED BY <2>2, <2>3, <2>4, <2>5, QueueMoves
  <1>4. ASSUME NEW j, CheckOut(r, j, s, current) PROVE Queues'
    BY <1>1, <1>2, <1>3, <1>4 DEF CheckOut, lockVars
  <1> QED BY <1>1, <1>4 DEF GotSession, lockVars

\* Who waits for a lock stays in its queue until its turn comes or it is cancelled.
LEMMA QueuesKept == IInv /\ Queues /\ [Next]_vars => Queues'
  <1> SUFFICES ASSUME IInv, Queues, Next PROVE Queues'
    <2>1. CASE UNCHANGED vars
      BY <2>1, QueuesUnmoved DEF vars, lockVars, closeVars, requestVars
    <2> QED BY <2>1
  <1> USE NamesApart DEF IInv, Shape
  <1>1. ASSUME NEW ids, StartClosing(ids) \/ UNCHANGED closer
        PROVE  \A t \in Sessions : closer'[t] = "queued" => closer[t] = "queued"
    BY <1>1 DEF StartClosing
  <1>2. ASSUME NEW r \in Requests, UNCHANGED waiters, pc[r] # "lock" \/ pc'[r] # "lock",
               NEW p, p # "lock", pc' = [pc EXCEPT ![r] = p],
               \A q \in Requests \ {r} : sess'[q] = sess[q],
               \A t \in Sessions : closer'[t] = "queued" => closer[t] = "queued"
        PROVE  Queues'
    BY <1>2, QueuesUnmoved
  <1>3. ASSUME NEW r \in Requests, Leave(r)
        PROVE  /\ pc' = [pc EXCEPT ![r] = "idle"]
               /\ \A q \in Requests \ {r} : sess'[q] = sess[q]
    BY <1>3 DEF Leave
  <1>4. ASSUME NEW r \in Requests, NEW c, NEW i, UNCHANGED waiters, StartBuilding(r, c, i),
               \A t \in Sessions : closer'[t] = "queued" => closer[t] = "queued"
        PROVE  Queues'
    <2>1. CASE Leave(r)
      BY <1>2, <1>3, <1>4, <2>1
    <2>2. CASE pc' = [pc EXCEPT ![r] = "lease"] /\ sess' = [sess EXCEPT ![r] = None]
      BY <1>2, <1>4, <2>2
    <2> QED BY <1>4, <2>1, <2>2 DEF StartBuilding
  <1>5. ASSUME NEW r \in Requests, NEW i \in Ids, BeginCreate(r, i) PROVE Queues'
    <2>1. UNCHANGED waiters /\ \A t \in Sessions : closer'[t] = "queued" => closer[t] = "queued"
      BY <1>1, <1>5 DEF BeginCreate, lockVars
    <2>2. CASE UNCHANGED requestVars
      BY <2>1, <2>2, QueuesUnmoved DEF requestVars
    <2> QED BY <1>4, <1>5, <2>1, <2>2 DEF BeginCreate
  <1>6. ASSUME NEW r \in Requests, NEW i \in Ids, BeginUse(r, i) PROVE Queues'
    <2>1. pc[r] = "idle" /\ \A t \in Sessions : closer'[t] = "queued" => closer[t] = "queued"
      BY <1>1, <1>6 DEF BeginUse
    <2>2. CASE registry[i] # None /\ CheckOut(r, i, registry[i], TRUE)
      <3>1. registry[i] \in Sessions
        BY <2>2
      <3> QED BY <2>1, <2>2, <3>1, GettingQueues
    <2>3. CASE UNCHANGED lockVars /\ Proceed(r, "rotate", "use", i, registry[i])
      BY <1>2, <2>1, <2>3 DEF Proceed, lockVars
    <2>4. CASE UNCHANGED lockVars /\ StartBuilding(r, "use", i)
      BY <1>4, <2>1, <2>4 DEF lockVars
    <2> QED BY <1>6, <2>2, <2>3, <2>4 DEF BeginUse
  <1>7. ASSUME NEW r \in Requests, NEW i \in Ids, BeginDestroy(r, i) PROVE Queues'
    BY <1>1, <1>2, <1>7 DEF BeginDestroy, Proceed, lockVars
  <1>8. ASSUME NEW r \in Requests,
               \/ BuildRegisters(r) \/ DiscardEnds(r) \/ RefusedEnds(r) \/ AwaitEnds(r)
        PROVE  Queues'
    <2>1. /\ pc[r] \in {"open", "discard", "refused", "await"} /\ target[r] \in Ids
          /\ UNCHANGED closer
      BY <1>8 DEF BuildRegisters, DiscardEnds, RefusedEnds, AwaitEnds, closeVars
    <2>2. pc[r] # "lock"
      BY <2>1
    <2>3. ASSUME NEW s \in Sessions, NEW current, GotSession(r, s, current) PROVE Queues'
      BY <2>1, <2>2, <2>3, GettingQueues
    <2>4. CASE Leave(r) /\ UNCHANGED lockVars
      BY <1>2, <1>3, <2>1, <2>4 DEF lockVars
    <2>5. CASE Proceed(r, "await", cmd[r], target[r], None) /\ UNCHANGED lockVars
      BY <1>2, <2>1, <2>5 DEF Proceed, lockVars
    <2>6. registry[target[r]] # None => registry[target[r]] \in Sessions
      BY <2>1
    <2>7. CASE BuildRegisters(r)
      <3>1. built[r] \in Sessions
        BY <2>7 DEF BuildRegisters, Building
      <3> QED BY <2>3, <2>7, <3>1 DEF BuildRegisters
    <2>8. CASE DiscardEnds(r)
      BY <2>3, <2>4, <2>8 DEF DiscardEnds
    <2>9. CASE RefusedEnds(r)
      BY <2>3, <2>4, <2>5, <2>6, <2>9 DEF RefusedEnds
    <2>10. CASE AwaitEnds(r)
      BY <2>3, <2>4, <2>6, <2>10 DEF AwaitEnds
    <2> QED BY <1>8, <2>7, <2>8, <2>9, <2>10
  <1>9. ASSUME NEW r \in Requests, RotateEnds(r) PROVE Queues'
    <2>1. UNCHANGED <<waiters, closer>>
      BY <1>9 DEF RotateEnds, lockVars
    <2> QED BY <1>2, <1>3, <1>4, <1>9, <2>1 DEF RotateEnds
  <1>10. ASSUME NEW r \in Requests, LockTurn(r) \/ CancelLock(r) PROVE Queues'
    <2> DEFINE s == sess[r]
    <2>1. /\ pc[r] = "lock" /\ s \in Sessions /\ UNCHANGED closer
          /\ waiters[s] \in Seq(Requests \cup {"closer"}) /\ Waits(waiters[s], r)
      BY <1>10 DEF LockTurn, CancelLock, closeVars, Queues, CheckedOut
    <2>2. waiters[s] # <<>>
      BY <2>1 DEF Waits
    <2>3. PICK queue \in Seq(Requests \cup {"closer"}) :
             /\ waiters' = [waiters EXCEPT ![s] = queue]
             /\ \A w : w # r /\ Waits(waiters[s], w) => Waits(queue, w)
      <3>1. CASE LockTurn(r)
        BY <2>1, <2>2, <3>1, TailKeeps DEF LockTurn
      <3>2. CASE CancelLock(r)
        <4>1. PICK n \in 1 .. Len(waiters[s]) :
                 waiters[s][n] = r /\ waiters' = [waiters EXCEPT ![s] = Without(waiters[s], n)]
          BY <3>2 DEF CancelLock
        <4>2. /\ Without(waiters[s], n) \in Seq(Requests \cup {"closer"})
              /\ \A w : w # waiters[s][n] /\ Waits(waiters[s], w)
                       => Waits(Without(waiters[s], n), w)
          BY <2>1, WithoutKeeps
        <4> QED BY <4>1, <4>2
      <3> QED BY <1>10, <3>1, <3>2
    <2>4. pc'[r] # "lock" /\ \A q \in Requests \ {r} : pc'[q] = pc[q] /\ sess'[q] = sess[q]
      BY <1>10 DEF LockTurn, CancelLock, Leave
    <2>5. ASSUME NEW q \in Requests, pc'[q] = "lock"
          PROVE  /\ pc[q] = "lock" /\ sess'[q] = sess[q]
                 /\ Waits(waiters[s], q) => Waits(queue, q)
      BY <2>3, <2>4, <2>5
    <2>6. Waits(waiters[s], "closer") => Waits(queue, "closer")
      BY <2>3
    <2> HIDE DEF s
    <2> QED BY <2>1, <2>3, <2>5, <2>6, QueueMoves
  <1>11. ASSUME NEW r \in Requests,
               \/ DestroyEnds(r) \/ BuildStarts(r) \/ BuildRefused(r) \/ BuildDiscarded(r)
               \/ FailureEnds(r) \/ BuildFails(r) \/ CancelWaiting(r) \/ CancelLease(r)
               \/ CancelProxyClose(r) \/ CancelDiscard(r) \/ PagesClosed(r)
               \/ PageOpens(r) \/ SolveEnds(r) \/ ProbeSucceeds(r) \/ CancelInContext(r)
               \/ ContextUnusable(r)
        PROVE  Queues'
    <2>1. UNCHANGED waiters /\ \A t \in Sessions : closer'[t] = "queued" => closer[t] = "queued"
      BY <1>1, <1>11
      DEF DestroyEnds, BuildStarts, BuildRefused, BuildDiscarded, FailureEnds, BuildFails,
          CancelWaiting, CancelLease, CancelProxyClose, CancelDiscard, PagesClosed, PageOpens,
          SolveEnds, ProbeSucceeds, CancelInContext, ContextUnusable, Within, lockVars, closeVars
    <2>2. CASE Leave(r)
      BY <1>2, <1>3, <2>1, <2>2
    <2>3. CASE \/ BuildStarts(r) \/ BuildRefused(r) \/ BuildDiscarded(r) \/ BuildFails(r)
               \/ CancelDiscard(r) \/ PageOpens(r) \/ SolveEnds(r) \/ ProbeSucceeds(r)
               \/ CancelInContext(r) \/ ContextUnusable(r)
      <3>1. /\ \E p \in {"open", "refused", "discard", "failed", "unwind", "solve", "pages",
                         "probe"} : pc' = [pc EXCEPT ![r] = p]
            /\ \A q \in Requests \ {r} : sess'[q] = sess[q]
        BY <2>3
        DEF BuildStarts, BuildRefused, BuildDiscarded, BuildFails, CancelDiscard, PageOpens,
            SolveEnds, ProbeSucceeds, CancelInContext, ContextUnusable, Within
      <3> QED BY <1>2, <2>1, <3>1
    <2> QED BY <1>11, <2>2, <2>3
            DEF DestroyEnds, FailureEnds, CancelWaiting, CancelLease, CancelProxyClose, PagesClosed
  <1>12. ASSUME NEW s \in Sessions, CloseSessionStarts(s) PROVE Queues'
    <2>1. CASE UNCHANGED waiters /\ CleaningBegins(s)
      BY <1>12, <2>1, QueuesUnmoved DEF CloseSessionStarts, CleaningBegins, requestVars
    <2>2. CASE /\ waiters' = [waiters EXCEPT ![s] = Append(@, "closer")]
               /\ closer' = [closer EXCEPT ![s] = "queued"]
      <3> DEFINE queue == Append(waiters[s], "closer")
      <3>1. /\ queue \in Seq(Requests \cup {"closer"}) /\ Waits(queue, "closer")
            /\ \A v : Waits(waiters[s], v) => Waits(queue, v)
        BY AppendKeeps DEF Queues
      <3>2. waiters' = [waiters EXCEPT ![s] = queue] /\ UNCHANGED <<pc, sess>>
        BY <1>12, <2>2 DEF CloseSessionStarts, requestVars
      <3> HIDE DEF queue
      <3>3. ASSUME NEW q \in Requests, pc'[q] = "lock"
            PROVE  \/ sess'[q] = s /\ Waits(queue, q)
                   \/ /\ pc[q] = "lock" /\ sess'[q] = sess[q]
                      /\ Waits(waiters[s], q) => Waits(queue, q)
        BY <3>1, <3>2, <3>3
      <3>4. ASSUME NEW t \in Sessions, closer'[t] = "queued"
            PROVE  \/ t = s /\ Waits(queue, "closer")
                   \/ /\ closer[t] = "queued"
                      /\ Waits(waiters[s], "closer") => Waits(queue, "closer")
        BY <2>2, <3>1, <3>4
      <3>5. IInv
        OBVIOUS
      <3> HIDE DEF IInv, Shape
      <3> QED BY <3>1, <3>2, <3>3, <3>4, <3>5, QueueMoves
    <2> QED BY <1>12, <2>1, <2>2 DEF CloseSessionStarts
  <1>13. ASSUME NEW s \in Sessions, CloserLocks(s) PROVE Queues'
    <2>1. /\ waiters[s] \in Seq(Requests \cup {"closer"}) /\ Waits(waiters[s], "closer")
          /\ Head(waiters[s]) = "closer" /\ waiters' = [waiters EXCEPT ![s] = Tail(waiters[s])]
          /\ closer' = [closer EXCEPT ![s] = "cleaning"] /\ UNCHANGED <<pc, sess>>
      BY <1>13 DEF CloserLocks, CleaningBegins, Queues, requestVars
    <2> DEFINE queue == Tail(waiters[s])
    <2>2. /\ queue \in Seq(Requests \cup {"closer"})
          /\ \A w : w # "closer" /\ Waits(waiters[s], w) => Waits(queue, w)
      <3>1. waiters[s] # <<>>
        BY <2>1 DEF Waits
      <3> QED BY <2>1, <3>1, TailKeeps
    <2>3. waiters' = [waiters EXCEPT ![s] = queue]
      BY <2>1
    <2> HIDE DEF queue
    <2>4. ASSUME NEW q \in Requests, pc'[q] = "lock"
          PROVE  /\ pc[q] = "lock" /\ sess'[q] = sess[q]
                 /\ Waits(waiters[s], q) => Waits(queue, q)
      BY <2>1, <2>2, <2>4
    <2>5. CASE \A t \in Sessions \ {s} : closer'[t] = "queued" => Waits(waiters[t], "closer")
      <3>1. \A t \in Sessions \ {s} : waiters'[t] = waiters[t]
        BY <2>1 DEF Queues
      <3>2. waiters' \in [Sessions -> Seq(Requests \cup {"closer"})] /\ waiters'[s] = queue
        BY <2>2, <2>3 DEF Queues
      <3>3. \A t \in Sessions : closer'[t] = "queued" => Waits(waiters'[t], "closer")
        BY <2>1, <2>5, <3>1
      <3>4. \A q \in Requests : pc'[q] = "lock" => Waits(waiters'[sess'[q]], q)
        BY <2>1, <2>4, <3>1, <3>2 DEF Queues, CheckedOut
      <3> QED BY <3>2, <3>3, <3>4 DEF Queues
    <2> QED BY <2>1, <2>5 DEF Queues
  <1>14. ASSUME \/ Reap \/ CloseManager
                \/ \E s \in Sessions : \/ RootProceeds(s) \/ ResourceCloses(s) \/ RootTimesOut(s)
                                       \/ CloseSessionEnds(s) \/ SessionExpires(s)
        PROVE  Queues'
    <2>1. UNCHANGED <<waiters, pc, sess>>
      BY <1>14
      DEF Reap, CloseManager, RootProceeds, ResourceCloses, CloseSessionEnds, RootTimesOut,
          RootMoves, SessionExpires, requestVars, lockVars
    <2>2. \A t \in Sessions : closer'[t] = "queued" => closer[t] = "queued"
      BY <1>1, <1>14
      DEF Reap, CloseManager, RootProceeds, ResourceCloses, CloseSessionEnds, RootTimesOut,
          RootMoves, SessionExpires, closeVars
    <2> QED BY <2>1, <2>2, QueuesUnmoved
  <1> QED BY <1>5, <1>6, <1>7, <1>8, <1>9, <1>10, <1>11, <1>12, <1>13, <1>14
          DEF Next, Begin, RequestStep, RequestFails, CloserStep, AwaitWoken, AwaitTimesOut

\* The requests that build a session for an id.
Creators(i) == {r \in Requests : pc[r] = "open" /\ target[r] = i}

\* _PendingCreation.builders counts them, so it never underflows.
Creations ==
    /\ builders \in [Ids -> Int]
    /\ \A i \in Ids : builders[i] = Cardinality(Creators(i))

\* A step that starts no creation and ends none.
LEMMA NobodyBuilds ==
    ASSUME Creations, UNCHANGED builders,
           \A q \in Requests : \/ pc[q] # "open" /\ pc'[q] # "open"
                               \/ pc'[q] = pc[q] /\ target'[q] = target[q]
    PROVE  Creations'
  <1>1. \A i \in Ids : Creators(i)' = Creators(i)
    BY DEF Creators
  <1> QED BY <1>1 DEF Creations

\* Only the creating block counts.
LEMMA CreationSteps ==
    ASSUME IInv, Next
    PROVE  \/ \E r \in Requests :
                 BuildStarts(r) \/ BuildFails(r) \/ BuildRegisters(r) \/ BuildDiscarded(r)
           \/ /\ UNCHANGED builders
              /\ \A q \in Requests : \/ pc[q] # "open" /\ pc'[q] # "open"
                                     \/ pc'[q] = pc[q] /\ target'[q] = target[q]
  <1> DEFINE Quiet == \A q \in Requests : \/ pc[q] # "open" /\ pc'[q] # "open"
                                          \/ pc'[q] = pc[q] /\ target'[q] = target[q]
  <1> USE DEF IInv, Shape
  <1>1. ASSUME NEW r \in Requests, pc[r] # "open", Leave(r) PROVE Quiet
    BY <1>1 DEF Leave
  <1>2. ASSUME NEW r \in Requests, pc[r] # "open", NEW p, p # "open", NEW c, NEW i, NEW s,
               Proceed(r, p, c, i, s)
        PROVE  Quiet
    BY <1>2 DEF Proceed
  <1>3. ASSUME NEW r \in Requests, pc[r] # "open", NEW c, NEW i, StartBuilding(r, c, i)
        PROVE  Quiet
    <2>1. CASE pc' = [pc EXCEPT ![r] = "lease"] /\ target' = [target EXCEPT ![r] = i]
      BY <1>3, <2>1
    <2> QED BY <1>1, <1>3, <2>1 DEF StartBuilding
  <1>4. ASSUME NEW r \in Requests, pc[r] # "open", NEW s, NEW i, NEW current,
               CheckOut(r, i, s, current) \/ GotSession(r, s, current)
        PROVE  Quiet
    BY <1>1, <1>2, <1>4 DEF CheckOut, GotSession
  <1>5. ASSUME NEW r \in Requests, pc[r] # "open", UNCHANGED target,
               NEW p, p # "open", pc' = [pc EXCEPT ![r] = p]
        PROVE  Quiet
    BY <1>5
  <1>6. ASSUME UNCHANGED <<pc, target>> PROVE Quiet
    BY <1>6
  <1> HIDE DEF Quiet
  <1>7. ASSUME NEW r \in Requests, Begin(r) PROVE UNCHANGED builders /\ Quiet
    <2>1. PICK i \in Ids : BeginCreate(r, i) \/ BeginUse(r, i) \/ BeginDestroy(r, i)
      BY <1>7 DEF Begin
    <2>2. pc[r] # "open" /\ UNCHANGED builders
      BY <2>1 DEF BeginCreate, BeginUse, BeginDestroy, creationVars
    <2> QED BY <1>2, <1>3, <1>4, <1>6, <2>1, <2>2
            DEF BeginCreate, BeginUse, BeginDestroy, requestVars
  <1>8. ASSUME NEW r \in Requests, DiscardEnds(r) \/ RefusedEnds(r) \/ AwaitEnds(r)
        PROVE  UNCHANGED builders /\ Quiet
    <2>1. pc[r] # "open" /\ UNCHANGED builders
      BY <1>8 DEF DiscardEnds, RefusedEnds, AwaitEnds, creationVars
    <2> QED BY <1>1, <1>2, <1>4, <1>8, <2>1 DEF DiscardEnds, RefusedEnds, AwaitEnds
  <1>9. ASSUME NEW r \in Requests, RotateEnds(r) PROVE UNCHANGED builders /\ Quiet
    <2>1. pc[r] # "open" /\ UNCHANGED builders
      BY <1>9 DEF RotateEnds, creationVars
    <2> QED BY <1>1, <1>3, <1>9, <2>1 DEF RotateEnds
  <1>10. ASSUME NEW r \in Requests,
                \/ DestroyEnds(r) \/ FailureEnds(r) \/ LockTurn(r) \/ PagesClosed(r)
                \/ CancelWaiting(r) \/ CancelLease(r) \/ CancelLock(r) \/ CancelProxyClose(r)
         PROVE  UNCHANGED builders /\ Quiet
    <2>1. pc[r] # "open" /\ UNCHANGED builders
      BY <1>10 DEF DestroyEnds, FailureEnds, LockTurn, PagesClosed, CancelWaiting, CancelLease,
           CancelLock, CancelProxyClose, creationVars
    <2>2. Leave(r) \/ (pc' = [pc EXCEPT ![r] = "page"] /\ UNCHANGED target)
      BY <1>10 DEF DestroyEnds, FailureEnds, LockTurn, PagesClosed, CancelWaiting, CancelLease,
           CancelLock, CancelProxyClose
    <2> QED BY <1>1, <1>5, <2>1, <2>2
  <1>11. ASSUME NEW r \in Requests,
                \/ BuildRefused(r) \/ PageOpens(r) \/ SolveEnds(r) \/ ProbeSucceeds(r)
                \/ ContextUnusable(r) \/ CancelDiscard(r) \/ CancelInContext(r)
         PROVE  UNCHANGED builders /\ Quiet
    <2>1. pc[r] # "open" /\ UNCHANGED <<builders, target>>
      BY <1>11 DEF BuildRefused, PageOpens, SolveEnds, ProbeSucceeds, ContextUnusable,
           CancelDiscard, CancelInContext, Within, creationVars
    <2>2. \E p \in {"refused", "solve", "pages", "probe", "unwind"} : pc' = [pc EXCEPT ![r] = p]
      BY <1>11 DEF BuildRefused, PageOpens, SolveEnds, ProbeSucceeds, ContextUnusable,
           CancelDiscard, CancelInContext, Within
    <2> QED BY <1>5, <2>1, <2>2
  <1>12. ASSUME \/ Reap \/ CloseManager
                \/ \E s \in Sessions : CloserStep(s) \/ RootTimesOut(s) \/ SessionExpires(s)
         PROVE  UNCHANGED builders /\ Quiet
    <2>1. UNCHANGED <<builders, pc, target>>
      BY <1>12
      DEF Reap, CloseManager, CloserStep, CloseSessionStarts, CloserLocks, RootProceeds,
          ResourceCloses, CloseSessionEnds, RootTimesOut, RootMoves, SessionExpires, requestVars,
          creationVars
    <2> QED BY <1>6, <2>1
  <1>13. ASSUME UNCHANGED builders, Quiet
         PROVE  /\ UNCHANGED builders
                /\ \A q \in Requests : \/ pc[q] # "open" /\ pc'[q] # "open"
                                       \/ pc'[q] = pc[q] /\ target'[q] = target[q]
    BY <1>13 DEF Quiet
  <1> QED BY <1>7, <1>8, <1>9, <1>10, <1>11, <1>12, <1>13
          DEF Next, RequestStep, RequestFails, AwaitWoken, AwaitTimesOut

\* The counters of the creations are kept by every step.
LEMMA CreationsKept == IInv /\ Creations /\ [Next]_vars => Creations'
  <1> SUFFICES ASSUME IInv, Creations, Next PROVE Creations'
    <2>1. CASE UNCHANGED vars
      BY <2>1, NobodyBuilds DEF vars, creationVars, requestVars
    <2> QED BY <2>1
  <1>1. ASSUME NEW i \in Ids, NEW r
        PROVE  /\ r \notin Creators(i) =>
                     Cardinality(Creators(i) \cup {r}) = Cardinality(Creators(i)) + 1
               /\ r \in Creators(i) =>
                     Cardinality(Creators(i) \ {r}) = Cardinality(Creators(i)) - 1
    <2>1. IsFiniteSet(Creators(i))
      BY SessionsAssumption, FS_Subset DEF SessionsAssumption, Creators
    <2> QED BY <2>1, FS_CardinalityType, FS_AddElement, FS_RemoveElement
  <1>2. ASSUME NEW r \in Requests, BuildStarts(r) PROVE Creations'
    <2>1. /\ pc[r] = "lease" /\ target[r] \in Ids /\ pc' = [pc EXCEPT ![r] = "open"]
          /\ UNCHANGED target /\ builders' = [builders EXCEPT ![target[r]] = @ + 1]
      BY <1>2 DEF BuildStarts, IInv, Shape
    <2>2. /\ r \notin Creators(target[r])
          /\ Creators(target[r])' = Creators(target[r]) \cup {r}
          /\ \A j \in Ids \ {target[r]} : Creators(j)' = Creators(j)
      BY <2>1 DEF Creators, IInv, Shape
    <2> QED BY <1>1, <2>1, <2>2 DEF Creations
  <1>3. ASSUME NEW r \in Requests, BuildFails(r) \/ BuildRegisters(r) \/ BuildDiscarded(r)
        PROVE  Creations'
    <2>1. /\ pc[r] = "open" /\ target[r] \in Ids
          /\ builders' = [builders EXCEPT ![target[r]] = @ - 1]
      BY <1>3 DEF BuildFails, BuildRegisters, BuildDiscarded, LeaveCreating, IInv, Shape
    <2>2. \/ Leave(r)
          \/ \E p \in {"page", "lock"} : Proceed(r, p, "use", target[r], built[r])
          \/ UNCHANGED target /\ \E p \in {"failed", "discard"} : pc' = [pc EXCEPT ![r] = p]
      BY <1>3 DEF BuildFails, BuildRegisters, BuildDiscarded, GotSession, CheckOut
    <2>3. pc'[r] # "open" /\ \A q \in Requests \ {r} : pc'[q] = pc[q] /\ target'[q] = target[q]
      BY <2>2 DEF Proceed, Leave, IInv, Shape
    <2>4. PICK i \in Ids : i = target[r]
      BY <2>1
    <2>5. /\ r \in Creators(i) /\ Creators(i)' = Creators(i) \ {r}
          /\ \A j \in Ids \ {i} : Creators(j)' = Creators(j)
      BY <2>1, <2>3, <2>4 DEF Creators
    <2> QED BY <1>1, <2>1, <2>4, <2>5 DEF Creations
  <1> QED BY <1>2, <1>3, CreationSteps, NobodyBuilds

\* The remaining variables hold what their names say.
Flags ==
    /\ closed \in BOOLEAN
    /\ settled \subseteq Ids
    /\ woken \subseteq Requests
    /\ cmd \in [Requests -> Commands \cup {"none"}]

\* Every step keeps them so.
LEMMA FlagsKept == IInv /\ Flags /\ [Next]_vars => Flags'
  <1> SUFFICES ASSUME IInv, Flags, Next PROVE Flags'
    <2>1. CASE UNCHANGED vars
      BY <2>1 DEF vars, managerVars, creationVars, requestVars, Flags
    <2> QED BY <2>1
  <1>1. ASSUME NEW r \in Requests, Leave(r) PROVE cmd' \in [Requests -> Commands \cup {"none"}]
    BY <1>1 DEF Leave, Flags
  <1>2. ASSUME NEW r \in Requests, NEW p, NEW c \in Commands \cup {"none"}, NEW i, NEW s,
               Proceed(r, p, c, i, s)
        PROVE  cmd' \in [Requests -> Commands \cup {"none"}]
    BY <1>2 DEF Proceed, Flags
  <1>3. /\ "create" \in Commands /\ "use" \in Commands /\ "destroy" \in Commands
        /\ \A r \in Requests : cmd[r] \in Commands \cup {"none"}
    BY DEF Commands, Flags
  <1>4. ASSUME NEW r \in Requests, NEW c \in Commands, NEW i, StartBuilding(r, c, i)
        PROVE  cmd' \in [Requests -> Commands \cup {"none"}]
    <2>1. CASE cmd' = [cmd EXCEPT ![r] = c]
      BY <2>1 DEF Flags
    <2> QED BY <1>1, <1>4, <2>1 DEF StartBuilding
  <1>5. ASSUME NEW r \in Requests, NEW s, NEW i, NEW current,
               CheckOut(r, i, s, current) \/ GotSession(r, s, current)
        PROVE  cmd' \in [Requests -> Commands \cup {"none"}]
    BY <1>1, <1>2, <1>3, <1>5 DEF CheckOut, GotSession
  <1>6. ASSUME UNCHANGED cmd PROVE cmd' \in [Requests -> Commands \cup {"none"}]
    BY <1>6 DEF Flags
  <1>7. ASSUME UNCHANGED <<closed, settled, woken>>,
               cmd' \in [Requests -> Commands \cup {"none"}]
        PROVE  Flags'
    BY <1>7 DEF Flags
  <1>8. ASSUME NEW r \in Requests, Begin(r) PROVE Flags'
    <2>1. PICK i \in Ids : BeginCreate(r, i) \/ BeginUse(r, i) \/ BeginDestroy(r, i)
      BY <1>8 DEF Begin
    <2>2. UNCHANGED <<closed, settled, woken>>
      BY <2>1 DEF BeginCreate, BeginUse, BeginDestroy, creationVars
    <2> QED BY <1>2, <1>3, <1>4, <1>5, <1>6, <1>7, <2>1, <2>2
            DEF BeginCreate, BeginUse, BeginDestroy, requestVars
  <1>9. ASSUME NEW r \in Requests, DiscardEnds(r) \/ RefusedEnds(r) \/ AwaitEnds(r)
        PROVE  Flags'
    <2>1. cmd' \in [Requests -> Commands \cup {"none"}]
      BY <1>1, <1>2, <1>3, <1>5, <1>9 DEF DiscardEnds, RefusedEnds, AwaitEnds
    <2>2. UNCHANGED <<closed, settled>> /\ woken' \subseteq Requests
      BY <1>9 DEF DiscardEnds, RefusedEnds, AwaitEnds, managerVars, creationVars, Flags
    <2> QED BY <2>1, <2>2 DEF Flags
  <1>10. ASSUME NEW r \in Requests, RotateEnds(r) PROVE Flags'
    BY <1>1, <1>3, <1>4, <1>7, <1>10 DEF RotateEnds, creationVars
  <1>11. ASSUME NEW r \in Requests, BuildFails(r) \/ BuildRegisters(r) \/ BuildDiscarded(r)
         PROVE  Flags'
    <2>1. cmd' \in [Requests -> Commands \cup {"none"}]
      BY <1>5, <1>6, <1>11 DEF BuildFails, BuildRegisters, BuildDiscarded
    <2>2. UNCHANGED closed /\ settled' \subseteq Ids /\ woken' \subseteq Requests
      BY <1>11 DEF BuildFails, BuildRegisters, BuildDiscarded, LeaveCreating, managerVars, Flags,
           IInv, Shape
    <2> QED BY <2>1, <2>2 DEF Flags
  <1>12. ASSUME NEW r \in Requests, CancelWaiting(r) PROVE Flags'
    BY <1>1, <1>12 DEF CancelWaiting, managerVars, Flags
  <1>13. ASSUME NEW r \in Requests,
                \/ DestroyEnds(r) \/ FailureEnds(r) \/ LockTurn(r) \/ PagesClosed(r)
                \/ CancelLease(r) \/ CancelLock(r) \/ CancelProxyClose(r) \/ BuildStarts(r)
                \/ BuildRefused(r) \/ PageOpens(r) \/ SolveEnds(r) \/ ProbeSucceeds(r)
                \/ ContextUnusable(r) \/ CancelDiscard(r) \/ CancelInContext(r)
         PROVE  Flags'
    <2>1. UNCHANGED <<closed, settled, woken>> /\ (Leave(r) \/ UNCHANGED cmd)
      BY <1>13 DEF DestroyEnds, FailureEnds, LockTurn, PagesClosed, CancelLease, CancelLock,
           CancelProxyClose, BuildStarts, BuildRefused, PageOpens, SolveEnds, ProbeSucceeds,
           ContextUnusable, CancelDiscard, CancelInContext, Within, managerVars, creationVars
    <2> QED BY <1>1, <1>6, <1>7, <2>1
  <1>14. ASSUME \/ Reap \/ CloseManager
                \/ \E s \in Sessions : CloserStep(s) \/ RootTimesOut(s) \/ SessionExpires(s)
         PROVE  Flags'
    BY <1>14
    DEF Reap, CloseManager, CloserStep, CloseSessionStarts, CloserLocks, RootProceeds,
        ResourceCloses, CloseSessionEnds, RootTimesOut, RootMoves, SessionExpires, requestVars,
        managerVars, creationVars, Flags
  <1> QED BY <1>8, <1>9, <1>10, <1>11, <1>12, <1>13, <1>14
          DEF Next, RequestStep, RequestFails, AwaitWoken, AwaitTimesOut

\* Every variable keeps its type: no counter of checkouts or creations goes below zero, and
\* the queue of a lock is never read when it is empty.
THEOREM TypesHold == Spec => []TypeOK
  <1>1. Init => Counted /\ Queues /\ Creations /\ Flags
    <2> SUFFICES ASSUME Init PROVE Counted /\ Queues /\ Creations /\ Flags
      OBVIOUS
    <2>1. (\A s \in Sessions : Users(s) = {}) /\ (\A i \in Ids : Creators(i) = {})
      BY DEF Init, Users, CheckedOut, InContext, Creators
    <2>2. in_use = [s \in Sessions |-> 0] /\ builders = [i \in Ids |-> 0]
      BY DEF Init
    <2>3. Counted /\ Creations
      BY <2>1, <2>2, FS_EmptySet DEF Counted, Creations
    <2>4. Queues
      BY DEF Init, Queues
    <2>5. Flags
      BY DEF Init, Flags
    <2> QED BY <2>3, <2>4, <2>5
  <1>2. IInv /\ Counted /\ Queues /\ Creations /\ Flags => TypeOK
    <2> SUFFICES ASSUME IInv, Counted, Queues, Creations, Flags PROVE TypeOK
      OBVIOUS
    <2>1. in_use \in [Sessions -> Nat]
      BY SetsOfUsers DEF Counted
    <2>2. \A i \in Ids : IsFiniteSet(Creators(i))
      BY SessionsAssumption, FS_Subset DEF SessionsAssumption, Creators
    <2>3. builders \in [Ids -> Nat]
      BY <2>2, FS_CardinalityType DEF Creations
    <2> QED BY <2>1, <2>3 DEF TypeOK, IInv, Shape, Queues, Flags, Building, Both
  <1> QED BY <1>1, <1>2, CountsKept, QueuesKept, CreationsKept, FlagsKept, SessionsInvariant, PTL
          DEF Spec
=============================================================================
