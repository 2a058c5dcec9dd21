---------------------------- MODULE ServiceProofs ----------------------------
(***************************************************************************)
(* What holds around the pool, for any number of cancellations, cleanups,  *)
(* waiters and checks: the shutdown of the service is in order, groups of  *)
(* cleanups are awaited and run() answers truly, and probes are owned.     *)
(***************************************************************************)
EXTENDS MCService, FiniteSetTheorems, TLAPS

(***************************************************************************)
(* The shutdown.                                                           *)
(***************************************************************************)
\* Where the finalizer is tells which phases were begun, and how they stand.
Progress ==
    /\ finalizer \in {"none", "stopping"} => step = 0 /\ at = "none"
    /\ finalizer \in {"closing", "done"} => step \in 1 .. 6 /\ at # "none"
    /\ finalizer = "done" => at = "inline" /\ phase[6] = "ended"
    /\ at = "inline" <=> step = 6

\* The phases behind the finalizer have ended or were cut off at the deadline; the one it
\* is in has its task, which has taken a step before the finalizer waits for it.
PhasesInOrder ==
    /\ \A i \in 1 .. 6 : i > step => phase[i] = "idle"
    /\ \A i \in 1 .. 6 : i < step => phase[i] \in {"ended", "cut"}
    /\ \A i \in 1 .. 6 : i < step /\ phase[i] = "cut" => expired
    /\ step > 0 => phase[step] \in {"created", "running", "ended"}
    /\ at \in {"wait", "inline"} => phase[step] # "created"

\* The periodic tasks have ended before the first phase begins.
UpkeepOver == finalizer \in {"closing", "done"} => \A u \in Upkeep : upkeep[u] = "ended"

\* The host waits for the finalizer unless it was cancelled twice.
HostWaits ==
    /\ host \in {"starting", "serving", "failed"} => finalizer = "none"
    /\ host = "cancelled" => cancels >= 1
    /\ host = "left" => finalizer = "done" \/ cancels >= 2

IInv == TypeOK /\ Progress /\ PhasesInOrder /\ UpkeepOver /\ HostWaits

-----------------------------------------------------------------------------
\* The six phases, the last of which runs in the finalizer itself.
LEMMA PhaseNames ==
    /\ Len(Phases) = 6
    /\ Phases[6] = "cleanup.close"
    /\ \A i \in 1 .. 5 : Phases[i] # "cleanup.close"
  <1>1. \A i \in 1 .. 5 : i = 1 \/ i = 2 \/ i = 3 \/ i = 4 \/ i = 5
    OBVIOUS
  <1> QED BY <1>1 DEF Phases

\* What Begin does when the finalizer goes on to phase i with the other tasks as given.
LEMMA BeginNext ==
    ASSUME NEW i \in 1 .. 6, NEW tasks, Begin(i, tasks)
    PROVE  /\ step' = i
           /\ i = 6 => at' = "inline" /\ phase' = [tasks EXCEPT ![6] = "running"]
           /\ i < 6 => at' = "turn" /\ phase' = [tasks EXCEPT ![i] = "created"]
  <1>1. CASE i = 6
    BY <1>1, PhaseNames DEF Begin
  <1>2. CASE i < 6
    <2>1. Phases[i] # "cleanup.close"
      BY <1>2, PhaseNames
    <2> QED BY <1>2, <2>1 DEF Begin
  <1> QED BY <1>1, <1>2

\* The invariant holds when the service starts.
LEMMA InitHolds == Init => IInv
  <1> SUFFICES ASSUME Init PROVE IInv
    OBVIOUS
  <1>1. phase = [i \in 1 .. 6 |-> "idle"] /\ 1 .. Len(Phases) = 1 .. 6
    BY PhaseNames DEF Init
  <1>2. TypeOK
    <2>1. cancels \in 0 .. MaxCancels /\ step \in 0 .. Len(Phases)
      BY PhaseNames, CancelsAssumption DEF Init, CancelsAssumption
    <2>2. phase \in [1 .. Len(Phases) -> {"idle", "created", "running", "cut", "ended", "never"}]
      BY <1>1
    <2> QED BY <2>1, <2>2 DEF Init, TypeOK
  <1> QED BY <1>1, <1>2 DEF Init, IInv, Progress, PhasesInOrder, UpkeepOver, HostWaits

\* The finalizer leaves phase step, whose task stands as in tasks, for the next one.
LEMMA GoesOn ==
    ASSUME IInv, finalizer = "closing", at \in {"turn", "wait"}, NEW tasks,
           tasks \in [1 .. 6 -> {"idle", "created", "running", "cut", "ended", "never"}],
           tasks[step] \in {"ended", "cut"}, tasks[step] = "cut" => expired,
           \A i \in 1 .. 6 : i # step => tasks[i] = phase[i],
           Begin(step + 1, tasks), UNCHANGED <<host, cancels, upkeep, finalizer, expired>>
    PROVE  IInv'
  <1>1. step \in 1 .. 5
    BY PhaseNames DEF IInv, TypeOK, Progress
  <1>2. step + 1 \in 1 .. 6
    BY <1>1
  <1>3. /\ step' = step + 1
        /\ step + 1 = 6 => at' = "inline" /\ phase' = [tasks EXCEPT ![6] = "running"]
        /\ step + 1 < 6 => at' = "turn" /\ phase' = [tasks EXCEPT ![step + 1] = "created"]
    BY <1>2, BeginNext
  <1>4. /\ phase' \in [1 .. 6 -> {"idle", "created", "running", "cut", "ended", "never"}]
        /\ \A i \in 1 .. 6 : i # step + 1 => phase'[i] = tasks[i]
        /\ phase'[step + 1] \in {"created", "running"}
        /\ step + 1 = 6 => phase'[step + 1] = "running"
    BY <1>1, <1>2, <1>3
  <1>5. TypeOK'
    BY <1>1, <1>3, <1>4, PhaseNames DEF IInv, TypeOK
  <1>6. Progress'
    BY <1>1, <1>3 DEF IInv, TypeOK, Progress
  <1>7. PhasesInOrder'
    BY <1>1, <1>3, <1>4 DEF IInv, TypeOK, PhasesInOrder
  <1> QED BY <1>5, <1>6, <1>7 DEF IInv, UpkeepOver, HostWaits

\* Steps that leave the finalizer and its phases where they are.
LEMMA OutsideStep ==
    ASSUME IInv,
           \/ StartEnds \/ StopServing \/ CancelHost \/ HostLeaves \/ DeadlinePasses
           \/ \E u \in Upkeep : UpkeepStep(u) \/ UpkeepEnds(u)
    PROVE  IInv'
  <1> USE DEF IInv, TypeOK, Progress, PhasesInOrder, UpkeepOver, HostWaits
  <1>1. CASE StartEnds
    BY <1>1 DEF StartEnds
  <1>2. CASE StopServing
    BY <1>2 DEF StopServing
  <1>3. CASE CancelHost
    BY <1>3, CancelsAssumption DEF CancelHost, Interrupted, CancelsAssumption
  <1>4. CASE HostLeaves
    BY <1>4 DEF HostLeaves
  <1>5. CASE DeadlinePasses
    BY <1>5 DEF DeadlinePasses
  <1>6. CASE \E u \in Upkeep : UpkeepStep(u)
    BY <1>6 DEF UpkeepStep, SetUpkeep, AfterTick
  <1>7. CASE \E u \in Upkeep : UpkeepEnds(u)
    BY <1>7 DEF UpkeepEnds, SetUpkeep
  <1> QED BY <1>1, <1>2, <1>3, <1>4, <1>5, <1>6, <1>7

\* The task of a phase takes its first step or ends.
LEMMA PhaseStep ==
    ASSUME IInv, NEW i \in 1 .. 6, PhaseStarts(i) \/ PhaseEnds(i)
    PROVE  IInv'
  <1>1. step \in 0 .. 6
    BY PhaseNames DEF IInv, TypeOK
  <1>2. phase \in [1 .. 6 -> {"idle", "created", "running", "cut", "ended", "never"}]
    BY PhaseNames DEF IInv, TypeOK
  <1>3. PICK state \in {"running", "ended"} :
            /\ phase' = [phase EXCEPT ![i] = state]
            /\ phase[i] \in {"created", "running", "cut"}
            /\ phase[i] # "created" => state = "ended" /\ i # 6
            /\ UNCHANGED <<host, cancels, upkeep, finalizer, step, at, expired>>
    BY PhaseNames DEF PhaseStarts, PhaseEnds
  <1>4. phase[i] = "created" => i = step
    BY <1>1, <1>3 DEF IInv, PhasesInOrder
  <1>5. i <= step
    BY <1>1, <1>3 DEF IInv, PhasesInOrder
  <1>6. TypeOK'
    BY <1>2, <1>3, PhaseNames DEF IInv, TypeOK
  <1>7. Progress'
    BY <1>1, <1>2, <1>3 DEF IInv, Progress
  <1>8. PhasesInOrder'
    BY <1>1, <1>2, <1>3, <1>4, <1>5 DEF IInv, PhasesInOrder
  <1> QED BY <1>3, <1>6, <1>7, <1>8 DEF IInv, UpkeepOver, HostWaits

\* The steps of the finalizer.
LEMMA FinalizerStep ==
    ASSUME IInv, ShutdownBegins \/ CloseResource \/ ShutdownEnds
    PROVE  IInv'
  <1>0. /\ step \in 0 .. 6
        /\ phase \in [1 .. 6 -> {"idle", "created", "running", "cut", "ended", "never"}]
    BY PhaseNames DEF IInv, TypeOK
  <1>1. CASE ShutdownBegins
    <2>1. step = 0 /\ finalizer' = "closing"
      BY <1>1 DEF ShutdownBegins, IInv, Progress
    <2>2. step' = 1 /\ at' = "turn" /\ phase' = [phase EXCEPT ![1] = "created"]
      BY <1>1, BeginNext DEF ShutdownBegins
    <2>3. UNCHANGED <<host, cancels, upkeep, expired>> /\ UpkeepGathered
      BY <1>1 DEF ShutdownBegins
    <2>4. TypeOK'
      BY <1>0, <2>1, <2>2, <2>3, PhaseNames DEF IInv, TypeOK
    <2>5. Progress'
      BY <2>1, <2>2 DEF Progress
    <2>6. PhasesInOrder'
      BY <1>0, <2>1, <2>2, <2>3 DEF IInv, PhasesInOrder
    <2>7. UpkeepOver' /\ HostWaits'
      BY <1>1, <2>1, <2>3 DEF ShutdownBegins, IInv, UpkeepOver, HostWaits, UpkeepGathered
    <2> QED BY <2>4, <2>5, <2>6, <2>7 DEF IInv
  <1>2. CASE CloseResource
    <2>1. /\ finalizer = "closing" /\ at \in {"turn", "wait"}
          /\ UNCHANGED <<host, cancels, upkeep, finalizer, expired>>
          /\ phase[step] # "created"
      BY <1>2 DEF CloseResource, TurnTaken, IInv, PhasesInOrder
    <2>2. step \in 1 .. 5 /\ phase[step] \in {"running", "ended"}
      BY <1>0, <2>1 DEF IInv, Progress, PhasesInOrder
    <2>3. CASE GoOn
      BY <1>0, <2>1, <2>2, <2>3, GoesOn DEF GoOn
    <2>4. CASE CutPhase
      <3>1. CutOff(step) = [phase EXCEPT ![step] = "cut"]
        BY <2>1 DEF CutOff
      <3>2. expired /\ Begin(step + 1, CutOff(step))
        BY <2>4 DEF CutPhase
      <3>3. /\ CutOff(step) \in [1 .. 6 -> {"idle", "created", "running", "cut", "ended",
                                             "never"}]
            /\ CutOff(step)[step] = "cut"
            /\ \A i \in 1 .. 6 : i # step => CutOff(step)[i] = phase[i]
        BY <1>0, <2>2, <3>1
      <3> QED BY <2>1, <3>2, <3>3, GoesOn
    <2>5. CASE AwaitPhase
      BY <1>0, <2>1, <2>2, <2>5
      DEF AwaitPhase, IInv, TypeOK, Progress, PhasesInOrder, UpkeepOver, HostWaits
    <2> QED BY <1>2, <2>3, <2>4, <2>5 DEF CloseResource
  <1>3. CASE ShutdownEnds
    <2>1. step = 6 /\ at = "inline" /\ finalizer = "closing"
      BY <1>3 DEF ShutdownEnds, IInv, Progress
    <2>2. phase' = [phase EXCEPT ![6] = "ended"] /\ finalizer' = "done"
      BY <1>3, <2>1 DEF ShutdownEnds
    <2>3. UNCHANGED <<host, cancels, upkeep, step, at, expired>>
      BY <1>3 DEF ShutdownEnds
    <2>4. TypeOK'
      BY <1>0, <2>1, <2>2, <2>3, PhaseNames DEF IInv, TypeOK
    <2>5. Progress'
      BY <1>0, <2>1, <2>2, <2>3 DEF Progress
    <2>6. PhasesInOrder'
      BY <1>0, <2>1, <2>2, <2>3 DEF IInv, PhasesInOrder
    <2>7. UpkeepOver' /\ HostWaits'
      BY <2>1, <2>2, <2>3 DEF IInv, UpkeepOver, HostWaits
    <2> QED BY <2>4, <2>5, <2>6, <2>7 DEF IInv
  <1> QED BY <1>1, <1>2, <1>3

\* Every step preserves the invariant.
LEMMA NextHolds == IInv /\ [Next]_vars => IInv'
  <1> SUFFICES ASSUME IInv, [Next]_vars PROVE IInv'
    OBVIOUS
  <1>1. CASE UNCHANGED vars
    BY <1>1 DEF vars, IInv, TypeOK, Progress, PhasesInOrder, UpkeepOver, HostWaits
  <1>2. CASE Next
    <2>1. 1 .. Len(Phases) = 1 .. 6
      BY PhaseNames
    <2> QED BY <1>2, <2>1, OutsideStep, PhaseStep, FinalizerStep DEF Next
  <1> QED BY <1>1, <1>2

\* The inductive invariant of the shutdown.
THEOREM ShutdownInvariant == Spec => []IInv
  BY InitHolds, NextHolds, PTL DEF Spec

-----------------------------------------------------------------------------
\* The variables keep their types, and only the last phase runs in the finalizer.
THEOREM TypesHold == Spec => []TypeOK
  <1>1. IInv => TypeOK
    BY DEF IInv
  <1> QED BY <1>1, ShutdownInvariant, PTL

\* When the shutdown is over every phase has taken its first step (runtime.py:168).
THEOREM EveryPhaseHasRun == Spec => []EveryPhaseRuns
  <1>1. IInv => EveryPhaseRuns
    <2> SUFFICES ASSUME IInv, finalizer = "done", NEW i \in 1 .. 6 PROVE Started(i)
      BY PhaseNames DEF EveryPhaseRuns
    <2>1. step = 6 /\ phase[6] = "ended"
      BY DEF IInv, Progress
    <2>2. CASE i = 6
      BY <2>1, <2>2 DEF Started
    <2>3. CASE i < 6
      BY <2>1, <2>3 DEF IInv, PhasesInOrder, Started
    <2> QED BY <2>2, <2>3
  <1> QED BY <1>1, ShutdownInvariant, PTL

\* A phase begins only when those before it are over or were cut off (runtime.py:186).
THEOREM PhasesOneAtATime == Spec => []OneAtATime
  <1>1. IInv => OneAtATime
    <2> SUFFICES ASSUME IInv, NEW i \in 1 .. 6, NEW j \in 1 .. 6, i < j, phase[j] # "idle"
                 PROVE  phase[i] \in {"ended", "cut"} /\ (phase[i] = "cut" => expired)
      BY PhaseNames DEF OneAtATime
    <2>1. step \in 0 .. 6
      BY PhaseNames DEF IInv, TypeOK
    <2>2. i < step
      BY <2>1 DEF IInv, PhasesInOrder
    <2> QED BY <2>2 DEF IInv, PhasesInOrder
  <1> QED BY <1>1, ShutdownInvariant, PTL

\* The periodic tasks have ended before the first resource closes (runtime.py:53).
THEOREM UpkeepIsQuiet == Spec => []UpkeepQuiet
  <1>1. IInv => UpkeepQuiet
    <2> SUFFICES ASSUME IInv, NEW i \in 1 .. 6, NEW u \in Upkeep, phase[i] # "idle"
                 PROVE  upkeep[u] = "ended"
      BY PhaseNames DEF UpkeepQuiet
    <2>1. step # 0
      BY DEF IInv, PhasesInOrder
    <2> QED BY <2>1 DEF IInv, TypeOK, Progress, UpkeepOver
  <1> QED BY <1>1, ShutdownInvariant, PTL

\* A host cancelled at most once leaves after the shutdown (runtime.py:71).
THEOREM OneCancellationIsWaitedOut == Spec => []OneCancellationWaits
  <1>1. IInv => OneCancellationWaits
    BY CancelsAssumption
    DEF IInv, TypeOK, HostWaits, OneCancellationWaits, CancelsAssumption
  <1> QED BY <1>1, ShutdownInvariant, PTL

\* The shutdown as a whole is in order.
THEOREM ShutdownIsInOrder == Spec => []ShutdownInOrder
  BY TypesHold, EveryPhaseHasRun, PhasesOneAtATime, UpkeepIsQuiet, OneCancellationIsWaitedOut, PTL
  DEF ShutdownInOrder

-----------------------------------------------------------------------------
(***************************************************************************)
(* The readiness checks.                                                   *)
(***************************************************************************)
CheckStates == {"idle", "refresh", "waiting", "woken", "left"} \cup Ready!Answers

ProbeStates == {"none", "created", "queued", "leased", "closing", "ended"}

Outcomes == {"none", "ok", "failed", "cancelled"}

\* A check, its probe, how that ended and whether the supervisor owns it: there is no probe
\* before the pool was looked at, and a probe that its check has left is owned.
Follows(answered, p, how, owned) ==
    /\ answered \in {"idle", "refresh"} => p = "none"
    /\ p = "ended" <=> how # "none"
    /\ answered \in {"timeout", "left"} /\ p \notin {"none", "ended"} => owned

LeasedProbes == {c \in Checks : probe[c] \in {"leased", "closing"}}

ReadyInv ==
    /\ check \in [Checks -> CheckStates]
    /\ probe \in [Checks -> ProbeStates]
    /\ outcome \in [Checks -> Outcomes]
    /\ cancelled \subseteq Checks /\ tracked \subseteq Checks
    /\ others \in 0 .. Slots /\ others + Cardinality(LeasedProbes) <= Slots
    /\ browser \in {"live", "dead", "retired"}
    /\ \A c \in Checks : Follows(check[c], probe[c], outcome[c], c \in tracked)

LEMMA ReadyCounts ==
    /\ Slots \in Nat
    /\ IsFiniteSet(LeasedProbes) /\ Cardinality(LeasedProbes) \in Nat
    /\ \A S : Ready!Cardinality(S) = Cardinality(S)
    /\ Ready!Leased = LeasedProbes
  <1>1. LeasedProbes \in SUBSET Checks
    BY DEF LeasedProbes
  <1>2. IsFiniteSet(LeasedProbes) /\ Cardinality(LeasedProbes) \in Nat
    BY <1>1, ServiceAssumption, FS_Subset, FS_CardinalityType
  <1>3. \A S : Ready!Cardinality(S) = Cardinality(S)
    BY DEF Ready!Cardinality, Cardinality, Ready!IsFiniteSet, IsFiniteSet
  <1> QED BY <1>2, <1>3, ServiceAssumption DEF Ready!Leased, LeasedProbes

\* A step of check c leaves its own part as it should, and takes no context it may not.
ReadyGoes(c, answered, p, how, owned) ==
    /\ check' = [check EXCEPT ![c] = answered]
    /\ probe' = [probe EXCEPT ![c] = p]
    /\ outcome' = [outcome EXCEPT ![c] = how]
    /\ tracked' \subseteq Checks
    /\ \A d \in Checks : d \in tracked' <=> IF d = c THEN owned ELSE d \in tracked
    /\ cancelled' \subseteq Checks
    /\ others' = others
    /\ browser' \in {"live", "dead", "retired"}
    /\ Follows(answered, p, how, owned)
    /\ p \in {"leased", "closing"} => c \in LeasedProbes \/ others + Cardinality(LeasedProbes) < Slots

LEMMA ReadyGoesKeeps ==
    ASSUME ReadyInv, NEW c \in Checks, NEW answered \in CheckStates, NEW p \in ProbeStates,
           NEW how \in Outcomes, NEW owned \in BOOLEAN, ReadyGoes(c, answered, p, how, owned)
    PROVE  ReadyInv'
  <1>1. /\ check' = [check EXCEPT ![c] = answered] /\ check \in [Checks -> CheckStates]
        /\ probe' = [probe EXCEPT ![c] = p] /\ probe \in [Checks -> ProbeStates]
        /\ outcome' = [outcome EXCEPT ![c] = how] /\ outcome \in [Checks -> Outcomes]
    BY DEF ReadyGoes, ReadyInv
  <1>2. ASSUME NEW d \in Checks PROVE Follows(check'[d], probe'[d], outcome'[d], d \in tracked')
    <2>1. CASE d = c
      <3>1. check'[d] = answered /\ probe'[d] = p /\ outcome'[d] = how
        BY <1>1, <2>1
      <3>2. d \in tracked' <=> owned
        BY <2>1 DEF ReadyGoes
      <3> QED BY <3>1, <3>2 DEF ReadyGoes, Follows
    <2>2. CASE d # c
      <3>1. check'[d] = check[d] /\ probe'[d] = probe[d] /\ outcome'[d] = outcome[d]
        BY <1>1, <2>2
      <3>2. d \in tracked' <=> d \in tracked
        BY <2>2 DEF ReadyGoes
      <3>3. Follows(check[d], probe[d], outcome[d], d \in tracked)
        BY DEF ReadyInv
      <3> QED BY <3>1, <3>2, <3>3 DEF Follows
    <2> QED BY <2>1, <2>2
  <1>3. others \in 0 .. Slots /\ others + Cardinality(LeasedProbes) <= Slots /\ others' = others
    BY DEF ReadyInv, ReadyGoes
  <1>4. others' + Cardinality(LeasedProbes') <= Slots
    <2>1. CASE p \in {"leased", "closing"} /\ c \notin LeasedProbes
      <3>1. LeasedProbes' = LeasedProbes \cup {c}
        BY <1>1, <2>1 DEF LeasedProbes
      <3>2. Cardinality(LeasedProbes') = Cardinality(LeasedProbes) + 1
        BY <2>1, <3>1, ReadyCounts, FS_AddElement
      <3>3. others + Cardinality(LeasedProbes) < Slots
        BY <2>1 DEF ReadyGoes
      <3> QED BY <1>3, <3>2, <3>3, ReadyCounts
    <2>2. CASE ~(p \in {"leased", "closing"} /\ c \notin LeasedProbes)
      <3>1. LeasedProbes' \in SUBSET LeasedProbes
        BY <1>1, <2>2 DEF LeasedProbes
      <3>2. Cardinality(LeasedProbes') <= Cardinality(LeasedProbes)
            /\ Cardinality(LeasedProbes') \in Nat
        BY <3>1, ReadyCounts, FS_Subset, FS_CardinalityType
      <3> QED BY <1>3, <3>2, ReadyCounts
    <2> QED BY <2>1, <2>2
  <1>5. /\ check' \in [Checks -> CheckStates] /\ probe' \in [Checks -> ProbeStates]
        /\ outcome' \in [Checks -> Outcomes]
    BY <1>1
  <1>6. /\ cancelled' \subseteq Checks /\ tracked' \subseteq Checks
        /\ browser' \in {"live", "dead", "retired"}
    BY DEF ReadyGoes
  <1> QED BY <1>2, <1>3, <1>4, <1>5, <1>6 DEF ReadyInv

\* What is known of one check.
LEMMA OneCheck ==
    ASSUME ReadyInv, NEW c \in Checks
    PROVE  /\ check[c] \in CheckStates /\ probe[c] \in ProbeStates /\ outcome[c] \in Outcomes
           /\ check = [check EXCEPT ![c] = check[c]]
           /\ probe = [probe EXCEPT ![c] = probe[c]]
           /\ outcome = [outcome EXCEPT ![c] = outcome[c]]
           /\ Follows(check[c], probe[c], outcome[c], c \in tracked)
           /\ c \in LeasedProbes <=> probe[c] \in {"leased", "closing"}
           /\ cancelled \subseteq Checks /\ tracked \subseteq Checks
           /\ browser \in {"live", "dead", "retired"}
  BY DEF ReadyInv, LeasedProbes

\* The handler goes on to its answer and perhaps leaves its probe to the supervisor.
HandlerGoes(c, answered) ==
    /\ check' = [check EXCEPT ![c] = answered]
    /\ answered # "idle"
    /\ answered = "refresh" => check[c] = "idle"
    /\ \/ /\ cancelled' = cancelled /\ tracked' = tracked
          /\ answered \in {"timeout", "left"} => probe[c] \in {"none", "ended"}
       \/ /\ cancelled' = cancelled \cup {c} /\ tracked' = tracked \cup {c}
          /\ answered \in {"timeout", "left"}
    /\ UNCHANGED <<probe, outcome, others, browser>>

LEMMA HandlerKeeps ==
    ASSUME ReadyInv, NEW c \in Checks,
           Ready!Ready(c) \/ Ready!Wakes(c) \/ Ready!Resume(c) \/ Ready!HandlerCancelled(c)
    PROVE  ReadyInv'
  <1>o. /\ check[c] \in CheckStates /\ probe[c] \in ProbeStates /\ outcome[c] \in Outcomes
        /\ probe = [probe EXCEPT ![c] = probe[c]]
        /\ outcome = [outcome EXCEPT ![c] = outcome[c]]
        /\ Follows(check[c], probe[c], outcome[c], c \in tracked)
        /\ c \in LeasedProbes <=> probe[c] \in {"leased", "closing"}
        /\ cancelled \subseteq Checks /\ tracked \subseteq Checks
        /\ browser \in {"live", "dead", "retired"}
    BY OneCheck
  <1>1. PICK answered \in CheckStates : HandlerGoes(c, answered)
    <2> USE DEF Ready!SetCheck, Ready!probeVars, HandlerGoes
    <2>1. CASE Ready!Ready(c)
      <3>1. HandlerGoes(c, "refresh")
        BY <2>1 DEF Ready!Ready
      <3> QED BY <3>1 DEF CheckStates
    <2>2. CASE Ready!Wakes(c)
      <3>1. HandlerGoes(c, "woken")
        BY <2>2 DEF Ready!Wakes
      <3> QED BY <3>1 DEF CheckStates
    <2>3. ASSUME NEW how \in {"timeout", "left"}, Ready!GiveUp(c, how),
                 UNCHANGED <<probe, outcome, others, browser>>
          PROVE  HandlerGoes(c, how)
      BY <2>3 DEF Ready!GiveUp, Ready!Owned
    <2>4. CASE Ready!Resume(c)
      <3>1. PICK how \in {"ok", "unavailable", "timeout"} : HandlerGoes(c, how)
        <4>1. CASE probe[c] = "ended"
          <5>1. HandlerGoes(c, "ok") \/ HandlerGoes(c, "unavailable")
            BY <2>4, <4>1 DEF Ready!Resume, Ready!TimedOut
          <5> QED BY <5>1
        <4>2. CASE probe[c] # "ended"
          <5>1. HandlerGoes(c, "timeout")
            BY <2>3, <2>4, <4>2 DEF Ready!Resume
          <5> QED BY <5>1
        <4> QED BY <4>1, <4>2
      <3> QED BY <3>1 DEF CheckStates, Ready!Answers
    <2>5. CASE Ready!HandlerCancelled(c)
      <3>1. HandlerGoes(c, "left")
        <4>1. CASE check[c] = "refresh"
          BY <1>o, <2>5, <4>1 DEF Ready!HandlerCancelled, Follows
        <4>2. CASE check[c] # "refresh"
          BY <2>3, <2>5, <4>2 DEF Ready!HandlerCancelled
        <4> QED BY <4>1, <4>2
      <3> QED BY <3>1 DEF CheckStates
    <2> QED BY <2>1, <2>2, <2>4, <2>5
  <1>2. Follows(answered, probe[c], outcome[c], c \in tracked')
    BY <1>1, <1>o DEF Follows, HandlerGoes
  <1>3. ReadyGoes(c, answered, probe[c], outcome[c], c \in tracked')
    BY <1>1, <1>2, <1>o DEF ReadyGoes, HandlerGoes
  <1>4. /\ answered \in CheckStates /\ probe[c] \in ProbeStates /\ outcome[c] \in Outcomes
        /\ (c \in tracked') \in BOOLEAN
    BY <1>1, <1>o
  <1> QED BY <1>3, <1>4, ReadyGoesKeeps

\* The probe of a check begins, goes on and ends.
LEMMA ProbeKeeps ==
    ASSUME ReadyInv, NEW c \in Checks,
           \/ Ready!Refresh(c) \/ Ready!ProbeStarts(c) \/ Ready!Acquire(c)
           \/ Ready!Evaluate(c) \/ Ready!Release(c)
    PROVE  ReadyInv'
  <1>o. /\ check[c] \in CheckStates /\ probe[c] \in ProbeStates /\ outcome[c] \in Outcomes
        /\ check = [check EXCEPT ![c] = check[c]]
        /\ probe = [probe EXCEPT ![c] = probe[c]]
        /\ outcome = [outcome EXCEPT ![c] = outcome[c]]
        /\ Follows(check[c], probe[c], outcome[c], c \in tracked)
        /\ c \in LeasedProbes <=> probe[c] \in {"leased", "closing"}
        /\ cancelled \subseteq Checks /\ tracked \subseteq Checks
        /\ browser \in {"live", "dead", "retired"}
    BY OneCheck
  <1> USE DEF Ready!SetCheck, Ready!SetProbe, Ready!ProbeEnds, Ready!Forget, Ready!probeVars
  <1>1. CASE Ready!Refresh(c)
    <2>1. PICK answered \in {"saturated", "waiting"}, p \in {"none", "created"} :
            /\ check' = [check EXCEPT ![c] = answered] /\ probe' = [probe EXCEPT ![c] = p]
            /\ UNCHANGED <<outcome, cancelled, tracked, others>>
            /\ browser' \in {"live", "dead", "retired"} /\ check[c] = "refresh"
      <3>1. check[c] = "refresh" /\ probe[c] = "none"
        BY <1>1, <1>o DEF Ready!Refresh, Follows
      <3>2. CASE Ready!IsFullAndServing
        BY <1>1, <1>o, <3>1, <3>2 DEF Ready!Refresh
      <3>3. CASE ~Ready!IsFullAndServing
        BY <1>1, <1>o, <3>1, <3>3 DEF Ready!Refresh
      <3> QED BY <3>2, <3>3
    <2>2. outcome[c] = "none" /\ Follows(answered, p, outcome[c], c \in tracked)
      BY <2>1, <1>o DEF Follows
    <2>3. ReadyGoes(c, answered, p, outcome[c], c \in tracked)
      BY <2>1, <2>2, <1>o DEF ReadyGoes
    <2>4. /\ answered \in CheckStates /\ p \in ProbeStates /\ outcome[c] \in Outcomes
          /\ (c \in tracked) \in BOOLEAN
      BY <1>o DEF CheckStates, ProbeStates, Ready!Answers
    <2> QED BY <2>3, <2>4, ReadyGoesKeeps
  <1>2. ASSUME NEW p \in {"queued", "leased", "closing"},
               /\ UNCHANGED <<check, outcome, cancelled, tracked, others, browser>>
               /\ probe[c] \in {"created", "queued", "leased"}
               /\ probe' = [probe EXCEPT ![c] = p],
               p # "queued" => c \in LeasedProbes \/ others + Cardinality(LeasedProbes) < Slots
        PROVE  ReadyInv'
    <2>1. Follows(check[c], p, outcome[c], c \in tracked)
      BY <1>2, <1>o DEF Follows
    <2>2. ReadyGoes(c, check[c], p, outcome[c], c \in tracked)
      BY <1>2, <2>1, <1>o DEF ReadyGoes
    <2>3. /\ check[c] \in CheckStates /\ p \in ProbeStates /\ outcome[c] \in Outcomes
          /\ (c \in tracked) \in BOOLEAN
      BY <1>o DEF ProbeStates
    <2> QED BY <2>2, <2>3, ReadyGoesKeeps
  <1>3. ASSUME NEW how \in {"ok", "failed", "cancelled"},
               /\ UNCHANGED <<check, cancelled, others, browser>> /\ tracked' = tracked \ {c}
               /\ probe[c] \in {"created", "queued", "closing"}
               /\ probe' = [probe EXCEPT ![c] = "ended"]
               /\ outcome' = [outcome EXCEPT ![c] = how]
        PROVE  ReadyInv'
    <2>1. Follows(check[c], "ended", how, FALSE)
      BY <1>3, <1>o DEF Follows
    <2>2. ReadyGoes(c, check[c], "ended", how, FALSE)
      BY <1>3, <2>1, <1>o DEF ReadyGoes
    <2>3. check[c] \in CheckStates /\ "ended" \in ProbeStates /\ how \in Outcomes
      BY <1>o DEF ProbeStates, Outcomes
    <2> QED BY <2>2, <2>3, ReadyGoesKeeps
  <1>4. CASE Ready!ProbeStarts(c)
    BY <1>2, <1>3, <1>4 DEF Ready!ProbeStarts
  <1>5. CASE Ready!Acquire(c)
    <2>1. Ready!Free => others + Cardinality(LeasedProbes) < Slots
      BY ReadyCounts DEF Ready!Free
    <2> QED BY <1>2, <1>3, <1>5, <2>1 DEF Ready!Acquire
  <1>6. CASE Ready!Evaluate(c)
    BY <1>2, <1>6, <1>o DEF Ready!Evaluate
  <1>7. CASE Ready!Release(c)
    BY <1>3, <1>7 DEF Ready!Release
  <1> QED BY <1>1, <1>4, <1>5, <1>6, <1>7

LEMMA ReadyKeeps ==
    ASSUME ReadyInv, Ready!Next
    PROVE  ReadyInv'
  <1>1. CASE Ready!RequestsComeAndGo
    <2>1. /\ UNCHANGED <<check, probe, outcome, cancelled, tracked, browser>>
          /\ \/ Ready!Free /\ others' = others + 1
             \/ others > 0 /\ others' = others - 1
      BY <1>1 DEF Ready!RequestsComeAndGo, Ready!probeVars
    <2>2. Ready!Free => others + Cardinality(LeasedProbes) < Slots
      BY ReadyCounts DEF Ready!Free
    <2>3. LeasedProbes' = LeasedProbes
      BY <2>1 DEF LeasedProbes
    <2>4. others' \in 0 .. Slots /\ others' + Cardinality(LeasedProbes') <= Slots
      BY <2>1, <2>2, <2>3, ReadyCounts DEF ReadyInv
    <2> QED BY <2>1, <2>4 DEF ReadyInv
  <1>2. CASE Ready!BrowserChanges
    <2>1. /\ UNCHANGED <<check, probe, outcome, cancelled, tracked, others>>
          /\ browser' \in {"live", "dead", "retired"}
      BY <1>2 DEF Ready!BrowserChanges, Ready!probeVars
    <2> QED BY <2>1 DEF ReadyInv, LeasedProbes
  <1> QED BY <1>1, <1>2, HandlerKeeps, ProbeKeeps DEF Ready!Next

\* A probe that its check has left, by the deadline or with its client, is owned by the
\* supervisor until it ends, and probes lease no more contexts than the browser has
\* (_await_with_hard_deadline and _readiness_probe, app.py:637).
THEOREM LeftProbesAreOwned == ServiceSpec => []ProbesAreOwned
  <1>1. ServiceInit => ReadyInv
    <2> SUFFICES ASSUME ServiceInit PROVE ReadyInv
      OBVIOUS
    <2>1. /\ check = [c \in Checks |-> "idle"] /\ probe = [c \in Checks |-> "none"]
          /\ outcome = [c \in Checks |-> "none"] /\ cancelled = {} /\ tracked = {}
          /\ others = 0 /\ browser = "live"
      BY DEF ServiceInit, Ready!Init
    <2>2. LeasedProbes = {} /\ Cardinality(LeasedProbes) = 0
      BY <2>1, FS_EmptySet DEF LeasedProbes
    <2> QED BY <2>1, <2>2, ServiceAssumption
            DEF ReadyInv, CheckStates, ProbeStates, Outcomes, Follows
  <1>2. ReadyInv /\ [ServiceNext]_serviceVars => ReadyInv'
    <2>1. [ServiceNext]_serviceVars => Ready!Next \/ UNCHANGED readyVars
      BY DEF ServiceNext, serviceVars, readyVars
    <2>2. ReadyInv /\ UNCHANGED readyVars => ReadyInv'
      BY DEF readyVars, ReadyInv, LeasedProbes
    <2> QED BY <2>1, <2>2, ReadyKeeps
  <1>3. ReadyInv => ProbesAreOwned
    <2> SUFFICES ASSUME ReadyInv PROVE ProbesAreOwned
      OBVIOUS
    <2>1. others + Ready!Cardinality(Ready!Leased) <= Slots
      BY ReadyCounts DEF ReadyInv
    <2>2. Ready!TypeOK
      BY <2>1 DEF ReadyInv, Ready!TypeOK, CheckStates, ProbeStates, Outcomes, Follows
    <2>3. Ready!ProbesAreOwned
      BY DEF ReadyInv, Ready!ProbesAreOwned, Follows
    <2> QED BY <2>2, <2>3 DEF ProbesAreOwned
  <1> QED BY <1>1, <1>2, <1>3, PTL DEF ServiceSpec

-----------------------------------------------------------------------------
(***************************************************************************)
(* Groups of cleanups and who waits for them.                              *)
(***************************************************************************)
Alive == {"running", "cancelled", "ended"}

\* Group g has a task, or a hold, when the tasks are in these states and have these owners.
Work(g, states, owners, holds) ==
    \/ \E t \in Tasks : states[t] \in Alive /\ g \in owners[t]
    \/ holds[g] > 0

\* Events that a group or a waiter has.
InUse(ev, wt) == {ev[g] : g \in Tasks} \cup {wt[w].event : w \in Waiters}

\* Every group has an event of its own, and events that are set belong to somebody; who
\* waits for a group does so on its event until that is set, and there is work until then; a
\* group with work has no event that is set.
EventsSound ==
    /\ set \subseteq InUse(event, waiter)
    /\ \A g, h \in Tasks : event[g] = event[h] => g = h \/ event[g] = None
    /\ \A w \in Waiters :
         waiter[w] = Supervisor!Idle \/ (waiter[w].group \in Tasks /\ waiter[w].event \in Events)
    /\ \A w \in Waiters : waiter[w] # Supervisor!Idle /\ waiter[w].event \notin set =>
         /\ event[waiter[w].group] = waiter[w].event
         /\ Work(waiter[w].group, ts, groups, group_holds)
    /\ \A g \in Tasks : event[g] \in set => ~Work(g, ts, groups, group_holds)

GroupTypes ==
    /\ held \in [Holds -> SUBSET Tasks]
    /\ group_holds \in [Tasks -> Nat]
    /\ event \in [Tasks -> Events \cup {None}]
    /\ set \subseteq Events
    /\ waiter \in [Waiters -> [group : Tasks \cup {None}, event : Events \cup {None}]]

Holders(g) == {h \in Holds : g \in held[h]}

HoldsCounted == \A g \in Tasks : group_holds[g] = Cardinality(Holders(g))

GroupsInv == GroupTypes /\ EventsSound /\ HoldsCounted

LEMMA NoneIsNoEvent == None \notin Tasks /\ None \notin Events
  BY ServiceAssumption

\* Groups that get work, and no others, replace their event if it is set.
LEMMA MoreWork ==
    ASSUME GroupTypes, EventsSound, NEW gs \in SUBSET Tasks, Supervisor!Rearm(gs),
           waiter' = waiter,
           \A g \in Tasks : Work(g, ts, groups, group_holds) =>
                              Work(g, ts', groups', group_holds'),
           \A g \in Tasks \ gs : Work(g, ts', groups', group_holds') =>
                                   Work(g, ts, groups, group_holds)
    PROVE  /\ EventsSound'
           /\ event' \in [Tasks -> Events \cup {None}] /\ set' \subseteq Events
  <1>1. /\ event' = [g \in Tasks |-> IF g \in gs /\ event[g] \in set THEN None ELSE event[g]]
        /\ set' = set \cap InUse(event', waiter')
    BY DEF Supervisor!Rearm, InUse
  <1>2. event' \in [Tasks -> Events \cup {None}] /\ set' \subseteq Events
    BY <1>1 DEF GroupTypes
  <1>3. \A g \in Tasks : event'[g] = None \/ event'[g] = event[g]
    BY <1>1
  <1>4. \A g, h \in Tasks : event'[g] = event'[h] => g = h \/ event'[g] = None
    BY <1>3 DEF EventsSound
  <1>5. ASSUME NEW w \in Waiters, waiter[w] # Supervisor!Idle, waiter[w].event \notin set'
        PROVE  /\ event'[waiter[w].group] = waiter[w].event
               /\ Work(waiter[w].group, ts', groups', group_holds')
    <2>1. waiter[w].event \in InUse(event', waiter')
      BY DEF InUse
    <2>2. waiter[w].event \notin set
      BY <1>1, <1>5, <2>1
    <2>3. /\ waiter[w].group \in Tasks /\ event[waiter[w].group] = waiter[w].event
          /\ Work(waiter[w].group, ts, groups, group_holds)
      BY <1>5, <2>2 DEF EventsSound
    <2> QED BY <1>1, <2>2, <2>3
  <1>6. ASSUME NEW g \in Tasks, event'[g] \in set' PROVE ~Work(g, ts', groups', group_holds')
    <2>1. event'[g] # None
      BY <1>2, <1>6, NoneIsNoEvent
    <2>2. event[g] \in set /\ g \notin gs
      BY <1>1, <1>6, <2>1
    <2> QED BY <2>2 DEF EventsSound
  <1>7. \A w \in Waiters :
          waiter'[w] = Supervisor!Idle \/ (waiter'[w].group \in Tasks /\ waiter'[w].event \in Events)
    BY DEF EventsSound
  <1> QED BY <1>1, <1>2, <1>4, <1>5, <1>6, <1>7 DEF EventsSound, Supervisor!Idle

\* Groups lose work, and those that have none left set their events.
LEMMA LessWork ==
    ASSUME GroupTypes, EventsSound, NEW idle \in SUBSET Tasks,
           set' = set \cup {event[g] : g \in {x \in idle : event[x] # None}},
           UNCHANGED <<event, waiter>>,
           \A g \in Tasks : Work(g, ts', groups', group_holds') =>
                              Work(g, ts, groups, group_holds) /\ g \notin idle,
           \A g \in Tasks \ idle : Work(g, ts, groups, group_holds) =>
                                     Work(g, ts', groups', group_holds')
    PROVE  EventsSound' /\ set' \subseteq Events
  <1>1. set' \subseteq Events
    BY DEF GroupTypes
  <1>2. set \subseteq set' /\ set' \subseteq InUse(event, waiter)
    BY DEF EventsSound, InUse
  <1>3. ASSUME NEW w \in Waiters, waiter[w] # Supervisor!Idle, waiter[w].event \notin set'
        PROVE  /\ event[waiter[w].group] = waiter[w].event
               /\ Work(waiter[w].group, ts', groups', group_holds')
    <2>1. /\ waiter[w].group \in Tasks /\ waiter[w].event \in Events
          /\ event[waiter[w].group] = waiter[w].event
          /\ Work(waiter[w].group, ts, groups, group_holds)
      BY <1>2, <1>3 DEF EventsSound
    <2>2. waiter[w].group \notin idle
      BY <1>3, <2>1, NoneIsNoEvent
    <2> QED BY <2>1, <2>2
  <1>4. ASSUME NEW g \in Tasks, event[g] \in set' PROVE ~Work(g, ts', groups', group_holds')
    <2>1. CASE event[g] \in set
      BY <2>1 DEF EventsSound
    <2>2. CASE event[g] \notin set
      <3>1. PICK x \in idle : event[x] # None /\ event[g] = event[x]
        BY <1>4, <2>2
      <3>2. x = g
        BY <3>1 DEF EventsSound
      <3> QED BY <3>1, <3>2
    <2> QED BY <2>1, <2>2
  <1> QED BY <1>1, <1>2, <1>3, <1>4 DEF EventsSound, InUse, Supervisor!Idle

\* Neither work nor events change.
LEMMA SameWork ==
    ASSUME GroupTypes, EventsSound, HoldsCounted,
           UNCHANGED <<groups, held, group_holds, event, set, waiter>>,
           \A t \in Tasks : ts'[t] \in Alive <=> ts[t] \in Alive
    PROVE  GroupsInv'
  <1>1. \A g \in Tasks : Work(g, ts', groups', group_holds') <=> Work(g, ts, groups, group_holds)
    BY DEF Work
  <1>2. EventsSound'
    BY <1>1 DEF EventsSound, InUse, Supervisor!Idle
  <1>3. GroupTypes' /\ HoldsCounted'
    BY DEF GroupTypes, HoldsCounted, Holders
  <1> QED BY <1>2, <1>3 DEF GroupsInv

\* asyncio.Event() makes an event that neither a group nor a waiter has.
LEMMA FreshEvent ==
    ASSUME GroupTypes, NEW g \in Tasks, NEW w \in Waiters,
           event[g] = None \/ event[g] = waiter[w].event
    PROVE  LET e == CHOOSE x \in Supervisor!Unused : TRUE
           IN  e \in Events /\ e \notin InUse(event, waiter)
  <1> DEFINE A == {event[h] : h \in Tasks \ {g}}  B == {waiter[v].event : v \in Waiters}
  <1>1. Supervisor!Unused = Events \ InUse(event, waiter)
    BY DEF Supervisor!Unused, InUse
  <1>2. InUse(event, waiter) \cap Events \subseteq A \cup B
    BY NoneIsNoEvent DEF InUse
  <1>3. /\ IsFiniteSet(Tasks) /\ Cardinality(Tasks) \in Nat
        /\ IsFiniteSet(Waiters) /\ Cardinality(Waiters) \in Nat
        /\ IsFiniteSet(Events) /\ Cardinality(Events) \in Nat
        /\ Cardinality(Events) >= Cardinality(Tasks) + Cardinality(Waiters)
    BY ServiceAssumption, FS_CardinalityType
  <1>4. IsFiniteSet(Tasks \ {g}) /\ Cardinality(Tasks \ {g}) = Cardinality(Tasks) - 1
    BY <1>3, FS_RemoveElement
  <1>5. IsFiniteSet(A) /\ Cardinality(A) <= Cardinality(Tasks) - 1 /\ Cardinality(A) \in Nat
    <2> DEFINE f == [h \in Tasks \ {g} |-> event[h]]
    <2>1. f \in Surjection(Tasks \ {g}, A)
      BY DEF Surjection
    <2> QED BY <1>4, <2>1, FS_Surjection, FS_CardinalityType
  <1>6. IsFiniteSet(B) /\ Cardinality(B) <= Cardinality(Waiters) /\ Cardinality(B) \in Nat
    <2> DEFINE f == [v \in Waiters |-> waiter[v].event]
    <2>1. f \in Surjection(Waiters, B)
      BY DEF Surjection
    <2> QED BY <1>3, <2>1, FS_Surjection, FS_CardinalityType
  <1> HIDE DEF A, B
  <1>7. ~(Events \subseteq A \cup B)
    <2> SUFFICES ASSUME Events \subseteq A \cup B PROVE FALSE
      OBVIOUS
    <2>1. /\ IsFiniteSet(A \cup B)
          /\ Cardinality(A \cup B) = Cardinality(A) + Cardinality(B) - Cardinality(A \cap B)
      BY <1>5, <1>6, FS_Union
    <2>2. IsFiniteSet(A \cap B) /\ Cardinality(A \cap B) \in Nat
      BY <1>5, FS_Intersection, FS_CardinalityType
    <2>3. Cardinality(Events) <= Cardinality(A \cup B)
      BY <2>1, FS_Subset
    <2>4. Cardinality(Tasks) >= 1
      BY <1>3, <1>5
    <2> QED BY <1>3, <1>5, <1>6, <2>1, <2>2, <2>3, <2>4
  <1>8. \E x : x \in Supervisor!Unused
    BY <1>1, <1>2, <1>7
  <1> QED BY <1>1, <1>8

\* Waiter w goes to sleep on the event of group g, or leaves; the group may drop an event
\* that is set, and get an event that nobody has.
Sleeps(w, g) ==
    /\ event' \in [Tasks -> Events \cup {None}]
    /\ waiter' \in [Waiters -> [group : Tasks \cup {None}, event : Events \cup {None}]]
    /\ \A v \in Waiters \ {w} : waiter'[v] = waiter[v]
    /\ waiter'[w] # Supervisor!Idle =>
         /\ waiter'[w].group = g /\ waiter'[w].event \in Events
         /\ waiter'[w].event = event'[g] /\ Work(g, ts, groups, group_holds)
    /\ \A h \in Tasks \ {g} : event'[h] = event[h]
    /\ \/ event'[g] = event[g]
       \/ /\ event[g] = None \/ event[g] \in set
          /\ event'[g] = None \/ event'[g] \notin InUse(event, waiter)
    /\ set' = set \cap InUse(event', waiter')
    /\ UNCHANGED <<ts, groups, group_holds>>

LEMMA SleepsKeeps ==
    ASSUME GroupTypes, EventsSound, NEW w \in Waiters, NEW g \in Tasks, Sleeps(w, g)
    PROVE  EventsSound' /\ set' \subseteq Events
  <1> USE DEF Sleeps
  <1>1. set' \subseteq Events
    BY DEF GroupTypes
  <1>2. \A h \in Tasks : event'[h] \in {event[h], None} \/ event'[h] \notin InUse(event, waiter)
    OBVIOUS
  <1>3. set \subseteq InUse(event, waiter) /\ \A h \in Tasks : event[h] \in InUse(event, waiter)
    BY DEF EventsSound, InUse
  <1>4. ASSUME NEW h \in Tasks, NEW k \in Tasks, event'[h] = event'[k]
        PROVE  h = k \/ event'[h] = None
    <2>1. \A x, y \in Tasks : event[x] = event[y] => x = y \/ event[x] = None
      BY DEF EventsSound
    <2>2. CASE h # g /\ k # g
      BY <1>4, <2>1, <2>2
    <2>3. CASE h = g /\ k # g
      BY <1>3, <1>4, <2>1, <2>3
    <2>4. CASE h # g /\ k = g
      BY <1>3, <1>4, <2>1, <2>4
    <2> QED BY <2>2, <2>3, <2>4
  <1>5. \A v \in Waiters :
          waiter'[v] = Supervisor!Idle \/ (waiter'[v].group \in Tasks /\ waiter'[v].event \in Events)
    BY DEF EventsSound
  <1>6. ASSUME NEW v \in Waiters, waiter'[v] # Supervisor!Idle, waiter'[v].event \notin set'
        PROVE  /\ event'[waiter'[v].group] = waiter'[v].event
               /\ Work(waiter'[v].group, ts, groups, group_holds)
    <2>1. CASE v = w
      BY <1>6, <2>1
    <2>2. CASE v # w
      <3>1. waiter'[v] = waiter[v]
        BY <2>2
      <3>2. waiter'[v].event \in InUse(event', waiter')
        BY DEF InUse
      <3>3. waiter[v].event \notin set
        BY <1>6, <3>1, <3>2
      <3>4. /\ event[waiter[v].group] = waiter[v].event /\ waiter[v].group \in Tasks
            /\ waiter[v].event \in Events /\ Work(waiter[v].group, ts, groups, group_holds)
        BY <1>6, <3>1, <3>3 DEF EventsSound
      <3>5. event'[waiter[v].group] = event[waiter[v].group]
        BY <3>3, <3>4, NoneIsNoEvent
      <3> QED BY <3>1, <3>4, <3>5
    <2> QED BY <2>1, <2>2
  <1>7. ASSUME NEW h \in Tasks, event'[h] \in set' PROVE ~Work(h, ts, groups, group_holds)
    <2>1. event'[h] \in set /\ event'[h] \in Events
      BY <1>1, <1>7
    <2>2. event'[h] = event[h]
      BY <1>2, <1>3, <2>1, NoneIsNoEvent
    <2> QED BY <2>1, <2>2 DEF EventsSound
  <1>8. set' \subseteq InUse(event', waiter')
    OBVIOUS
  <1> QED BY <1>1, <1>4, <1>5, <1>6, <1>7, <1>8 DEF EventsSound, InUse, Supervisor!Idle

\* The test in the loop of wait_for_group, with the events ev.
LEMMA TestSleeps ==
    ASSUME GroupTypes, EventsSound, NEW w \in Waiters, NEW g \in Tasks, NEW ev,
           Supervisor!TestGroup(w, g, ev),
           ev[g] = None => event[g] = None \/ event[g] = waiter[w].event,
           ev = event \/ (event[g] \in set /\ ev = [event EXCEPT ![g] = None]),
           set' = set \cap InUse(event', waiter'),
           UNCHANGED <<ts, groups, group_holds>>
    PROVE  Sleeps(w, g)
  <1> DEFINE made == CHOOSE x \in Supervisor!Unused : TRUE
  <1>0. ev[g] = None => made \in Events /\ made \notin InUse(event, waiter)
    BY FreshEvent
  <1>1. Supervisor!Busy(g) <=> Work(g, ts, groups, group_holds)
    BY DEF Supervisor!Busy, Supervisor!Members, Supervisor!Tracked, Work, Alive
  <1>2. /\ event \in [Tasks -> Events \cup {None}]
        /\ waiter \in [Waiters -> [group : Tasks \cup {None}, event : Events \cup {None}]]
        /\ ev \in [Tasks -> Events \cup {None}] /\ \A h \in Tasks \ {g} : ev[h] = event[h]
        /\ \/ ev[g] = event[g]
           \/ event[g] \in set /\ ev[g] = None
    BY DEF GroupTypes
  <1>3. CASE ~Supervisor!Busy(g)
    <2>1. event' = ev /\ waiter' = [waiter EXCEPT ![w] = Supervisor!Idle]
      BY <1>3 DEF Supervisor!TestGroup
    <2>2. waiter' \in [Waiters -> [group : Tasks \cup {None}, event : Events \cup {None}]]
      BY <1>2, <2>1 DEF Supervisor!Idle
    <2> QED BY <1>0, <1>2, <2>1, <2>2 DEF Sleeps
  <1>4. CASE Supervisor!Busy(g)
    <2>1. PICK e \in (IF ev[g] # None THEN {ev[g]} ELSE {made}) :
             /\ event' = [ev EXCEPT ![g] = e]
             /\ waiter' = [waiter EXCEPT ![w] = [group |-> g, event |-> e]]
      BY <1>4 DEF Supervisor!TestGroup
    <2> HIDE DEF made
    <2>2. /\ e \in Events
          /\ \/ e = ev[g] /\ e # None
             \/ ev[g] = None /\ e \notin InUse(event, waiter)
      BY <1>0, <1>2, <2>1
    <2>3. /\ event' \in [Tasks -> Events \cup {None}] /\ event'[g] = e
          /\ \A h \in Tasks \ {g} : event'[h] = event[h]
      BY <1>2, <2>1, <2>2
    <2>4. /\ waiter' \in [Waiters -> [group : Tasks \cup {None}, event : Events \cup {None}]]
          /\ waiter'[w] = [group |-> g, event |-> e]
          /\ \A v \in Waiters \ {w} : waiter'[v] = waiter[v]
      BY <1>2, <2>1, <2>2
    <2>5. \/ event'[g] = event[g]
          \/ /\ event[g] = None \/ event[g] \in set
             /\ event'[g] \notin InUse(event, waiter)
      BY <1>2, <2>2, <2>3
    <2>6. waiter'[w].group = g /\ waiter'[w].event = e
      BY <2>4
    <2> QED BY <1>1, <1>4, <2>2, <2>3, <2>4, <2>5, <2>6 DEF Sleeps
  <1> QED BY <1>3, <1>4

\* Groups and holds count alike in the supervisor's module.
LEMMA HoldersCount ==
    /\ \A g : IsFiniteSet(Holders(g)) /\ Cardinality(Holders(g)) \in Nat
    /\ \A S : Supervisor!Cardinality(S) = Cardinality(S)
  <1>1. \A g : Holders(g) \in SUBSET Holds
    BY DEF Holders
  <1>2. \A g : IsFiniteSet(Holders(g)) /\ Cardinality(Holders(g)) \in Nat
    BY <1>1, ServiceAssumption, FS_Subset, FS_CardinalityType
  <1>3. \A S : Supervisor!Cardinality(S) = Cardinality(S)
    BY DEF Supervisor!Cardinality, Cardinality, Supervisor!IsFiniteSet, IsFiniteSet
  <1> QED BY <1>2, <1>3

\* A task begins, or is taken over, under the groups gs.
LEMMA OwnedKeeps ==
    ASSUME GroupsInv, NEW t \in Tasks, NEW gs \in SUBSET Tasks, Supervisor!Rearm(gs),
           UNCHANGED <<held, group_holds, waiter>>,
           \A u \in Tasks : u # t => ts'[u] = ts[u] /\ groups'[u] = groups[u],
           ts'[t] \in Alive,
           \/ ts[t] \notin Alive /\ groups'[t] = gs
           \/ ts[t] \in Alive /\ groups'[t] = groups[t] \cup gs
    PROVE  GroupsInv'
  <1>1. ASSUME NEW g \in Tasks, Work(g, ts, groups, group_holds)
        PROVE  Work(g, ts', groups', group_holds')
    <2>1. CASE group_holds[g] > 0
      BY <2>1 DEF Work
    <2>2. CASE ~(group_holds[g] > 0)
      <3>1. PICK u \in Tasks : ts[u] \in Alive /\ g \in groups[u]
        BY <1>1, <2>2 DEF Work
      <3>2. ts'[u] \in Alive /\ g \in groups'[u]
        BY <3>1
      <3> QED BY <3>2 DEF Work
    <2> QED BY <2>1, <2>2
  <1>2. ASSUME NEW g \in Tasks \ gs, Work(g, ts', groups', group_holds')
        PROVE  Work(g, ts, groups, group_holds)
    <2>1. CASE group_holds[g] > 0
      BY <2>1 DEF Work
    <2>2. CASE ~(group_holds[g] > 0)
      <3>1. PICK u \in Tasks : ts'[u] \in Alive /\ g \in groups'[u]
        BY <1>2, <2>2 DEF Work
      <3>2. ts[u] \in Alive /\ g \in groups[u]
        BY <3>1
      <3> QED BY <3>2 DEF Work
    <2> QED BY <2>1, <2>2
  <1>3. GroupTypes /\ EventsSound /\ HoldsCounted
    BY DEF GroupsInv
  <1>4. /\ EventsSound'
        /\ event' \in [Tasks -> Events \cup {None}] /\ set' \subseteq Events
    BY <1>1, <1>2, <1>3, MoreWork
  <1>5. HoldsCounted'
    BY <1>3 DEF HoldsCounted, Holders
  <1> QED BY <1>3, <1>4, <1>5 DEF GroupsInv, GroupTypes

\* Tasks have owners.
LEMMA OwnersTyped == ASSUME Supervisor!TypeOK PROVE groups \in [Tasks -> SUBSET Tasks]
  BY DEF Supervisor!TypeOK

LEMMA StartKeepsGroups ==
    ASSUME Supervisor!TypeOK, GroupsInv, NEW t \in Tasks, Supervisor!Start(t)
    PROVE  GroupsInv'
  <1>t. /\ ts \in [Tasks -> {"none", "running", "cancelled", "ended", "gone"}]
        /\ groups \in [Tasks -> SUBSET Tasks] /\ held \in [Holds -> SUBSET Tasks]
    BY DEF Supervisor!TypeOK
  <1>1. ASSUME NEW gs \in SUBSET Tasks, Supervisor!Track(t, gs)
        PROVE  GroupsInv'
    <2>1. /\ ts[t] = "none" /\ ts' = [ts EXCEPT ![t] = "running"]
          /\ groups' = [groups EXCEPT ![t] = gs] /\ Supervisor!Rearm(gs)
          /\ UNCHANGED <<held, group_holds, waiter>>
      BY <1>1 DEF Supervisor!Track
    <2>2. /\ \A u \in Tasks : u # t => ts'[u] = ts[u] /\ groups'[u] = groups[u]
          /\ ts'[t] \in Alive /\ ts[t] \notin Alive /\ groups'[t] = gs
      BY <2>1, <1>t DEF Alive
    <2> QED BY <2>1, <2>2, OwnedKeeps
  <1>2. CASE Supervisor!StartRoot(t)
    BY <1>1, <1>2 DEF Supervisor!StartRoot
  <1>3. CASE Supervisor!StartNested(t)
    <2>1. PICK u \in Tasks : Supervisor!Track(t, groups[u])
      BY <1>3 DEF Supervisor!StartNested, Supervisor!Active
    <2>2. groups[u] \in SUBSET Tasks
      BY <1>t
    <2> QED BY <1>1, <2>1, <2>2
  <1>4. CASE Supervisor!StartScoped(t)
    <2>1. PICK gs \in {groups[u] : u \in Tasks} \cup {held[h] : h \in Holds} :
            Supervisor!Track(t, gs)
      BY <1>4 DEF Supervisor!StartScoped
    <2>2. gs \in SUBSET Tasks
      BY <2>1, <1>t
    <2> QED BY <1>1, <2>1, <2>2
  <1>5. CASE Supervisor!Adopt(t)
    <2>1. PICK u \in Tasks :
            /\ ts[t] \in {"running", "cancelled"}
            /\ groups' = [groups EXCEPT ![t] = @ \cup (groups[u] \ groups[t])]
            /\ Supervisor!Rearm(groups[u] \ groups[t])
            /\ UNCHANGED <<ts, held, group_holds, waiter>>
      BY <1>5 DEF Supervisor!Adopt, Supervisor!Active
    <2> DEFINE gs == groups[u] \ groups[t]
    <2>2. gs \in SUBSET Tasks
      BY <1>t
    <2>3. groups' = [groups EXCEPT ![t] = groups[t] \cup gs] /\ Supervisor!Rearm(gs)
      BY <2>1
    <2> HIDE DEF gs
    <2>4. /\ \A v \in Tasks : v # t => ts'[v] = ts[v] /\ groups'[v] = groups[v]
          /\ ts'[t] \in Alive /\ ts[t] \in Alive /\ groups'[t] = groups[t] \cup gs
      BY <2>1, <2>3, <1>t DEF Alive
    <2> QED BY <2>1, <2>2, <2>3, <2>4, OwnedKeeps
  <1> QED BY <1>2, <1>3, <1>4, <1>5 DEF Supervisor!Start

LEMMA FinishedKeepsGroups ==
    ASSUME Supervisor!TypeOK, GroupsInv, NEW t \in Tasks, Supervisor!TaskFinished(t)
    PROVE  GroupsInv'
  <1>t. /\ ts \in [Tasks -> {"none", "running", "cancelled", "ended", "gone"}]
        /\ groups \in [Tasks -> SUBSET Tasks]
        /\ GroupTypes /\ EventsSound /\ HoldsCounted
        /\ group_holds \in [Tasks -> Nat]
    BY DEF Supervisor!TypeOK, GroupsInv
  <1>1. /\ ts[t] = "ended" /\ ts' = [ts EXCEPT ![t] = "gone"]
        /\ Supervisor!FinishIdle(groups[t], t, group_holds)
        /\ UNCHANGED <<groups, held, group_holds, event, waiter>>
    BY DEF Supervisor!TaskFinished
  <1> DEFINE besides(x) == \E u \in Tasks : u # t /\ ts[u] \in Alive /\ x \in groups[u]
             idle == {x \in groups[t] : ~besides(x) /\ group_holds[x] = 0}
  <1>2. \A x \in Tasks : Supervisor!Members(x) \ {t} = {} <=> ~besides(x)
    BY DEF Supervisor!Members, Supervisor!Tracked, Alive
  <1>3. idle \in SUBSET Tasks /\ \A x : x \in idle <=>
          x \in groups[t] /\ Supervisor!Members(x) \ {t} = {} /\ group_holds[x] = 0
    BY <1>2, <1>t
  <1>4. set' = set \cup {event[g] : g \in {x \in idle : event[x] # None}}
    BY <1>1, <1>3 DEF Supervisor!FinishIdle
  <1>5. \A g \in Tasks : Work(g, ts', groups', group_holds') <=> besides(g) \/ group_holds[g] > 0
    BY <1>1, <1>t DEF Work, Alive
  <1>6. \A g \in Tasks : Work(g, ts, groups, group_holds) <=>
                           g \in groups[t] \/ besides(g) \/ group_holds[g] > 0
    BY <1>1 DEF Work, Alive
  <1>7. \A g \in Tasks : group_holds[g] > 0 <=> group_holds[g] # 0
    BY <1>t
  <1>8. /\ \A g \in Tasks : Work(g, ts', groups', group_holds') =>
                              Work(g, ts, groups, group_holds) /\ g \notin idle
        /\ \A g \in Tasks \ idle : Work(g, ts, groups, group_holds) =>
                                     Work(g, ts', groups', group_holds')
    BY <1>5, <1>6, <1>7
  <1> HIDE DEF idle
  <1>9. EventsSound' /\ set' \subseteq Events
    BY <1>1, <1>3, <1>4, <1>8, <1>t, LessWork
  <1>10. HoldsCounted'
    BY <1>1, <1>t DEF HoldsCounted, Holders
  <1> QED BY <1>1, <1>9, <1>10, <1>t DEF GroupsInv, GroupTypes

\* A hold begins to keep the groups of a task, or lets them go.
LEMMA HoldKeepsGroups ==
    ASSUME Supervisor!TypeOK, GroupsInv, NEW h \in Holds,
           Supervisor!Retain(h) \/ Supervisor!Release(h)
    PROVE  GroupsInv'
  <1>t. /\ ts \in [Tasks -> {"none", "running", "cancelled", "ended", "gone"}]
        /\ groups \in [Tasks -> SUBSET Tasks]
        /\ GroupTypes /\ EventsSound /\ HoldsCounted
        /\ held \in [Holds -> SUBSET Tasks] /\ group_holds \in [Tasks -> Nat]
    BY DEF Supervisor!TypeOK, GroupsInv, GroupTypes
  <1>1. CASE Supervisor!Retain(h)
    <2>1. PICK u \in Tasks :
            /\ held[h] = {} /\ held' = [held EXCEPT ![h] = groups[u]]
            /\ group_holds' = [g \in Tasks |-> IF g \in groups[u] THEN group_holds[g] + 1
                                               ELSE group_holds[g]]
            /\ Supervisor!Rearm(groups[u]) /\ UNCHANGED <<ts, groups, waiter>>
      BY <1>1 DEF Supervisor!Retain, Supervisor!Active, Supervisor!taskVars
    <2> DEFINE gs == groups[u]
    <2>2. gs \in SUBSET Tasks /\ held' \in [Holds -> SUBSET Tasks]
          /\ group_holds' \in [Tasks -> Nat]
      BY <2>1, <1>t
    <2>3. /\ \A g \in Tasks \ gs : group_holds'[g] = group_holds[g] /\ Holders(g)' = Holders(g)
          /\ \A g \in gs : /\ group_holds'[g] = group_holds[g] + 1
                           /\ Holders(g)' = Holders(g) \cup {h} /\ h \notin Holders(g)
      BY <2>1, <2>2, <1>t DEF Holders
    <2>4. HoldsCounted'
      <3>1. ASSUME NEW g \in Tasks PROVE group_holds'[g] = Cardinality(Holders(g)')
        <4>1. group_holds[g] = Cardinality(Holders(g)) /\ IsFiniteSet(Holders(g))
          BY <1>t, HoldersCount DEF HoldsCounted
        <4>2. CASE g \in gs
          <5>1. Cardinality(Holders(g) \cup {h}) = Cardinality(Holders(g)) + 1
            BY <2>3, <4>1, <4>2, FS_AddElement
          <5> QED BY <2>3, <4>1, <4>2, <5>1
        <4>3. CASE g \notin gs
          BY <2>3, <4>1, <4>3
        <4> QED BY <4>2, <4>3
      <3> QED BY <3>1 DEF HoldsCounted
    <2>5. /\ \A g \in Tasks : Work(g, ts, groups, group_holds) =>
                                Work(g, ts', groups', group_holds')
          /\ \A g \in Tasks \ gs : Work(g, ts', groups', group_holds') =>
                                     Work(g, ts, groups, group_holds)
      <3>1. \A g \in Tasks : group_holds[g] > 0 => group_holds'[g] > 0
        BY <2>1, <1>t
      <3> QED BY <2>1, <2>3, <3>1 DEF Work
    <2>6. Supervisor!Rearm(gs) /\ waiter' = waiter
      BY <2>1
    <2> HIDE DEF gs
    <2>7. /\ EventsSound'
          /\ event' \in [Tasks -> Events \cup {None}] /\ set' \subseteq Events
      BY <2>2, <2>5, <2>6, <1>t, MoreWork
    <2> QED BY <2>2, <2>4, <2>6, <2>7 DEF GroupsInv, GroupTypes
  <1>2. CASE Supervisor!Release(h)
    <2>1. /\ held[h] # {} /\ held' = [held EXCEPT ![h] = {}]
          /\ group_holds' = [g \in Tasks |-> IF g \in held[h] THEN group_holds[g] - 1
                                             ELSE group_holds[g]]
          /\ Supervisor!FinishIdle(held[h], None, group_holds')
          /\ UNCHANGED <<ts, groups, event, waiter>>
      BY <1>2 DEF Supervisor!Release, Supervisor!taskVars
    <2> DEFINE gs == held[h]
    <2>2. /\ \A g \in Tasks \ gs : group_holds'[g] = group_holds[g] /\ Holders(g)' = Holders(g)
          /\ \A g \in gs : /\ group_holds'[g] = group_holds[g] - 1
                           /\ Holders(g)' = Holders(g) \ {h} /\ h \in Holders(g)
          /\ gs \in SUBSET Tasks
      BY <2>1, <1>t DEF Holders
    <2>3. ASSUME NEW g \in Tasks
          PROVE  /\ group_holds'[g] = Cardinality(Holders(g)') /\ group_holds'[g] \in Nat
                 /\ g \in gs => group_holds[g] > 0
      <3>1. /\ group_holds[g] = Cardinality(Holders(g)) /\ IsFiniteSet(Holders(g))
            /\ group_holds[g] \in Nat
        BY <1>t, HoldersCount DEF HoldsCounted
      <3>2. CASE g \in gs
        <4>1. /\ Cardinality(Holders(g) \ {h}) = Cardinality(Holders(g)) - 1
              /\ IsFiniteSet(Holders(g) \ {h})
          BY <2>2, <3>1, <3>2, FS_RemoveElement
        <4>2. Cardinality(Holders(g) \ {h}) \in Nat
          BY <4>1, FS_CardinalityType
        <4>3. Holders(g)' = Holders(g) \ {h} /\ group_holds'[g] = group_holds[g] - 1
          BY <2>2, <3>2
        <4>4. Cardinality(Holders(g)') = Cardinality(Holders(g) \ {h})
          BY <4>3
        <4> HIDE DEF gs
        <4>5. group_holds'[g] = Cardinality(Holders(g)') /\ group_holds'[g] \in Nat
          BY <3>1, <4>1, <4>2, <4>3, <4>4
        <4>6. group_holds[g] > 0
          BY <3>1, <4>1, <4>2
        <4> QED BY <4>5, <4>6
      <3>3. CASE g \notin gs
        BY <2>2, <3>1, <3>3
      <3> QED BY <3>2, <3>3
    <2>4. HoldsCounted' /\ group_holds' \in [Tasks -> Nat] /\ held' \in [Holds -> SUBSET Tasks]
      <3>1. HoldsCounted'
        BY <2>3 DEF HoldsCounted
      <3> QED BY <2>1, <2>3, <3>1, <1>t
    <2> DEFINE idle == {x \in gs : Supervisor!Members(x) = {} /\ group_holds'[x] = 0}
    <2>5. /\ \A x : Supervisor!Members(x) \ {None} = Supervisor!Members(x)
          /\ idle \in SUBSET Tasks
      BY <2>2, NoneIsNoEvent DEF Supervisor!Members, Supervisor!Tracked
    <2>6. set' = set \cup {event[g] : g \in {x \in idle : event[x] # None}}
      BY <2>1, <2>5 DEF Supervisor!FinishIdle
    <2>7. \A g \in Tasks :
            /\ Work(g, ts, groups, group_holds) <=>
                 Supervisor!Members(g) # {} \/ group_holds[g] > 0
            /\ Work(g, ts', groups', group_holds') <=>
                 Supervisor!Members(g) # {} \/ group_holds'[g] > 0
      BY <2>1 DEF Work, Supervisor!Members, Supervisor!Tracked, Alive
    <2>8. ASSUME NEW g \in Tasks
          PROVE  /\ Work(g, ts', groups', group_holds') =>
                      Work(g, ts, groups, group_holds) /\ g \notin idle
                 /\ g \notin idle => (Work(g, ts, groups, group_holds) =>
                                        Work(g, ts', groups', group_holds'))
      <3>1. /\ group_holds[g] \in Nat /\ group_holds'[g] \in Nat
            /\ g \in gs => group_holds[g] > 0
            /\ g \notin gs => group_holds'[g] = group_holds[g]
        BY <2>2, <2>3, <1>t
      <3>2. group_holds'[g] = 0 <=> ~(group_holds'[g] > 0)
        BY <3>1
      <3> QED BY <2>7, <3>1, <3>2
    <2> HIDE DEF idle
    <2>9. EventsSound' /\ set' \subseteq Events
      BY <2>1, <2>5, <2>6, <2>8, <1>t, LessWork
    <2> QED BY <2>1, <2>4, <2>9, <1>t DEF GroupsInv, GroupTypes
  <1> QED BY <1>1, <1>2

\* A waiter begins to wait, wakes or is cancelled.
LEMMA WaiterKeepsGroups ==
    ASSUME GroupsInv, NEW w \in Waiters,
           \/ Supervisor!WaitBegins(w) \/ Supervisor!WaitResumes(w) \/ Supervisor!WaitCancelled(w)
    PROVE  GroupsInv'
  <1>t. /\ GroupTypes /\ EventsSound /\ HoldsCounted
        /\ waiter \in [Waiters -> [group : Tasks \cup {None}, event : Events \cup {None}]]
        /\ event \in [Tasks -> Events \cup {None}]
    BY DEF GroupsInv, GroupTypes
  <1>h. UNCHANGED <<ts, groups, held, group_holds>>
    BY DEF Supervisor!WaitBegins, Supervisor!WaitResumes, Supervisor!WaitCancelled,
           Supervisor!taskVars
  <1>1. ASSUME NEW g \in Tasks, Sleeps(w, g) PROVE GroupsInv'
    <2>1. EventsSound' /\ set' \subseteq Events
      BY <1>1, <1>t, SleepsKeeps
    <2>2. HoldsCounted'
      BY <1>h, <1>t DEF HoldsCounted, Holders
    <2> QED BY <1>1, <1>h, <1>t, <2>1, <2>2 DEF GroupsInv, GroupTypes, Sleeps
  <1>2. CASE Supervisor!WaitCancelled(w)
    <2>1. /\ waiter[w] # Supervisor!Idle
          /\ waiter' = [waiter EXCEPT ![w] = Supervisor!Idle] /\ event' = event
          /\ set' = set \cap InUse(event', waiter')
      BY <1>2 DEF Supervisor!WaitCancelled, InUse
    <2>2. waiter[w].group \in Tasks
      BY <2>1, <1>t DEF EventsSound
    <2>3. waiter' \in [Waiters -> [group : Tasks \cup {None}, event : Events \cup {None}]]
      BY <2>1, <1>t DEF Supervisor!Idle
    <2>4. Sleeps(w, waiter[w].group)
      BY <2>1, <2>3, <1>h, <1>t DEF Sleeps
    <2> QED BY <1>1, <2>2, <2>4
  <1>3. CASE Supervisor!WaitBegins(w)
    <2>1. PICK g \in Tasks : Supervisor!TestGroup(w, g, event)
      BY <1>3 DEF Supervisor!WaitBegins
    <2>2. waiter[w] = Supervisor!Idle /\ set' = set
      BY <1>3 DEF Supervisor!WaitBegins
    <2>3. \/ event' = event
          \/ event[g] = None /\ \E e : event' = [event EXCEPT ![g] = e]
      BY <2>1, <1>t DEF Supervisor!TestGroup
    <2>4. \A v \in Waiters \ {w} : waiter'[v] = waiter[v]
      BY <2>1, <1>t DEF Supervisor!TestGroup
    <2>5. None \notin set /\ set \subseteq InUse(event, waiter) /\ waiter[w].event = None
      BY <2>2, <1>t, NoneIsNoEvent DEF EventsSound, GroupTypes, Supervisor!Idle
    <2>6. ASSUME NEW e \in set PROVE e \in InUse(event', waiter')
      <3>1. CASE \E v \in Waiters : waiter[v].event = e
        BY <2>4, <2>5, <3>1 DEF InUse
      <3>2. CASE \E h \in Tasks : event[h] = e
        BY <2>3, <2>5, <3>2, <1>t DEF InUse
      <3> QED BY <2>5, <3>1, <3>2 DEF InUse
    <2>7. set' = set \cap InUse(event', waiter')
      BY <2>2, <2>6
    <2>8. Sleeps(w, g)
      BY <2>1, <2>5, <2>7, <1>h, <1>t, TestSleeps
    <2> QED BY <1>1, <2>8
  <1>4. CASE Supervisor!WaitResumes(w)
    <2> DEFINE g == waiter[w].group
               e == waiter[w].event
               ev == IF event[g] = e THEN [event EXCEPT ![g] = None] ELSE event
    <2>1. e \in set /\ Supervisor!TestGroup(w, g, ev) /\ set' = set \cap InUse(event', waiter')
      BY <1>4 DEF Supervisor!WaitResumes, InUse
    <2>2. waiter[w] # Supervisor!Idle /\ g \in Tasks
      BY <2>1, <1>t, NoneIsNoEvent DEF EventsSound, GroupTypes, Supervisor!Idle
    <2>3. /\ ev = event \/ (event[g] \in set /\ ev = [event EXCEPT ![g] = None])
          /\ ev[g] = None => event[g] = None \/ event[g] = e
      BY <2>1, <2>2, <1>t
    <2> HIDE DEF ev
    <2>4. Sleeps(w, g)
      BY <2>1, <2>2, <2>3, <1>h, <1>t, TestSleeps
    <2> QED BY <1>1, <2>2, <2>4
  <1> QED BY <1>2, <1>3, <1>4

\* Every step of the supervisor.
LEMMA GroupsKeep ==
    ASSUME Supervisor!TypeOK, GroupsInv, Supervisor!Next PROVE GroupsInv'
  <1>t. /\ ts \in [Tasks -> {"none", "running", "cancelled", "ended", "gone"}]
        /\ GroupTypes /\ EventsSound /\ HoldsCounted
    BY DEF Supervisor!TypeOK, GroupsInv
  <1>1. ASSUME UNCHANGED <<groups, held, group_holds, event, set, waiter>>,
               \A u \in Tasks : ts'[u] \in Alive <=> ts[u] \in Alive
        PROVE  GroupsInv'
    BY <1>1, <1>t, SameWork
  <1>2. ASSUME NEW marked, Supervisor!MarkTimedOut(marked)
        PROVE  \A u \in Tasks : ts'[u] \in Alive <=> ts[u] \in Alive
    BY <1>2, <1>t DEF Supervisor!MarkTimedOut, Supervisor!Active, Alive
  <1>3. ASSUME Supervisor!CloseLoops
        PROVE  \A u \in Tasks : ts'[u] \in Alive <=> ts[u] \in Alive
    BY <1>3, <1>t DEF Supervisor!CloseLoops, Supervisor!Active, Alive
  <1>4. ASSUME NEW t \in Tasks,
               \/ Supervisor!TaskEnds(t) \/ Supervisor!DeadlineExpired(t)
               \/ Supervisor!RunWakes(t) \/ Supervisor!RunCancelled(t) \/ Supervisor!RunResumes(t)
        PROVE  GroupsInv'
    <2>1. UNCHANGED <<groups, held, group_holds, event, set, waiter>>
      BY <1>4 DEF Supervisor!TaskEnds, Supervisor!DeadlineExpired, Supervisor!RunWakes,
                  Supervisor!RunCancelled, Supervisor!RunResumes, Supervisor!taskVars,
                  Supervisor!groupVars
    <2>2. CASE Supervisor!TaskEnds(t)
      BY <1>1, <1>t, <2>1, <2>2 DEF Supervisor!TaskEnds, Supervisor!Active, Alive
    <2>3. CASE Supervisor!DeadlineExpired(t)
      BY <1>1, <1>2, <2>1, <2>3 DEF Supervisor!DeadlineExpired
    <2>4. CASE Supervisor!RunWakes(t) \/ Supervisor!RunCancelled(t)
      BY <1>1, <2>1, <2>4 DEF Supervisor!RunWakes, Supervisor!RunCancelled, Supervisor!taskVars
    <2>5. CASE Supervisor!RunResumes(t)
      <3>1. \/ \E marked : Supervisor!MarkTimedOut(marked)
            \/ ts' = ts
        BY <2>5 DEF Supervisor!RunResumes, Supervisor!RunLeaves
      <3> QED BY <1>1, <1>2, <2>1, <3>1
    <2> QED BY <1>4, <2>2, <2>3, <2>4, <2>5
  <1>5. ASSUME Supervisor!CloseBegins \/ Supervisor!CloserStep \/ Supervisor!ShutdownDeadline
        PROVE  GroupsInv'
    <2>1. UNCHANGED <<groups, held, group_holds, event, set, waiter>>
      BY <1>5 DEF Supervisor!CloseBegins, Supervisor!CloserStep, Supervisor!ShutdownDeadline,
                  Supervisor!CloseFindsNone, Supervisor!CloseWaitEnds, Supervisor!CloseSettles,
                  Supervisor!CloseReturns, Supervisor!taskVars, Supervisor!groupVars
    <2>2. \/ \E marked : Supervisor!MarkTimedOut(marked)
          \/ Supervisor!CloseLoops
          \/ ts' = ts
      BY <1>5 DEF Supervisor!CloseBegins, Supervisor!CloserStep, Supervisor!ShutdownDeadline,
                  Supervisor!CloseFindsNone, Supervisor!CloseWaitEnds, Supervisor!CloseSettles,
                  Supervisor!CloseReturns, Supervisor!taskVars
    <2> QED BY <1>1, <1>2, <1>3, <2>1, <2>2
  <1> QED BY <1>4, <1>5, StartKeepsGroups, FinishedKeepsGroups, HoldKeepsGroups,
             WaiterKeepsGroups DEF Supervisor!Next

-----------------------------------------------------------------------------
(***************************************************************************)
(* What run() answers and what is reported.                                *)
(***************************************************************************)
Reports == Supervisor!Results \cup {"timeout"}

\* run() has not answered.
RunWaits(t) == run[t] \in {"waiting", "timer", "cancelled"}

TaskTypes ==
    /\ ts \in [Tasks -> {"none", "running", "cancelled", "ended", "gone"}]
    /\ result \in [Tasks -> Supervisor!Results \cup {None}]
    /\ groups \in [Tasks -> SUBSET Tasks]
    /\ closer \in {"idle", "empty", "wait", "settle", "last", "done"}
    /\ closing \subseteq Tasks
    /\ past \in BOOLEAN

RunTypes ==
    /\ timed_out \subseteq Tasks
    /\ reported \in [Tasks -> Seq(Reports)]
    /\ run \in [Tasks -> {"none", "waiting", "timer", "cancelled", "over"}]
    /\ answer \in [Tasks -> {"timeout", "result", "cancelled", None}]

\* A timeout is reported with the mark, which asks the task to stop, and before anything
\* else; without a mark nothing is reported until the task is gone.  A mark outlives its task
\* only until run() sees it, and run() that has answered with the result did so to a task
\* that can no longer be marked.
RunSound(t) ==
    /\ ts[t] = "none" =>
         run[t] = "none" /\ t \notin timed_out /\ reported[t] = <<>> /\ answer[t] = None
    /\ t \in timed_out =>
         ts[t] # "running" /\ reported[t] # <<>> /\ Head(reported[t]) = "timeout"
    /\ ts[t] \in {"ended", "gone"} => result[t] \in Supervisor!Results
    /\ t \notin timed_out =>
         /\ ts[t] \in {"running", "cancelled"} => reported[t] = <<>>
         /\ RunWaits(t) /\ ts[t] = "ended" => reported[t] = <<>>
         /\ RunWaits(t) /\ ts[t] = "gone" => reported[t] # <<>> /\ Head(reported[t]) = result[t]
    /\ run[t] \in {"timer", "cancelled"} => ts[t] \notin {"none", "gone"}
    /\ t \in timed_out /\ ts[t] = "gone" => RunWaits(t)
    /\ answer[t] # None => run[t] = "over"
    /\ answer[t] = "timeout" => reported[t] # <<>> /\ Head(reported[t]) = "timeout"
    /\ answer[t] = "result" =>
         /\ ts[t] \in {"ended", "gone"} /\ t \notin timed_out
         /\ reported[t] # <<>> => Head(reported[t]) = result[t]

RunsSound == \A t \in Tasks : RunSound(t)

\* What was reported first stays first.
LEMMA FirstStaysFirst ==
    ASSUME NEW S, NEW q \in Seq(S), NEW x \in S
    PROVE  /\ Append(q, x) \in Seq(S) /\ Append(q, x) # <<>>
           /\ q = <<>> => Head(Append(q, x)) = x
           /\ q # <<>> => Head(Append(q, x)) = Head(q)
  OBVIOUS

\* The parts of a task that run() and its reports look at do not change.
Rests(t) ==
    /\ ts'[t] = ts[t] /\ result'[t] = result[t] /\ reported'[t] = reported[t]
    /\ run'[t] = run[t] /\ answer'[t] = answer[t] /\ (t \in timed_out' <=> t \in timed_out)

LEMMA RestsKeeps == ASSUME NEW t \in Tasks, RunSound(t), Rests(t) PROVE RunSound(t)'
  BY DEF RunSound, Rests, RunWaits

\* What a deadline does to a task: nothing, or the mark and its report.
MarkedAt(t, marked) ==
    \/ /\ ts'[t] = ts[t] /\ reported'[t] = reported[t]
       /\ t \in timed_out' <=> t \in timed_out
       /\ t \in marked => ts[t] \notin {"running", "cancelled"} \/ t \in timed_out
    \/ /\ ts[t] \in {"running", "cancelled"} /\ ts'[t] = "cancelled"
       /\ t \in timed_out'
       /\ reported'[t] # <<>> /\ Head(reported'[t]) = "timeout"

\* Tasks that are active are marked when they were not: that outcome is reported first.
LEMMA MarkKeeps ==
    ASSUME TaskTypes, RunTypes, RunsSound, NEW marked, Supervisor!MarkTimedOut(marked)
    PROVE  /\ timed_out' \subseteq Tasks
           /\ reported' \in [Tasks -> Seq(Reports)]
           /\ ts' \in [Tasks -> {"none", "running", "cancelled", "ended", "gone"}]
           /\ \A t \in Tasks : MarkedAt(t, marked)
  <1> DEFINE late == (marked \cap Supervisor!Active) \ timed_out
  <1>1. /\ timed_out' = timed_out \cup late
        /\ reported' = [t \in Tasks |-> IF t \in late THEN Append(reported[t], "timeout")
                                        ELSE reported[t]]
        /\ ts' = [t \in Tasks |-> IF t \in late THEN "cancelled" ELSE ts[t]]
    BY DEF Supervisor!MarkTimedOut
  <1>2. /\ late \subseteq Tasks
        /\ \A t \in late : ts[t] \in {"running", "cancelled"} /\ t \notin timed_out
        /\ \A t \in (marked \cap Tasks) \ late : ts[t] \notin {"running", "cancelled"} \/ t \in timed_out
    BY DEF Supervisor!Active
  <1>3. \A t \in late : reported[t] = <<>>
    BY <1>2 DEF RunsSound, RunSound
  <1>4. "timeout" \in Reports
    BY DEF Reports
  <1> HIDE DEF late
  <1>5. ASSUME NEW t \in late
        PROVE  /\ Append(reported[t], "timeout") \in Seq(Reports)
               /\ Append(reported[t], "timeout") # <<>>
               /\ Head(Append(reported[t], "timeout")) = "timeout"
    <2>1. reported[t] \in Seq(Reports)
      BY <1>2 DEF RunTypes
    <2> QED BY <1>3, <1>4, <2>1, FirstStaysFirst
  <1>6. /\ timed_out' \subseteq Tasks
        /\ reported' \in [Tasks -> Seq(Reports)]
        /\ ts' \in [Tasks -> {"none", "running", "cancelled", "ended", "gone"}]
    BY <1>1, <1>2, <1>5 DEF RunTypes, TaskTypes
  <1>7. ASSUME NEW t \in Tasks
        PROVE  MarkedAt(t, marked)
    <2>1. CASE t \in late
      BY <1>1, <1>2, <1>5, <2>1 DEF MarkedAt
    <2>2. CASE t \notin late
      BY <1>1, <1>2, <2>2 DEF MarkedAt
    <2> QED BY <2>1, <2>2
  <1> QED BY <1>6, <1>7

LEMMA MarkedIsSound ==
    ASSUME NEW t \in Tasks, NEW marked, RunSound(t), MarkedAt(t, marked),
           result'[t] = result[t], run'[t] = run[t], answer'[t] = answer[t]
    PROVE  RunSound(t)'
  <1>1. CASE /\ ts'[t] = ts[t] /\ reported'[t] = reported[t]
             /\ t \in timed_out' <=> t \in timed_out
    BY <1>1, RestsKeeps DEF Rests
  <1>2. CASE /\ ts[t] \in {"running", "cancelled"} /\ ts'[t] = "cancelled"
             /\ t \in timed_out'
             /\ reported'[t] # <<>> /\ Head(reported'[t]) = "timeout"
    BY <1>2 DEF RunSound, RunWaits
  <1> QED BY <1>1, <1>2 DEF MarkedAt

RunInv == TaskTypes /\ RunTypes /\ RunsSound

LEMMA StartKeepsRuns ==
    ASSUME RunInv, GroupTypes, NEW t \in Tasks, Supervisor!Start(t)
    PROVE  RunInv'
  <1>t. TaskTypes /\ RunTypes /\ RunsSound
    BY DEF RunInv
  <1>1. ASSUME NEW gs \in SUBSET Tasks, Supervisor!Track(t, gs)
        PROVE  RunInv'
    <2>1. /\ ts[t] = "none" /\ ts' = [ts EXCEPT ![t] = "running"]
          /\ groups' = [groups EXCEPT ![t] = gs]
          /\ run' = [run EXCEPT ![t] = IF t \in Runners THEN "waiting" ELSE "none"]
          /\ UNCHANGED <<result, timed_out, reported, answer, closer, closing, past>>
      BY <1>1 DEF Supervisor!Track, Supervisor!closeVars
    <2>2. TaskTypes' /\ RunTypes'
      BY <2>1, <1>t DEF TaskTypes, RunTypes
    <2>3. ASSUME NEW u \in Tasks PROVE RunSound(u)'
      <3>1. RunSound(u)
        BY <1>t DEF RunsSound
      <3>2. CASE u # t
        <4>1. Rests(u)
          BY <2>1, <3>2, <1>t DEF Rests, TaskTypes, RunTypes
        <4> QED BY <3>1, <4>1, RestsKeeps
      <3>3. CASE u = t
        <4>1. /\ ts'[u] = "running" /\ run'[u] \in {"waiting", "none"}
              /\ u \notin timed_out' /\ reported'[u] = <<>> /\ answer'[u] = None
          BY <2>1, <3>1, <3>3, <1>t DEF RunSound, TaskTypes, RunTypes
        <4>2. None # "timeout" /\ None # "result"
          BY ServiceAssumption
        <4> QED BY <4>1, <4>2 DEF RunSound, RunWaits
      <3> QED BY <3>2, <3>3
    <2> QED BY <2>2, <2>3 DEF RunInv, RunsSound
  <1>2. CASE Supervisor!StartRoot(t)
    BY <1>1, <1>2 DEF Supervisor!StartRoot
  <1>3. CASE Supervisor!StartNested(t)
    <2>1. PICK u \in Tasks : Supervisor!Track(t, groups[u])
      BY <1>3 DEF Supervisor!StartNested, Supervisor!Active
    <2>2. groups[u] \in SUBSET Tasks
      BY <1>t DEF TaskTypes
    <2> QED BY <1>1, <2>1, <2>2
  <1>4. CASE Supervisor!StartScoped(t)
    <2>1. PICK gs \in {groups[u] : u \in Tasks} \cup {held[h] : h \in Holds} :
            Supervisor!Track(t, gs)
      BY <1>4 DEF Supervisor!StartScoped
    <2>2. gs \in SUBSET Tasks
      BY <2>1, <1>t DEF TaskTypes, GroupTypes
    <2> QED BY <1>1, <2>1, <2>2
  <1>5. CASE Supervisor!Adopt(t)
    <2>1. PICK u \in Tasks :
            /\ groups' = [groups EXCEPT ![t] = groups[t] \cup (groups[u] \ groups[t])]
            /\ UNCHANGED <<ts, result, timed_out, reported, run, answer, closer, closing, past>>
      BY <1>5 DEF Supervisor!Adopt, Supervisor!Active, Supervisor!runVars, Supervisor!closeVars
    <2>2. TaskTypes' /\ RunTypes'
      BY <2>1, <1>t DEF TaskTypes, RunTypes
    <2>3. ASSUME NEW v \in Tasks PROVE RunSound(v)'
      BY <2>1, <1>t, RestsKeeps DEF Rests, RunsSound
    <2> QED BY <2>2, <2>3 DEF RunInv, RunsSound
  <1> QED BY <1>2, <1>3, <1>4, <1>5 DEF Supervisor!Start

\* A task ends, and its callbacks run.
LEMMA EndKeepsRuns ==
    ASSUME RunInv, NEW t \in Tasks, Supervisor!TaskEnds(t) \/ Supervisor!TaskFinished(t)
    PROVE  RunInv'
  <1>t. TaskTypes /\ RunTypes /\ RunsSound
    BY DEF RunInv
  <1>1. CASE Supervisor!TaskEnds(t)
    <2>1. PICK o \in Supervisor!Results :
            /\ ts[t] \in {"running", "cancelled"} /\ ts' = [ts EXCEPT ![t] = "ended"]
            /\ result' = [result EXCEPT ![t] = o]
            /\ UNCHANGED <<groups, timed_out, reported, run, answer, closer, closing, past>>
      BY <1>1 DEF Supervisor!TaskEnds, Supervisor!Active, Supervisor!runVars, Supervisor!closeVars
    <2>2. TaskTypes' /\ RunTypes'
      BY <2>1, <1>t DEF TaskTypes, RunTypes
    <2>3. ASSUME NEW u \in Tasks PROVE RunSound(u)'
      <3>1. RunSound(u)
        BY <1>t DEF RunsSound
      <3>2. CASE u # t
        <4>1. Rests(u)
          BY <2>1, <3>2, <1>t DEF Rests, TaskTypes
        <4> QED BY <3>1, <4>1, RestsKeeps
      <3>3. CASE u = t
        <4>1. ts'[u] = "ended" /\ result'[u] \in Supervisor!Results
          BY <2>1, <3>3, <1>t DEF TaskTypes
        <4> QED BY <2>1, <3>1, <3>3, <4>1 DEF RunSound, RunWaits
      <3> QED BY <3>2, <3>3
    <2> QED BY <2>2, <2>3 DEF RunInv, RunsSound
  <1>2. CASE Supervisor!TaskFinished(t)
    <2>1. /\ ts[t] = "ended" /\ run[t] \notin {"timer", "cancelled"}
          /\ ts' = [ts EXCEPT ![t] = "gone"]
          /\ UNCHANGED <<result, groups, run, answer, closer, closing, past>>
      BY <1>2 DEF Supervisor!TaskFinished, Supervisor!closeVars
    <2>2. result[t] \in Supervisor!Results /\ RunSound(t)
      BY <2>1, <1>t DEF RunsSound, RunSound
    <2>3. CASE t \in timed_out
      <3>1. /\ reported' = reported
            /\ timed_out' = IF RunWaits(t) THEN timed_out ELSE timed_out \ {t}
        BY <1>2, <2>3 DEF Supervisor!TaskFinished, Supervisor!RunWaits, RunWaits
      <3>2. TaskTypes' /\ RunTypes'
        BY <2>1, <3>1, <1>t DEF TaskTypes, RunTypes
      <3>3. ASSUME NEW u \in Tasks, u # t PROVE RunSound(u)'
        <4>1. RunSound(u) /\ Rests(u)
          BY <2>1, <3>1, <3>3, <1>t DEF Rests, TaskTypes, RunsSound
        <4> QED BY <4>1, RestsKeeps
      <3>4. RunSound(t)'
        <4>1. ts'[t] = "gone" /\ (RunWaits(t) <=> t \in timed_out')
          BY <2>1, <2>3, <3>1, <1>t DEF TaskTypes
        <4> QED BY <2>1, <2>2, <2>3, <3>1, <4>1 DEF RunSound, RunWaits
      <3> QED BY <3>2, <3>3, <3>4 DEF RunInv, RunsSound
    <2>4. CASE t \notin timed_out
      <3>1. timed_out' = timed_out /\ reported' = [reported EXCEPT ![t] = Append(reported[t], result[t])]
        BY <1>2, <2>4 DEF Supervisor!TaskFinished
      <3>2. reported[t] \in Seq(Reports) /\ result[t] \in Reports
        BY <2>2, <1>t DEF RunTypes, Reports
      <3>3. /\ Append(reported[t], result[t]) \in Seq(Reports)
            /\ Append(reported[t], result[t]) # <<>>
            /\ reported[t] = <<>> => Head(Append(reported[t], result[t])) = result[t]
            /\ reported[t] # <<>> => Head(Append(reported[t], result[t])) = Head(reported[t])
        BY <3>2, FirstStaysFirst
      <3>4. /\ reported' \in [Tasks -> Seq(Reports)]
            /\ \A u \in Tasks : u # t => reported'[u] = reported[u]
            /\ reported'[t] = Append(reported[t], result[t])
        BY <3>1, <3>3, <1>t DEF RunTypes
      <3>5. TaskTypes' /\ RunTypes'
        BY <2>1, <3>1, <3>4, <1>t DEF TaskTypes, RunTypes
      <3>6. ASSUME NEW u \in Tasks, u # t PROVE RunSound(u)'
        <4>1. RunSound(u) /\ Rests(u)
          BY <2>1, <3>1, <3>4, <3>6, <1>t DEF Rests, TaskTypes, RunsSound
        <4> QED BY <4>1, RestsKeeps
      <3>7. RunSound(t)'
        <4>1. ts'[t] = "gone" /\ result'[t] = result[t] /\ run'[t] = run[t] /\ answer'[t] = answer[t]
          BY <2>1, <1>t DEF TaskTypes
        <4>2. /\ reported'[t] # <<>>
              /\ reported[t] = <<>> => Head(reported'[t]) = result[t]
              /\ reported[t] # <<>> => Head(reported'[t]) = Head(reported[t])
          BY <3>3, <3>4
        <4> QED BY <2>1, <2>2, <2>4, <3>1, <4>1, <4>2 DEF RunSound, RunWaits
      <3> QED BY <3>5, <3>6, <3>7 DEF RunInv, RunsSound
    <2> QED BY <2>3, <2>4
  <1> QED BY <1>1, <1>2

\* The deadline of a task, and the wake-ups and the end of the run() that started it.
LEMMA DeadlineKeepsRuns ==
    ASSUME RunInv, NEW t \in Tasks,
           \/ Supervisor!DeadlineExpired(t)
           \/ Supervisor!RunWakes(t) \/ Supervisor!RunCancelled(t)
    PROVE  RunInv'
  <1>t. TaskTypes /\ RunTypes /\ RunsSound
    BY DEF RunInv
  <1>1. CASE Supervisor!DeadlineExpired(t)
    <2>1. /\ Supervisor!MarkTimedOut({t})
          /\ UNCHANGED <<result, groups, run, answer, closer, closing, past>>
      BY <1>1 DEF Supervisor!DeadlineExpired, Supervisor!closeVars
    <2>2. /\ timed_out' \subseteq Tasks /\ reported' \in [Tasks -> Seq(Reports)]
          /\ ts' \in [Tasks -> {"none", "running", "cancelled", "ended", "gone"}]
          /\ \A u \in Tasks : MarkedAt(u, {t})
      BY <2>1, <1>t, MarkKeeps
    <2>3. TaskTypes' /\ RunTypes'
      BY <2>1, <2>2, <1>t DEF TaskTypes, RunTypes
    <2>4. ASSUME NEW u \in Tasks PROVE RunSound(u)'
      BY <2>1, <2>2, <1>t, MarkedIsSound DEF RunsSound
    <2> QED BY <2>3, <2>4 DEF RunInv, RunsSound
  <1>2. CASE Supervisor!RunWakes(t) \/ Supervisor!RunCancelled(t)
    <2>1. /\ run[t] = "waiting" /\ ts[t] \in {"running", "cancelled"}
          /\ \/ run' = [run EXCEPT ![t] = "timer"]
             \/ run' = [run EXCEPT ![t] = "cancelled"]
          /\ UNCHANGED <<ts, result, groups, timed_out, reported, answer, closer, closing, past>>
      BY <1>2 DEF Supervisor!RunWakes, Supervisor!RunCancelled, Supervisor!Active,
                  Supervisor!taskVars, Supervisor!closeVars
    <2>2. TaskTypes' /\ RunTypes'
      BY <2>1, <1>t DEF TaskTypes, RunTypes
    <2>3. ASSUME NEW u \in Tasks, u # t PROVE RunSound(u)'
      <3>1. RunSound(u) /\ Rests(u)
        BY <2>1, <2>3, <1>t DEF Rests, RunTypes, RunsSound
      <3> QED BY <3>1, RestsKeeps
    <2>4. RunSound(t)'
      <3>1. RunSound(t) /\ run'[t] \in {"timer", "cancelled"}
        BY <2>1, <1>t DEF RunTypes, RunsSound
      <3> QED BY <2>1, <3>1 DEF RunSound, RunWaits
    <2> QED BY <2>2, <2>3, <2>4 DEF RunInv, RunsSound
  <1> QED BY <1>1, <1>2

LEMMA ResumeKeepsRuns ==
    ASSUME RunInv, NEW t \in Tasks, Supervisor!RunResumes(t) PROVE RunInv'
  <1>t. TaskTypes /\ RunTypes /\ RunsSound
    BY DEF RunInv
  <1> DEFINE gives == IF run[t] = "cancelled" THEN "cancelled"
                      ELSE IF t \in Supervisor!Active \cup timed_out THEN "timeout" ELSE "result"
             marked == IF run[t] = "timer" THEN {t} ELSE {}
  <1>1. /\ run[t] \in {"timer", "cancelled"} \/ (run[t] = "waiting" /\ ts[t] = "gone")
        /\ answer' = [answer EXCEPT ![t] = gives]
        /\ run' = [run EXCEPT ![t] = "over"]
        /\ UNCHANGED <<result, groups, closer, closing, past>>
    BY DEF Supervisor!RunResumes, Supervisor!RunLeaves, Supervisor!closeVars
  <1>2. \/ t \in Supervisor!Active /\ Supervisor!MarkTimedOut(marked)
        \/ /\ t \notin Supervisor!Active
           /\ timed_out' = timed_out \ {t} /\ UNCHANGED <<ts, reported>>
    BY DEF Supervisor!RunResumes, Supervisor!RunLeaves
  <1>3. /\ gives \in {"timeout", "result", "cancelled"}
        /\ gives = "cancelled" => run[t] = "cancelled"
        /\ gives = "timeout" => run[t] # "cancelled" /\ (t \in Supervisor!Active \/ t \in timed_out)
        /\ gives = "result" => run[t] # "cancelled" /\ t \notin Supervisor!Active /\ t \notin timed_out
    OBVIOUS
  <1>4. t \in Supervisor!Active <=> ts[t] \in {"running", "cancelled"}
    BY DEF Supervisor!Active
  <1> HIDE DEF gives
  <1>5. /\ answer' \in [Tasks -> {"timeout", "result", "cancelled", None}]
        /\ run' \in [Tasks -> {"none", "waiting", "timer", "cancelled", "over"}]
        /\ answer'[t] = gives /\ run'[t] = "over"
        /\ \A u \in Tasks : u # t => answer'[u] = answer[u] /\ run'[u] = run[u]
    BY <1>1, <1>3, <1>t DEF RunTypes
  <1>6. RunSound(t) /\ ts[t] \in {"none", "running", "cancelled", "ended", "gone"} /\ None # gives
    BY <1>3, <1>t, ServiceAssumption DEF RunsSound, TaskTypes
  <1>7. CASE t \in Supervisor!Active
    <2>1. /\ timed_out' \subseteq Tasks /\ reported' \in [Tasks -> Seq(Reports)]
          /\ ts' \in [Tasks -> {"none", "running", "cancelled", "ended", "gone"}]
          /\ \A u \in Tasks : MarkedAt(u, marked)
      BY <1>2, <1>7, <1>t, MarkKeeps
    <2>2. TaskTypes' /\ RunTypes'
      BY <1>1, <1>5, <2>1, <1>t DEF TaskTypes, RunTypes
    <2>3. ASSUME NEW u \in Tasks, u # t PROVE RunSound(u)'
      BY <1>1, <1>5, <2>1, <2>3, <1>t, MarkedIsSound DEF RunsSound
    <2>4. RunSound(t)'
      <3>1. MarkedAt(t, marked) /\ result'[t] = result[t]
        BY <1>1, <2>1
      <3>2. /\ ts'[t] \in {"running", "cancelled"}
            /\ t \in timed_out' =>
                 ts'[t] # "running" /\ reported'[t] # <<>> /\ Head(reported'[t]) = "timeout"
            /\ t \notin timed_out' => reported'[t] = <<>>
            /\ t \in marked => t \in timed_out'
            /\ t \in timed_out => t \in timed_out'
        BY <1>4, <1>6, <1>7, <3>1 DEF MarkedAt, RunSound
      <3>3. run[t] = "timer" \/ run[t] = "cancelled"
        BY <1>1, <1>4, <1>7
      <3>4. gives \in {"timeout", "cancelled"} /\ (gives = "timeout" => t \in timed_out')
        BY <1>3, <1>7, <3>2, <3>3
      <3> QED BY <1>5, <3>1, <3>2, <3>4 DEF RunSound, RunWaits
    <2> QED BY <2>2, <2>3, <2>4 DEF RunInv, RunsSound
  <1>8. CASE t \notin Supervisor!Active
    <2>1. timed_out' = timed_out \ {t} /\ UNCHANGED <<ts, reported>>
      BY <1>2, <1>8
    <2>2. TaskTypes' /\ RunTypes'
      BY <1>1, <1>5, <2>1, <1>t DEF TaskTypes, RunTypes
    <2>3. ASSUME NEW u \in Tasks, u # t PROVE RunSound(u)'
      <3>1. RunSound(u) /\ Rests(u)
        BY <1>1, <1>5, <2>1, <2>3, <1>t DEF Rests, RunsSound
      <3> QED BY <3>1, RestsKeeps
    <2>4. RunSound(t)'
      <3>1. ts[t] \in {"ended", "gone"} /\ (ts[t] = "gone" => run[t] = "waiting")
        BY <1>1, <1>4, <1>6, <1>8 DEF RunSound
      <3>2. /\ ts'[t] = ts[t] /\ reported'[t] = reported[t] /\ result'[t] = result[t]
            /\ t \notin timed_out'
        BY <1>1, <2>1
      <3>3. gives = "timeout" => t \in timed_out
        BY <1>3, <1>8
      <3>4. gives = "result" => t \notin timed_out
        BY <1>3
      <3>5. RunWaits(t)
        BY <1>1 DEF RunWaits
      <3> QED BY <1>3, <1>5, <1>6, <3>1, <3>2, <3>3, <3>4, <3>5 DEF RunSound, RunWaits
    <2> QED BY <2>2, <2>3, <2>4 DEF RunInv, RunsSound
  <1> QED BY <1>7, <1>8

\* The shutdown of the supervisor cancels and marks, and leaves run() alone.
LEMMA CloseKeepsRuns ==
    ASSUME RunInv,
           Supervisor!CloseBegins \/ Supervisor!CloserStep \/ Supervisor!ShutdownDeadline
    PROVE  RunInv'
  <1>t. TaskTypes /\ RunTypes /\ RunsSound
    BY DEF RunInv
  <1>1. UNCHANGED <<result, groups, run, answer>>
    BY DEF Supervisor!CloseBegins, Supervisor!CloserStep, Supervisor!ShutdownDeadline,
           Supervisor!CloseFindsNone, Supervisor!CloseWaitEnds, Supervisor!CloseSettles,
           Supervisor!CloseReturns, Supervisor!taskVars, Supervisor!runVars
  <1>2. /\ closer' \in {"idle", "empty", "wait", "settle", "last", "done"}
        /\ closing' \subseteq Tasks /\ past' \in BOOLEAN
    BY <1>t
    DEF TaskTypes, Supervisor!CloseBegins, Supervisor!CloserStep, Supervisor!ShutdownDeadline,
        Supervisor!CloseFindsNone, Supervisor!CloseWaitEnds, Supervisor!CloseSettles,
        Supervisor!CloseReturns, Supervisor!CloseLoops, Supervisor!Tracked
  <1>3. \/ \E marked : Supervisor!MarkTimedOut(marked)
        \/ Supervisor!CloseLoops /\ UNCHANGED <<timed_out, reported>>
        \/ UNCHANGED <<ts, timed_out, reported>>
    BY DEF Supervisor!CloseBegins, Supervisor!CloserStep, Supervisor!ShutdownDeadline,
           Supervisor!CloseFindsNone, Supervisor!CloseWaitEnds, Supervisor!CloseSettles,
           Supervisor!CloseReturns, Supervisor!taskVars, Supervisor!runVars
  <1>4. ASSUME NEW marked, Supervisor!MarkTimedOut(marked) PROVE RunInv'
    <2>1. /\ timed_out' \subseteq Tasks /\ reported' \in [Tasks -> Seq(Reports)]
          /\ ts' \in [Tasks -> {"none", "running", "cancelled", "ended", "gone"}]
          /\ \A u \in Tasks : MarkedAt(u, marked)
      BY <1>4, <1>t, MarkKeeps
    <2>2. TaskTypes' /\ RunTypes'
      BY <1>1, <1>2, <2>1, <1>t DEF TaskTypes, RunTypes
    <2>3. ASSUME NEW u \in Tasks PROVE RunSound(u)'
      BY <1>1, <2>1, <1>t, MarkedIsSound DEF RunsSound
    <2> QED BY <2>2, <2>3 DEF RunInv, RunsSound
  <1>5. ASSUME UNCHANGED <<timed_out, reported>>,
               ts' = [u \in Tasks |-> IF u \in Supervisor!Active THEN "cancelled" ELSE ts[u]]
        PROVE  RunInv'
    <2>1. TaskTypes' /\ RunTypes'
      BY <1>1, <1>2, <1>5, <1>t DEF TaskTypes, RunTypes
    <2>2. ASSUME NEW u \in Tasks PROVE RunSound(u)'
      <3>1. RunSound(u)
        BY <1>t DEF RunsSound
      <3>2. \/ ts'[u] = ts[u]
            \/ ts[u] \in {"running", "cancelled"} /\ ts'[u] = "cancelled"
        BY <1>5 DEF Supervisor!Active
      <3> QED BY <1>1, <1>5, <3>1, <3>2 DEF RunSound, RunWaits
    <2> QED BY <2>1, <2>2 DEF RunInv, RunsSound
  <1>6. ASSUME UNCHANGED <<ts, timed_out, reported>> PROVE RunInv'
    <2>1. TaskTypes' /\ RunTypes'
      BY <1>1, <1>2, <1>6, <1>t DEF TaskTypes, RunTypes
    <2>2. ASSUME NEW u \in Tasks PROVE RunSound(u)'
      BY <1>1, <1>6, <1>t, RestsKeeps DEF Rests, RunsSound
    <2> QED BY <2>1, <2>2 DEF RunInv, RunsSound
  <1>7. Supervisor!CloseLoops =>
          ts' = [u \in Tasks |-> IF u \in Supervisor!Active THEN "cancelled" ELSE ts[u]]
    BY DEF Supervisor!CloseLoops
  <1> QED BY <1>3, <1>4, <1>5, <1>6, <1>7

LEMMA RunsKeep ==
    ASSUME RunInv, GroupTypes, Supervisor!Next PROVE RunInv'
  <1>1. ASSUME UNCHANGED <<ts, result, groups, timed_out, reported, run, answer, closer, closing, past>>
        PROVE  RunInv'
    <2>1. TaskTypes /\ RunTypes /\ RunsSound
      BY DEF RunInv
    <2>2. TaskTypes' /\ RunTypes'
      BY <1>1, <2>1 DEF TaskTypes, RunTypes
    <2>3. ASSUME NEW u \in Tasks PROVE RunSound(u)'
      BY <1>1, <2>1, RestsKeeps DEF Rests, RunsSound
    <2> QED BY <2>2, <2>3 DEF RunInv, RunsSound
  <1>2. ASSUME NEW h \in Holds, Supervisor!Retain(h) \/ Supervisor!Release(h) PROVE RunInv'
    BY <1>1, <1>2 DEF Supervisor!Retain, Supervisor!Release, Supervisor!taskVars,
                      Supervisor!runVars, Supervisor!closeVars
  <1>3. ASSUME NEW w \in Waiters,
               \/ Supervisor!WaitBegins(w) \/ Supervisor!WaitResumes(w)
               \/ Supervisor!WaitCancelled(w)
        PROVE  RunInv'
    BY <1>1, <1>3 DEF Supervisor!WaitBegins, Supervisor!WaitResumes, Supervisor!WaitCancelled,
                      Supervisor!taskVars, Supervisor!runVars, Supervisor!closeVars
  <1> QED BY <1>2, <1>3, StartKeepsRuns, EndKeepsRuns, DeadlineKeepsRuns, ResumeKeepsRuns,
             CloseKeepsRuns DEF Supervisor!Next

-----------------------------------------------------------------------------
SupervisorInv == RunInv /\ GroupsInv

LEMMA SupervisorTyped == ASSUME SupervisorInv PROVE Supervisor!TypeOK
  BY DEF SupervisorInv, RunInv, TaskTypes, RunTypes, GroupsInv, GroupTypes, Supervisor!TypeOK,
         Reports

LEMMA SupervisorBegins == ASSUME ServiceInit PROVE SupervisorInv
  <1>1. /\ ts = [t \in Tasks |-> "none"] /\ result = [t \in Tasks |-> None]
        /\ groups = [t \in Tasks |-> {}] /\ timed_out = {} /\ reported = [t \in Tasks |-> <<>>]
        /\ run = [t \in Tasks |-> "none"] /\ answer = [t \in Tasks |-> None]
        /\ held = [h \in Holds |-> {}] /\ group_holds = [g \in Tasks |-> 0]
        /\ event = [g \in Tasks |-> None] /\ set = {}
        /\ waiter = [w \in Waiters |-> Supervisor!Idle]
        /\ closer = "idle" /\ closing = {} /\ past = FALSE
    BY DEF ServiceInit, Supervisor!Init
  <1>2. GroupTypes
    BY <1>1 DEF GroupTypes, Supervisor!Idle
  <1>3. EventsSound
    BY <1>1 DEF EventsSound, InUse
  <1>4. HoldsCounted
    <2>1. \A g : Holders(g) = {}
      BY <1>1 DEF Holders
    <2>2. Cardinality({}) = 0
      BY FS_EmptySet
    <2> QED BY <1>1, <2>1, <2>2 DEF HoldsCounted
  <1>5. TaskTypes /\ RunTypes
    <2>1. <<>> \in Seq(Reports)
      OBVIOUS
    <2> QED BY <1>1, <2>1 DEF TaskTypes, RunTypes
  <1>6. RunsSound
    <2>1. None # "timeout" /\ None # "result"
      BY ServiceAssumption
    <2> QED BY <1>1, <2>1 DEF RunsSound, RunSound, RunWaits
  <1> QED BY <1>2, <1>3, <1>4, <1>5, <1>6 DEF SupervisorInv, RunInv, GroupsInv

LEMMA SupervisorKeeps ==
    ASSUME SupervisorInv, [ServiceNext]_serviceVars PROVE SupervisorInv'
  <1>1. Supervisor!Next \/ UNCHANGED supervisorVars
    BY DEF ServiceNext, serviceVars, supervisorVars
  <1>2. RunInv /\ GroupsInv /\ GroupTypes
    BY DEF SupervisorInv, GroupsInv
  <1>3. CASE Supervisor!Next
    BY <1>2, <1>3, SupervisorTyped, RunsKeep, GroupsKeep DEF SupervisorInv
  <1>4. CASE UNCHANGED supervisorVars
    <2>1. GroupsInv'
      BY <1>2, <1>4, SameWork DEF supervisorVars, GroupsInv
    <2>2. TaskTypes' /\ RunTypes'
      BY <1>2, <1>4 DEF supervisorVars, RunInv, TaskTypes, RunTypes
    <2>3. RunsSound'
      BY <1>2, <1>4, RestsKeeps DEF supervisorVars, RunInv, RunsSound, Rests
    <2> QED BY <2>1, <2>2, <2>3 DEF SupervisorInv, RunInv
  <1> QED BY <1>1, <1>3, <1>4

\* Who waits for a group of cleanups waits on the event that its last task or hold will
\* set, as long as there is work, and never loops on an event that is already set; the
\* holds of a group are counted exactly (cleanup.py:172, 229 and 394).
THEOREM NoWaiterIsLost == ServiceSpec => []GroupsAreAwaited
  <1>1. SupervisorInv => GroupsAreAwaited
    <2> SUFFICES ASSUME SupervisorInv PROVE GroupsAreAwaited
      OBVIOUS
    <2>1. Supervisor!TypeOK /\ GroupTypes /\ EventsSound /\ HoldsCounted
      BY SupervisorTyped DEF SupervisorInv, GroupsInv
    <2>2. \A g : Supervisor!Busy(g) <=> Work(g, ts, groups, group_holds)
      BY DEF Supervisor!Busy, Supervisor!Members, Supervisor!Tracked, Work, Alive
    <2>3. Supervisor!NoLostWaiter /\ Supervisor!SetMeansIdle
      BY <2>1, <2>2 DEF Supervisor!NoLostWaiter, Supervisor!SetMeansIdle, EventsSound
    <2>4. Supervisor!HoldsExact
      BY <2>1, HoldersCount DEF Supervisor!HoldsExact, HoldsCounted, Holders
    <2> QED BY <2>1, <2>3, <2>4 DEF GroupsAreAwaited
  <1> QED BY <1>1, SupervisorBegins, SupervisorKeeps, PTL DEF ServiceSpec

\* What run() tells its caller is the outcome that was reported first, and no mark of a
\* deadline outlives its task and its run() (cleanup.py:258, 268 and 323).
THEOREM AnswersAreTrue == ServiceSpec => []RunsAnswerTruly
  <1>1. SupervisorInv => RunsAnswerTruly
    <2> SUFFICES ASSUME SupervisorInv PROVE RunsAnswerTruly
      OBVIOUS
    <2>1. Supervisor!TypeOK /\ RunsSound /\ timed_out \subseteq Tasks
      BY SupervisorTyped DEF SupervisorInv, RunInv, RunTypes
    <2>2. Supervisor!AnswerMatchesOutcome
      BY <2>1 DEF Supervisor!AnswerMatchesOutcome, RunsSound, RunSound
    <2>3. Supervisor!TimedOutForgotten
      BY <2>1 DEF Supervisor!TimedOutForgotten, RunsSound, RunSound, RunWaits, Supervisor!RunWaits
    <2> QED BY <2>1, <2>2, <2>3 DEF RunsAnswerTruly
  <1> QED BY <1>1, SupervisorBegins, SupervisorKeeps, PTL DEF ServiceSpec

\* Whatever is registered while close() of the supervisor drains, when it returns for want of
\* tasks or gives up at its deadline nothing is at work that was not asked to stop and
\* reported (cleanup.py:292 and 304).
THEOREM CloseLeavesNobodyUntold == ServiceSpec => Supervisor!CloseTellsAll
  <1> DEFINE Leaves == /\ closer # "last" /\ closer' \in {"last", "done"} /\ closer' # closer
             Told == \A t \in Supervisor!Active' : ts'[t] = "cancelled" /\ t \in timed_out'
  <1>1. ASSUME SupervisorInv, Supervisor!Next, Leaves PROVE Told
    <2>t. TaskTypes /\ RunTypes /\ RunsSound
      BY <1>1 DEF SupervisorInv, RunInv
    <2>1. \/ Supervisor!CloseFindsNone /\ closer' = "done"
          \/ Supervisor!CloseSettles /\ closer' = "last"
      <3>1. closer' # closer => Supervisor!CloseBegins \/ Supervisor!CloserStep
        BY <1>1
        DEF Supervisor!Next, Supervisor!closeVars, Supervisor!Start, Supervisor!StartRoot,
            Supervisor!StartNested, Supervisor!StartScoped, Supervisor!Adopt, Supervisor!Track,
            Supervisor!TaskEnds, Supervisor!TaskFinished, Supervisor!DeadlineExpired,
            Supervisor!RunWakes, Supervisor!RunCancelled, Supervisor!RunResumes,
            Supervisor!Retain, Supervisor!Release, Supervisor!WaitBegins,
            Supervisor!WaitResumes, Supervisor!WaitCancelled, Supervisor!ShutdownDeadline
      <3> QED BY <1>1, <3>1
          DEF Supervisor!CloseBegins, Supervisor!CloserStep, Supervisor!CloseFindsNone,
              Supervisor!CloseWaitEnds, Supervisor!CloseSettles, Supervisor!CloseReturns,
              Supervisor!CloseLoops
    <2>2. CASE Supervisor!CloseFindsNone /\ closer' = "done"
      <3>1. Supervisor!Tracked = {} /\ ts' = ts
        BY <2>2 DEF Supervisor!CloseFindsNone, Supervisor!CloseLoops
      <3>2. Supervisor!Active' = {}
        BY <3>1 DEF Supervisor!Active, Supervisor!Tracked
      <3> QED BY <3>2
    <2>3. CASE Supervisor!CloseSettles /\ closer' = "last"
      <3>1. Supervisor!MarkTimedOut(Supervisor!Tracked)
        BY <2>3 DEF Supervisor!CloseSettles, Supervisor!CloseLoops
      <3>2. \A t \in Tasks : MarkedAt(t, Supervisor!Tracked)
        BY <2>t, <3>1, MarkKeeps
      <3>3. ASSUME NEW t \in Tasks, ts'[t] \in {"running", "cancelled"}
            PROVE  ts'[t] = "cancelled" /\ t \in timed_out'
        <4>1. RunSound(t) /\ MarkedAt(t, Supervisor!Tracked)
          BY <2>t, <3>2 DEF RunsSound
        <4>2. ts[t] \in {"running", "cancelled"} => t \in Supervisor!Tracked
          BY DEF Supervisor!Tracked
        <4> QED BY <3>3, <4>1, <4>2 DEF MarkedAt, RunSound
      <3> QED BY <3>3 DEF Supervisor!Active
    <2> QED BY <2>1, <2>2, <2>3
  <1>2. SupervisorInv /\ [ServiceNext]_serviceVars => [Leaves => Told]_(Supervisor!vars)
    <2> SUFFICES ASSUME SupervisorInv, [ServiceNext]_serviceVars, Leaves PROVE Told
      OBVIOUS
    <2>1. Supervisor!Next \/ UNCHANGED supervisorVars
      BY DEF ServiceNext, serviceVars, supervisorVars
    <2>2. ~(UNCHANGED supervisorVars)
      BY DEF supervisorVars
    <2> QED BY <1>1, <2>1, <2>2
  <1> QED BY <1>2, SupervisorBegins, SupervisorKeeps, PTL DEF ServiceSpec, Supervisor!CloseTellsAll
=============================================================================
