------------------------------ MODULE SessionIds ------------------------------
(***************************************************************************)
(* What the session manager of src/camouflare/sessions.py promises to its  *)
(* clients: an id names at most one session, it stays reserved until the   *)
(* resources of that session are gone, and reserved ids count against the  *)
(* limit.  Locks, closing tasks and half-built contexts do not appear.     *)
(***************************************************************************)
EXTENDS Naturals, FiniteSets

CONSTANTS Ids,          \* session ids
          MaxSessions   \* MAX_SESSIONS

VARIABLES live,         \* ids of registered sessions
          reserved      \* ids whose session is going away

TypeOK == live \subseteq Ids /\ reserved \subseteq Ids

Init == live = {} /\ reserved = {}

Register(i) ==
    /\ i \notin live \cup reserved
    /\ Cardinality(live) + Cardinality(reserved) < MaxSessions
    /\ live' = live \cup {i}
    /\ UNCHANGED reserved

\* Expiry, eviction, destruction and shutdown remove several sessions at once.
Withdraw(ids) ==
    /\ ids # {}
    /\ ids \subseteq live
    /\ live' = live \ ids
    /\ reserved' = reserved \cup ids

Release(i) ==
    /\ i \in reserved
    /\ reserved' = reserved \ {i}
    /\ UNCHANGED live

Next ==
    \/ \E i \in Ids : Register(i) \/ Release(i)
    \/ \E ids \in SUBSET live : Withdraw(ids)

Spec == Init /\ [][Next]_<<live, reserved>>
=============================================================================
