---------------------------- MODULE BrowserLeases ----------------------------
(***************************************************************************)
(* What the browser pool promises to its callers, whatever its background  *)
(* tasks do: a leased context lives on a browser in service; a browser     *)
(* leaves service only when nobody holds one of its contexts; a condemned  *)
(* browser is leased to nobody and never rehabilitated; no lease starts    *)
(* and no browser enters once the pool is shut.                            *)
(***************************************************************************)
EXTENDS Integers, FiniteSets

CONSTANTS Browsers, Requests, NoBrowser, MaxContexts

VARIABLES lease,      \* request -> the browser it holds a context of, or NoBrowser
          serving,    \* browsers that may be leased
          condemned,  \* browsers that only finish the leases they have
          open        \* the pool accepts requests

leaseVars == <<lease, serving, condemned, open>>

Init ==
    /\ lease = [r \in Requests |-> NoBrowser]
    /\ serving = {}
    /\ condemned = {}
    /\ open = TRUE

\* The browsers in bad are condemned and those in gone leave service, in a step
\* after which nobody holds a context of a browser that is gone.
Withdraw(bad, gone) ==
    /\ bad \subseteq serving
    /\ gone \subseteq serving \cup condemned
    /\ serving' = serving \ (bad \cup gone)
    /\ condemned' = (condemned \cup bad) \ gone
    /\ \A r \in Requests : lease'[r] \notin gone

Admit(new) ==
    /\ open
    /\ new \cap (serving \cup condemned) = {}
    /\ serving' = serving \cup new
    /\ UNCHANGED <<lease, condemned, open>>

Lease(r, b, bad, gone) ==
    /\ open
    /\ lease[r] = NoBrowser
    /\ b \in serving \ (bad \cup gone)
    /\ Cardinality({q \in Requests : lease[q] = b}) < MaxContexts
    /\ lease' = [lease EXCEPT ![r] = b]
    /\ Withdraw(bad, gone)
    /\ UNCHANGED open

Return(r, bad, gone) ==
    /\ lease[r] # NoBrowser
    /\ lease' = [lease EXCEPT ![r] = NoBrowser]
    /\ Withdraw(bad, gone)
    /\ UNCHANGED open

Retire(bad, gone) ==
    /\ UNCHANGED <<lease, open>>
    /\ Withdraw(bad, gone)

\* Shutting the pool condemns every browser that does not leave at once.
Shut(gone) ==
    /\ open' = FALSE
    /\ UNCHANGED lease
    /\ Withdraw(serving \ gone, gone)

Next ==
    \/ \E new \in SUBSET Browsers : Admit(new)
    \/ \E bad, gone \in SUBSET Browsers :
         \/ \E r \in Requests : \/ \E b \in Browsers : Lease(r, b, bad, gone)
                                \/ Return(r, bad, gone)
         \/ Retire(bad, gone)
    \/ \E gone \in SUBSET Browsers : Shut(gone)

Spec == Init /\ [][Next]_leaseVars
=============================================================================
