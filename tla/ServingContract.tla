--------------------------- MODULE ServingContract ---------------------------
(***************************************************************************)
(* What the control plane promises about traffic: an alias only ever       *)
(* points at a live deployment, a deployment that serves an alias is not   *)
(* taken down, and a deployment that was closed stays closed.              *)
(***************************************************************************)
CONSTANTS Deployments, Aliases

VARIABLES
    phase,      \* phase[d]: "none", "open", "live", "closing" or "closed"
    serves      \* serves[a]: the deployment alias a routes to, or "none"

contractVars == <<phase, serves>>

Init == /\ phase = [d \in Deployments |-> "none"]
        /\ serves = [a \in Aliases |-> "none"]

Serving(d) == \E a \in Aliases : serves[a] = d

\* The life of one deployment: it may fail or be canceled before it is live,
\* and is closed after that only while nothing routes to it.
Advance(d, p) ==
    /\ \/ phase[d] = "none" /\ p = "open"
       \/ phase[d] = "open" /\ p \in {"live", "closing", "closed"}
       \/ phase[d] = "live" /\ p = "closing" /\ ~Serving(d)
       \/ phase[d] = "closing" /\ p = "closed"
    /\ phase' = [phase EXCEPT ![d] = p]
    /\ UNCHANGED serves

Route(a, d) ==
    /\ phase[d] = "live"
    /\ serves' = [serves EXCEPT ![a] = d]
    /\ UNCHANGED phase

Next == \E d \in Deployments :
            \/ \E p \in {"open", "live", "closing", "closed"} : Advance(d, p)
            \/ \E a \in Aliases : Route(a, d)

Spec == Init /\ [][Next]_contractVars
=============================================================================
