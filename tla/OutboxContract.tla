--------------------------- MODULE OutboxContract ---------------------------
(***************************************************************************)
(* What the outbox promises to the code that publishes into it: an event   *)
(* that is published stays open until it is closed once, as published      *)
(* (some worker carried it out) or as dead.                                *)
(***************************************************************************)
CONSTANTS Events

VARIABLES
    state,      \* state[e]: "none", "open", "published" or "dead"
    processed   \* the events whose work was carried out at least once

contractVars == <<state, processed>>

Init == state = [e \in Events |-> "none"] /\ processed = {}

Open(e) == /\ state[e] = "none"
           /\ state' = [state EXCEPT ![e] = "open"]
           /\ UNCHANGED processed

\* The work may be carried out again, also after the event was closed.
CarryOut(e) == /\ state[e] # "none"
               /\ processed' = processed \cup {e}
               /\ UNCHANGED state

Close(e, s) == /\ state[e] = "open"
               /\ s = "published" => e \in processed
               /\ state' = [state EXCEPT ![e] = s]
               /\ UNCHANGED processed

Next == \E e \in Events : \/ Open(e)
                          \/ CarryOut(e)
                          \/ \E s \in {"published", "dead"} : Close(e, s)

Spec == Init /\ [][Next]_contractVars
=============================================================================
