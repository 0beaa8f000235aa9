--------------------------- MODULE ReceiptContract ---------------------------
(***************************************************************************)
(* What a consumer of events may rely on: however often and by however     *)
(* many requests an event is delivered, it takes effect at most once, for  *)
(* one reading of its envelope, and every answer is the answer of that     *)
(* one execution.                                                          *)
(***************************************************************************)
EXTENDS Naturals

CONSTANTS Ids, Digests, Results

VARIABLES
    outcome,    \* outcome[i]: the digest and result event i was consumed with
    effects,    \* effects[i]: how often the block of event i was committed
    told        \* told[i]: what the deliveries of i were answered with

contractVars == <<outcome, effects, told>>

NotConsumed == [digest |-> "none", result |-> "none"]

Init == /\ outcome = [i \in Ids |-> NotConsumed]
        /\ effects = [i \in Ids |-> 0]
        /\ told = [i \in Ids |-> {}]

Consume(i, d, x) ==
    /\ outcome[i] = NotConsumed
    /\ outcome' = [outcome EXCEPT ![i] = [digest |-> d, result |-> x]]
    /\ effects' = [effects EXCEPT ![i] = 1]
    /\ told' = [told EXCEPT ![i] = {outcome'[i]}]

Replay(i) ==
    /\ outcome[i] # NotConsumed
    /\ told' = [told EXCEPT ![i] = @ \cup {outcome[i]}]
    /\ UNCHANGED <<outcome, effects>>

Next == \E i \in Ids : \/ \E d \in Digests, x \in Results : Consume(i, d, x)
                       \/ Replay(i)

Spec == Init /\ [][Next]_contractVars
=============================================================================
