------------------------------ MODULE MCDelivery ------------------------------
(***************************************************************************)
(* What the control plane sends and is sent: the commands of its outbox    *)
(* (Outbox), the callbacks it answers (EventConsumer), and the webhooks of *)
(* a Git provider (GitWebhooks).  They share no state, so that an          *)
(* interleaving of them says nothing that the behaviours of one do not     *)
(* say: part is the one that runs.                                         *)
(***************************************************************************)
EXTENDS Outbox, EventConsumer, GitWebhooks, TLC

CONSTANTS e1, e2, w1, w2, i1, i2, d1, d2, x1, x2, r1, r2, r3

VARIABLE part

\* Two rows and two workers that both ask for every type.
TwoEvents == {e1, e2}
TwoWorkers == {w1, w2}
AllHandleAll == [w \in TwoWorkers |-> TwoEvents]

\* Three threads deliver two readings of two events.
TwoIds == {i1, i2}
TwoDigests == {d1, d2}
TwoResults == {x1, x2}
ThreeRequests == {r1, r2, r3}

Interchangeable == Permutations(TwoEvents) \cup Permutations(TwoWorkers)
-----------------------------------------------------------------------------
DeliveryInit ==
    /\ part \in {"outbox", "consumer", "webhooks"}
    /\ Init /\ ConsumerInit /\ GitInit
    /\ part # "webhooks" => selected = {}

DeliveryNext ==
    /\ UNCHANGED part
    /\ \/ part = "outbox" /\ Next /\ UNCHANGED <<consumerVars, gitVars>>
       \/ part = "consumer" /\ ConsumerNext /\ UNCHANGED <<vars, gitVars>>
       \/ part = "webhooks" /\ GitNext /\ UNCHANGED <<vars, consumerVars>>

DeliverySpec == DeliveryInit /\ [][DeliveryNext]_<<part, vars, consumerVars, gitVars>>
=============================================================================
