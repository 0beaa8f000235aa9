------------------------------- MODULE MCRails -------------------------------
(***************************************************************************)
(* What the control plane relies on: the locks of its transactions         *)
(* (RowLocks), the idempotency keys of its API (ApiIdempotency), the       *)
(* budgets of sign-in links (RequestLimiter) and the election of its owner *)
(* (AccountAccess).  part is the one that runs.                            *)
(***************************************************************************)
EXTENDS RowLocks, ApiIdempotency, RequestLimiter, AccountAccess

VARIABLE part

RailsInit ==
    /\ part \in {"locks", "api", "limiter", "access"}
    /\ LocksInit /\ Init /\ LimiterInit /\ AccessInit

RailsNext ==
    /\ UNCHANGED part
    /\ \/ part = "locks" /\ LocksNext /\ UNCHANGED <<vars, limiterVars, accessVars>>
       \/ part = "api" /\ Next /\ UNCHANGED <<lockVars, limiterVars, accessVars>>
       \/ part = "limiter" /\ LimiterNext /\ UNCHANGED <<lockVars, vars, accessVars>>
       \/ part = "access" /\ AccessNext /\ UNCHANGED <<lockVars, vars, limiterVars>>

RailsSpec == RailsInit /\ [][RailsNext]_<<part, lockVars, vars, limiterVars, accessVars>>

ASSUME LimiterAssumption /\ AccessAssumption
=============================================================================
