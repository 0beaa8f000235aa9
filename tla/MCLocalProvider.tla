--------------------------- MODULE MCLocalProvider ---------------------------
(***************************************************************************)
(* Two images, one alias, one user at a time.                              *)
(***************************************************************************)
EXTENDS LocalProvider, TLC

CONSTANTS d1, d2, a1, c1

Images == {d1, d2}
OneAlias == {a1}
OneClient == {c1}

Symmetry == Permutations(Images)

\* One fault with both images, three with the promotions of one.
Explored ==
    \/ faults <= 1
    \/ /\ Cardinality({d \in Deployments : dep[d].status # "none"}) <= 1
       /\ \A a \in Aliases : alias[a].version <= 1
=============================================================================
