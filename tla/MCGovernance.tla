---------------------------- MODULE MCGovernance ----------------------------
(* A small instance of Governance: three pages of sources and a manual one. *)
EXTENDS Governance, TLC

CONSTANTS s, m, g1, g2, g3, g4, c1, b1, b2

\* One page, still where it was allocated or renamed once.
MCHistories == {[bundle |-> b1, first |-> {g1}, moves |-> <<>>],
                [bundle |-> b1, first |-> {g1}, moves |-> g1 :> g2]}
MCTargets == {Page(g2), [locator |-> g3, key |-> g1]}
MCNames == {<<"locator", g3>>}
MCStates == {"active", "superseded"}
=============================================================================
