-------------------------- MODULE MCRecoveryStore --------------------------
(* Two wikis over two states that share one blob and have one of their own. *)
EXTENDS RecoveryStore, TLC

CONSTANTS w1, w2

MCOwners == {w1, w2}
MCStates == {1, 2}
MCBlobs == {1, 2, 3}
MCBlobsOf == (1 :> {1, 2}) @@ (2 :> {2, 3})
MCTimes == {0, 1}
MCSymmetry == Permutations(MCOwners)
=============================================================================
