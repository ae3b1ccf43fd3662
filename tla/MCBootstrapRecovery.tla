------------------------ MODULE MCBootstrapRecovery ------------------------
(* A page that init scaffolds, a page of its own, and the manifest.        *)
EXTENDS BootstrapRecovery, TLC

OutputSymmetry == Permutations(Generated)
=============================================================================
