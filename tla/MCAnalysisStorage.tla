-------------------------- MODULE MCAnalysisStorage --------------------------
(* Two captures that share a shard, and one that fits its catalog.         *)
EXTENDS AnalysisStorage, TLC

CONSTANTS x, y, z, large, other, small

MCShardsOf == (large :> {x, y}) @@ (other :> {y, z}) @@ (small :> {})
=============================================================================
