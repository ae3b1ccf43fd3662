--------------------------- MODULE MCTriggerAgent ---------------------------
(* Two runs, the real failure limit, and a recovery delay of two ticks.    *)
EXTENDS TriggerAgent
=============================================================================
