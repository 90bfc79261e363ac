--------------------------- MODULE MCEffectsOutbox ---------------------------
(* A small instance of the outbox.                                         *)
EXTENDS EffectsOutbox, TLC

CONSTANTS report, agent, scheduled, obsidian

Symmetry == Permutations(Caller)
=============================================================================
