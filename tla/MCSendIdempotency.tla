------------------------- MODULE MCSendIdempotency -------------------------
(* A small instance of the driver: two executors of one job, two requests. *)
EXTENDS SendIdempotency, TLC

CONSTANTS a, b, p, q

Symmetry == Permutations({a, b}) \cup Permutations({p, q})
=============================================================================
