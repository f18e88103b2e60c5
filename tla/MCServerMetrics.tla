-------------------------- MODULE MCServerMetrics --------------------------
(***************************************************************************)
(* ServerMetrics on a small instance: two buckets below the largest bound  *)
(* (the code has six), latencies on both sides of a bound and on it.       *)
(***************************************************************************)
EXTENDS ServerMetrics

CONSTANTS Bound1, Bound2

\* LATENCY_UPPER_BOUNDS_NS of the instance.
MCBounds == <<Bound1, Bound2>>

============================================================================
