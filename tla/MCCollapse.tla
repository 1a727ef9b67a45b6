----------------------------- MODULE MCCollapse -----------------------------
(* Collapse with two physical displays, for TLC. *)
EXTENDS Collapse

\* The bounds that are small enough to reach: a second and a last attempt,
\* and a layout pass still queued when the next restore queues another.
MCMaxCreateAttempts == 2
MCMaxMirrorAttempts == 2
MCMaxTerminations == 1
MCMaxPasses == 2
=============================================================================
