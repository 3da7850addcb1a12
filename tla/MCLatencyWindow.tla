-------------------------- MODULE MCLatencyWindow --------------------------
(* Small instances of LatencyWindow for TLC. *)
EXTENDS LatencyWindow

CONSTANTS h1, h2, m1, m2
=============================================================================
