------------------------------ MODULE MCMetrics ------------------------------
(***************************************************************************)
(* An instance of Metrics for TLC: a device with one or two channels.      *)
(***************************************************************************)
EXTENDS Metrics

\* The sweeping host's clock is ours, or behind.
SomeSkew == {0, -1}
=============================================================================
