--------------------------- MODULE MCHttpPipeline ---------------------------
(* HttpPipeline for TLC. *)
EXTENDS HttpPipeline
=============================================================================
