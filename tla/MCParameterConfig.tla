-------------------------- MODULE MCParameterConfig --------------------------
(***************************************************************************)
(* An instance of ParameterConfig for TLC: three parameters, see the .cfg. *)
(***************************************************************************)
EXTENDS ParameterConfig
=============================================================================
