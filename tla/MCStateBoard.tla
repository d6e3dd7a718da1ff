---------------------------- MODULE MCStateBoard ----------------------------
(***************************************************************************)
(* An instance of StateBoard for TLC: two services, one of which has two   *)
(* instances.                                                              *)
(***************************************************************************)
EXTENDS StateBoard

CONSTANTS i1, i2, j1

TwoServices == [i \in {i1, i2, j1} |-> IF i = j1 THEN "sink" ELSE "source"]
=============================================================================
