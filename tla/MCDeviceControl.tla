-------------------------- MODULE MCDeviceControl --------------------------
(***************************************************************************)
(* Instances of DeviceControl for TLC.                                     *)
(***************************************************************************)
EXTENDS DeviceControl

EveryCommand == AllCommands
EveryStartup == DOMAIN StartupGoal
FromIdle     == {"idle"}

\* The shortest scripts of an operator that reach a wait without end.
OnlyRun        == {"Run"}
RunThenEnd     == {"Run", "End"}
ConnectThenEnd == {"Connect", "End"}
=============================================================================
