------------------------------- MODULE FairMQ -------------------------------
(***************************************************************************)
(* The device state machine of the FairMQ library, as the nestdaq plugins  *)
(* use it: the states, the named transitions with their source and target  *)
(* states, and the transitions a state takes by itself when its handler    *)
(* ends.  FairMQ is not part of the repository; this module is the         *)
(* interface the plugins are modelled against.                             *)
(***************************************************************************)

\* fair::mq::State, without the states (Ok, Undefined) no plugin sees.
DeviceState ==
    {"Idle", "InitializingDevice", "Initialized", "Binding", "Bound",
     "Connecting", "DeviceReady", "InitializingTask", "Ready", "Running",
     "ResettingTask", "ResettingDevice", "Exiting", "Error"}

\* fair::mq::Transition, without Auto and ErrorFound, which only the device
\* itself requests.
Transition ==
    {"InitDevice", "CompleteInit", "Bind", "Connect", "InitTask", "Run",
     "Stop", "ResetTask", "ResetDevice", "End"}

\* The states a requested transition may leave.
SourceStates ==
    [InitDevice   |-> {"Idle"},
     CompleteInit |-> {"InitializingDevice"},
     Bind         |-> {"Initialized"},
     Connect      |-> {"Bound"},
     InitTask     |-> {"DeviceReady"},
     Run          |-> {"Ready"},
     Stop         |-> {"Running"},
     ResetTask    |-> {"Ready"},
     ResetDevice  |-> {"Initialized", "Bound", "DeviceReady"},
     End          |-> {"Idle"}]

\* The state a requested transition leads to.
TargetState ==
    [InitDevice   |-> "InitializingDevice",
     CompleteInit |-> "Initialized",
     Bind         |-> "Binding",
     Connect      |-> "Connecting",
     InitTask     |-> "InitializingTask",
     Run          |-> "Running",
     Stop         |-> "Ready",
     ResetTask    |-> "ResettingTask",
     ResetDevice  |-> "ResettingDevice",
     End          |-> "Exiting"]

\* The state the device requests by itself when the handler of a state ends.
AutoTarget ==
    [Binding          |-> "Bound",
     Connecting       |-> "DeviceReady",
     InitializingTask |-> "Ready",
     ResettingTask    |-> "DeviceReady",
     ResettingDevice  |-> "Idle"]

\* The states in which user code of the device runs and may fail.
HandlerStates == {"InitializingDevice", "Running"} \union DOMAIN AutoTarget

\* The state machine stops for good in these states.
FinalStates == {"Exiting", "Error"}

=============================================================================
