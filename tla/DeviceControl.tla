--------------------------- MODULE DeviceControl ---------------------------
(***************************************************************************)
(* The control of one FairMQ device by the DAQ service plugin              *)
(* (plugins/DaqServicePlugin.cxx).  Two threads share the device:          *)
(*                                                                         *)
(*  - the state control thread runs the startup sequence, then consumes    *)
(*    DAQ commands from the Redis channel "daqctl" and turns each into     *)
(*    transitions it waits for one by one, then runs the shutdown sequence *)
(*    and releases the device;                                             *)
(*  - the state machine thread of FairMQ takes the requested transition,   *)
(*    calls the plugin's state-change callback (which pushes the new state *)
(*    to fStateQueue and, in Bound, waits for the peers of the topology),  *)
(*    and runs the handler of the state.                                   *)
(*                                                                         *)
(* They meet in fStateQueue and in the two atomic flags that cancel the    *)
(* wait for the peers.                                                     *)
(***************************************************************************)
EXTENDS FairMQ, Naturals, Sequences

CONSTANTS
    StartupStates,   \* the values of --startup-state to start from
    Commands,        \* the commands an operator may publish
    MaxInbox,        \* bound: messages published and not yet consumed
    PeersAppear,     \* the peers of this device get to the registry
    SelfStop,        \* the Running handler may end by itself
    DeviceFails,     \* a handler of the device may fail
    BadMessages,     \* messages this device cannot use may be published
    RegistryFails,   \* a call to the registry may throw
    ConsumeTimeout   \* registry-uri sets a socket timeout for consume()

\* A command of the plugin that is one transition of the device.
SingleCommand == Transition \ {"End"}

\* The commands of plugins/Constants.h.
AllCommands == Transition \union {"Start", "Reset", "Exit", "Quit"}

ShutdownCommands == {"End", "Exit", "Quit"}

\* A message with no use for this device ("Ignored": other addressee, missing
\* fields) or one that makes the handler throw ("Malformed").
Messages == Commands \union (IF BadMessages THEN {"Ignored", "Malformed"} ELSE {})

NoState == "NoState"

ForwardCommands == <<"InitDevice", "CompleteInit", "Bind", "Connect", "InitTask", "Run">>

\* How many of ForwardCommands each value of --startup-state asks for, in the
\* code's own spelling.  Any other value goes all the way.
StartupGoal ==
    [idle |-> 0, initialingdevice |-> 1, initialized |-> 2, bound |-> 3,
     deviceready |-> 4, ready |-> 5, running |-> 6, other |-> 6]

ASSUME ConstantsAssumption ==
    /\ StartupStates \subseteq DOMAIN StartupGoal
    /\ Commands \subseteq AllCommands
    /\ MaxInbox \in Nat
    /\ \A b \in {PeersAppear, SelfStop, DeviceFails, BadMessages, RegistryFails,
                ConsumeTimeout} : b \in BOOLEAN

VARIABLES
    fState,      \* the state GetCurrentDeviceState() returns
    pending,     \* the transition requested and not yet taken, by its target
    fsm,         \* where the state machine thread is
    handshake,   \* how the topology's work in Bound ended (history)
    fStateQueue, \* states pushed by the callback, not yet popped
    fResetDeviceRequested,
    fPluginShutdownRequested,
    inbox,       \* messages delivered to the subscriber, not yet consumed
    ctl,         \* where the state control thread is
    todo,        \* the single commands it still has to run
    cmd,         \* the command it is running ("startup", then a command)
    seen,        \* the device state it read last
    receivedIn,  \* the device state when cmd was received (history)
    runOpen      \* start_time was written last, not stop_time

deviceVars == <<fState, pending, fsm, handshake>>
flagVars   == <<fResetDeviceRequested, fPluginShutdownRequested>>
ctlVars    == <<ctl, todo, cmd, seen, receivedIn, runOpen>>
vars       == <<deviceVars, fStateQueue, flagVars, inbox, ctlVars>>

IsCanceled == fResetDeviceRequested \/ fPluginShutdownRequested

Init ==
    /\ fState = "Idle" /\ pending = NoState /\ fsm = "wait" /\ handshake = "none"
    /\ fStateQueue = <<>>
    /\ fResetDeviceRequested = FALSE /\ fPluginShutdownRequested = FALSE
    /\ inbox = <<>>
    /\ ctl = "single" /\ cmd = "startup" /\ seen = "Idle" /\ receivedIn = "Idle"
    /\ \E s \in StartupStates : todo = SubSeq(ForwardCommands, 1, StartupGoal[s])
    /\ runOpen = FALSE

-----------------------------------------------------------------------------
(***************************************************************************)
(* The state machine thread (FairMQ) and the plugin's callback on it.      *)
(***************************************************************************)

\* A requested transition is accepted if no other one waits to be taken and
\* the current state has it.
ChangeDeviceState(t) ==
    pending' = IF pending = NoState /\ fState \in SourceStates[t]
               THEN TargetState[t] ELSE pending

TakeTransition ==
    /\ fsm = "wait"
    /\ pending # NoState
    /\ fState' = pending
    /\ pending' = NoState
    /\ fsm' = "push"
    /\ UNCHANGED <<handshake, fStateQueue, flagVars, inbox, ctlVars>>

\* The callback's first effect: fStateQueue.Push(newState).
CallbackPush ==
    /\ fsm = "push"
    /\ fStateQueue' = Append(fStateQueue, fState)
    /\ fsm' = "callback"
    /\ UNCHANGED <<fState, pending, handshake, flagVars, inbox, ctlVars>>

\* Mutant of CallbackIdle: the reset request is not withdrawn.
CallbackIdleKeepsFlag ==
    /\ fsm = "callback"
    /\ fState = "Idle"
    /\ fsm' = "handler"
    /\ UNCHANGED <<fState, pending, handshake, fStateQueue, flagVars, inbox, ctlVars>>

\* Idle: a reset is over, the request is withdrawn.
CallbackIdle ==
    /\ fsm = "callback"
    /\ fState = "Idle"
    /\ fResetDeviceRequested' = FALSE
    /\ fsm' = "handler"
    /\ UNCHANGED <<fState, pending, handshake, fStateQueue,
                   fPluginShutdownRequested, inbox, ctlVars>>

\* Bound: the topology publishes the bound addresses and waits for those of
\* the peers, until they are there or the wait is canceled.
CallbackBound ==
    /\ fsm = "callback"
    /\ fState = "Bound"
    /\ \/ PeersAppear /\ handshake' = "done"
       \/ IsCanceled /\ handshake' = "cut"
    /\ fsm' = "handler"
    /\ UNCHANGED <<fState, pending, fStateQueue, flagVars, inbox, ctlVars>>

\* Mutant of CallbackFinal: Error does not ask the plugin to shut down.
CallbackFinalSilent ==
    /\ fsm = "callback"
    /\ fState \in FinalStates
    /\ fsm' = "stopped"
    /\ UNCHANGED <<fState, pending, handshake, fStateQueue, flagVars, inbox, ctlVars>>

\* Error ends the state machine thread, and asks the plugin to shut down.
CallbackFinal ==
    /\ fsm = "callback"
    /\ fState \in FinalStates
    /\ fPluginShutdownRequested' = (fPluginShutdownRequested \/ fState = "Error")
    /\ fsm' = "stopped"
    /\ UNCHANGED <<fState, pending, handshake, fStateQueue,
                   fResetDeviceRequested, inbox, ctlVars>>

\* The other states: the callback writes the registry and returns.
\* ResettingDevice discards what the topology learnt.
CallbackOther ==
    /\ fsm = "callback"
    /\ fState \notin {"Idle", "Bound"} \union FinalStates
    /\ handshake' = IF fState = "ResettingDevice" THEN "none" ELSE handshake
    /\ fsm' = "handler"
    /\ UNCHANGED <<fState, pending, fStateQueue, flagVars, inbox, ctlVars>>

\* The registry fails while the callback writes to it, before the switch: the
\* exception is caught, and nothing of the switch is done.
CallbackThrows ==
    /\ RegistryFails
    /\ fsm = "callback"
    /\ fsm' = IF fState \in FinalStates THEN "stopped" ELSE "handler"
    /\ UNCHANGED <<fState, pending, handshake, fStateQueue, flagVars, inbox, ctlVars>>

Callback == CallbackIdle \/ CallbackBound \/ CallbackFinal \/ CallbackOther

\* A handler that ends by requesting the automatic transition of its state.
HandlerAuto ==
    /\ fsm = "handler"
    /\ fState \in DOMAIN AutoTarget
    /\ pending' = IF pending = NoState THEN AutoTarget[fState] ELSE pending
    /\ fsm' = "wait"
    /\ UNCHANGED <<fState, handshake, fStateQueue, flagVars, inbox, ctlVars>>

\* InitializingDevice and Running last until a transition is requested; the
\* states without a handler have nothing to do.
HandlerReturns ==
    /\ fsm = "handler"
    /\ fState \notin DOMAIN AutoTarget
    /\ fState \in HandlerStates => pending # NoState
    /\ fsm' = "wait"
    /\ UNCHANGED <<fState, pending, handshake, fStateQueue, flagVars, inbox, ctlVars>>

\* ConditionalRun() returned false: the device leaves Running by itself.
HandlerSelfStop ==
    /\ SelfStop
    /\ fsm = "handler"
    /\ fState = "Running"
    /\ pending = NoState
    /\ pending' = "Ready"
    /\ fsm' = "wait"
    /\ UNCHANGED <<fState, handshake, fStateQueue, flagVars, inbox, ctlVars>>

\* An exception in a handler: ErrorFound overrides any pending transition.  The
\* device initializes only once CompleteInit is requested.
HandlerFails ==
    /\ DeviceFails
    /\ fsm = "handler"
    /\ fState \in HandlerStates
    /\ fState = "InitializingDevice" => pending # NoState
    /\ pending' = "Error"
    /\ fsm' = "wait"
    /\ UNCHANGED <<fState, handshake, fStateQueue, flagVars, inbox, ctlVars>>

StateMachineThread ==
    TakeTransition \/ CallbackPush \/ Callback \/ HandlerAuto \/ HandlerReturns

-----------------------------------------------------------------------------
(***************************************************************************)
(* The state control thread.                                               *)
(***************************************************************************)

\* The states in which a single command does something.
SingleStates ==
    [InitDevice   |-> {"Idle"},
     CompleteInit |-> {"InitializingDevice"},
     Bind         |-> {"Initialized"},
     Connect      |-> {"Bound"},
     InitTask     |-> {"DeviceReady"},
     Run          |-> {"Ready"},
     Stop         |-> {"Running"},
     ResetTask    |-> {"Ready"},
     ResetDevice  |-> {"Initialized", "Bound", "DeviceReady"}]

\* Mutants of AwaitedState: Connect waits for the state it requests only, and
\* Stop for the one a reset of the task leads to.
AwaitedStateEarly ==
    [InitDevice   |-> "InitializingDevice", CompleteInit |-> "Initialized",
     Bind |-> "Bound", Connect |-> "Connecting", InitTask |-> "Ready",
     Run |-> "Running", Stop |-> "Ready", ResetTask |-> "DeviceReady",
     ResetDevice |-> "Idle"]
AwaitedStateOther ==
    [InitDevice   |-> "InitializingDevice", CompleteInit |-> "Initialized",
     Bind |-> "Bound", Connect |-> "DeviceReady", InitTask |-> "Ready",
     Run |-> "Running", Stop |-> "DeviceReady", ResetTask |-> "DeviceReady",
     ResetDevice |-> "Idle"]

\* The state a single command waits for.
AwaitedState ==
    [InitDevice   |-> "InitializingDevice",
     CompleteInit |-> "Initialized",
     Bind         |-> "Bound",
     Connect      |-> "DeviceReady",
     InitTask     |-> "Ready",
     Run          |-> "Running",
     Stop         |-> "Ready",
     ResetTask    |-> "DeviceReady",
     ResetDevice  |-> "Idle"]

\* ForwardCommands that a state has behind it, and the last one a command asks for.
ForwardDone ==
    [Idle |-> 0, InitializingDevice |-> 1, Initialized |-> 2, Bound |-> 3,
     DeviceReady |-> 4, Ready |-> 5, Running |-> 6]
ForwardGoal ==
    [InitDevice |-> 2, CompleteInit |-> 2, Bind |-> 3, Connect |-> 4,
     InitTask |-> 5, Run |-> 6, Start |-> 6]

BackwardCommands == <<"Stop", "ResetTask", "ResetDevice">>

\* The first of BackwardCommands a state needs, and the last one a command asks for.
BackwardFirst ==
    [Running |-> 1, Ready |-> 2, DeviceReady |-> 3, Bound |-> 3, Initialized |-> 3]
BackwardGoal ==
    [Stop |-> 1, ResetTask |-> 2, ResetDevice |-> 3, Reset |-> 3]

\* The single commands a command stands for in state s; none in a state or
\* for a command the switch does not list.  INIT DEVICE goes on to Initialized,
\* and only from Idle.
MultiCommand(s, c) ==
    IF /\ c \in DOMAIN ForwardGoal /\ s \in DOMAIN ForwardDone
       /\ c = "InitDevice" => s = "Idle"
    THEN SubSeq(ForwardCommands, ForwardDone[s] + 1, ForwardGoal[c])
    ELSE IF c \in DOMAIN BackwardGoal /\ s \in DOMAIN BackwardFirst
         THEN SubSeq(BackwardCommands, BackwardFirst[s], BackwardGoal[c])
         ELSE <<>>

\* ChangeDeviceStateBySingleCommand reads the state, and in the states a reset
\* can start from it raises the flag before it asks for the transition.  In
\* Connecting it raises the flag and does nothing else.
SingleRead ==
    /\ ctl = "single"
    /\ todo # <<>>
    /\ seen' = fState
    /\ LET c == Head(todo) IN
       /\ IF c = "ResetDevice" /\ fState \in SingleStates[c] \union {"Connecting"}
          THEN fResetDeviceRequested' = TRUE
          ELSE UNCHANGED fResetDeviceRequested
       /\ IF fState \in SingleStates[c]
          THEN ctl' = "issue" /\ UNCHANGED todo
          ELSE ctl' = "single" /\ todo' = Tail(todo)
    /\ UNCHANGED <<deviceVars, fStateQueue, fPluginShutdownRequested, inbox,
                   cmd, receivedIn, runOpen>>

SingleIssue ==
    /\ ctl = "issue"
    /\ ChangeDeviceState(Head(todo))
    /\ ctl' = "await"
    /\ UNCHANGED <<fState, fsm, handshake, fStateQueue, flagVars, inbox,
                   todo, cmd, seen, receivedIn, runOpen>>

\* StateQueue::WaitForNext() returns the front of the queue, and throws without
\* removing it if it is Error.
CanPop == fStateQueue # <<>> /\ Head(fStateQueue) # "Error"
PopThrows == fStateQueue # <<>> /\ Head(fStateQueue) = "Error"

\* Mutants of SingleAwait: any state ends the wait, and the wait goes on after
\* the awaited state.
SingleAwaitAny ==
    /\ ctl = "await"
    /\ CanPop
    /\ fStateQueue' = Tail(fStateQueue)
    /\ IF Head(todo) \in {"Run", "Stop"}
       THEN ctl' = "record" /\ UNCHANGED todo
       ELSE ctl' = "single" /\ todo' = Tail(todo)
    /\ UNCHANGED <<deviceVars, flagVars, inbox, cmd, seen, receivedIn, runOpen>>
SingleAwaitOn ==
    /\ ctl = "await"
    /\ CanPop
    /\ fStateQueue' = Tail(fStateQueue)
    /\ todo' = IF Head(fStateQueue) = AwaitedState[Head(todo)] THEN Tail(todo) ELSE todo
    /\ UNCHANGED <<deviceVars, flagVars, inbox, ctl, cmd, seen, receivedIn, runOpen>>

\* while (fStateQueue.WaitForNext() != target) {}
SingleAwait ==
    /\ ctl = "await"
    /\ CanPop
    /\ fStateQueue' = Tail(fStateQueue)
    /\ IF Head(fStateQueue) = AwaitedState[Head(todo)]
       THEN IF Head(todo) \in {"Run", "Stop"}
            THEN ctl' = "record" /\ UNCHANGED todo
            ELSE ctl' = "single" /\ todo' = Tail(todo)
       ELSE UNCHANGED <<ctl, todo>>
    /\ UNCHANGED <<deviceVars, flagVars, inbox, cmd, seen, receivedIn, runOpen>>

\* WriteStartTime() after a RUN, WriteStopTime() after a STOP.
WriteRunTime ==
    /\ ctl = "record"
    /\ runOpen' = (Head(todo) = "Run")
    /\ ctl' = "single"
    /\ todo' = Tail(todo)
    /\ UNCHANGED <<deviceVars, fStateQueue, flagVars, inbox, cmd, seen, receivedIn>>

\* It throws: consume() passes the exception on, which its handler takes like
\* one of its own.
WriteRunTimeThrows ==
    /\ RegistryFails
    /\ ctl = "record"
    /\ cmd # "startup"
    /\ todo' = <<>>
    /\ \/ ConsumeTimeout /\ ctl' = "loop"
       \/ ctl' = "shutdown"
    /\ UNCHANGED <<deviceVars, fStateQueue, flagVars, inbox, cmd, seen, receivedIn,
                   runOpen>>

\* DeviceErrorState leaves the startup sequence for the thread's own handler,
\* which releases the device, and a command for consume()'s handler, which
\* breaks the loop.
SingleThrows ==
    /\ ctl = "await"
    /\ PopThrows
    /\ ctl' = IF cmd = "startup" THEN "released" ELSE "shutdown"
    /\ UNCHANGED <<deviceVars, fStateQueue, flagVars, inbox, todo, cmd, seen,
                   receivedIn, runOpen>>

\* Mutant of CommandDone: a shutdown command does not raise the flag.
CommandDoneOnly ==
    /\ ctl = "single"
    /\ todo = <<>>
    /\ ctl' = "loop"
    /\ UNCHANGED <<deviceVars, fStateQueue, flagVars, inbox, todo, cmd, seen,
                   receivedIn, runOpen>>

\* The last single command is done: the startup sequence or the message
\* handler returns.
CommandDone ==
    /\ ctl = "single"
    /\ todo = <<>>
    /\ fPluginShutdownRequested' =
           (fPluginShutdownRequested \/ cmd \in ShutdownCommands)
    /\ ctl' = "loop"
    /\ UNCHANGED <<deviceVars, fStateQueue, fResetDeviceRequested, inbox, todo,
                   cmd, seen, receivedIn, runOpen>>

\* while (!fPluginShutdownRequested)
ConsumeLoop ==
    /\ ctl = "loop"
    /\ ctl' = IF fPluginShutdownRequested THEN "shutdown" ELSE "consume"
    /\ UNCHANGED <<deviceVars, fStateQueue, flagVars, inbox, todo, cmd, seen,
                   receivedIn, runOpen>>

\* on_message with a command for this device.
ConsumeCommand ==
    /\ ctl = "consume"
    /\ inbox # <<>>
    /\ Head(inbox) \in Commands
    /\ inbox' = Tail(inbox)
    /\ cmd' = Head(inbox)
    /\ receivedIn' = fState
    /\ todo' = MultiCommand(fState, Head(inbox))
    /\ ctl' = "single"
    /\ UNCHANGED <<deviceVars, fStateQueue, flagVars, seen, runOpen>>

\* on_message with a message that is not for this device, or that throws.
ConsumeOther ==
    /\ ctl = "consume"
    /\ inbox # <<>>
    /\ Head(inbox) \notin Commands
    /\ inbox' = Tail(inbox)
    /\ ctl' = IF Head(inbox) = "Malformed" THEN "shutdown" ELSE "loop"
    /\ UNCHANGED <<deviceVars, fStateQueue, flagVars, todo, cmd, seen,
                   receivedIn, runOpen>>

\* consume() itself fails: TimeoutError tries again, another error leaves.
ConsumeThrows ==
    /\ ctl = "consume"
    /\ \/ ConsumeTimeout /\ ctl' = "loop"
       \/ RegistryFails /\ ctl' = "shutdown"
    /\ UNCHANGED <<deviceVars, fStateQueue, flagVars, inbox, todo, cmd, seen,
                   receivedIn, runOpen>>

\* The transition the shutdown sequence asks for in each state.
ShutdownTransition ==
    [Idle |-> "End", InitializingDevice |-> "CompleteInit",
     Initialized |-> "ResetDevice", Bound |-> "ResetDevice",
     DeviceReady |-> "ResetDevice", Ready |-> "ResetTask", Running |-> "Stop"]

ShutdownRead ==
    /\ ctl = "shutdown"
    /\ seen' = fState
    /\ ctl' = IF fState = "Error" THEN "shutdownStep" ELSE "shutdownClear"
    /\ UNCHANGED <<deviceVars, fStateQueue, flagVars, inbox, todo, cmd,
                   receivedIn, runOpen>>

ShutdownClear ==
    /\ ctl = "shutdownClear"
    /\ fStateQueue' = <<>>
    /\ ctl' = "shutdownStep"
    /\ UNCHANGED <<deviceVars, flagVars, inbox, todo, cmd, seen, receivedIn, runOpen>>

\* Mutant of ShutdownIssue: the stop time is not written.
ShutdownIssueOnly ==
    /\ ctl = "shutdownStep"
    /\ seen \notin FinalStates
    /\ IF seen \in DOMAIN ShutdownTransition
       THEN ChangeDeviceState(ShutdownTransition[seen])
       ELSE UNCHANGED pending
    /\ ctl' = "shutdownAwait"
    /\ UNCHANGED <<fState, fsm, handshake, fStateQueue, flagVars, inbox, todo,
                   cmd, seen, receivedIn, runOpen>>

\* One round of the shutdown loop up to the wait, in the state seen.
ShutdownIssue ==
    /\ ctl = "shutdownStep"
    /\ seen \notin FinalStates
    /\ IF seen \in DOMAIN ShutdownTransition
       THEN ChangeDeviceState(ShutdownTransition[seen])
       ELSE UNCHANGED pending
    /\ runOpen' = (runOpen /\ seen # "Running")
    /\ ctl' = "shutdownAwait"
    /\ UNCHANGED <<fState, fsm, handshake, fStateQueue, flagVars, inbox, todo,
                   cmd, seen, receivedIn>>

ShutdownAwait ==
    /\ ctl = "shutdownAwait"
    /\ CanPop
    /\ seen' = Head(fStateQueue)
    /\ fStateQueue' = Tail(fStateQueue)
    /\ ctl' = "shutdownStep"
    /\ UNCHANGED <<deviceVars, flagVars, inbox, todo, cmd, receivedIn, runOpen>>

\* Mutant of Release: the loop ends in Idle already.
ReleaseInIdle ==
    /\ \/ ctl = "shutdownStep" /\ seen \in FinalStates \union {"Idle"}
       \/ ctl = "shutdownAwait" /\ PopThrows
    /\ ctl' = "released"
    /\ UNCHANGED <<deviceVars, fStateQueue, flagVars, inbox, todo, cmd, seen,
                   receivedIn, runOpen>>

\* ReleaseDeviceControl(), at the end of the loop or on DeviceErrorState.
Release ==
    /\ \/ ctl = "shutdownStep" /\ seen \in FinalStates
       \/ ctl = "shutdownAwait" /\ PopThrows
    /\ ctl' = "released"
    /\ UNCHANGED <<deviceVars, fStateQueue, flagVars, inbox, todo, cmd, seen,
                   receivedIn, runOpen>>

\* The plugin is destroyed once the state machine has stopped and the device
\* is released.
Destroy ==
    /\ ctl = "released"
    /\ fsm = "stopped"
    /\ fPluginShutdownRequested' = TRUE
    /\ ctl' = "gone"
    /\ UNCHANGED <<deviceVars, fStateQueue, fResetDeviceRequested, inbox, todo,
                   cmd, seen, receivedIn, runOpen>>

\* A call to the registry throws where nobody catches it, which ends the whole
\* process: ResetTtl() on the timer thread at any time, and on the control
\* thread the start time of the startup sequence, subscribe() and the stop time
\* of the shutdown sequence.
Aborts ==
    /\ RegistryFails
    /\ ctl \notin {"gone", "aborted"}
    /\ ctl' = "aborted"
    /\ fsm' = "stopped"
    /\ UNCHANGED <<fState, pending, handshake, fStateQueue, flagVars, inbox, todo, cmd,
                   seen, receivedIn, runOpen>>

StateControlThread ==
    \/ SingleRead \/ SingleIssue \/ SingleAwait \/ SingleThrows \/ WriteRunTime
    \/ CommandDone
    \/ ConsumeLoop \/ ConsumeCommand \/ ConsumeOther
    \/ ShutdownRead \/ ShutdownClear \/ ShutdownIssue \/ ShutdownAwait
    \/ Release \/ Destroy

-----------------------------------------------------------------------------
(***************************************************************************)
(* The environment, and the whole system.                                  *)
(***************************************************************************)

\* Redis delivers a message to the subscribers of the moment: the ones
\* published before subscribe() or after the loop has ended are lost.
Subscribed == cmd # "startup" \/ ctl \in {"loop", "consume"}
Listening  == Subscribed /\ ctl \in {"single", "issue", "await", "record", "loop", "consume"}

Publish ==
    /\ Listening
    /\ Len(inbox) < MaxInbox
    /\ \E m \in Messages : inbox' = Append(inbox, m)
    /\ UNCHANGED <<deviceVars, fStateQueue, flagVars, ctlVars>>

\* The process has ended: nothing is left to happen.
Terminated == ctl \in {"gone", "aborted"} /\ UNCHANGED vars

Next ==
    \/ StateMachineThread \/ CallbackThrows \/ HandlerSelfStop \/ HandlerFails
    \/ StateControlThread \/ ConsumeThrows \/ WriteRunTimeThrows \/ Aborts
    \/ Publish \/ Terminated

\* Both threads are scheduled.  A handler may run for ever only where the
\* device waits for a transition; consume() returns when there is a message,
\* or after the socket timeout.
Fairness ==
    /\ WF_vars(StateMachineThread)
    /\ WF_vars(StateControlThread)
    /\ WF_vars(ConsumeTimeout /\ ConsumeThrows)

Spec == Init /\ [][Next]_vars
FairSpec == Spec /\ Fairness

-----------------------------------------------------------------------------
(***************************************************************************)
(* Properties.                                                             *)
(***************************************************************************)

FsmPoint == {"wait", "push", "callback", "handler", "stopped"}
CtlPoint == {"single", "issue", "await", "record", "loop", "consume", "shutdown",
             "shutdownClear", "shutdownStep", "shutdownAwait", "released", "gone",
             "aborted"}

\* Types, and where in its loop each thread can be with what left to do.
TypeOK ==
    /\ fState \in DeviceState
    /\ pending \in DeviceState \union {NoState}
    /\ fsm \in FsmPoint
    /\ handshake \in {"none", "done", "cut"}
    /\ fStateQueue \in Seq(DeviceState)
    /\ fResetDeviceRequested \in BOOLEAN
    /\ fPluginShutdownRequested \in BOOLEAN
    /\ inbox \in Seq(Messages)
    /\ ctl \in CtlPoint
    /\ todo \in Seq(SingleCommand)
    /\ cmd \in AllCommands \union {"startup"}
    /\ seen \in DeviceState
    /\ receivedIn \in DeviceState
    /\ runOpen \in BOOLEAN
    /\ ctl \in {"issue", "await", "record"} => todo # <<>>

\* The plugin gives the device up, and is destroyed, only when the device has
\* come to Exiting or Error: RunShutdownSequence never believes a stale entry
\* of fStateQueue.
ReleasedOnlyWhenDown ==
    ctl \in {"released", "gone"} => fState \in FinalStates

\* The device connects its channels only after the whole address exchange of
\* this Bound: the flags that cancel the exchange are never left over from an
\* earlier reset, and a canceled exchange is always followed by a reset.
ConnectOnlyAfterHandshake ==
    fState = "Connecting" => handshake = "done"

\* A single command never takes a state the device was in before the command
\* for the one it asked for: when the awaited state is in fStateQueue, the
\* device is in it, or has left it by itself.
NoStaleWait ==
    (ctl = "await" /\ \E i \in 1..Len(fStateQueue) :
                         fStateQueue[i] = AwaitedState[Head(todo)])
        => \/ fState = AwaitedState[Head(todo)]
           \/ Head(todo) = "Run" /\ (fState \in {"Ready", "Error"})

\* What each command promises, by the state it names: a forward command brings
\* a device that is behind it to that state, a backward command one that is
\* ahead of it, and any other device stays where it is.
Promised ==
    [InitDevice |-> "Initialized", CompleteInit |-> "Initialized",
     Bind |-> "Bound", Connect |-> "DeviceReady", InitTask |-> "Ready",
     Run |-> "Running", Start |-> "Running",
     Stop |-> "Ready", ResetTask |-> "DeviceReady", ResetDevice |-> "Idle",
     Reset |-> "Idle"]
Moves(s, c) ==
    IF c \in {"Stop", "ResetTask", "ResetDevice", "Reset"}
    THEN ForwardDone[s] > ForwardDone[Promised[c]] /\ s # "InitializingDevice"
    ELSE ForwardDone[s] < ForwardDone[Promised[c]]
           /\ ~(c = "InitDevice" /\ s = "InitializingDevice")

\* A command has done what it promises when its handler returns, however the
\* two threads interleave.
CommandKeepsPromise ==
    (ctl = "single" /\ todo = <<>> /\ cmd \in DOMAIN Promised) =>
        fState = IF Moves(receivedIn, cmd) THEN Promised[cmd] ELSE receivedIn

\* Between commands, and when the plugin has gone, the run record in the
\* registry is open exactly while the device runs.
RunRecordMatches ==
    ctl \in {"loop", "consume", "released", "gone"} =>
        (runOpen <=> fState = "Running")

\* No single command waits for ever.
WaitsEnd == (ctl = "await") ~> (ctl # "await")

\* "any state Exiting by exiting SubscribeToDaqCommand() and calling
\* RunShutdownSequence() in the state control thread": a shutdown command that
\* has been delivered makes the device exit and the plugin go.
EndExits ==
    (\E i \in 1..Len(inbox) : inbox[i] \in ShutdownCommands) ~> (ctl = "gone")

\* consume() has nothing to return: without a socket timeout it blocks.
NoMessage == ctl = "consume" /\ inbox = <<>>

\* The Error is in fStateQueue, and Clear() is not about to drop it.
ErrorQueued ==
    /\ fState = "Error"
    /\ \E i \in 1..Len(fStateQueue) : fStateQueue[i] = "Error"
    /\ ctl # "shutdownClear"

\* A device whose failure is in fStateQueue is released and the plugin goes,
\* wherever the control thread is, in a command, in the loop or in the shutdown
\* sequence, provided that consume() does not block for ever: the flag that the
\* callback of Error raises is looked at only when consume() has returned.
ErrorReleases == []<>~NoMessage => (ErrorQueued ~> (ctl = "gone"))

\* The same without the two conditions, which the code does not keep
\* (control_error_silent.cfg, control_error_clear.cfg).
ErrorAlwaysReleases == (fState = "Error") ~> (ctl = "gone")

=============================================================================
