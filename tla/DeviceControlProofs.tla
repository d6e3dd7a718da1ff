------------------------ MODULE DeviceControlProofs ------------------------
(***************************************************************************)
(* Proofs about DeviceControl, for every choice of its constants.          *)
(***************************************************************************)
EXTENDS DeviceControl, SequenceTheorems, TLAPS

-----------------------------------------------------------------------------
(***************************************************************************)
(* Type correctness.                                                       *)
(***************************************************************************)

\* A slice of a sequence of single commands is one, wherever it is cut.
LEMMA SliceType ==
    ASSUME NEW s \in Seq(SingleCommand), NEW m \in Nat \ {0}, NEW n \in Nat, n <= Len(s)
    PROVE  SubSeq(s, m, n) \in Seq(SingleCommand)
<1>1. \A i \in m..n : s[i] \in SingleCommand
  BY ElementOfSeq
<1>2. QED
  BY <1>1, SubSeqProperties

\* What ChangeDeviceStateByMultiCommand runs for a command in a state is a
\* sequence of single commands.
LEMMA MultiCommandType ==
    ASSUME NEW s, NEW c
    PROVE  MultiCommand(s, c) \in Seq(SingleCommand)
<1>1. /\ ForwardCommands \in Seq(SingleCommand) /\ Len(ForwardCommands) = 6
      /\ BackwardCommands \in Seq(SingleCommand) /\ Len(BackwardCommands) = 3
  BY DEF ForwardCommands, BackwardCommands, SingleCommand, Transition
<1>2. ASSUME c \in DOMAIN ForwardGoal, s \in DOMAIN ForwardDone
      PROVE  SubSeq(ForwardCommands, ForwardDone[s] + 1, ForwardGoal[c]) \in Seq(SingleCommand)
  <2>1. ForwardDone[s] + 1 \in Nat \ {0} /\ ForwardGoal[c] \in Nat /\ ForwardGoal[c] <= 6
    BY <1>2 DEF ForwardGoal, ForwardDone
  <2>2. QED  BY <2>1, <1>1, SliceType
<1>3. ASSUME c \in DOMAIN BackwardGoal, s \in DOMAIN BackwardFirst
      PROVE  SubSeq(BackwardCommands, BackwardFirst[s], BackwardGoal[c]) \in Seq(SingleCommand)
  <2>1. BackwardFirst[s] \in Nat \ {0} /\ BackwardGoal[c] \in Nat /\ BackwardGoal[c] <= 3
    BY <1>3 DEF BackwardGoal, BackwardFirst
  <2>2. QED  BY <2>1, <1>1, SliceType
<1>4. QED  BY <1>2, <1>3 DEF MultiCommand

\* A requested transition leaves a device state pending, or nothing.
LEMMA ChangeDeviceStateType ==
    ASSUME pending \in DeviceState \union {NoState}, NEW t \in Transition, ChangeDeviceState(t)
    PROVE  pending' \in DeviceState \union {NoState}
  BY DEF ChangeDeviceState, TargetState, Transition, DeviceState, NoState

\* The popped entry of fStateQueue is a state, and the rest a queue of states.
LEMMA PopType ==
    ASSUME TypeOK, CanPop
    PROVE  Head(fStateQueue) \in DeviceState /\ Tail(fStateQueue) \in Seq(DeviceState)
  BY HeadTailProperties DEF TypeOK, CanPop

\* The command under way is a single command, and the rest are.
LEMMA TodoType ==
    ASSUME TypeOK, todo # <<>>
    PROVE  Head(todo) \in SingleCommand /\ Tail(todo) \in Seq(SingleCommand)
  BY HeadTailProperties DEF TypeOK

\* Every step of the two threads and of the environment keeps the types.
LEMMA TypeStep == TypeOK /\ [Next]_vars => TypeOK'
<1> SUFFICES ASSUME TypeOK, [Next]_vars PROVE TypeOK'
  OBVIOUS
<1> USE DEF deviceVars, flagVars, ctlVars, FsmPoint, CtlPoint
<1>1. CASE TakeTransition
  BY <1>1 DEF TypeOK, TakeTransition
<1>17. CASE CallbackPush
  <2>1. fStateQueue' \in Seq(DeviceState)
    BY <1>17, AppendProperties DEF TypeOK, CallbackPush
  <2>2. QED  BY <1>17, <2>1 DEF TypeOK, CallbackPush
<1>2. CASE Callback \/ CallbackThrows
  <2>1. CASE CallbackIdle \/ CallbackBound
    BY <2>1 DEF TypeOK, CallbackIdle, CallbackBound
  <2>2. CASE CallbackFinal
    <3>1. fPluginShutdownRequested' \in BOOLEAN
      BY <2>2 DEF CallbackFinal
    <3>2. QED  BY <2>2, <3>1 DEF TypeOK, CallbackFinal
  <2>3. CASE CallbackOther \/ CallbackThrows
    BY <2>3 DEF TypeOK, CallbackOther, CallbackThrows
  <2>4. QED  BY <1>2, <2>1, <2>2, <2>3 DEF Callback
<1>3. CASE HandlerAuto
  <2>1. pending' \in DeviceState \union {NoState}
    BY <1>3 DEF TypeOK, HandlerAuto, AutoTarget, DeviceState, NoState
  <2>2. QED  BY <1>3, <2>1 DEF TypeOK, HandlerAuto
<1>4. CASE HandlerReturns \/ HandlerSelfStop \/ HandlerFails
  BY <1>4 DEF TypeOK, HandlerReturns, HandlerSelfStop, HandlerFails, DeviceState
<1>5. CASE SingleRead
  BY <1>5, TodoType DEF TypeOK, SingleRead
<1>6. CASE SingleIssue
  <2>1. Head(todo) \in Transition
    BY <1>6, TodoType DEF SingleIssue, TypeOK, SingleCommand
  <2>2. pending' \in DeviceState \union {NoState}
    BY <1>6, <2>1, ChangeDeviceStateType DEF SingleIssue, TypeOK
  <2>3. QED  BY <1>6, <2>2 DEF TypeOK, SingleIssue
<1>7. CASE SingleAwait
  <2>1. todo # <<>>
    BY <1>7 DEF TypeOK, SingleAwait
  <2>2. QED  BY <1>7, <2>1, PopType, TodoType DEF TypeOK, SingleAwait
<1>18. CASE WriteRunTime
  <2>1. runOpen' \in BOOLEAN
    BY <1>18 DEF WriteRunTime
  <2>2. QED  BY <1>18, <2>1, TodoType DEF TypeOK, WriteRunTime
<1>19. CASE WriteRunTimeThrows \/ Aborts
  <2>1. <<>> \in Seq(SingleCommand)
    BY EmptySeq
  <2>2. QED  BY <1>19, <2>1 DEF TypeOK, WriteRunTimeThrows, Aborts
<1>8. CASE SingleThrows \/ CommandDone \/ ConsumeLoop \/ ConsumeThrows
  BY <1>8 DEF TypeOK, SingleThrows, CommandDone, ConsumeLoop, ConsumeThrows
<1>9. CASE ConsumeCommand
  <2>1. cmd' \in AllCommands /\ inbox' \in Seq(Messages)
    BY <1>9, HeadTailProperties, ConstantsAssumption DEF TypeOK, ConsumeCommand
  <2>2. QED  BY <1>9, <2>1, MultiCommandType DEF TypeOK, ConsumeCommand
<1>10. CASE ConsumeOther
  <2>1. inbox' \in Seq(Messages)
    BY <1>10, HeadTailProperties DEF TypeOK, ConsumeOther
  <2>2. QED  BY <1>10, <2>1 DEF TypeOK, ConsumeOther
<1>11. CASE ShutdownRead \/ ShutdownClear \/ Release \/ Destroy
  <2>1. <<>> \in Seq(DeviceState)
    BY EmptySeq
  <2>2. QED  BY <1>11, <2>1 DEF TypeOK, ShutdownRead, ShutdownClear, Release, Destroy
<1>12. CASE ShutdownIssue
  <2>1. pending' \in DeviceState \union {NoState}
    <3>1. CASE seen \in DOMAIN ShutdownTransition
      <4>1. ShutdownTransition[seen] \in Transition
        BY <3>1 DEF ShutdownTransition, Transition
      <4>2. QED  BY <1>12, <3>1, <4>1, ChangeDeviceStateType DEF TypeOK, ShutdownIssue
    <3>2. CASE seen \notin DOMAIN ShutdownTransition
      BY <1>12, <3>2 DEF TypeOK, ShutdownIssue
    <3>3. QED  BY <3>1, <3>2
  <2>2. runOpen' \in BOOLEAN
    BY <1>12 DEF ShutdownIssue
  <2>3. QED  BY <1>12, <2>1, <2>2 DEF TypeOK, ShutdownIssue
<1>13. CASE ShutdownAwait
  BY <1>13, PopType DEF TypeOK, ShutdownAwait
<1>14. CASE Publish
  <2>1. inbox' \in Seq(Messages)
    BY <1>14, AppendProperties DEF TypeOK, Publish
  <2>2. QED  BY <1>14, <2>1 DEF TypeOK, Publish
<1>15. CASE Terminated \/ UNCHANGED vars
  BY <1>15 DEF TypeOK, Terminated, vars
<1>16. QED
  BY <1>1, <1>2, <1>3, <1>4, <1>5, <1>6, <1>7, <1>8, <1>9, <1>10, <1>11, <1>12,
     <1>13, <1>14, <1>15, <1>17, <1>18, <1>19 DEF Next, StateMachineThread, StateControlThread

\* The startup sequence is a sequence of single commands.
LEMMA InitType == Init => TypeOK
<1> SUFFICES ASSUME Init PROVE TypeOK
  OBVIOUS
<1>1. PICK s \in StartupStates : todo = SubSeq(ForwardCommands, 1, StartupGoal[s])
  BY DEF Init
<1>2. StartupGoal[s] \in Nat /\ StartupGoal[s] <= 6
  BY ConstantsAssumption DEF StartupGoal
<1>3. ForwardCommands \in Seq(SingleCommand) /\ Len(ForwardCommands) = 6
  BY DEF ForwardCommands, SingleCommand, Transition
<1>4. todo \in Seq(SingleCommand)
  BY <1>1, <1>2, <1>3, SliceType
<1>5. fStateQueue \in Seq(DeviceState) /\ inbox \in Seq(Messages)
  BY EmptySeq DEF Init
<1>6. QED
  BY <1>4, <1>5 DEF Init, TypeOK, DeviceState, FsmPoint, CtlPoint

\* The variables keep their types, and a wait always has a command it is for.
THEOREM TypeCorrect == Spec => []TypeOK
<1>1. Init => TypeOK
  BY InitType
<1>2. TypeOK /\ [Next]_vars => TypeOK'
  BY TypeStep
<1>3. QED  BY <1>1, <1>2, PTL DEF Spec

-----------------------------------------------------------------------------
(***************************************************************************)
(* The device is released only when it is down.                            *)
(***************************************************************************)

\* A final state is never left: the state machine thread is past its handlers
\* and no transition is pending.
FinalIsFinal ==
    fState \in FinalStates => pending = NoState /\ fsm \in {"push", "callback", "stopped"}

\* A final state in fStateQueue, or read by the shutdown sequence, is the
\* state of the device.
FinalIsCurrent ==
    /\ \A i \in 1..Len(fStateQueue) :
           fStateQueue[i] \in FinalStates => fState = fStateQueue[i]
    /\ ctl \in {"shutdownClear", "shutdownStep"} /\ seen \in FinalStates => fState = seen

DownInv == TypeOK /\ FinalIsFinal /\ FinalIsCurrent /\ ReleasedOnlyWhenDown

\* Popping fStateQueue moves every other entry one place to the front.
LEMMA PopShifts ==
    ASSUME TypeOK, CanPop
    PROVE  /\ Len(fStateQueue) \in Nat \ {0}
           /\ Head(fStateQueue) = fStateQueue[1]
           /\ Len(Tail(fStateQueue)) = Len(fStateQueue) - 1
           /\ \A i \in 1..Len(Tail(fStateQueue)) : Tail(fStateQueue)[i] = fStateQueue[i + 1]
<1>1. fStateQueue \in Seq(DeviceState) /\ fStateQueue # <<>>
  BY DEF TypeOK, CanPop
<1>2. Head(fStateQueue) = fStateQueue[1]
  BY <1>1
<1>3. QED  BY <1>1, <1>2, HeadTailProperties, EmptySeq

\* No step breaks DownInv.
LEMMA DownStep == DownInv /\ [Next]_vars => DownInv'
<1> SUFFICES ASSUME DownInv, [Next]_vars PROVE DownInv'
  OBVIOUS
<1> USE DEF deviceVars, flagVars, ctlVars
<1>0. TypeOK /\ TypeOK'
  BY TypeStep DEF DownInv
<1>1. FinalIsFinal'
  <2>1. CASE StateMachineThread \/ CallbackThrows \/ HandlerSelfStop \/ HandlerFails
    BY <2>1, <1>0 DEF DownInv, TypeOK, FsmPoint, FinalIsFinal, FinalStates, StateMachineThread,
       TakeTransition, CallbackPush, Callback, CallbackIdle, CallbackBound, CallbackFinal,
       CallbackOther, CallbackThrows, HandlerAuto, HandlerReturns, HandlerSelfStop, HandlerFails
  <2>2. CASE SingleIssue
    <3>1. Head(todo) \in SingleCommand
      BY <2>2, <1>0, TodoType DEF SingleIssue, TypeOK
    <3>2. QED
      BY <2>2, <3>1 DEF DownInv, FinalIsFinal, FinalStates, SingleIssue, ChangeDeviceState,
         SourceStates, SingleCommand, Transition
  <2>3. CASE ShutdownIssue
    BY <2>3 DEF DownInv, FinalIsFinal, FinalStates, ShutdownIssue, ChangeDeviceState,
       SourceStates, ShutdownTransition
  <2>4. CASE Aborts \/ UNCHANGED deviceVars
    BY <2>4 DEF DownInv, FinalIsFinal, Aborts
  <2>5. QED
    BY <2>1, <2>2, <2>3, <2>4 DEF Next, StateControlThread, SingleRead, SingleAwait,
       SingleThrows, CommandDone, ConsumeLoop, ConsumeCommand, ConsumeOther, ConsumeThrows, WriteRunTime, WriteRunTimeThrows, Aborts,
       ShutdownRead, ShutdownClear, ShutdownAwait, Release, Destroy, Publish, Terminated, vars
<1>2. fState \in FinalStates => fState' = fState
  BY DEF DownInv, FinalIsFinal, Next, StateMachineThread, TakeTransition, CallbackPush,
     Callback, CallbackIdle, CallbackBound, CallbackFinal, CallbackOther, CallbackThrows,
     HandlerAuto, HandlerReturns, HandlerSelfStop, HandlerFails, StateControlThread,
     SingleRead, SingleIssue, SingleAwait, SingleThrows, CommandDone, ConsumeLoop,
     ConsumeCommand, ConsumeOther, ConsumeThrows, WriteRunTime, WriteRunTimeThrows, Aborts, ShutdownRead, ShutdownClear,
     ShutdownIssue, ShutdownAwait, Release, Destroy, Publish, Terminated, vars
<1>3. FinalIsCurrent'
  <2>1. CASE CallbackPush
    <3>1. fState \in DeviceState /\ fStateQueue \in Seq(DeviceState)
      BY <1>0 DEF TypeOK
    <3>2. QED
      BY <2>1, <3>1, AppendProperties DEF DownInv, FinalIsCurrent, CallbackPush
  <2>2. CASE SingleAwait \/ ShutdownAwait
    <3>1. CanPop
      BY <2>2 DEF SingleAwait, ShutdownAwait
    <3>5. /\ Len(fStateQueue) \in Nat \ {0}
          /\ Head(fStateQueue) = fStateQueue[1]
          /\ Len(Tail(fStateQueue)) = Len(fStateQueue) - 1
          /\ \A i \in 1..Len(Tail(fStateQueue)) : Tail(fStateQueue)[i] = fStateQueue[i + 1]
      BY <1>0, <3>1, PopShifts
    <3>6. fStateQueue' = Tail(fStateQueue) /\ fState' = fState
      BY <2>2 DEF SingleAwait, ShutdownAwait
    <3>2. \A i \in 1..Len(fStateQueue') : fStateQueue'[i] \in FinalStates => fState' = fStateQueue'[i]
      BY <3>5, <3>6 DEF DownInv, FinalIsCurrent
    <3>3. ctl' \in {"shutdownClear", "shutdownStep"} /\ seen' \in FinalStates => fState' = seen'
      <4>1. CASE SingleAwait
        BY <4>1 DEF SingleAwait
      <4>2. CASE ShutdownAwait
        <5>1. seen' = fStateQueue[1] /\ 1 \in 1..Len(fStateQueue)
          BY <4>2, <3>5 DEF ShutdownAwait
        <5>2. QED  BY <5>1, <3>6 DEF DownInv, FinalIsCurrent
      <4>3. QED  BY <2>2, <4>1, <4>2
    <3>4. QED  BY <3>2, <3>3 DEF FinalIsCurrent
  <2>3. CASE ShutdownClear
    <3>1. \A i \in 1..Len(fStateQueue') : FALSE
      BY <2>3 DEF ShutdownClear
    <3>2. QED  BY <2>3, <3>1 DEF DownInv, FinalIsCurrent, ShutdownClear
  <2>4. CASE /\ UNCHANGED fStateQueue
             /\ ctl' \in {"shutdownClear", "shutdownStep"} => (seen' = fState' \/ UNCHANGED <<ctl, seen>>)
    BY <2>4, <1>2 DEF DownInv, FinalIsCurrent
  <2>5. QED
    BY <2>1, <2>2, <2>3, <2>4 DEF Next, StateMachineThread, TakeTransition,
     Callback, CallbackIdle, CallbackBound, CallbackFinal, CallbackOther, CallbackThrows,
     HandlerAuto, HandlerReturns, HandlerSelfStop, HandlerFails, StateControlThread,
     SingleRead, SingleIssue, SingleThrows, CommandDone, ConsumeLoop,
     ConsumeCommand, ConsumeOther, ConsumeThrows, WriteRunTime, WriteRunTimeThrows, Aborts, ShutdownRead,
     ShutdownIssue, Release, Destroy, Publish, Terminated, vars
<1>4. ReleasedOnlyWhenDown'
  <2>1. CASE SingleThrows \/ (Release /\ PopThrows)
    <3>1. fStateQueue[1] = "Error" /\ 1 \in 1..Len(fStateQueue)
      BY <2>1, <1>0, EmptySeq DEF SingleThrows, Release, PopThrows, TypeOK
    <3>2. fState = "Error"
      BY <3>1 DEF DownInv, FinalIsCurrent, FinalStates
    <3>3. QED  BY <3>2, <1>2 DEF ReleasedOnlyWhenDown, FinalStates
  <2>2. CASE Release /\ ~PopThrows
    BY <2>2 DEF Release, DownInv, FinalIsCurrent, ReleasedOnlyWhenDown
  <2>3. CASE ctl' \in {"released", "gone"} => ctl \in {"released", "gone"}
    BY <2>3, <1>2 DEF DownInv, ReleasedOnlyWhenDown
  <2>4. QED
    BY <2>1, <2>2, <2>3 DEF Next, StateMachineThread, TakeTransition, CallbackPush,
     Callback, CallbackIdle, CallbackBound, CallbackFinal, CallbackOther, CallbackThrows,
     HandlerAuto, HandlerReturns, HandlerSelfStop, HandlerFails, StateControlThread,
     SingleRead, SingleIssue, SingleAwait, CommandDone, ConsumeLoop,
     ConsumeCommand, ConsumeOther, ConsumeThrows, WriteRunTime, WriteRunTimeThrows, Aborts, ShutdownRead, ShutdownClear,
     ShutdownIssue, ShutdownAwait, Destroy, Publish, Terminated, vars
<1>5. QED  BY <1>0, <1>1, <1>3, <1>4 DEF DownInv

\* Nothing is queued at the start, and nothing is released.
LEMMA InitDown == Init => DownInv
<1> SUFFICES ASSUME Init PROVE DownInv
  OBVIOUS
<1>1. FinalIsFinal /\ FinalIsCurrent /\ ReleasedOnlyWhenDown
  BY DEF Init, FinalIsFinal, FinalIsCurrent, ReleasedOnlyWhenDown, FinalStates
<1>2. QED  BY <1>1, InitType DEF DownInv

\* The plugin gives up a device, and is destroyed, only in Exiting or Error,
\* whatever fails on the way.
THEOREM ReleaseSafe == Spec => []ReleasedOnlyWhenDown
<1>1. Init => DownInv
  BY InitDown
<1>2. DownInv /\ [Next]_vars => DownInv'
  BY DownStep
<1>3. DownInv => ReleasedOnlyWhenDown
  BY DEF DownInv
<1>4. QED  BY <1>1, <1>2, <1>3, PTL DEF Spec

-----------------------------------------------------------------------------
(***************************************************************************)
(* Connecting only after the address exchange.                             *)
(***************************************************************************)

ShutdownPoint == {"shutdown", "shutdownClear", "shutdownStep", "shutdownAwait",
                  "released", "gone", "aborted"}

\* The state control thread waits for one of the commands in C.
Awaits(C) == ctl = "await" /\ Head(todo) \in C

\* The states a single command ends in, the states the device goes through on
\* its way to each, and the commands that lead to it.
Via ==
    [Idle |-> {"ResettingDevice"}, InitializingDevice |-> {}, Initialized |-> {},
     Bound |-> {"Binding"}, DeviceReady |-> {"Connecting", "ResettingTask"},
     Ready |-> {"InitializingTask"}, Running |-> {}]
LeadTo ==
    [Idle |-> {"ResetDevice"}, InitializingDevice |-> {"InitDevice"},
     Initialized |-> {"CompleteInit"}, Bound |-> {"Bind"},
     DeviceReady |-> {"Connect", "ResetTask"},
     Ready |-> {"InitTask", "Stop"}, Running |-> {"Run"}]

NotQueued(s) == \A i \in 1..Len(fStateQueue) : fStateQueue[i] # s

\* While the device is on its way to state s through the states in via, the
\* control thread waits for it, and s is not in fStateQueue.
OnTheWay(s, via, C) ==
    (ctl \notin ShutdownPoint /\ (\/ fState \in via
                                  \/ pending \in via \union {s}
                                  \/ fState = s /\ fsm = "push"))
        => Awaits(C) /\ NotQueued(s) /\ (fState = s => pending = NoState)

\* Once state s is in fStateQueue it is the last entry, the device rests in s,
\* and the control thread has still to take it.
Arrived(s, C) ==
    \A i \in 1..Len(fStateQueue) :
        (ctl \notin ShutdownPoint /\ fStateQueue[i] = s)
            => /\ i = Len(fStateQueue) /\ fState = s /\ Awaits(C)
               /\ pending = NoState /\ fsm # "push"

\* The way to state s, and its end.
Journey(s) == OnTheWay(s, Via[s], LeadTo[s]) /\ Arrived(s, LeadTo[s])

\* Who connects: the control thread, waiting for it, and nothing is canceled.
Connects ==
    /\ fState = "Connecting" \/ pending = "Connecting" => Awaits({"Connect"})
    /\ pending = "Connecting" => fState = "Bound" /\ ~IsCanceled
    /\ fState = "Bound" /\ fsm \in {"handler", "wait"} => handshake = "done" \/ IsCanceled

\* The shutdown flag is up only on the way to the shutdown sequence.
ShutdownFlag ==
    fPluginShutdownRequested /\ ctl \notin ShutdownPoint => ctl = "loop" \/ fState = "Error"

\* The reset flag is up only while a reset is under way, and down again before
\* the handler of Idle.
ResetFlag ==
    (fResetDeviceRequested /\ ctl \notin ShutdownPoint) =>
        \/ /\ ctl \in {"issue", "await"} /\ Head(todo) = "ResetDevice"
           /\ fState = "Idle" => fsm \in {"push", "callback"}
        \/ fState = "Idle" /\ fsm \in {"push", "callback"}

\* Once in the shutdown sequence, the control thread stays there.
LEMMA ShutdownStays ==
    ASSUME [Next]_vars, ctl \in ShutdownPoint
    PROVE  ctl' \in ShutdownPoint
  BY DEF ShutdownPoint, Next, StateMachineThread, TakeTransition, CallbackPush,
     Callback, CallbackIdle, CallbackBound, CallbackFinal, CallbackOther, CallbackThrows,
     HandlerAuto, HandlerReturns, HandlerSelfStop, HandlerFails, StateControlThread,
     SingleRead, SingleIssue, SingleAwait, SingleThrows, CommandDone, ConsumeLoop,
     ConsumeCommand, ConsumeOther, ConsumeThrows, WriteRunTime, WriteRunTimeThrows, Aborts, ShutdownRead, ShutdownClear,
     ShutdownIssue, ShutdownAwait, Release, Destroy, Publish, Terminated, vars,
     deviceVars, flagVars, ctlVars

\* A journey of the device keeps the control thread waiting for its end:
\* stated for any state s that only the commands in C lead to, through via,
\* and that the device neither reaches nor leaves by itself.
LEMMA WayStep ==
    ASSUME NEW s \in DeviceState, NEW via \in SUBSET DOMAIN AutoTarget,
           NEW C \in SUBSET SingleCommand,
           s \notin DOMAIN AutoTarget, s # "Error",
           s = "Ready" => ~SelfStop, s = "Running" => ~SelfStop /\ ~DeviceFails,
           \A c \in SingleCommand : TargetState[c] \in via \union {s} => c \in C,
           \A x \in DOMAIN AutoTarget : AutoTarget[x] \in via \union {s} => x \in via,
           \A c \in C : AwaitedState[c] = s /\ s \notin SourceStates[c],
           DownInv, OnTheWay(s, via, C), Arrived(s, C), [Next]_vars
    PROVE  OnTheWay(s, via, C)' /\ Arrived(s, C)'
<1> USE DEF deviceVars, flagVars, ctlVars
<1>t. TypeOK /\ TypeOK'
  BY TypeStep DEF DownInv
<1>v. s \notin via /\ NoState \notin via \union {s} /\ "Ready" \notin via /\ "Error" \notin via
  BY DEF AutoTarget, NoState, DeviceState
<1>1. CASE ctl' \in ShutdownPoint
  BY <1>1 DEF OnTheWay, Arrived
<1> SUFFICES ASSUME ctl' \notin ShutdownPoint, ctl \notin ShutdownPoint
             PROVE  OnTheWay(s, via, C)' /\ Arrived(s, C)'
  BY <1>1, ShutdownStays
<1>2. CASE TakeTransition
  BY <1>2, <1>v DEF OnTheWay, Arrived, NotQueued, Awaits, TakeTransition
<1>3. CASE CallbackPush
  <2>1. /\ Len(fStateQueue') = Len(fStateQueue) + 1 /\ Len(fStateQueue) \in Nat
        /\ \A i \in 1..Len(fStateQueue) : fStateQueue'[i] = fStateQueue[i]
        /\ fStateQueue'[Len(fStateQueue) + 1] = fState
    BY <1>3, <1>t, AppendProperties, LenProperties DEF TypeOK, CallbackPush
  <2>2. UNCHANGED <<fState, pending, ctl, todo>> /\ fsm = "push" /\ fsm' = "callback"
    BY <1>3 DEF CallbackPush
  <2>3. NotQueued(s)
    BY <2>2 DEF Arrived, NotQueued
  <2>4. OnTheWay(s, via, C)'
    BY <2>1, <2>2, <1>v DEF OnTheWay, NotQueued, Awaits
  <2>5. Arrived(s, C)'
    BY <2>1, <2>2, <2>3 DEF OnTheWay, Arrived, NotQueued, Awaits
  <2>6. QED  BY <2>4, <2>5
<1>4. CASE Callback \/ CallbackThrows
  BY <1>4 DEF OnTheWay, Arrived, NotQueued, Awaits, Callback, CallbackIdle, CallbackBound,
     CallbackFinal, CallbackOther, CallbackThrows
<1>5. CASE HandlerAuto
  BY <1>5, <1>v DEF OnTheWay, Arrived, NotQueued, Awaits, HandlerAuto
<1>6. CASE HandlerReturns \/ HandlerSelfStop \/ HandlerFails
  BY <1>6, <1>v DEF OnTheWay, Arrived, NotQueued, Awaits, HandlerReturns, HandlerSelfStop,
     HandlerFails, HandlerStates
<1>7. CASE SingleIssue
  <2>1. Head(todo) \in SingleCommand
    BY <1>7, <1>t, TodoType DEF TypeOK, SingleIssue
  <2>2. NotQueued(s)
    BY <1>7 DEF SingleIssue, Arrived, NotQueued, Awaits
  <2>3. QED
    BY <1>7, <2>1, <2>2, <1>v DEF OnTheWay, Arrived, NotQueued, Awaits, SingleIssue,
       ChangeDeviceState
<1>8. CASE SingleAwait
  <2>1. /\ Len(fStateQueue) \in Nat \ {0}
        /\ Head(fStateQueue) = fStateQueue[1]
        /\ Len(fStateQueue') = Len(fStateQueue) - 1
        /\ \A i \in 1..Len(fStateQueue') : fStateQueue'[i] = fStateQueue[i + 1]
    BY <1>8, <1>t, PopShifts DEF SingleAwait
  <2>2. CASE NotQueued(s)
    <3>1. NotQueued(s)'
      BY <2>1, <2>2 DEF NotQueued
    <3>2. Head(fStateQueue) # s
      BY <2>1, <2>2 DEF NotQueued
    <3>3. Awaits(C) => UNCHANGED <<ctl, todo>>
      BY <1>8, <3>2 DEF Awaits, SingleAwait
    <3>4. QED  
      BY <1>8, <3>1, <3>3 DEF OnTheWay, Arrived, NotQueued, Awaits, SingleAwait
  <2>3. CASE ~NotQueued(s)
    <3>1. PICK k \in 1..Len(fStateQueue) : fStateQueue[k] = s
      BY <2>3 DEF NotQueued
    <3>2. /\ k = Len(fStateQueue) /\ fState = s /\ Awaits(C) /\ pending = NoState /\ fsm # "push"
      BY <3>1 DEF Arrived
    <3>3. OnTheWay(s, via, C)'
      BY <1>8, <3>2, <1>v DEF OnTheWay, SingleAwait
    <3>4. CASE k = 1
      BY <1>8, <2>1, <3>2, <3>4, <3>3 DEF Arrived
    <3>5. CASE k # 1
      <4>1. Head(fStateQueue) # s
        BY <2>1, <3>1, <3>2, <3>5 DEF Arrived
      <4>2. UNCHANGED <<ctl, todo, fState, pending, fsm>>
        BY <1>8, <3>2, <4>1 DEF Awaits, SingleAwait
      <4>3. QED  BY <2>1, <3>2, <4>2, <3>3 DEF Arrived, Awaits
    <3>6. QED  BY <3>4, <3>5
  <2>4. QED  BY <2>2, <2>3
<1>9. CASE /\ UNCHANGED <<fState, pending, fsm, fStateQueue>>
           /\ ctl # "await"
  BY <1>9 DEF OnTheWay, Arrived, NotQueued, Awaits
<1>10. CASE UNCHANGED <<fState, pending, fsm, fStateQueue, ctl, todo>>
  BY <1>10 DEF OnTheWay, Arrived, NotQueued, Awaits
<1>11. QED
  BY <1>2, <1>3, <1>4, <1>5, <1>6, <1>7, <1>8, <1>9, <1>10
  DEF Next, StateMachineThread, StateControlThread,
     SingleRead, SingleThrows, CommandDone, ConsumeLoop,
     ConsumeCommand, ConsumeOther, ConsumeThrows, WriteRunTime, WriteRunTimeThrows, Aborts, ShutdownRead, ShutdownClear,
     ShutdownIssue, ShutdownAwait, Release, Destroy, Publish, Terminated, vars, ShutdownPoint

\* The states an operator's command ends in are such states.
LEMMA JourneyStep ==
    ASSUME NEW s \in DOMAIN Via,
           s = "Ready" => ~SelfStop, s = "Running" => ~SelfStop /\ ~DeviceFails,
           DownInv, Journey(s), [Next]_vars
    PROVE  Journey(s)'
<1>1. PICK via \in SUBSET DOMAIN AutoTarget : via = Via[s]
  BY DEF Via, AutoTarget
<1>2. PICK C \in SUBSET SingleCommand : C = LeadTo[s]
  BY DEF Via, LeadTo, SingleCommand, Transition
<1>3. s \in DeviceState /\ s \notin DOMAIN AutoTarget /\ s # "Error"
  BY DEF Via, DeviceState, AutoTarget
<1>4. \A c \in SingleCommand : TargetState[c] \in via \union {s} => c \in C
  BY <1>1, <1>2 DEF Via, LeadTo, TargetState, SingleCommand, Transition
<1>5. \A x \in DOMAIN AutoTarget : AutoTarget[x] \in via \union {s} => x \in via
  BY <1>1 DEF Via, AutoTarget
<1>6. \A c \in C : AwaitedState[c] = s /\ s \notin SourceStates[c]
  BY <1>2 DEF Via, LeadTo, AwaitedState, SourceStates
<1>7. OnTheWay(s, via, C) /\ Arrived(s, C)
  BY <1>1, <1>2 DEF Journey
<1>8. OnTheWay(s, via, C)' /\ Arrived(s, C)'
  BY <1>3, <1>4, <1>5, <1>6, <1>7, WayStep
<1>9. QED  BY <1>1, <1>2, <1>8 DEF Journey

\* At the start no journey is under way.
LEMMA InitJourney == ASSUME Init, NEW s \in DOMAIN Via PROVE Journey(s)
<1>1. Via[s] \subseteq DOMAIN AutoTarget
  BY DEF Via, AutoTarget
<1>2. OnTheWay(s, Via[s], LeadTo[s])
  BY <1>1 DEF Init, OnTheWay, NoState, AutoTarget, Via
<1>3. QED  BY <1>2 DEF Init, Journey, Arrived

\* What makes ConnectOnlyAfterHandshake inductive.
HandshakeInv ==
    /\ DownInv
    /\ Journey("DeviceReady") /\ Journey("Idle")
    /\ Connects
    /\ ShutdownFlag
    /\ ResetFlag
    /\ ConnectOnlyAfterHandshake

\* Before the shutdown sequence, a device in Connecting or a request for it
\* means a control thread in SingleAwait: no other step of it is enabled.
LEMMA ConnectsStep ==
    ASSUME ~RegistryFails, HandshakeInv, [Next]_vars
    PROVE  Connects'
<1> USE DEF deviceVars, flagVars, ctlVars
<1>t. TypeOK /\ DownInv
  BY DEF HandshakeInv, DownInv
<1>1. (fState' = "Connecting" \/ pending' = "Connecting") => Awaits({"Connect"})'
  <2>1. CASE SingleIssue
    <3>1. Head(todo) \in SingleCommand
      BY <2>1, <1>t, TodoType DEF TypeOK, SingleIssue
    <3>2. QED
      BY <2>1, <3>1 DEF HandshakeInv, Connects, Awaits, SingleIssue, ChangeDeviceState,
         TargetState, SingleCommand, Transition
  <2>2. CASE SingleAwait
    <3>1. fState' = fState /\ pending' = pending
      BY <2>2 DEF SingleAwait
    <3>2. ASSUME fState = "Connecting" \/ pending = "Connecting", ctl' # "await"
          PROVE  FALSE
      <4>0. Head(todo) = "Connect" /\ AwaitedState["Connect"] = "DeviceReady"
        BY <3>2 DEF HandshakeInv, Connects, Awaits, AwaitedState
      <4>1. Head(fStateQueue) = "DeviceReady"
        BY <2>2, <3>2, <4>0 DEF SingleAwait
      <4>2. fStateQueue[1] = "DeviceReady" /\ 1 \in 1..Len(fStateQueue)
        BY <2>2, <4>1, <1>t, PopShifts DEF SingleAwait
      <4>3. fState = "DeviceReady" /\ pending = NoState
        BY <2>2, <4>2 DEF HandshakeInv, Journey, Arrived, SingleAwait, ShutdownPoint
      <4>4. QED  BY <3>2, <4>3 DEF NoState
    <3>3. QED
      BY <2>2, <3>1, <3>2 DEF HandshakeInv, Connects, Awaits, SingleAwait
  <2>3. CASE SingleThrows
    <3>1. fStateQueue[1] = "Error" /\ 1 \in 1..Len(fStateQueue)
      BY <2>3, <1>t, EmptySeq DEF SingleThrows, PopThrows, TypeOK
    <3>2. fState = "Error" /\ pending = NoState
      BY <3>1, <1>t DEF DownInv, FinalIsCurrent, FinalIsFinal, FinalStates
    <3>3. QED  BY <2>3, <3>2 DEF SingleThrows, NoState
  <2>4. CASE StateMachineThread \/ CallbackThrows \/ HandlerSelfStop \/ HandlerFails
    BY <2>4 DEF HandshakeInv, Connects, Awaits, StateMachineThread, TakeTransition,
       CallbackPush, Callback, CallbackIdle, CallbackBound, CallbackFinal, CallbackOther,
       CallbackThrows, HandlerAuto, AutoTarget, NoState, HandlerReturns, HandlerSelfStop,
       HandlerFails
  <2>5. CASE ShutdownIssue
    <3>1. pending' # "Connecting" \/ pending' = pending
      BY <2>5 DEF ShutdownIssue, ChangeDeviceState, ShutdownTransition, TargetState
    <3>2. QED
      BY <2>5, <3>1 DEF HandshakeInv, Connects, Awaits, ShutdownIssue
  <2>6. QED
    BY <2>1, <2>2, <2>3, <2>4, <2>5 DEF HandshakeInv, Connects, Awaits, Next,
       StateControlThread, SingleRead, CommandDone, ConsumeLoop, ConsumeCommand,
       ConsumeOther, ConsumeThrows, WriteRunTime, WriteRunTimeThrows, Aborts, ShutdownRead, ShutdownClear, ShutdownAwait, Release,
       Destroy, Publish, Terminated, vars
<1>2. pending' = "Connecting" => fState' = "Bound" /\ ~IsCanceled'
  <2>1. CASE SingleIssue
    <3>1. Head(todo) \in SingleCommand
      BY <2>1, <1>t, TodoType DEF TypeOK, SingleIssue
    <3>2. pending # "Connecting"
      BY <2>1 DEF HandshakeInv, Connects, Awaits, SingleIssue
    <3>3. SUFFICES ASSUME pending' = "Connecting"
                   PROVE  fState' = "Bound" /\ ~IsCanceled'
      OBVIOUS
    <3>4. Head(todo) = "Connect" /\ fState = "Bound"
      BY <2>1, <3>1, <3>2, <3>3 DEF SingleIssue, ChangeDeviceState, TargetState,
         SourceStates, SingleCommand, Transition
    <3>5. ~fPluginShutdownRequested
      BY <2>1, <3>4 DEF HandshakeInv, ShutdownFlag, SingleIssue, ShutdownPoint
    <3>6. ~fResetDeviceRequested
      BY <2>1, <3>4 DEF HandshakeInv, ResetFlag, SingleIssue, ShutdownPoint
    <3>7. QED  BY <2>1, <3>4, <3>5, <3>6 DEF SingleIssue, IsCanceled
  <2>2. CASE StateMachineThread \/ CallbackThrows \/ HandlerSelfStop \/ HandlerFails
    BY <2>2 DEF HandshakeInv, Connects, StateMachineThread, TakeTransition,
       CallbackPush, Callback, CallbackIdle, CallbackBound, CallbackFinal, CallbackOther,
       CallbackThrows, HandlerAuto, AutoTarget, NoState, HandlerReturns, HandlerSelfStop,
       HandlerFails, FinalStates, IsCanceled
  <2>3. CASE ShutdownIssue
    BY <2>3 DEF HandshakeInv, Connects, Awaits, ShutdownIssue, ChangeDeviceState,
       ShutdownTransition, TargetState
  <2>4. CASE SingleAwait \/ SingleThrows \/ Publish \/ Terminated \/ UNCHANGED vars
    BY <2>4 DEF HandshakeInv, Connects, SingleAwait, SingleThrows, Publish, Terminated,
       vars, IsCanceled
  <2>5. QED
    BY <2>1, <2>2, <2>3, <2>4 DEF HandshakeInv, Connects, Awaits, Next,
       StateControlThread, SingleRead, CommandDone, ConsumeLoop, ConsumeCommand,
       ConsumeOther, ConsumeThrows, WriteRunTime, WriteRunTimeThrows, Aborts, ShutdownRead, ShutdownClear, ShutdownAwait, Release,
       Destroy
<1>3. fState' = "Bound" /\ fsm' \in {"handler", "wait"} => handshake' = "done" \/ IsCanceled'
  <2>1. CASE StateMachineThread \/ CallbackThrows \/ HandlerSelfStop \/ HandlerFails
    BY <2>1 DEF HandshakeInv, Connects, StateMachineThread, TakeTransition,
       CallbackPush, Callback, CallbackIdle, CallbackBound, CallbackFinal, CallbackOther,
       CallbackThrows, HandlerAuto, HandlerReturns, HandlerSelfStop,
       HandlerFails, IsCanceled
  <2>2. CASE SingleRead
    BY <2>2 DEF HandshakeInv, Connects, SingleRead, IsCanceled
  <2>3. CASE CommandDone \/ Destroy
    BY <2>3 DEF HandshakeInv, Connects, CommandDone, Destroy, IsCanceled
  <2>4. CASE UNCHANGED <<fState, fsm, handshake, flagVars>>
    BY <2>4 DEF HandshakeInv, Connects, IsCanceled
  <2>5. QED
    BY <2>1, <2>2, <2>3, <2>4 DEF Next, StateControlThread, SingleIssue, SingleAwait,
       SingleThrows, ConsumeLoop, ConsumeCommand, ConsumeOther, ConsumeThrows, WriteRunTime, WriteRunTimeThrows, Aborts, ShutdownRead,
       ShutdownClear, ShutdownIssue, ShutdownAwait, Release, Publish, Terminated, vars
<1>4. QED  BY <1>1, <1>2, <1>3 DEF Connects

\* Only CommandDone, on its way to the loop's test, and a failed device raise
\* the shutdown flag before the shutdown sequence.
LEMMA ShutdownFlagStep ==
    ASSUME HandshakeInv, [Next]_vars
    PROVE  ShutdownFlag'
<1> USE DEF deviceVars, flagVars, ctlVars
<1>1. CASE ctl' \in ShutdownPoint
  BY <1>1 DEF ShutdownFlag
<1> SUFFICES ASSUME ctl' \notin ShutdownPoint, ctl \notin ShutdownPoint PROVE ShutdownFlag'
  BY <1>1, ShutdownStays
<1>2. fState = "Error" => fState' = "Error"
  BY DEF HandshakeInv, DownInv, FinalIsFinal, FinalStates, Next, StateMachineThread,
     TakeTransition, CallbackPush,
     Callback, CallbackIdle, CallbackBound, CallbackFinal, CallbackOther, CallbackThrows,
     HandlerAuto, HandlerReturns, HandlerSelfStop, HandlerFails, StateControlThread,
     SingleRead, SingleIssue, SingleAwait, SingleThrows, CommandDone, ConsumeLoop,
     ConsumeCommand, ConsumeOther, ConsumeThrows, WriteRunTime, WriteRunTimeThrows, Aborts, ShutdownRead, ShutdownClear,
     ShutdownIssue, ShutdownAwait, Release, Destroy, Publish, Terminated, vars
<1>3. CASE CallbackFinal
  BY <1>3, <1>2 DEF HandshakeInv, ShutdownFlag, CallbackFinal
<1>4. CASE CommandDone
  BY <1>4 DEF CommandDone, ShutdownFlag
<1>5. CASE ConsumeLoop
  BY <1>5 DEF ConsumeLoop, ShutdownFlag, ShutdownPoint
<1>6. CASE UNCHANGED fPluginShutdownRequested /\ (ctl = "loop" => ctl' = "loop")
  BY <1>6, <1>2 DEF HandshakeInv, ShutdownFlag
<1>7. QED
  BY <1>3, <1>4, <1>5, <1>6 DEF Next, StateMachineThread, TakeTransition, CallbackPush,
     Callback, CallbackIdle, CallbackBound, CallbackOther, CallbackThrows,
     HandlerAuto, HandlerReturns, HandlerSelfStop, HandlerFails, StateControlThread,
     SingleRead, SingleIssue, SingleAwait, SingleThrows,
     ConsumeCommand, ConsumeOther, ConsumeThrows, WriteRunTime, WriteRunTimeThrows, Aborts, ShutdownRead, ShutdownClear,
     ShutdownIssue, ShutdownAwait, Release, Destroy, Publish, Terminated, vars, ShutdownPoint

\* The reset flag goes down in the callback of Idle, before anything can
\* follow the reset.
LEMMA ResetFlagStep ==
    ASSUME ~RegistryFails, HandshakeInv, [Next]_vars
    PROVE  ResetFlag'
<1> USE DEF deviceVars, flagVars, ctlVars
<1>t. TypeOK
  BY DEF HandshakeInv, DownInv
<1>1. CASE ctl' \in ShutdownPoint
  BY <1>1 DEF ResetFlag
<1> SUFFICES ASSUME ctl' \notin ShutdownPoint, ctl \notin ShutdownPoint PROVE ResetFlag'
  BY <1>1, ShutdownStays
<1>2. CASE TakeTransition \/ CallbackPush
  BY <1>2 DEF HandshakeInv, ResetFlag, TakeTransition, CallbackPush
<1>3. CASE Callback
  BY <1>3 DEF HandshakeInv, ResetFlag, Callback, CallbackIdle, CallbackBound, CallbackFinal,
     CallbackOther, FinalStates
<1>4. CASE HandlerAuto \/ HandlerReturns \/ HandlerSelfStop \/ HandlerFails
  BY <1>4 DEF HandshakeInv, ResetFlag, HandlerAuto, HandlerReturns, HandlerSelfStop,
     HandlerFails
<1>5. CASE SingleRead
  <2>1. fState # "Connecting"
    BY <1>5 DEF HandshakeInv, Connects, Awaits, SingleRead
  <2>2. "Idle" \notin SingleStates["ResetDevice"]
    BY DEF SingleStates
  <2>3. QED
    BY <1>5, <2>1, <2>2 DEF HandshakeInv, ResetFlag, SingleRead
<1>6. CASE SingleIssue
  BY <1>6 DEF HandshakeInv, ResetFlag, SingleIssue
<1>7. CASE SingleAwait
  <2>1. CASE ctl' = "await"
    BY <1>7, <2>1 DEF HandshakeInv, ResetFlag, SingleAwait
  <2>2. CASE ctl' # "await"
    <3>1. SUFFICES ASSUME fResetDeviceRequested', Head(todo) = "ResetDevice",
                          fState = "Idle" => fsm \in {"push", "callback"}
                   PROVE  fState = "Idle" /\ fsm \in {"push", "callback"}
      BY <1>7 DEF HandshakeInv, ResetFlag, SingleAwait
    <3>2. AwaitedState["ResetDevice"] = "Idle"
      BY DEF AwaitedState
    <3>3. Head(fStateQueue) = "Idle"
      BY <1>7, <2>2, <3>1, <3>2 DEF SingleAwait
    <3>4. fStateQueue[1] = "Idle" /\ 1 \in 1..Len(fStateQueue)
      BY <1>7, <1>t, <3>3, PopShifts DEF SingleAwait
    <3>5. fState = "Idle"
      BY <3>4 DEF HandshakeInv, Journey, Arrived
    <3>6. QED  BY <3>1, <3>5
  <2>3. QED  BY <2>1, <2>2
<1>8. CASE /\ UNCHANGED <<fState, fsm, fResetDeviceRequested>>
           /\ ctl \notin {"issue", "await"} \/ UNCHANGED <<ctl, todo>>
  BY <1>8 DEF HandshakeInv, ResetFlag
<1>9. QED
  BY <1>2, <1>3, <1>4, <1>5, <1>6, <1>7, <1>8 DEF Next, StateMachineThread, CallbackThrows,
     StateControlThread, SingleThrows, CommandDone, ConsumeLoop,
     ConsumeCommand, ConsumeOther, ConsumeThrows, WriteRunTime, WriteRunTimeThrows, Aborts, ShutdownRead, ShutdownClear,
     ShutdownIssue, ShutdownAwait, Release, Destroy, Publish, Terminated, vars, ShutdownPoint

\* No step breaks HandshakeInv, if the registry answers.
LEMMA HandshakeStep ==
    ASSUME ~RegistryFails, HandshakeInv, [Next]_vars
    PROVE  HandshakeInv'
<1>1. DownInv'
  BY DownStep DEF HandshakeInv
<1>2. "DeviceReady" \in DOMAIN Via /\ "Idle" \in DOMAIN Via
  BY DEF Via
<1>3. Journey("DeviceReady")' /\ Journey("Idle")'
  BY <1>2, JourneyStep DEF HandshakeInv
<1>4. Connects' /\ ShutdownFlag' /\ ResetFlag'
  BY ConnectsStep, ShutdownFlagStep, ResetFlagStep
<1>5. ConnectOnlyAfterHandshake'
  BY DEF HandshakeInv, Connects, ConnectOnlyAfterHandshake, Next, StateMachineThread,
     TakeTransition, CallbackPush, Callback, CallbackIdle, CallbackBound, CallbackFinal,
     CallbackOther, CallbackThrows, HandlerAuto, HandlerReturns, HandlerSelfStop,
     HandlerFails, StateControlThread, SingleRead, SingleIssue, SingleAwait, SingleThrows,
     CommandDone, ConsumeLoop, ConsumeCommand, ConsumeOther, ConsumeThrows, WriteRunTime, WriteRunTimeThrows, Aborts, ShutdownRead,
     ShutdownClear, ShutdownIssue, ShutdownAwait, Release, Destroy, Publish, Terminated,
     vars, deviceVars, flagVars, ctlVars
<1>6. QED  BY <1>1, <1>2, <1>3, <1>4, <1>5 DEF HandshakeInv

\* As long as calls to the registry do not fail, no device connects on an
\* address exchange that was canceled or never made: a flag left over from an
\* earlier reset, or raised while a CONNECT waits, never cuts one short.
THEOREM HandshakeBeforeConnect ==
    ASSUME ~RegistryFails
    PROVE  Spec => []ConnectOnlyAfterHandshake
<1>1. Init => HandshakeInv
  <2> SUFFICES ASSUME Init PROVE HandshakeInv
    OBVIOUS
  <2>1. DownInv
    BY InitDown
  <2>2. Journey("DeviceReady") /\ Journey("Idle")
    BY InitJourney DEF Via
  <2>4. Connects /\ ShutdownFlag /\ ResetFlag /\ ConnectOnlyAfterHandshake
    BY DEF Init, Connects, ShutdownFlag, ResetFlag, ConnectOnlyAfterHandshake, NoState
  <2>5. QED  BY <2>1, <2>2, <2>4 DEF HandshakeInv
<1>2. HandshakeInv /\ [Next]_vars => HandshakeInv'
  BY HandshakeStep
<1>3. HandshakeInv => ConnectOnlyAfterHandshake
  BY DEF HandshakeInv
<1>4. QED  BY <1>1, <1>2, <1>3, PTL DEF Spec

-----------------------------------------------------------------------------
(***************************************************************************)
(* No wait takes a stale state, whatever fails.  Ready is the one state a  *)
(* device also reaches by itself, and Running the one it leaves by itself; *)
(* every other awaited state has a journey of its own.                     *)
(***************************************************************************)

\* What may be pending in the two states.
RunAndReady ==
    /\ fState = "Running" => pending \in {NoState, "Ready", "Error"}
    /\ fState = "Ready" => pending \in {NoState, "Running", "ResettingTask"}

\* The device comes to Running only while a RUN waits for it, which takes the
\* one Running in fStateQueue; meanwhile the device may have left it.
RunWait ==
    ctl \notin ShutdownPoint =>
        /\ pending = "Running" \/ (fState = "Running" /\ fsm = "push")
               => Awaits({"Run"}) /\ NotQueued("Running")
        /\ \A i \in 1..Len(fStateQueue) : fStateQueue[i] = "Running" =>
               /\ Awaits({"Run"})
               /\ \/ fState = "Running" /\ fsm # "push"
                  \/ fState = "Ready" /\ pending = NoState
                  \/ fState = "Error"
               /\ \A j \in 1..Len(fStateQueue) : fStateQueue[j] = "Running" => j = i

\* A Ready that the device has left is in fStateQueue only until the RUN or the
\* way to DeviceReady that left it has been waited for.
ReadyLeft ==
    ctl \notin ShutdownPoint =>
        \A i \in 1..Len(fStateQueue) : fStateQueue[i] = "Ready" /\ fState # "Ready" =>
            /\ Awaits({"Run"} \union LeadTo["DeviceReady"])
            /\ \A j \in 1..Len(fStateQueue) : fStateQueue[j] = "Running" => i < j

StaleInv ==
    /\ DownInv
    /\ \A s \in DOMAIN Via \ {"Ready", "Running"} : Journey(s)
    /\ RunAndReady /\ RunWait /\ ReadyLeft

\* Only RUN and RESET TASK leave Ready, and only STOP, the device itself and a
\* failure leave Running.
LEMMA RunAndReadyStep ==
    ASSUME DownInv, RunAndReady, [Next]_vars
    PROVE  RunAndReady'
<1> USE DEF deviceVars, flagVars, ctlVars
<1>t. TypeOK
  BY DEF DownInv
<1>1. CASE StateMachineThread \/ CallbackThrows \/ HandlerSelfStop \/ HandlerFails
  BY <1>1 DEF RunAndReady, StateMachineThread, TakeTransition, CallbackPush, Callback,
     CallbackIdle, CallbackBound, CallbackFinal, CallbackOther, CallbackThrows, HandlerAuto,
     HandlerReturns, HandlerSelfStop, HandlerFails, AutoTarget, HandlerStates, NoState
<1>2. CASE SingleIssue
  <2>1. Head(todo) \in SingleCommand
    BY <1>2, <1>t, TodoType DEF TypeOK, SingleIssue
  <2>2. QED
    BY <1>2, <2>1 DEF RunAndReady, SingleIssue, ChangeDeviceState, SourceStates, TargetState,
       SingleCommand, Transition
<1>3. CASE ShutdownIssue
  BY <1>3 DEF RunAndReady, ShutdownIssue, ChangeDeviceState, ShutdownTransition,
     SourceStates, TargetState
<1>4. CASE UNCHANGED <<fState, pending>>
  BY <1>4 DEF RunAndReady
<1>5. QED
  BY <1>1, <1>2, <1>3, <1>4 DEF Next, StateControlThread, SingleRead, SingleAwait,
     SingleThrows, CommandDone, ConsumeLoop, ConsumeCommand, ConsumeOther, ConsumeThrows,
     WriteRunTime, WriteRunTimeThrows, Aborts, ShutdownRead, ShutdownClear, ShutdownAwait,
     Release, Destroy, Publish, Terminated, vars

\* No step breaks what is known of Running and of a Ready left behind.
LEMMA RunWaitStep ==
    ASSUME StaleInv, [Next]_vars
    PROVE  RunWait' /\ ReadyLeft'
<1> USE DEF deviceVars, flagVars, ctlVars
<1>t. TypeOK /\ DownInv /\ RunAndReady /\ RunWait /\ ReadyLeft
  BY DEF StaleInv, DownInv
<1>d. OnTheWay("DeviceReady", {"Connecting", "ResettingTask"}, LeadTo["DeviceReady"])
      /\ Arrived("DeviceReady", LeadTo["DeviceReady"])
  BY DEF StaleInv, Journey, Via
<1>f. fState = "Error" => pending = NoState
  BY <1>t DEF DownInv, FinalIsFinal, FinalStates
<1>1. CASE ctl' \in ShutdownPoint
  BY <1>1 DEF RunWait, ReadyLeft
<1> SUFFICES ASSUME ctl' \notin ShutdownPoint, ctl \notin ShutdownPoint
             PROVE  RunWait' /\ ReadyLeft'
  BY <1>1, ShutdownStays
<1>2. CASE TakeTransition
  <2>1. /\ fState' = pending /\ pending' = NoState /\ fsm' = "push" /\ pending # NoState
        /\ UNCHANGED <<fStateQueue, ctl, todo>>
    BY <1>2 DEF TakeTransition
  <2>2. RunWait'
    BY <2>1, <1>t, <1>f DEF RunWait, RunAndReady, NotQueued, Awaits, NoState
  <2>3. ReadyLeft'
    <3>1. CASE fState = "Ready"
      BY <2>1, <3>1, <1>t, <1>d DEF ReadyLeft, RunWait, RunAndReady, OnTheWay, NotQueued, Awaits
    <3>2. CASE fState # "Ready"
      BY <2>1, <3>2, <1>t DEF ReadyLeft, Awaits
    <3>3. QED  BY <3>1, <3>2
  <2>4. QED  BY <2>2, <2>3
<1>3. CASE CallbackPush
  <2>1. /\ Len(fStateQueue') = Len(fStateQueue) + 1 /\ Len(fStateQueue) \in Nat
        /\ \A i \in 1..Len(fStateQueue) : fStateQueue'[i] = fStateQueue[i]
        /\ fStateQueue'[Len(fStateQueue) + 1] = fState
    BY <1>3, <1>t, AppendProperties, LenProperties DEF TypeOK, CallbackPush
  <2>2. UNCHANGED <<fState, pending, ctl, todo>> /\ fsm = "push" /\ fsm' = "callback"
    BY <1>3 DEF CallbackPush
  <2>3. CASE fState = "Running"
    <3>1. Awaits({"Run"}) /\ NotQueued("Running")
      BY <2>2, <2>3, <1>t DEF RunWait
    <3>2. pending # "Running"
      BY <2>3, <1>t DEF RunAndReady, NoState
    <3>3. QED
      BY <2>1, <2>2, <2>3, <3>1, <3>2, <1>t DEF RunWait, ReadyLeft, NotQueued, Awaits
  <2>4. CASE fState # "Running"
    <3>1. NotQueued("Running") => NotQueued("Running")'
      BY <2>1, <2>4 DEF NotQueued
    <3>2. \A i \in 1..Len(fStateQueue') : fStateQueue'[i] = "Running" =>
              i \in 1..Len(fStateQueue) /\ fStateQueue[i] = "Running"
      BY <2>1, <2>4
    <3>3. \A i \in 1..Len(fStateQueue') : fStateQueue'[i] = "Ready" /\ fState # "Ready" =>
              i \in 1..Len(fStateQueue) /\ fStateQueue[i] = "Ready"
      BY <2>1
    <3>4. RunWait'
      BY <2>2, <2>4, <3>1, <3>2, <1>t DEF RunWait, Awaits
    <3>5. ReadyLeft'
      BY <2>2, <3>2, <3>3, <1>t DEF ReadyLeft, Awaits
    <3>6. QED  BY <3>4, <3>5
  <2>5. QED  BY <2>3, <2>4
<1>4. CASE Callback \/ CallbackThrows
  BY <1>4, <1>t DEF RunWait, ReadyLeft, NotQueued, Awaits, Callback, CallbackIdle,
     CallbackBound, CallbackFinal, CallbackOther, CallbackThrows
<1>5. CASE HandlerAuto \/ HandlerReturns \/ HandlerSelfStop \/ HandlerFails
  BY <1>5, <1>t DEF RunWait, ReadyLeft, RunAndReady, NotQueued, Awaits, HandlerAuto,
     HandlerReturns, HandlerSelfStop, HandlerFails, AutoTarget, HandlerStates
<1>6. CASE SingleIssue
  <2>1. Head(todo) \in SingleCommand
    BY <1>6, <1>t, TodoType DEF TypeOK, SingleIssue
  <2>2. /\ NotQueued("Running")
        /\ \A i \in 1..Len(fStateQueue) : fStateQueue[i] = "Ready" => fState = "Ready"
        /\ ~(fState = "Running" /\ fsm = "push") /\ pending # "Running"
    BY <1>6, <1>t DEF RunWait, ReadyLeft, NotQueued, Awaits, SingleIssue
  <2>3. pending' = "Running" => Head(todo) = "Run"
    BY <1>6, <2>1, <2>2 DEF SingleIssue, ChangeDeviceState, TargetState, SingleCommand, Transition
  <2>4. QED
    BY <1>6, <2>2, <2>3 DEF RunWait, ReadyLeft, NotQueued, Awaits, SingleIssue
<1>7. CASE SingleAwait
  <2>1. /\ Len(fStateQueue) \in Nat \ {0}
        /\ Head(fStateQueue) = fStateQueue[1]
        /\ Len(fStateQueue') = Len(fStateQueue) - 1
        /\ \A i \in 1..Len(fStateQueue') : fStateQueue'[i] = fStateQueue[i + 1]
    BY <1>7, <1>t, PopShifts DEF SingleAwait
  <2>2. UNCHANGED <<fState, pending, fsm>> /\ ctl = "await"
    BY <1>7 DEF SingleAwait
  <2>3. \A i \in 1..Len(fStateQueue') : i + 1 \in 1..Len(fStateQueue)
    BY <2>1
  <2>4. CASE UNCHANGED <<ctl, todo>>
    <3>1. NotQueued("Running") => NotQueued("Running")'
      BY <2>1, <2>3 DEF NotQueued
    <3>2. RunWait'
      BY <2>1, <2>2, <2>3, <2>4, <3>1, <1>t DEF RunWait, Awaits
    <3>3. ReadyLeft'
      BY <2>1, <2>2, <2>3, <2>4, <1>t DEF ReadyLeft, Awaits
    <3>4. QED  BY <3>2, <3>3
  <2>5. CASE ~UNCHANGED <<ctl, todo>>
    <3>1. fStateQueue[1] = AwaitedState[Head(todo)] /\ 1 \in 1..Len(fStateQueue)
      BY <1>7, <2>1, <2>5 DEF SingleAwait
    <3>2. /\ ~(fState = "Running" /\ fsm = "push") /\ pending # "Running"
          /\ NotQueued("Running")'
      <4>1. CASE Head(todo) = "Run"
        <5>1. fStateQueue[1] = "Running"
          BY <3>1, <4>1 DEF AwaitedState
        <5>2. QED
          BY <2>1, <2>2, <2>3, <3>1, <5>1, <1>t DEF RunWait, NotQueued
      <4>2. CASE Head(todo) # "Run"
        BY <2>1, <2>3, <4>2, <1>t DEF RunWait, NotQueued, Awaits
      <4>3. QED  BY <4>1, <4>2
    <3>3. ASSUME NEW i \in 1..Len(fStateQueue'), fStateQueue'[i] = "Ready", fState # "Ready"
          PROVE  FALSE
      <4>1. fStateQueue[i + 1] = "Ready" /\ i + 1 \in 1..Len(fStateQueue)
        BY <2>1, <2>3, <3>3
      <4>2. /\ Head(todo) \in {"Run"} \union LeadTo["DeviceReady"]
            /\ \A j \in 1..Len(fStateQueue) : fStateQueue[j] = "Running" => i + 1 < j
        BY <3>3, <4>1, <1>t DEF ReadyLeft, Awaits
      <4>3. fStateQueue[1] = "Running" \/ fStateQueue[1] = "DeviceReady"
        BY <3>1, <4>2 DEF AwaitedState, LeadTo
      <4>4. fStateQueue[1] # "Running"
        BY <2>1, <3>1, <4>2
      <4>5. Len(fStateQueue) = 1
        BY <3>1, <4>3, <4>4, <1>d DEF Arrived
      <4>6. QED  BY <2>1, <4>1, <4>5
    <3>4. QED  BY <2>2, <3>2, <3>3 DEF RunWait, ReadyLeft, NotQueued
  <2>6. QED  BY <2>4, <2>5
<1>8. CASE UNCHANGED <<fState, pending, fsm, fStateQueue>> /\ ctl # "await"
  BY <1>8, <1>t DEF RunWait, ReadyLeft, NotQueued, Awaits
<1>9. CASE UNCHANGED <<fState, pending, fsm, fStateQueue, ctl, todo>>
  BY <1>9, <1>t DEF RunWait, ReadyLeft, NotQueued, Awaits
<1>10. QED
  BY <1>2, <1>3, <1>4, <1>5, <1>6, <1>7, <1>8, <1>9
  DEF Next, StateMachineThread, StateControlThread, SingleRead, SingleThrows, CommandDone,
     ConsumeLoop, ConsumeCommand, ConsumeOther, ConsumeThrows, WriteRunTime,
     WriteRunTimeThrows, Aborts, ShutdownRead, ShutdownClear, ShutdownIssue, ShutdownAwait,
     Release, Destroy, Publish, Terminated, vars, ShutdownPoint

\* What a wait takes from fStateQueue is never older than its command.
LEMMA StaleInvImplies == StaleInv => NoStaleWait
<1> SUFFICES ASSUME StaleInv, ctl = "await",
                    NEW i \in 1..Len(fStateQueue), fStateQueue[i] = AwaitedState[Head(todo)]
             PROVE  \/ fState = AwaitedState[Head(todo)]
                    \/ Head(todo) = "Run" /\ fState \in {"Ready", "Error"}
  BY DEF NoStaleWait
<1>1. Head(todo) \in SingleCommand
  BY TodoType DEF StaleInv, DownInv, TypeOK
<1>2. ctl \notin ShutdownPoint
  BY DEF ShutdownPoint
<1>3. CASE Head(todo) = "Run"
  <2>1. AwaitedState["Run"] = "Running"
    BY DEF AwaitedState
  <2>2. QED  BY <1>2, <1>3, <2>1 DEF StaleInv, RunWait
<1>4. CASE Head(todo) \in LeadTo["Ready"]
  <2>1. AwaitedState[Head(todo)] = "Ready" /\ Head(todo) \notin {"Run"} \union LeadTo["DeviceReady"]
    BY <1>4 DEF AwaitedState, LeadTo
  <2>2. QED  BY <1>2, <2>1 DEF StaleInv, ReadyLeft, Awaits
<1>5. CASE Head(todo) # "Run" /\ Head(todo) \notin LeadTo["Ready"]
  <2>1. AwaitedState[Head(todo)] \in DOMAIN Via \ {"Ready", "Running"}
    BY <1>1, <1>5 DEF AwaitedState, LeadTo, Via, SingleCommand, Transition
  <2>2. Journey(AwaitedState[Head(todo)])
    BY <2>1 DEF StaleInv
  <2>3. QED  BY <1>2, <2>2 DEF Journey, Arrived
<1>6. QED  BY <1>3, <1>4, <1>5

\* Whatever fails, and however the device leaves Running, a single command
\* never takes a state from before the command for the one it asked for.
THEOREM WaitsAreFresh == Spec => []NoStaleWait
<1>1. Init => StaleInv
  <2> SUFFICES ASSUME Init PROVE StaleInv
    OBVIOUS
  <2>1. RunAndReady /\ RunWait /\ ReadyLeft
    BY DEF Init, RunAndReady, RunWait, ReadyLeft, NoState
  <2>2. QED  BY <2>1, InitDown, InitJourney DEF StaleInv
<1>2. StaleInv /\ [Next]_vars => StaleInv'
  <2> SUFFICES ASSUME StaleInv, [Next]_vars PROVE StaleInv'
    OBVIOUS
  <2>1. DownInv' /\ RunAndReady'
    BY DownStep, RunAndReadyStep DEF StaleInv
  <2>2. ASSUME NEW s \in DOMAIN Via \ {"Ready", "Running"} PROVE Journey(s)'
    BY JourneyStep DEF StaleInv
  <2>3. RunWait' /\ ReadyLeft'
    BY RunWaitStep
  <2>4. QED  BY <2>1, <2>2, <2>3 DEF StaleInv
<1>3. QED  BY <1>1, <1>2, StaleInvImplies, PTL DEF Spec

-----------------------------------------------------------------------------
(***************************************************************************)
(* Commands keep their promise.  On a device that neither fails nor leaves *)
(* Running by itself, with a registry that answers, every state has its    *)
(* journey: the single commands of a plan lead from state to state, and    *)
(* the run record follows them.                                            *)
(***************************************************************************)

Undisturbed == ~SelfStop /\ ~DeviceFails /\ ~RegistryFails

\* Where the device can be while single command c waits.
Travelling(c) ==
    \/ pending = TargetState[c] /\ fState \in SourceStates[c]
    \/ /\ fState = TargetState[c] /\ TargetState[c] # AwaitedState[c]
       /\ pending \in {NoState, AwaitedState[c]}
    \/ fState = AwaitedState[c] /\ pending = NoState

RestPoint == {"single", "issue", "record", "loop", "consume", "shutdown"}

\* The device moves only while a single command waits.
AtRest == /\ ctl \in RestPoint => pending = NoState /\ fState \in DOMAIN Via
          /\ ctl = "await" => Travelling(Head(todo))

\* The state a command received in state s is to leave the device in.
Goal(s, c) == IF Moves(s, c) THEN Promised[c] ELSE s

\* Each single command of plan p starts where the one before it ends.
Linked(p) == \A k \in 1..Len(p) - 1 : AwaitedState[p[k]] \in SingleStates[p[k + 1]]

\* Where plan p ends if the device is in state s, the end of what it has done.
EndOf(p, s) == IF p = <<>> THEN s ELSE AwaitedState[p[Len(p)]]

\* The plan starts where the device is and ends in the goal of the command.
Planned ==
    ctl \in {"single", "issue", "await", "record"} =>
        /\ Linked(todo)
        /\ ctl \in {"single", "issue"} /\ todo # <<>> => fState \in SingleStates[Head(todo)]
        /\ ctl = "record" => fState = AwaitedState[Head(todo)] /\ Head(todo) \in {"Run", "Stop"}
        /\ cmd \in DOMAIN Promised => EndOf(todo, fState) = Goal(receivedIn, cmd)

\* The run record follows the device, and the shutdown sequence closes it.
Recorded ==
    /\ ctl \in {"single", "issue", "loop", "consume"} => (runOpen <=> fState = "Running")
    /\ ctl = "await" => (runOpen <=> Head(todo) = "Stop")
    /\ ctl = "shutdown" /\ runOpen => fState = "Running"
    /\ ctl \in {"shutdownClear", "shutdownStep"} /\ runOpen => seen = "Running"
    /\ ctl \in {"shutdownAwait", "released", "gone"} => ~runOpen

PromiseInv ==
    /\ DownInv
    /\ \A s \in DOMAIN Via : Journey(s)
    /\ AtRest /\ Planned /\ Recorded

\* ForwardCommands and BackwardCommands are linked, and lead from the states
\* and to the states the tables say.
LEMMA Tables ==
    /\ ForwardCommands \in Seq(SingleCommand) /\ Len(ForwardCommands) = 6
    /\ BackwardCommands \in Seq(SingleCommand) /\ Len(BackwardCommands) = 3
    /\ \A k \in 1..5 : AwaitedState[ForwardCommands[k]] \in SingleStates[ForwardCommands[k + 1]]
    /\ \A k \in 1..2 : AwaitedState[BackwardCommands[k]] \in SingleStates[BackwardCommands[k + 1]]
    /\ \A s \in DOMAIN Via :
           ForwardDone[s] < 6 => s \in SingleStates[ForwardCommands[ForwardDone[s] + 1]]
    /\ \A s \in DOMAIN BackwardFirst : s \in SingleStates[BackwardCommands[BackwardFirst[s]]]
    /\ \A c \in DOMAIN ForwardGoal : AwaitedState[ForwardCommands[ForwardGoal[c]]] = Promised[c]
    /\ \A c \in DOMAIN BackwardGoal : AwaitedState[BackwardCommands[BackwardGoal[c]]] = Promised[c]
<1>1. /\ ForwardCommands \in Seq(SingleCommand) /\ Len(ForwardCommands) = 6
      /\ BackwardCommands \in Seq(SingleCommand) /\ Len(BackwardCommands) = 3
  BY DEF ForwardCommands, BackwardCommands, SingleCommand, Transition
<1>2. /\ ForwardCommands[1] = "InitDevice" /\ ForwardCommands[2] = "CompleteInit"
      /\ ForwardCommands[3] = "Bind" /\ ForwardCommands[4] = "Connect"
      /\ ForwardCommands[5] = "InitTask" /\ ForwardCommands[6] = "Run"
  BY DEF ForwardCommands
<1>3. /\ BackwardCommands[1] = "Stop" /\ BackwardCommands[2] = "ResetTask"
      /\ BackwardCommands[3] = "ResetDevice"
  BY DEF BackwardCommands
<1>4. \A k \in 1..5 : AwaitedState[ForwardCommands[k]] \in SingleStates[ForwardCommands[k + 1]]
  <2>1. \A k \in 1..5 : k = 1 \/ k = 2 \/ k = 3 \/ k = 4 \/ k = 5
    OBVIOUS
  <2>2. QED  BY <1>2, <2>1 DEF AwaitedState, SingleStates
<1>5. \A k \in 1..2 : AwaitedState[BackwardCommands[k]] \in SingleStates[BackwardCommands[k + 1]]
  <2>1. \A k \in 1..2 : k = 1 \/ k = 2
    OBVIOUS
  <2>2. QED  BY <1>3, <2>1 DEF AwaitedState, SingleStates
<1>6. \A s \in DOMAIN Via :
          ForwardDone[s] < 6 => s \in SingleStates[ForwardCommands[ForwardDone[s] + 1]]
  BY <1>2 DEF Via, ForwardDone, SingleStates
<1>7. \A s \in DOMAIN BackwardFirst : s \in SingleStates[BackwardCommands[BackwardFirst[s]]]
  BY <1>3 DEF BackwardFirst, SingleStates
<1>8. \A c \in DOMAIN ForwardGoal : AwaitedState[ForwardCommands[ForwardGoal[c]]] = Promised[c]
  BY <1>2 DEF ForwardGoal, AwaitedState, Promised
<1>9. \A c \in DOMAIN BackwardGoal : AwaitedState[BackwardCommands[BackwardGoal[c]]] = Promised[c]
  BY <1>3 DEF BackwardGoal, AwaitedState, Promised
<1>10. QED  BY <1>1, <1>4, <1>5, <1>6, <1>7, <1>8, <1>9

\* A slice of a linked plan is linked, and has the ends of the slice.
LEMMA Slice ==
    ASSUME NEW p \in Seq(SingleCommand), Linked(p),
           NEW m \in Nat \ {0}, NEW n \in Nat, m <= n, n <= Len(p),
           NEW q, q = SubSeq(p, m, n)
    PROVE  /\ q # <<>> /\ Linked(q)
           /\ Head(q) = p[m]
           /\ q[Len(q)] = p[n]
<1>1. \A i \in m..n : p[i] \in SingleCommand
  BY ElementOfSeq
<1>2. /\ q \in Seq(SingleCommand) /\ Len(q) = n - m + 1
      /\ \A i \in 1..(n - m + 1) : q[i] = p[m + i - 1]
  BY <1>1, SubSeqProperties
<1>3. q # <<>>
  BY ONLY <1>2, EmptySeq, m <= n, m \in Nat, n \in Nat
<1>4. Head(q) = p[m] /\ q[Len(q)] = p[n]
  <2>1. Head(q) = q[1]
    BY ONLY <1>2, <1>3
  <2>2. m + 1 - 1 = m /\ m + (n - m + 1) - 1 = n /\ 1 \in 1..(n - m + 1) /\ n - m + 1 \in 1..(n - m + 1)
    OBVIOUS
  <2>3. QED  BY ONLY <1>2, <2>1, <2>2
<1>5. ASSUME NEW k \in 1..Len(q) - 1
      PROVE  AwaitedState[q[k]] \in SingleStates[q[k + 1]]
  <2>1. /\ k \in 1..(n - m + 1) /\ k + 1 \in 1..(n - m + 1)
        /\ m + k - 1 \in 1..Len(p) - 1 /\ m + (k + 1) - 1 = (m + k - 1) + 1
    BY <1>2
  <2>2. q[k] = p[m + k - 1] /\ q[k + 1] = p[(m + k - 1) + 1]
    BY <1>2, <2>1
  <2>3. QED  BY <2>1, <2>2 DEF Linked
<1>6. QED  BY <1>3, <1>4, <1>5 DEF Linked

\* What ChangeDeviceStateByMultiCommand runs leads from the state it found to
\* the promise of the command, and is nothing where the command is idle.
LEMMA PlanOfCommand ==
    ASSUME NEW s \in DOMAIN Via, NEW c \in AllCommands
    PROVE  /\ Linked(MultiCommand(s, c))
           /\ MultiCommand(s, c) # <<>> => s \in SingleStates[Head(MultiCommand(s, c))]
           /\ c \in DOMAIN Promised => EndOf(MultiCommand(s, c), s) = Goal(s, c)
<1>e. Linked(<<>>) /\ \A x : EndOf(<<>>, x) = x
  BY DEF Linked, EndOf
<1>d. /\ DOMAIN Via = DOMAIN ForwardDone
      /\ DOMAIN Promised = DOMAIN ForwardGoal \union DOMAIN BackwardGoal
      /\ DOMAIN ForwardGoal \intersect DOMAIN BackwardGoal = {}
      /\ c \in DOMAIN BackwardGoal <=> c \in {"Stop", "ResetTask", "ResetDevice", "Reset"}
      /\ s \in DOMAIN BackwardFirst <=> s \notin {"Idle", "InitializingDevice"}
  BY DEF Via, ForwardDone, Promised, ForwardGoal, BackwardGoal, BackwardFirst
<1>1. CASE c \in DOMAIN ForwardGoal
  <2>1. ForwardDone[s] \in 0..6 /\ ForwardGoal[c] \in 2..6
    BY <1>1 DEF Via, ForwardDone, ForwardGoal
  <2>2. ForwardGoal[c] = ForwardDone[Promised[c]]
    BY <1>1 DEF ForwardDone, ForwardGoal, Promised
  <2>3. c = "InitDevice" => ForwardGoal[c] = 2
    BY DEF ForwardGoal
  <2>4. s = "Idle" <=> ForwardDone[s] = 0
    BY DEF Via, ForwardDone
  <2>5. s = "InitializingDevice" <=> ForwardDone[s] = 1
    BY DEF Via, ForwardDone
  <2>6. Moves(s, c) <=> ForwardDone[s] < ForwardGoal[c] /\ (c = "InitDevice" => s = "Idle")
    BY <1>1, <1>d, <2>1, <2>2, <2>3, <2>4, <2>5 DEF Moves
  <2>7. CASE Moves(s, c)
    <3>1. MultiCommand(s, c) = SubSeq(ForwardCommands, ForwardDone[s] + 1, ForwardGoal[c])
      BY <1>1, <1>d, <2>6, <2>7 DEF MultiCommand
    <3>2. Linked(ForwardCommands)
      BY Tables DEF Linked
    <3>3. /\ MultiCommand(s, c) # <<>> /\ Linked(MultiCommand(s, c))
          /\ Head(MultiCommand(s, c)) = ForwardCommands[ForwardDone[s] + 1]
          /\ MultiCommand(s, c)[Len(MultiCommand(s, c))] = ForwardCommands[ForwardGoal[c]]
      <4>1. /\ ForwardDone[s] + 1 \in Nat \ {0} /\ ForwardGoal[c] \in Nat
            /\ ForwardDone[s] + 1 <= ForwardGoal[c] /\ ForwardGoal[c] <= Len(ForwardCommands)
        BY <2>1, <2>6, <2>7, Tables
      <4>2. ForwardCommands \in Seq(SingleCommand)
        BY Tables
      <4>3. PICK m \in Nat \ {0}, n \in Nat : m = ForwardDone[s] + 1 /\ n = ForwardGoal[c]
        BY <4>1
      <4>4. PICK q : q = MultiCommand(s, c)
        OBVIOUS
      <4>5. m <= n /\ n <= Len(ForwardCommands) /\ q = SubSeq(ForwardCommands, m, n)
        BY <3>1, <4>1, <4>3, <4>4
      <4>6. q # <<>> /\ Linked(q)
        BY <3>2, <4>2, <4>5, Slice
      <4>7. Head(q) = ForwardCommands[m]
        BY <3>2, <4>2, <4>5, Slice
      <4>8. q[Len(q)] = ForwardCommands[n]
        BY <3>2, <4>2, <4>5, Slice
      <4>9. QED  BY <4>3, <4>4, <4>6, <4>7, <4>8
    <3>4. s \in SingleStates[ForwardCommands[ForwardDone[s] + 1]]
      BY <2>1, <2>6, <2>7, Tables
    <3>5. AwaitedState[ForwardCommands[ForwardGoal[c]]] = Promised[c]
      BY <1>1, Tables
    <3>6. QED  BY <2>7, <3>3, <3>4, <3>5 DEF EndOf, Goal
  <2>8. CASE ~Moves(s, c)
    <3>1. MultiCommand(s, c) = <<>>
      <4>1. CASE c = "InitDevice" => s = "Idle"
        <5>1. ForwardDone[s] + 1 > ForwardGoal[c]
          BY <2>1, <2>6, <2>8, <4>1
        <5>2. SubSeq(ForwardCommands, ForwardDone[s] + 1, ForwardGoal[c]) = <<>>
          BY <2>1, <5>1, SubSeqEmpty
        <5>3. QED  BY <1>1, <1>d, <4>1, <5>2 DEF MultiCommand
      <4>2. CASE ~(c = "InitDevice" => s = "Idle")
        BY <1>1, <1>d, <4>2 DEF MultiCommand
      <4>3. QED  BY <4>1, <4>2
    <3>2. QED  BY <1>e, <2>8, <3>1 DEF Goal
  <2>9. QED  BY <2>7, <2>8
<1>2. CASE c \in DOMAIN BackwardGoal
  <2>0. c \notin DOMAIN ForwardGoal
    BY <1>2, <1>d
  <2>1. BackwardGoal[c] \in 1..3
    BY <1>2 DEF BackwardGoal
  <2>2. s \in DOMAIN BackwardFirst => BackwardFirst[s] \in 1..3
    BY DEF BackwardFirst
  <2>3. ASSUME s \in DOMAIN BackwardFirst
        PROVE  BackwardFirst[s] <= BackwardGoal[c] <=> ForwardDone[s] > ForwardDone[Promised[c]]
    BY <1>2, <2>3 DEF BackwardFirst, BackwardGoal, ForwardDone, Promised
  <2>4. ASSUME s \notin DOMAIN BackwardFirst PROVE ~Moves(s, c)
    <3>1. s = "Idle" \/ s = "InitializingDevice"
      BY <1>d, <2>4
    <3>2. ForwardDone["Idle"] = 0 /\ ForwardDone[Promised[c]] \in Nat
      BY <1>2 DEF ForwardDone, Promised, BackwardGoal
    <3>3. QED  BY <1>2, <1>d, <3>1, <3>2 DEF Moves
  <2>5. Moves(s, c) <=> s \in DOMAIN BackwardFirst /\ BackwardFirst[s] <= BackwardGoal[c]
    BY <1>2, <1>d, <2>3, <2>4 DEF Moves
  <2>7. CASE Moves(s, c)
    <3>1. MultiCommand(s, c) = SubSeq(BackwardCommands, BackwardFirst[s], BackwardGoal[c])
      BY <1>2, <2>0, <2>5, <2>7 DEF MultiCommand
    <3>2. Linked(BackwardCommands)
      BY Tables DEF Linked
    <3>3. /\ MultiCommand(s, c) # <<>> /\ Linked(MultiCommand(s, c))
          /\ Head(MultiCommand(s, c)) = BackwardCommands[BackwardFirst[s]]
          /\ MultiCommand(s, c)[Len(MultiCommand(s, c))] = BackwardCommands[BackwardGoal[c]]
      <4>1. /\ BackwardFirst[s] \in Nat \ {0} /\ BackwardGoal[c] \in Nat
            /\ BackwardFirst[s] <= BackwardGoal[c] /\ BackwardGoal[c] <= Len(BackwardCommands)
        BY <2>1, <2>2, <2>5, <2>7, Tables
      <4>2. BackwardCommands \in Seq(SingleCommand)
        BY Tables
      <4>3. PICK m \in Nat \ {0}, n \in Nat : m = BackwardFirst[s] /\ n = BackwardGoal[c]
        BY <4>1
      <4>4. PICK q : q = MultiCommand(s, c)
        OBVIOUS
      <4>5. m <= n /\ n <= Len(BackwardCommands) /\ q = SubSeq(BackwardCommands, m, n)
        BY <3>1, <4>1, <4>3, <4>4
      <4>6. q # <<>> /\ Linked(q)
        BY <3>2, <4>2, <4>5, Slice
      <4>7. Head(q) = BackwardCommands[m]
        BY <3>2, <4>2, <4>5, Slice
      <4>8. q[Len(q)] = BackwardCommands[n]
        BY <3>2, <4>2, <4>5, Slice
      <4>9. QED  BY <4>3, <4>4, <4>6, <4>7, <4>8
    <3>4. s \in SingleStates[BackwardCommands[BackwardFirst[s]]]
      BY <2>5, <2>7, Tables
    <3>5. AwaitedState[BackwardCommands[BackwardGoal[c]]] = Promised[c]
      BY <1>2, Tables
    <3>6. QED  BY <2>7, <3>3, <3>4, <3>5 DEF EndOf, Goal
  <2>8. CASE ~Moves(s, c)
    <3>1. MultiCommand(s, c) = <<>>
      <4>1. CASE s \in DOMAIN BackwardFirst
        <5>1. BackwardFirst[s] > BackwardGoal[c]
          BY <2>1, <2>2, <2>5, <2>8, <4>1
        <5>2. SubSeq(BackwardCommands, BackwardFirst[s], BackwardGoal[c]) = <<>>
          BY <2>1, <2>2, <4>1, <5>1, SubSeqEmpty
        <5>3. QED  BY <1>2, <2>0, <4>1, <5>2 DEF MultiCommand
      <4>2. CASE s \notin DOMAIN BackwardFirst
        BY <2>0, <4>2 DEF MultiCommand
      <4>3. QED  BY <4>1, <4>2
    <3>2. QED  BY <1>e, <2>8, <3>1 DEF Goal
  <2>9. QED  BY <2>7, <2>8
<1>3. CASE c \notin DOMAIN ForwardGoal \union DOMAIN BackwardGoal
  BY <1>3, <1>d, <1>e DEF MultiCommand
<1>4. QED  BY <1>1, <1>2, <1>3

\* After its first single command a linked plan goes on where that one ends,
\* and ends where it ended.
LEMMA Advance ==
    ASSUME TypeOK, todo # <<>>, Linked(todo)
    PROVE  /\ Linked(Tail(todo))
           /\ Tail(todo) # <<>> => AwaitedState[Head(todo)] \in SingleStates[Head(Tail(todo))]
           /\ EndOf(Tail(todo), AwaitedState[Head(todo)]) = EndOf(todo, fState)
<1>1. /\ todo \in Seq(SingleCommand) /\ Tail(todo) \in Seq(SingleCommand)
      /\ Len(todo) \in Nat \ {0} /\ Len(Tail(todo)) = Len(todo) - 1
      /\ \A i \in 1..Len(Tail(todo)) : Tail(todo)[i] = todo[i + 1]
      /\ Head(todo) = todo[1]
  BY HeadTailProperties, EmptySeq DEF TypeOK
<1>2. PICK t \in Seq(SingleCommand) : t = Tail(todo)
  BY <1>1
<1>3. /\ Len(t) = Len(todo) - 1 /\ Len(t) \in Nat
      /\ \A i \in 1..Len(t) : t[i] = todo[i + 1]
      /\ t # <<>> => Len(t) # 0
      /\ t = <<>> => Len(t) = 0
  <2>1. t # <<>> => Len(t) \in Nat \ {0}
    BY EmptySeq
  <2>2. t = <<>> => Len(t) = 0
    BY EmptySeq
  <2>3. QED  BY <1>1, <1>2, <2>1, <2>2
<1>4. ASSUME NEW k \in 1..Len(t) - 1 PROVE AwaitedState[t[k]] \in SingleStates[t[k + 1]]
  <2>1. k + 1 \in 1..Len(todo) - 1 /\ t[k] = todo[k + 1] /\ t[k + 1] = todo[(k + 1) + 1]
    BY <1>1, <1>3
  <2>2. QED  BY <2>1 DEF Linked
<1>5. t # <<>> => AwaitedState[todo[1]] \in SingleStates[Head(t)]
  <2>1. SUFFICES ASSUME t # <<>> PROVE AwaitedState[todo[1]] \in SingleStates[Head(t)]
    OBVIOUS
  <2>2. Head(t) = t[1]
    BY <2>1
  <2>3. t[1] = todo[1 + 1] /\ 1 \in 1..Len(todo) - 1
    BY <1>1, <1>3, <2>1
  <2>4. QED  BY <2>2, <2>3 DEF Linked
<1>6. EndOf(t, AwaitedState[todo[1]]) = AwaitedState[todo[Len(todo)]]
  <2>1. CASE t = <<>>
    <3>1. Len(t) = 0
      BY <1>3, <2>1
    <3>2. Len(t) = Len(todo) - 1 /\ Len(todo) \in Nat
      BY <1>1, <1>3
    <3>3. Len(todo) = 1
      BY ONLY <3>1, <3>2
    <3>4. QED  BY <2>1, <3>3 DEF EndOf
  <2>2. CASE t # <<>>
    <3>1. t[Len(t)] = todo[Len(todo)]
      BY <1>1, <1>3, <2>2
    <3>2. QED  BY <2>2, <3>1 DEF EndOf
  <2>3. QED  BY <2>1, <2>2
<1>7. QED  BY <1>1, <1>2, <1>4, <1>5, <1>6 DEF Linked, EndOf

\* What the tables say of one single command.
LEMMA OneCommand ==
    ASSUME NEW c \in SingleCommand
    PROVE  /\ SingleStates[c] = SourceStates[c] /\ SourceStates[c] \subseteq DOMAIN Via
           /\ AwaitedState[c] \in DOMAIN Via
           /\ TargetState[c] # AwaitedState[c] =>
                  /\ TargetState[c] \in DOMAIN AutoTarget
                  /\ AutoTarget[TargetState[c]] = AwaitedState[c]
           /\ TargetState[c] \in DeviceState
           /\ \A s \in SingleStates[c] : s = "Running" <=> c = "Stop"
           /\ AwaitedState[c] = "Running" <=> c = "Run"
           /\ TargetState[c] \notin FinalStates
<1>1. c \in {"InitDevice", "CompleteInit", "Bind", "Connect", "InitTask", "Run", "Stop",
             "ResetTask", "ResetDevice"}
  BY DEF SingleCommand, Transition
<1>2. \A s : s \in SingleStates[c] <=> s \in SourceStates[c]
  BY <1>1 DEF SingleStates, SourceStates
<1>3. /\ SourceStates[c] \subseteq DOMAIN Via
      /\ \A s \in SourceStates[c] : s = "Running" <=> c = "Stop"
  BY <1>1 DEF SourceStates, Via
<1>4. AwaitedState[c] \in DOMAIN Via /\ (AwaitedState[c] = "Running" <=> c = "Run")
  BY <1>1 DEF AwaitedState, Via
<1>5. TargetState[c] \in DeviceState /\ TargetState[c] \notin FinalStates
  BY <1>1 DEF TargetState, DeviceState, FinalStates
<1>6. TargetState[c] # AwaitedState[c] =>
          TargetState[c] \in DOMAIN AutoTarget /\ AutoTarget[TargetState[c]] = AwaitedState[c]
  BY <1>1 DEF TargetState, AwaitedState, AutoTarget
<1>7. QED  BY <1>2, <1>3, <1>4, <1>5, <1>6

\* When a wait ends the device rests in the awaited state.
LEMMA WaitEnds ==
    ASSUME PromiseInv, SingleAwait, Head(fStateQueue) = AwaitedState[Head(todo)]
    PROVE  fState = AwaitedState[Head(todo)] /\ pending = NoState
<1>1. TypeOK /\ todo # <<>> /\ ctl \notin ShutdownPoint
  BY DEF PromiseInv, DownInv, TypeOK, SingleAwait, ShutdownPoint
<1>2. AwaitedState[Head(todo)] \in DOMAIN Via
  BY <1>1, TodoType, OneCommand
<1>3. 1 \in 1..Len(fStateQueue) /\ Head(fStateQueue) = fStateQueue[1]
  BY <1>1, PopShifts DEF SingleAwait
<1>4. QED
  BY <1>1, <1>2, <1>3 DEF PromiseInv, Journey, Arrived

\* The device rests while the control thread does, and travels while it waits.
LEMMA MachineStep ==
    ASSUME Undisturbed, PromiseInv,
           StateMachineThread \/ CallbackThrows \/ HandlerSelfStop \/ HandlerFails
    PROVE  /\ AtRest'
           /\ UNCHANGED ctlVars
           /\ ctl \in RestPoint => fState' = fState
<1> USE DEF deviceVars, flagVars, ctlVars
<1>t. TypeOK /\ AtRest
  BY DEF PromiseInv, DownInv
<1>v. DOMAIN Via \intersect DOMAIN AutoTarget = {} /\ NoState \notin DeviceState
  BY DEF Via, AutoTarget, NoState, DeviceState
<1>c. ctl = "await" => Head(todo) \in SingleCommand
  BY <1>t, TodoType DEF TypeOK
<1>1. CASE TakeTransition
  <2>1. /\ fState' = pending /\ pending' = NoState /\ pending # NoState
        /\ UNCHANGED <<ctl, todo, cmd, seen, receivedIn, runOpen>>
    BY <1>1 DEF TakeTransition
  <2>2. ctl \notin RestPoint
    BY <2>1, <1>t DEF AtRest
  <2>3. ctl = "await" => Travelling(Head(todo))'
    BY <2>1, <1>t, <1>c, OneCommand DEF AtRest, Travelling
  <2>4. QED  BY <2>1, <2>2, <2>3 DEF AtRest
<1>2. CASE HandlerAuto
  <2>1. /\ fState' = fState /\ fState \in DOMAIN AutoTarget
        /\ pending' = IF pending = NoState THEN AutoTarget[fState] ELSE pending
        /\ UNCHANGED <<ctl, todo, cmd, seen, receivedIn, runOpen>>
    BY <1>2 DEF HandlerAuto
  <2>2. ctl \notin RestPoint
    BY <2>1, <1>t, <1>v DEF AtRest
  <2>3. ctl = "await" => Travelling(Head(todo))'
    BY <2>1, <1>t, <1>v, <1>c, OneCommand DEF AtRest, Travelling
  <2>4. QED  BY <2>1, <2>2, <2>3 DEF AtRest
<1>3. CASE CallbackPush \/ Callback \/ HandlerReturns
  <2>1. UNCHANGED <<fState, pending, ctl, todo, cmd, seen, receivedIn, runOpen>>
    BY <1>3 DEF CallbackPush, Callback, CallbackIdle, CallbackBound, CallbackFinal,
       CallbackOther, HandlerReturns
  <2>2. QED  BY <2>1, <1>t DEF AtRest, Travelling
<1>4. QED
  BY <1>1, <1>2, <1>3 DEF StateMachineThread, Undisturbed, CallbackThrows, HandlerSelfStop,
     HandlerFails

\* No step breaks AtRest, Planned and Recorded.
LEMMA PromiseStep ==
    ASSUME Undisturbed, PromiseInv, [Next]_vars
    PROVE  AtRest' /\ Planned' /\ Recorded'
<1> USE DEF deviceVars, flagVars, ctlVars
<1>t. TypeOK /\ AtRest /\ Planned /\ Recorded
  BY DEF PromiseInv, DownInv
<1>c. todo # <<>> => Head(todo) \in SingleCommand
  BY <1>t, TodoType
<1>w. ctl \in {"issue", "await", "record"} => todo # <<>>
  BY <1>t DEF TypeOK
<1>1. CASE StateMachineThread \/ CallbackThrows \/ HandlerSelfStop \/ HandlerFails
  <2>1. AtRest' /\ UNCHANGED ctlVars /\ (ctl \in RestPoint => fState' = fState)
    BY <1>1, MachineStep
  <2>2. Planned'
    BY <2>1, <1>t, <1>w DEF Planned, RestPoint, EndOf
  <2>3. Recorded'
    BY <2>1, <1>t DEF Recorded, RestPoint
  <2>4. QED  BY <2>1, <2>2, <2>3
<1>2. CASE SingleRead
  <2>1. ctl' = "issue" /\ UNCHANGED <<fState, pending, todo, cmd, receivedIn, runOpen>>
    BY <1>2, <1>t DEF SingleRead, Planned
  <2>2. QED
    BY <1>2, <2>1, <1>t DEF SingleRead, AtRest, RestPoint, Planned, Recorded
<1>3. CASE SingleIssue
  <2>1. /\ ctl = "issue" /\ ctl' = "await"
        /\ UNCHANGED <<fState, todo, cmd, seen, receivedIn, runOpen>>
        /\ ChangeDeviceState(Head(todo))
    BY <1>3 DEF SingleIssue
  <2>2. pending = NoState /\ fState \in SourceStates[Head(todo)] /\ Head(todo) \in SingleCommand
    BY <2>1, <1>t, <1>c, <1>w, OneCommand DEF AtRest, RestPoint, Planned
  <2>3. pending' = TargetState[Head(todo)]
    BY <2>1, <2>2 DEF ChangeDeviceState
  <2>4. AtRest'
    BY <2>1, <2>2, <2>3 DEF AtRest, RestPoint, Travelling
  <2>5. Planned'
    BY <2>1, <1>t, <1>w DEF Planned, EndOf
  <2>6. (runOpen <=> fState = "Running") /\ (fState = "Running" <=> Head(todo) = "Stop")
    BY <2>1, <2>2, <1>t, OneCommand DEF Recorded
  <2>7. Recorded'
    BY <2>1, <2>6 DEF Recorded
  <2>8. QED  BY <2>4, <2>5, <2>7
<1>4. CASE SingleAwait /\ Head(fStateQueue) # AwaitedState[Head(todo)]
  <2>1. UNCHANGED <<fState, pending, ctl, todo, cmd, seen, receivedIn, runOpen>>
    BY <1>4 DEF SingleAwait
  <2>2. QED
    BY <2>1, <1>t DEF AtRest, Travelling, Planned, Recorded, EndOf
<1>5. CASE SingleAwait /\ Head(fStateQueue) = AwaitedState[Head(todo)]
  <2>1. /\ ctl = "await" /\ UNCHANGED <<fState, pending, cmd, seen, receivedIn, runOpen>>
        /\ todo # <<>> /\ Head(todo) \in SingleCommand
        /\ fState = AwaitedState[Head(todo)] /\ pending = NoState
    BY <1>5, <1>c, <1>w, WaitEnds DEF SingleAwait
  <2>2. AtRest'
    BY <1>5, <2>1, OneCommand DEF SingleAwait, AtRest, RestPoint
  <2>3. runOpen <=> Head(todo) = "Stop"
    BY <2>1, <1>t DEF Recorded
  <2>4. Linked(todo) /\ (cmd \in DOMAIN Promised => EndOf(todo, fState) = Goal(receivedIn, cmd))
    BY <2>1, <1>t DEF Planned
  <2>5. CASE Head(todo) \in {"Run", "Stop"}
    <3>1. ctl' = "record" /\ todo' = todo
      BY <1>5, <2>5 DEF SingleAwait
    <3>2. Planned'
      BY <2>1, <2>4, <2>5, <3>1 DEF Planned
    <3>3. Recorded'
      BY <3>1 DEF Recorded
    <3>4. QED  BY <2>2, <3>2, <3>3
  <2>6. CASE Head(todo) \notin {"Run", "Stop"}
    <3>1. ctl' = "single" /\ todo' = Tail(todo)
      BY <1>5, <2>6 DEF SingleAwait
    <3>2. Planned'
      BY <2>1, <2>4, <3>1, <1>t, Advance DEF Planned
    <3>3. fState # "Running" /\ ~runOpen
      BY <2>1, <2>3, <2>6, OneCommand
    <3>4. Recorded'
      BY <2>1, <3>1, <3>3 DEF Recorded
    <3>5. QED  BY <2>2, <3>2, <3>4
  <2>7. QED  BY <2>5, <2>6
<1>6. CASE WriteRunTime
  <2>1. /\ ctl = "record" /\ ctl' = "single" /\ todo' = Tail(todo)
        /\ runOpen' = (Head(todo) = "Run")
        /\ UNCHANGED <<fState, pending, cmd, seen, receivedIn>>
    BY <1>6 DEF WriteRunTime
  <2>2. /\ todo # <<>> /\ Head(todo) \in SingleCommand /\ Linked(todo)
        /\ fState = AwaitedState[Head(todo)]
        /\ cmd \in DOMAIN Promised => EndOf(todo, fState) = Goal(receivedIn, cmd)
    BY <2>1, <1>t, <1>c, <1>w DEF Planned
  <2>3. Planned'
    BY <2>1, <2>2, <1>t, Advance DEF Planned
  <2>4. Recorded'
    BY <2>1, <2>2, OneCommand DEF Recorded
  <2>5. AtRest'
    BY <2>1, <1>t DEF AtRest, RestPoint
  <2>6. QED  BY <2>3, <2>4, <2>5
<1>7. CASE SingleThrows
  <2>1. ctl = "await" /\ fStateQueue[1] = "Error" /\ 1 \in 1..Len(fStateQueue)
    BY <1>7, <1>t, EmptySeq DEF SingleThrows, PopThrows, TypeOK
  <2>2. fState = "Error"
    BY <2>1 DEF PromiseInv, DownInv, FinalIsCurrent, FinalStates
  <2>3. Travelling(Head(todo)) /\ Head(todo) \in SingleCommand
    BY <2>1, <1>t, <1>c, <1>w DEF AtRest
  <2>4. "Error" \notin DOMAIN Via /\ "Error" \in FinalStates
    BY DEF Via, FinalStates
  <2>5. QED  BY <2>2, <2>3, <2>4, OneCommand DEF Travelling
<1>8. CASE ConsumeCommand
  <2>1. /\ ctl = "consume" /\ ctl' = "single" /\ receivedIn' = fState
        /\ cmd' \in AllCommands /\ todo' = MultiCommand(fState, cmd')
        /\ UNCHANGED <<fState, pending, runOpen>>
    BY <1>8, ConstantsAssumption DEF ConsumeCommand
  <2>2. fState \in DOMAIN Via /\ pending = NoState
    BY <2>1, <1>t DEF AtRest, RestPoint
  <2>3. Planned'
    BY <2>1, <2>2, PlanOfCommand DEF Planned
  <2>4. Recorded'
    BY <2>1, <1>t DEF Recorded
  <2>5. QED  BY <2>1, <2>2, <2>3, <2>4 DEF AtRest
<1>9. CASE CommandDone \/ ConsumeLoop \/ ConsumeOther \/ ConsumeThrows
  <2>1. /\ ctl \in {"single", "loop", "consume"} /\ ctl' \in {"loop", "consume", "shutdown"}
        /\ UNCHANGED <<fState, pending, runOpen>>
    BY <1>9 DEF CommandDone, ConsumeLoop, ConsumeOther, ConsumeThrows
  <2>2. QED
    BY <2>1, <1>t DEF AtRest, RestPoint, Planned, Recorded
<1>10. CASE ShutdownRead \/ ShutdownClear \/ ShutdownIssue \/ ShutdownAwait \/ Release \/ Destroy
  <2>1. /\ ctl \in ShutdownPoint /\ ctl' \in ShutdownPoint \ {"shutdown"}
    BY <1>10 DEF ShutdownRead, ShutdownClear, ShutdownIssue, ShutdownAwait, Release, Destroy,
       ShutdownPoint
  <2>2. AtRest' /\ Planned'
    BY <2>1 DEF AtRest, Planned, RestPoint, ShutdownPoint
  <2>3. CASE ShutdownRead
    BY <2>2, <2>3, <1>t DEF Recorded, ShutdownRead
  <2>4. CASE ShutdownClear \/ ShutdownAwait
    BY <2>2, <2>4, <1>t DEF Recorded, ShutdownClear, ShutdownAwait
  <2>5. CASE ShutdownIssue
    <3>1. ctl' = "shutdownAwait" /\ ~runOpen'
      BY <2>5, <1>t DEF Recorded, ShutdownIssue
    <3>2. QED  BY <2>2, <3>1 DEF Recorded
  <2>6. CASE Release \/ Destroy
    <3>1. ctl' \in {"released", "gone"} /\ ~runOpen'
      BY <2>6, <1>t DEF Recorded, Release, Destroy, FinalStates
    <3>2. QED  BY <2>2, <3>1 DEF Recorded
  <2>7. QED  BY <1>10, <2>3, <2>4, <2>5, <2>6
<1>11. CASE Publish \/ Terminated \/ UNCHANGED vars
  <2>1. UNCHANGED <<fState, pending, ctl, todo, cmd, seen, receivedIn, runOpen>>
    BY <1>11 DEF Publish, Terminated, vars
  <2>2. QED
    BY <2>1, <1>t DEF AtRest, Travelling, Planned, Recorded, EndOf
<1>12. QED
  BY <1>1, <1>2, <1>3, <1>4, <1>5, <1>6, <1>7, <1>8, <1>9, <1>10, <1>11
  DEF Next, StateControlThread, Undisturbed, WriteRunTimeThrows, Aborts

\* The startup sequence is a linked plan from Idle.
LEMMA InitPromise == Init => PromiseInv
<1> SUFFICES ASSUME Init PROVE PromiseInv
  OBVIOUS
<1>1. PICK x \in StartupStates : todo = SubSeq(ForwardCommands, 1, StartupGoal[x])
  BY DEF Init
<1>2. StartupGoal[x] \in 0..6
  BY ConstantsAssumption DEF StartupGoal
<1>3. Linked(todo) /\ (todo # <<>> => Head(todo) = ForwardCommands[1])
  <2>1. CASE StartupGoal[x] = 0
    <3>1. todo = <<>>
      BY <1>1, <2>1, SubSeqEmpty
    <3>2. QED  BY <3>1 DEF Linked
  <2>2. CASE StartupGoal[x] # 0
    <3>1. PICK n \in Nat : n = StartupGoal[x] /\ 1 <= n /\ n <= Len(ForwardCommands)
      BY <1>2, <2>2, Tables
    <3>2. ForwardCommands \in Seq(SingleCommand) /\ Linked(ForwardCommands)
      BY Tables DEF Linked
    <3>3. 1 \in Nat \ {0} /\ todo = SubSeq(ForwardCommands, 1, n)
      BY <1>1, <3>1
    <3>4. Linked(todo)
      BY <3>1, <3>2, <3>3, Slice
    <3>5. Head(todo) = ForwardCommands[1]
      BY <3>1, <3>2, <3>3, Slice
    <3>6. QED  BY <3>4, <3>5
  <2>3. QED  BY <2>1, <2>2
<1>4. "Idle" \in SingleStates[ForwardCommands[1]] /\ "Idle" \in DOMAIN Via
  BY DEF ForwardCommands, SingleStates, Via
<1>5. cmd \notin DOMAIN Promised
  BY DEF Init, Promised
<1>6. AtRest /\ Planned /\ Recorded
  BY <1>3, <1>4, <1>5 DEF Init, AtRest, RestPoint, Planned, Recorded
<1>7. QED  BY <1>6, InitDown, InitJourney DEF PromiseInv

\* PromiseInv holds as long as nothing disturbs the device.
LEMMA PromiseAlways == ASSUME Undisturbed PROVE Spec => []PromiseInv
<1>1. PromiseInv /\ [Next]_vars => PromiseInv'
  <2> SUFFICES ASSUME PromiseInv, [Next]_vars PROVE PromiseInv'
    OBVIOUS
  <2>1. DownInv'
    BY DownStep DEF PromiseInv
  <2>2. ASSUME NEW s \in DOMAIN Via PROVE Journey(s)'
    BY JourneyStep DEF PromiseInv, Undisturbed
  <2>3. QED  BY <2>1, <2>2, PromiseStep DEF PromiseInv
<1>2. QED  BY <1>1, InitPromise, PTL DEF Spec

\* A command has done what it promises when its handler returns, on a device
\* that neither fails nor stops by itself, with a registry that answers.
THEOREM PromisesKept == ASSUME Undisturbed PROVE Spec => []CommandKeepsPromise
<1>1. PromiseInv => CommandKeepsPromise
  BY DEF PromiseInv, Planned, EndOf, Goal, CommandKeepsPromise
<1>2. QED  BY <1>1, PromiseAlways, PTL

\* On such a device the run record is open between commands exactly while the
\* device runs, and closed when the plugin has gone.
THEOREM RecordFollows == ASSUME Undisturbed PROVE Spec => []RunRecordMatches
<1>1. PromiseInv => RunRecordMatches
  <2>1. "Running" \notin FinalStates
    BY DEF FinalStates
  <2>2. QED
    BY <2>1 DEF PromiseInv, DownInv, ReleasedOnlyWhenDown, Recorded, RunRecordMatches
<1>2. QED  BY <1>1, PromiseAlways, PTL

=============================================================================
