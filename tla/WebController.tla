---------------------------- MODULE WebController ----------------------------
(***************************************************************************)
(* The DAQ commands of the web controller (controller/WebGui.cxx): the     *)
(* requests of several browsers, carried out one at a time under fMutex;   *)
(* the sequence of commands one button is turned into; the waits for the   *)
(* devices between them; the run numbers kept in Redis.                    *)
(*                                                                         *)
(* The devices are the other side of the command channel: each has the key *)
(* that shows its state, a queue of the commands it has not read yet, and  *)
(* goes from state to state one at a time.  They crash, fail, stop by      *)
(* themselves, leave and join while the controller waits for them.         *)
(***************************************************************************)
EXTENDS Naturals, Sequences, FiniteSets

CONSTANTS
    Browser,        \* the WebSocket sessions
    Device,         \* the instances that may show a state key
    Scopes,         \* the choices of services and instances on the page
    Commands,       \* the commands the browsers send
    MaxRun,         \* bound on the run number
    MaxQueue,       \* bound on the commands a device has not read
    MaxFaults,      \* bound on the devices that go, join or stop unasked
    NoOne           \* fMutex is free

Forward  == {"Connect", "InitTask", "Run"}
Resets   == {"ResetTask", "ResetDevice", "End"}
Backward == {"Stop"} \union Resets

ASSUME NoOneAssumption    == NoOne \notin Browser
ASSUME BoundsAssumption   == {MaxRun, MaxQueue, MaxFaults} \subseteq Nat
ASSUME CommandsAssumption == Commands \subseteq Forward \union Backward

\* A choice is the sequence of the groups of devices Wait() looks at one after
\* the other: one group for "all" and for a list of instances, one per service
\* when services are chosen with all their instances.
ASSUME ScopesAssumption == Scopes \subseteq Seq(SUBSET Device)

VARIABLES
    fMutex,             \* the browser whose request is being carried out
    job,                \* the local variables of that request's handler
    run_number,         \* run_info:run_number in Redis, 0 when there is none
    latest_run_number,  \* run_info:latest_run_number
    key,                \* the value of a device's state key
    queue,              \* the commands published and not read by the device
    proc,               \* whether the device's process runs
    faults,             \* how many more devices may go, join or stop unasked
    server              \* whether the controller's process runs

vars == <<fMutex, job, run_number, latest_run_number, key, queue, proc, faults,
          server>>

runInfo == <<run_number, latest_run_number>>
devices == <<key, queue, proc, faults>>

WaitFlags == {"wait-device-ready", "wait-ready"}

\* The states in which devices rest, and what a key may show besides: Error,
\* or nothing because the device has gone.
Rest  == {"Idle", "DeviceReady", "Ready", "Running"}
Shown == Rest \union {"Error", "none"}

waitDeviceReadyTargets == {"DeviceReady", "Ready", "Running"}
waitReadyTargets       == {"Ready", "Running"}

Waits == {"waitDeviceReady", "waitReady"}
Steps == {"connect", "initTask", "publish"} \union Waits

\* steady is a history variable: the devices that were up, with no reset to be
\* read, when the request was taken up, and have not gone since.
NoJob == [pc |-> "idle", cmd |-> "none", wait |-> {}, scope |-> <<>>,
          left |-> <<>>, steady |-> {}]

Targeted(j) == UNION {j.scope[i] : i \in 1 .. Len(j.scope)}
NoReset(d)  == \A i \in 1 .. Len(queue[d]) : queue[d][i] \notin Resets

Init ==
    /\ fMutex = NoOne
    /\ job = [b \in Browser |-> NoJob]
    /\ run_number = 0
    /\ latest_run_number = 0
    /\ key = [d \in Device |-> "Idle"]
    /\ queue = [d \in Device |-> <<>>]
    /\ proc = [d \in Device |-> "up"]
    /\ faults = MaxFaults
    /\ server = "up"

-----------------------------------------------------------------------------
(* Requests that are over at once.  ProcessData holds fMutex from the first *)
(* to the last line, so each of them is one step.                           *)

Take(b) == server = "up" /\ fMutex = NoOne /\ job[b].pc = "idle"

RedisIncrUnlocked(b) ==
    /\ server = "up"
    /\ job[b].pc = "idle"
    /\ run_number < MaxRun
    /\ run_number' = run_number + 1
    /\ UNCHANGED <<fMutex, job, latest_run_number, devices, server>>

\* redis-incr: INCR takes a missing number for 0.
RedisIncr(b) ==
    /\ Take(b)
    /\ run_number < MaxRun
    /\ run_number' = run_number + 1
    /\ UNCHANGED <<fMutex, job, latest_run_number, devices, server>>

\* redis-set of the run number.
RedisSetRunNumber(b) ==
    /\ Take(b)
    /\ \E n \in 1 .. MaxRun : run_number' = n
    /\ UNCHANGED <<fMutex, job, latest_run_number, devices, server>>

\* Nothing in ProcessData catches an exception of to_json, of an unknown
\* function, or of a Redis command or a Send outside the try block of
\* RedisPublishDaqCommand: it leaves io_context::run and ends the process.
ProcessDataThrows(b) ==
    /\ Take(b)
    /\ server' = "ended"
    /\ latest_run_number' \in {latest_run_number, run_number}
    /\ UNCHANGED <<fMutex, job, run_number, devices>>

-----------------------------------------------------------------------------
(* RedisPublishDaqCommand.                                                  *)

\* The first step of a command, and the step after another; "idle" is the end.
FirstStep(c, w) ==
    CASE c = "Connect"  -> "connect"
      [] c = "InitTask" -> IF "wait-device-ready" \in w THEN "connect"
                           ELSE "initTask"
      [] c = "Run"      -> IF "wait-device-ready" \in w THEN "connect"
                           ELSE IF "wait-ready" \in w THEN "initTask"
                           ELSE "publish"
      [] OTHER          -> "publish"

StepAfter(p, c, w) ==
    CASE p = "connect"         -> IF "wait-device-ready" \in w
                                  THEN "waitDeviceReady" ELSE "idle"
      [] p = "waitDeviceReady" -> IF c = "Connect" THEN "idle"
                                  ELSE IF c = "InitTask" \/ "wait-ready" \in w
                                       THEN "initTask" ELSE "publish"
      [] p = "initTask"        -> IF "wait-ready" \in w THEN "waitReady"
                                  ELSE "idle"
      [] p = "waitReady"       -> IF c = "InitTask" THEN "idle"
                                  ELSE "publish"
      [] OTHER                 -> "idle"

\* CopyLatestRunNumber: without a run number an error is sent to the browser,
\* and the command is carried out all the same.
CopyLatestRunNumber ==
    latest_run_number' = IF run_number = 0 THEN latest_run_number ELSE run_number

\* The request is taken up: RUN copies the run number, then the wait flags are
\* read from Redis; w are the ones the pages of all browsers have left set.  A
\* request without services or instances throws inside the try block
\* and is over.
RedisPublishDaqCommand(b, c, s, w) ==
    /\ Take(b)
    /\ IF c = "Run" THEN CopyLatestRunNumber ELSE UNCHANGED latest_run_number
    /\ IF s = <<>>
       THEN UNCHANGED <<fMutex, job>>
       ELSE /\ fMutex' = b
            /\ job' = [job EXCEPT ![b] =
                         [pc     |-> FirstStep(c, w),
                          cmd    |-> c,
                          wait   |-> IF c \in Forward THEN w ELSE {},
                          scope  |-> s,
                          left   |-> <<>>,
                          steady |-> {d \in Device : proc[d] = "up" /\ NoReset(d)}]]
    /\ UNCHANGED <<run_number, devices, server>>

\* The handler goes on to step p; when that is the end, fMutex is released.
GoTo(b, p) ==
    IF p = "idle"
    THEN /\ job' = [job EXCEPT ![b] = NoJob]
         /\ fMutex' = NoOne
    ELSE /\ job' = [job EXCEPT ![b].pc = p,
                               ![b].left = IF p \in Waits THEN job[b].scope
                                           ELSE <<>>]
         /\ UNCHANGED fMutex

Goes(b) == GoTo(b, StepAfter(job[b].pc, job[b].cmd, job[b].wait))

\* PUBLISH reaches the processes that listen now.
Publish(b, c) ==
    queue' = [d \in Device |->
                IF d \in Targeted(job[b]) /\ proc[d] = "up"
                THEN Append(queue[d], c) ELSE queue[d]]

HasRoom == \A d \in Device : Len(queue[d]) < MaxQueue

\* The shell commands before and after RUN and STOP change nothing here: the
\* step may be as late as they make it.
PublishStep(b) ==
    /\ server = "up"
    /\ job[b].pc \in {"connect", "initTask", "publish"}
    /\ HasRoom
    /\ Publish(b, CASE job[b].pc = "connect"  -> "Connect"
                    [] job[b].pc = "initTask" -> "InitTask"
                    [] OTHER                  -> job[b].cmd)
    /\ Goes(b)
    /\ UNCHANGED <<runInfo, key, proc, faults, server>>

OnlyTheNextState(p) == IF p = "waitDeviceReady" THEN {"DeviceReady"} ELSE {"Ready"}

Targets(p) == IF p = "waitDeviceReady" THEN waitDeviceReadyTargets
              ELSE waitReadyTargets

WaitIsOverForOne(g, p) ==
    \E d \in g : key[d] \in Targets(p) \union {"none"}

\* One turn of the loop of Wait() over the keys of a group: it is left when no
\* device shows a state, or when all show the same one of the targets.
WaitIsOver(g, p) ==
    \E t \in Targets(p) : \A d \in g : key[d] \in {t, "none"}

WaitStep(b) ==
    /\ server = "up"
    /\ job[b].pc \in Waits
    /\ job[b].left # <<>>
    /\ WaitIsOver(Head(job[b].left), job[b].pc)
    /\ IF Tail(job[b].left) = <<>>
       THEN Goes(b)
       ELSE /\ job' = [job EXCEPT ![b].left = Tail(job[b].left)]
            /\ UNCHANGED fMutex
    /\ UNCHANGED <<runInfo, devices, server>>

\* An exception in the try block (Redis, a command that cannot be started)
\* ends the request, wherever it is.
RequestThrows(b) ==
    /\ server = "up"
    /\ job[b].pc \in Steps
    /\ GoTo(b, "idle")
    /\ UNCHANGED <<runInfo, devices, server>>

-----------------------------------------------------------------------------
(* The devices, as the plugin DaqService drives them.                       *)

\* The states in which there is nothing left to do for a command.
DoneIn ==
    [Connect     |-> {"DeviceReady", "Ready", "Running"},
     InitTask    |-> {"Ready", "Running"},
     Run         |-> {"Running"},
     Stop        |-> {"Idle", "DeviceReady", "Ready"},
     ResetTask   |-> {"Idle", "DeviceReady"},
     ResetDevice |-> {"Idle"},
     End         |-> {"Idle"}]

Above == [Idle |-> "DeviceReady", DeviceReady |-> "Ready", Ready |-> "Running"]
Below == [Running |-> "Ready", Ready |-> "DeviceReady", DeviceReady |-> "Idle"]

\* ChangeDeviceStateByMultiCommand takes the device to the goal of the command
\* state by state; then the next message is read.
DeviceMoves(d) ==
    /\ proc[d] = "up"
    /\ queue[d] # <<>>
    /\ key[d] \notin DoneIn[Head(queue[d])]
    /\ key' = [key EXCEPT ![d] = IF Head(queue[d]) \in Forward
                                 THEN Above[key[d]] ELSE Below[key[d]]]
    /\ UNCHANGED <<fMutex, job, runInfo, queue, proc, faults, server>>

\* The history variable forgets a device that goes.
Forget(d) == job' = [b \in Browser |->
                       [job[b] EXCEPT !.steady = job[b].steady \ {d}]]

DeviceReadsKeepsQueue(d) ==
    /\ proc[d] = "up"
    /\ queue[d] # <<>>
    /\ key[d] \in DoneIn[Head(queue[d])]
    /\ IF Head(queue[d]) = "End"
       THEN /\ key' = [key EXCEPT ![d] = "none"]
            /\ proc' = [proc EXCEPT ![d] = "down"]
            /\ Forget(d)
            /\ UNCHANGED queue
       ELSE /\ queue' = [queue EXCEPT ![d] = Tail(queue[d])]
            /\ UNCHANGED <<key, proc, job>>
    /\ UNCHANGED <<fMutex, runInfo, faults, server>>

\* The command is done.  After END the process unregisters and exits.
DeviceReads(d) ==
    /\ proc[d] = "up"
    /\ queue[d] # <<>>
    /\ key[d] \in DoneIn[Head(queue[d])]
    /\ IF Head(queue[d]) = "End"
       THEN /\ queue' = [queue EXCEPT ![d] = <<>>]
            /\ key' = [key EXCEPT ![d] = "none"]
            /\ proc' = [proc EXCEPT ![d] = "down"]
            /\ Forget(d)
       ELSE /\ queue' = [queue EXCEPT ![d] = Tail(queue[d])]
            /\ UNCHANGED <<key, proc, job>>
    /\ UNCHANGED <<fMutex, runInfo, faults, server>>

Fault == faults > 0 /\ faults' = faults - 1

\* ConditionalRun returns false or the handler of Running returns.
DeviceStops(d) ==
    /\ proc[d] = "up"
    /\ key[d] = "Running"
    /\ Fault
    /\ key' = [key EXCEPT ![d] = "Ready"]
    /\ UNCHANGED <<fMutex, job, runInfo, queue, proc, server>>

\* The process crashes, or its state machine ends in Error and it exits; the
\* key shows its last value until it expires.
DeviceGoes(d) ==
    /\ proc[d] = "up"
    /\ Fault
    /\ proc' = [proc EXCEPT ![d] = "down"]
    /\ queue' = [queue EXCEPT ![d] = <<>>]
    /\ key' \in {key, [key EXCEPT ![d] = "Error"]}
    /\ Forget(d)
    /\ UNCHANGED <<fMutex, runInfo, server>>

KeyExpires(d) ==
    /\ proc[d] = "down"
    /\ key[d] # "none"
    /\ key' = [key EXCEPT ![d] = "none"]
    /\ UNCHANGED <<fMutex, job, runInfo, queue, proc, faults, server>>

DeviceJoins(d) ==
    /\ proc[d] = "down"
    /\ key[d] = "none"
    /\ Fault
    /\ proc' = [proc EXCEPT ![d] = "up"]
    /\ key' = [key EXCEPT ![d] = "Idle"]
    /\ UNCHANGED <<fMutex, job, runInfo, queue, server>>

-----------------------------------------------------------------------------
Request(b) ==
    \/ RedisIncr(b)
    \/ RedisSetRunNumber(b)
    \/ ProcessDataThrows(b)
    \/ \E c \in Commands, s \in Scopes \union {<<>>}, w \in SUBSET WaitFlags :
           RedisPublishDaqCommand(b, c, s, w)

Handler(b) == PublishStep(b) \/ WaitStep(b)

DeviceStep(d) == DeviceMoves(d) \/ DeviceReads(d) \/ KeyExpires(d)

\* The model ends with the controller.
Next ==
    \/ \E b \in Browser : Request(b) \/ Handler(b) \/ RequestThrows(b)
    \/ /\ server = "up"
       /\ \E d \in Device : \/ DeviceStep(d) \/ DeviceStops(d)
                            \/ DeviceGoes(d) \/ DeviceJoins(d)

Spec == Init /\ [][Next]_vars

\* The way up from Idle leads through Bound, where the device waits for its
\* peers as long as they are not there.
Connecting(d) ==
    proc[d] = "up" /\ key[d] = "Idle" /\ queue[d] # <<>> /\ Head(queue[d]) \in Forward

\* The handler's thread goes on, and the shell commands it runs end; so do the
\* devices, except one that connects, which may take for ever; a key nobody
\* refreshes expires.
FairSpec ==
    /\ Spec
    /\ WF_vars(\E b \in Browser : Handler(b))
    /\ \A d \in Device : WF_vars(DeviceStep(d) /\ ~Connecting(d))

-----------------------------------------------------------------------------
(* Properties.                                                              *)

Job == [pc : Steps \union {"idle"}, cmd : Commands \union {"none"},
        wait : SUBSET WaitFlags, scope : Seq(SUBSET Device),
        left : Seq(SUBSET Device), steady : SUBSET Device]

\* Type invariant: a device that shows no state has no process, and a process
\* that is gone has left no command to the one that takes its place
\* (controller/WebGui.cxx, plugins/DaqServicePlugin.cxx).
TypeOK ==
    /\ fMutex \in Browser \union {NoOne}
    /\ job \in [Browser -> Job]
    /\ run_number \in Nat
    /\ latest_run_number \in Nat
    /\ key \in [Device -> Shown]
    /\ queue \in [Device -> Seq(Forward \union Backward)]
    /\ proc \in [Device -> {"up", "down"}]
    /\ faults \in Nat
    /\ server \in {"up", "ended"}
    /\ \A d \in Device : proc[d] = "up" => key[d] \in Rest
    /\ \A d \in Device : proc[d] = "down" => queue[d] = <<>>

\* When RUN is published after a wait for Ready, every device it goes to is in
\* Ready or Running, so that nobody takes data before the others can receive
\* them; whatever other browsers ask for meanwhile.  Devices with a reset to be
\* read when the request was taken up, and devices that have joined since, are
\* not covered: the wait sees the state they show, not the one they are told to
\* take (WebGui::RedisPublishDaqCommand, WebGui::Wait).
StartsTogether ==
    \A b \in Browser :
        /\ job[b].pc = "publish"
        /\ job[b].cmd = "Run"
        /\ "wait-ready" \in job[b].wait
        => \A d \in job[b].steady \intersect Targeted(job[b]) :
               key[d] \in waitReadyTargets

\* Up to the end of a RUN, however long the waits in it, latest_run_number is
\* the run number the devices read when they start: no browser's increment or
\* set comes between the copy and the publication (WebGui::ProcessData,
\* WebGui::CopyLatestRunNumber).
RunIsRecorded ==
    \A b \in Browser :
        job[b].cmd = "Run" => \/ latest_run_number = run_number
                              \/ run_number = 0

\* What keeps a wait from ending: a device of the group looked at waits for its
\* peers, or all its devices have read everything and do not agree on one of the
\* targets.
Blocked(b) ==
    LET g == {d \in Head(job[b].left) : key[d] # "none"} IN
    /\ job[b].pc \in Waits
    /\ \/ \E d \in g : Connecting(d)
       \/ /\ \A d \in g : proc[d] = "up" /\ queue[d] = <<>>
          /\ ~ \E t \in IF job[b].pc = "waitReady" THEN {"Ready", "Running"}
                        ELSE {"DeviceReady", "Ready", "Running"} :
                   \A d \in g : key[d] = t

\* A wait ends, and fMutex with it is given to the next request, unless it is
\* blocked from some point on: by a device whose peers do not come, or by
\* devices that rest in different states because one has joined, has stopped by
\* itself, or was left out of an earlier command.  Then it goes on for ever
\* (WebGui::Wait).
WaitsEnd ==
    \A b \in Browser :
        \/ job[b].pc \in Waits ~> job[b].pc \notin Waits
        \/ <>[]Blocked(b)
=============
