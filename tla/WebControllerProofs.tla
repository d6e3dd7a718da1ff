------------------------- MODULE WebControllerProofs -------------------------
(***************************************************************************)
(* Proofs about WebController, for any number of browsers and devices, any *)
(* choice of services and instances, and any bounds.                       *)
(***************************************************************************)
EXTENDS WebController, SequenceTheorems, TLAPS

\* Only the request that holds fMutex has got anywhere.
Exclusive ==
    \A b \in Browser : IF job[b].pc = "idle" THEN job[b] = NoJob
                       ELSE fMutex = b /\ job[b].cmd \in Commands

\* Nothing that moves a device below Ready is on its way to a steady device.
SteadyStays ==
    \A b \in Browser : \A d \in job[b].steady : proc[d] = "up" /\ NoReset(d)

\* While RUN waits for Ready, a steady device is in a group still to be looked
\* at, or in one of the targets.
InGroup(d, s) == \E i \in 1 .. Len(s) : d \in s[i]

WaitedFor ==
    \A b \in Browser :
        job[b].cmd = "Run" /\ job[b].pc = "waitReady" =>
            \A d \in job[b].steady \intersect Targeted(job[b]) :
                InGroup(d, job[b].left) \/ key[d] \in waitReadyTargets

Inv ==
    /\ TypeOK
    /\ Exclusive
    /\ RunIsRecorded
    /\ SteadyStays
    /\ WaitedFor
    /\ StartsTogether

USE NoOneAssumption, BoundsAssumption, CommandsAssumption, ScopesAssumption

-----------------------------------------------------------------------------
LEMMA NoJobIsJob == NoJob \in Job
BY EmptySeq DEF NoJob, Job, Steps, Waits, WaitFlags

LEMMA InitInv == Init => Inv
<1> SUFFICES ASSUME Init PROVE Inv
  OBVIOUS
<1>1. TypeOK
  BY NoJobIsJob, EmptySeq DEF Init, TypeOK, Shown, Rest
<1>2. Exclusive /\ RunIsRecorded /\ SteadyStays /\ WaitedFor /\ StartsTogether
  BY DEF Init, NoJob, Exclusive, RunIsRecorded, SteadyStays, WaitedFor,
         StartsTogether
<1> QED BY <1>1, <1>2 DEF Inv

\* What a command does to a device: it stays in the states the model knows, and
\* only a reset takes it below Ready.
LEMMA MoveKeepsRest ==
    ASSUME NEW c \in Forward \union Backward, NEW k \in Rest, k \notin DoneIn[c]
    PROVE  LET k1 == IF c \in Forward THEN Above[k] ELSE Below[k]
           IN  /\ k1 \in Rest
               /\ k \in waitReadyTargets /\ c \notin Resets
                     => k1 \in waitReadyTargets
<1>1. CASE c \in Forward
  BY <1>1 DEF Forward, Rest, DoneIn, Above, waitReadyTargets
<1>2. CASE c \in Backward
  BY <1>2 DEF Forward, Backward, Resets, Rest, DoneIn, Below, waitReadyTargets
<1> QED BY <1>1, <1>2

-----------------------------------------------------------------------------
(* Type correctness.                                                        *)

LEMMA StepIsKnown ==
    ASSUME NEW p, NEW c, NEW w
    PROVE  /\ FirstStep(c, w) \in Steps
           /\ StepAfter(p, c, w) \in Steps \union {"idle"}
<1>1. FirstStep(c, w) \in Steps
  BY DEF FirstStep, Steps, Waits
<1>2. StepAfter(p, c, w) \in Steps \union {"idle"}
  BY DEF StepAfter, Steps, Waits
<1> QED BY <1>1, <1>2

LEMMA GoToType ==
    ASSUME TypeOK, NEW b \in Browser, NEW p \in Steps \union {"idle"},
           GoTo(b, p)
    PROVE  /\ job' \in [Browser -> Job]
           /\ fMutex' \in Browser \union {NoOne}
<1>1. CASE p = "idle"
  BY <1>1, NoJobIsJob DEF GoTo, TypeOK
<1>2. CASE p # "idle"
  <2> DEFINE l == IF p \in Waits THEN job[b].scope ELSE <<>>
  <2>1. job[b] \in Job
    BY DEF TypeOK
  <2>2. l \in Seq(SUBSET Device)
    BY <2>1, EmptySeq DEF Job
  <2>3. [job[b] EXCEPT !.pc = p, !.left = l] \in Job
    BY <2>1, <2>2 DEF Job
  <2>4. /\ job' = [job EXCEPT ![b] = [job[b] EXCEPT !.pc = p, !.left = l]]
        /\ fMutex' = fMutex
    BY <1>2 DEF GoTo, TypeOK
  <2> QED BY <2>3, <2>4 DEF TypeOK
<1> QED BY <1>1, <1>2

LEMMA ForgetType ==
    ASSUME TypeOK, NEW d \in Device, Forget(d)
    PROVE  job' \in [Browser -> Job]
<1> SUFFICES ASSUME NEW b \in Browser
             PROVE  [job[b] EXCEPT !.steady = job[b].steady \ {d}] \in Job
  BY DEF Forget
<1>1. job[b] \in Job
  BY DEF TypeOK
<1> QED BY <1>1 DEF Job

LEMMA RequestType ==
    ASSUME TypeOK, NEW b \in Browser, Request(b)
    PROVE  TypeOK'
<1>1. CASE RedisIncr(b) \/ RedisSetRunNumber(b) \/ ProcessDataThrows(b)
  BY <1>1 DEF RedisIncr, RedisSetRunNumber, ProcessDataThrows, TypeOK, devices
<1>2. CASE \E c \in Commands, s \in Scopes \union {<<>>}, w \in SUBSET WaitFlags :
               RedisPublishDaqCommand(b, c, s, w)
  <2> PICK c \in Commands, s \in Scopes \union {<<>>}, w \in SUBSET WaitFlags :
               RedisPublishDaqCommand(b, c, s, w)
    BY <1>2
  <2> DEFINE j == [pc     |-> FirstStep(c, w),
                   cmd    |-> c,
                   wait   |-> IF c \in Forward THEN w ELSE {},
                   scope  |-> s,
                   left   |-> <<>>,
                   steady |-> {d \in Device : proc[d] = "up" /\ NoReset(d)}]
  <2>1. s \in Seq(SUBSET Device)
    BY EmptySeq
  <2>2. j \in Job
    BY <2>1, StepIsKnown, EmptySeq DEF Job
  <2>3. latest_run_number' \in Nat
    BY DEF RedisPublishDaqCommand, CopyLatestRunNumber, TypeOK
  <2>4. /\ fMutex' \in Browser \union {NoOne}
        /\ job' \in [Browser -> Job]
    <3>1. CASE s = <<>>
      BY <3>1 DEF RedisPublishDaqCommand, TypeOK
    <3>2. CASE s # <<>>
      BY <3>2, <2>2 DEF RedisPublishDaqCommand, TypeOK
    <3> QED BY <3>1, <3>2
  <2> QED BY <2>3, <2>4 DEF RedisPublishDaqCommand, TypeOK, devices
<1> QED BY <1>1, <1>2 DEF Request

LEMMA GoesType ==
    ASSUME TypeOK, NEW b \in Browser, Goes(b)
    PROVE  /\ job' \in [Browser -> Job]
           /\ fMutex' \in Browser \union {NoOne}
BY GoToType, StepIsKnown DEF Goes

\* The command PublishStep sends.
Sent(b) == CASE job[b].pc = "connect"  -> "Connect"
             [] job[b].pc = "initTask" -> "InitTask"
             [] OTHER                  -> job[b].cmd

LEMMA SentIsCommand ==
    ASSUME Exclusive, NEW b \in Browser, job[b].pc # "idle"
    PROVE  Sent(b) \in Forward \union Backward
BY DEF Exclusive, Sent, Forward

LEMMA HandlerType ==
    ASSUME TypeOK, Exclusive, NEW b \in Browser,
           PublishStep(b) \/ WaitStep(b) \/ RequestThrows(b)
    PROVE  TypeOK'
<1>1. CASE PublishStep(b)
  <2>1. Sent(b) \in Forward \union Backward
    BY <1>1, SentIsCommand DEF PublishStep
  <2>2. queue' = [d \in Device |-> IF d \in Targeted(job[b]) /\ proc[d] = "up"
                                   THEN Append(queue[d], Sent(b)) ELSE queue[d]]
    BY <1>1 DEF PublishStep, Publish, Sent
  <2>3. queue' \in [Device -> Seq(Forward \union Backward)]
    BY <2>1, <2>2, AppendProperties DEF TypeOK
  <2>4. \A d \in Device : proc[d] = "down" => queue'[d] = <<>>
    BY <2>2 DEF TypeOK
  <2>5. job' \in [Browser -> Job] /\ fMutex' \in Browser \union {NoOne}
    BY <1>1, GoesType DEF PublishStep
  <2> QED BY <1>1, <2>3, <2>4, <2>5 DEF PublishStep, TypeOK, runInfo
<1>2. CASE WaitStep(b)
  <2>1. job' \in [Browser -> Job] /\ fMutex' \in Browser \union {NoOne}
    <3>1. CASE Tail(job[b].left) = <<>>
      BY <1>2, <3>1, GoesType DEF WaitStep
    <3>2. CASE Tail(job[b].left) # <<>>
      <4>1. job[b] \in Job /\ job[b].left # <<>>
        BY <1>2 DEF TypeOK, WaitStep
      <4>2. Tail(job[b].left) \in Seq(SUBSET Device)
        BY <4>1, HeadTailProperties DEF Job
      <4>3. [job[b] EXCEPT !.left = Tail(job[b].left)] \in Job
        BY <4>1, <4>2 DEF Job
      <4>4. /\ job' = [job EXCEPT ![b] = [job[b] EXCEPT !.left = Tail(job[b].left)]]
            /\ fMutex' = fMutex
        BY <1>2, <3>2 DEF WaitStep, TypeOK
      <4> QED BY <4>3, <4>4 DEF TypeOK
    <3> QED BY <3>1, <3>2
  <2> QED BY <1>2, <2>1 DEF WaitStep, TypeOK, runInfo, devices
<1>3. CASE RequestThrows(b)
  <2>1. job' \in [Browser -> Job] /\ fMutex' \in Browser \union {NoOne}
    BY <1>3, GoToType DEF RequestThrows
  <2> QED BY <1>3, <2>1 DEF RequestThrows, TypeOK, runInfo, devices
<1> QED BY <1>1, <1>2, <1>3

LEMMA DeviceType ==
    ASSUME TypeOK, NEW d \in Device,
           DeviceStep(d) \/ DeviceStops(d) \/ DeviceGoes(d) \/ DeviceJoins(d)
    PROVE  TypeOK'
<1>0. queue[d] \in Seq(Forward \union Backward)
  BY DEF TypeOK
<1>1. CASE DeviceMoves(d)
  <2>1. key[d] \in Rest /\ Head(queue[d]) \in Forward \union Backward
    BY <1>0, <1>1, HeadTailProperties DEF DeviceMoves, TypeOK
  <2> DEFINE k == IF Head(queue[d]) \in Forward THEN Above[key[d]]
                  ELSE Below[key[d]]
  <2>2. k \in Rest
    BY <1>1, <2>1, MoveKeepsRest DEF DeviceMoves
  <2>3. key' = [key EXCEPT ![d] = k]
    BY <1>1 DEF DeviceMoves
  <2>4. key' \in [Device -> Shown]
    BY <2>2, <2>3 DEF TypeOK, Shown
  <2>5. \A e \in Device : proc[e] = "up" => key'[e] \in Rest
    BY <2>2, <2>3 DEF TypeOK
  <2> QED BY <1>1, <2>4, <2>5 DEF DeviceMoves, TypeOK, runInfo
<1>2. CASE DeviceReads(d)
  <2>1. CASE Head(queue[d]) = "End"
    <3>1. job' \in [Browser -> Job]
      BY <1>2, <2>1, ForgetType DEF DeviceReads
    <3>2. /\ queue' = [queue EXCEPT ![d] = <<>>]
          /\ key' = [key EXCEPT ![d] = "none"]
          /\ proc' = [proc EXCEPT ![d] = "down"]
          /\ UNCHANGED <<fMutex, runInfo, faults, server>>
      BY <1>2, <2>1 DEF DeviceReads
    <3> QED BY <3>1, <3>2, EmptySeq DEF TypeOK, runInfo, Shown
  <2>2. CASE Head(queue[d]) # "End"
    <3>1. Tail(queue[d]) \in Seq(Forward \union Backward)
      BY <1>0, <1>2, HeadTailProperties DEF DeviceReads
    <3> QED BY <1>2, <2>2, <3>1 DEF DeviceReads, TypeOK, runInfo
  <2> QED BY <2>1, <2>2
<1>3. CASE KeyExpires(d)
  BY <1>3 DEF KeyExpires, TypeOK, runInfo, Shown
<1>4. CASE DeviceStops(d)
  BY <1>4 DEF DeviceStops, Fault, TypeOK, runInfo, Shown, Rest
<1>5. CASE DeviceGoes(d)
  <2>1. job' \in [Browser -> Job]
    BY <1>5, ForgetType DEF DeviceGoes
  <2>2. faults' \in Nat
    BY <1>5 DEF DeviceGoes, Fault, TypeOK
  <2>3. queue' \in [Device -> Seq(Forward \union Backward)] /\ queue'[d] = <<>>
    BY <1>5, EmptySeq DEF DeviceGoes, TypeOK
  <2> QED BY <1>5, <2>1, <2>2, <2>3 DEF DeviceGoes, TypeOK, runInfo, Shown
<1>6. CASE DeviceJoins(d)
  BY <1>6 DEF DeviceJoins, Fault, TypeOK, runInfo, Shown, Rest
<1> QED BY <1>1, <1>2, <1>3, <1>4, <1>5, <1>6 DEF DeviceStep

-----------------------------------------------------------------------------
(* fMutex and the run number.                                               *)

LEMMA RequestExclusive ==
    ASSUME Inv, NEW b \in Browser, Request(b)
    PROVE  (Exclusive /\ RunIsRecorded)'
<1>0. /\ fMutex = NoOne
      /\ \A x \in Browser : job[x] = NoJob
  BY DEF Request, RedisIncr, RedisSetRunNumber, ProcessDataThrows,
         RedisPublishDaqCommand, Take, Inv, Exclusive
<1>1. CASE RedisIncr(b) \/ RedisSetRunNumber(b) \/ ProcessDataThrows(b)
  BY <1>0, <1>1 DEF RedisIncr, RedisSetRunNumber, ProcessDataThrows, Exclusive,
                    RunIsRecorded, NoJob
<1>2. CASE \E c \in Commands, s \in Scopes \union {<<>>}, w \in SUBSET WaitFlags :
               RedisPublishDaqCommand(b, c, s, w)
  <2> PICK c \in Commands, s \in Scopes \union {<<>>}, w \in SUBSET WaitFlags :
               RedisPublishDaqCommand(b, c, s, w)
    BY <1>2
  <2>1. CASE s = <<>>
    BY <1>0, <2>1 DEF RedisPublishDaqCommand, Exclusive, RunIsRecorded, NoJob
  <2>2. CASE s # <<>>
    <3>1. /\ fMutex' = b
          /\ \A x \in Browser : x # b => job'[x] = NoJob
          /\ job'[b].pc = FirstStep(c, w)
          /\ job'[b].cmd = c
      BY <1>0, <2>2 DEF RedisPublishDaqCommand, Inv, TypeOK
    <3>2. job'[b].pc # "idle"
      BY <3>1, StepIsKnown DEF Steps, Waits
    <3>3. Exclusive'
      BY <3>1, <3>2 DEF Exclusive, NoJob
    <3>4. c = "Run" => latest_run_number' = run_number' \/ run_number' = 0
      BY DEF RedisPublishDaqCommand, CopyLatestRunNumber
    <3>5. RunIsRecorded'
      BY <3>1, <3>4 DEF RunIsRecorded, NoJob
    <3> QED BY <3>3, <3>5
  <2> QED BY <2>1, <2>2
<1> QED BY <1>1, <1>2 DEF Request

\* A step of the handler leaves the other browsers alone, keeps the command, the
\* flags, the scope and the history, or ends the request.
LEMMA GoToKeeps ==
    ASSUME TypeOK, Exclusive, NEW b \in Browser, job[b].pc # "idle",
           NEW p \in Steps \union {"idle"}, GoTo(b, p)
    PROVE  /\ \A x \in Browser : x # b => job'[x] = job[x]
           /\ p = "idle" => job'[b] = NoJob /\ fMutex' = NoOne
           /\ p # "idle" =>
                 /\ fMutex' = fMutex
                 /\ job'[b].pc = p
                 /\ job'[b].cmd = job[b].cmd
                 /\ job'[b].wait = job[b].wait
                 /\ job'[b].scope = job[b].scope
                 /\ job'[b].steady = job[b].steady
                 /\ p \in Waits => job'[b].left = job[b].scope
<1>1. job \in [Browser -> Job] /\ job[b] \in Job
  BY DEF TypeOK
<1> QED BY <1>1 DEF GoTo, Job

LEMMA GoToExclusive ==
    ASSUME TypeOK, Exclusive, RunIsRecorded, NEW b \in Browser,
           job[b].pc # "idle", NEW p \in Steps \union {"idle"}, GoTo(b, p),
           UNCHANGED runInfo
    PROVE  (Exclusive /\ RunIsRecorded)'
<1>1. \A x \in Browser : x # b => job'[x] = job[x] /\ job[x] = NoJob
  BY GoToKeeps DEF Exclusive
<1>2. CASE p = "idle"
  BY <1>1, <1>2, GoToKeeps DEF Exclusive, RunIsRecorded, runInfo, NoJob
<1>3. CASE p # "idle"
  BY <1>1, <1>3, GoToKeeps DEF Exclusive, RunIsRecorded, runInfo, NoJob
<1> QED BY <1>2, <1>3

\* What the steps of the handler have in common.
LEMMA HandlerGoes ==
    ASSUME Inv, NEW b \in Browser,
           PublishStep(b) \/ WaitStep(b) \/ RequestThrows(b)
    PROVE  /\ job[b].pc # "idle"
           /\ UNCHANGED <<runInfo, proc, key>>
           /\ \/ \E p \in Steps \union {"idle"} : GoTo(b, p)
              \/ /\ job' = [job EXCEPT ![b].left = Tail(job[b].left)]
                 /\ UNCHANGED fMutex
<1>1. CASE PublishStep(b)
  BY <1>1, StepIsKnown DEF PublishStep, Goes
<1>2. CASE WaitStep(b)
  BY <1>2, StepIsKnown DEF WaitStep, Goes, Waits, devices
<1>3. CASE RequestThrows(b)
  BY <1>3 DEF RequestThrows, Steps, Waits, devices
<1> QED BY <1>1, <1>2, <1>3

LEMMA HandlerExclusive ==
    ASSUME Inv, NEW b \in Browser,
           PublishStep(b) \/ WaitStep(b) \/ RequestThrows(b)
    PROVE  (Exclusive /\ RunIsRecorded)'
<1>1. CASE \E p \in Steps \union {"idle"} : GoTo(b, p)
  BY <1>1, HandlerGoes, GoToExclusive DEF Inv
<1>2. CASE /\ job' = [job EXCEPT ![b].left = Tail(job[b].left)]
           /\ UNCHANGED fMutex
  <2>1. job \in [Browser -> Job] /\ job[b] \in Job /\ job[b].pc # "idle"
    BY HandlerGoes DEF Inv, TypeOK
  <2>2. /\ \A x \in Browser : x # b => job'[x] = job[x]
        /\ job'[b].pc = job[b].pc
        /\ job'[b].cmd = job[b].cmd
    BY <1>2, <2>1 DEF Job
  <2> QED BY <1>2, <2>1, <2>2, HandlerGoes DEF Inv, Exclusive, RunIsRecorded, runInfo
<1> QED BY <1>1, <1>2, HandlerGoes

\* A device changes at most the history in the jobs.
LEMMA DeviceKeepsJobs ==
    ASSUME Inv, NEW d \in Device,
           DeviceStep(d) \/ DeviceStops(d) \/ DeviceGoes(d) \/ DeviceJoins(d)
    PROVE  /\ UNCHANGED <<fMutex, runInfo>>
           /\ \A b \in Browser :
                 /\ job'[b].pc = job[b].pc
                 /\ job'[b].cmd = job[b].cmd
                 /\ job'[b].wait = job[b].wait
                 /\ job'[b].scope = job[b].scope
                 /\ job'[b].left = job[b].left
                 /\ job'[b].steady \in {job[b].steady, job[b].steady \ {d}}
                 /\ proc'[d] = "down" => d \notin job'[b].steady
<1>0. job \in [Browser -> Job]
  BY DEF Inv, TypeOK
<1>1. CASE Forget(d)
  BY <1>0, <1>1 DEF Forget, Job, DeviceStep, DeviceMoves, DeviceReads, KeyExpires,
                    DeviceStops, DeviceGoes, DeviceJoins
<1>2. CASE UNCHANGED job
  <2>1. UNCHANGED <<fMutex, runInfo>>
    BY DEF DeviceStep, DeviceMoves, DeviceReads, KeyExpires, DeviceStops,
           DeviceGoes, DeviceJoins
  <2>2. ~Forget(d) /\ proc'[d] = "down" => proc[d] = "down"
    BY DEF DeviceStep, DeviceMoves, DeviceReads, KeyExpires, DeviceStops,
           DeviceGoes, DeviceJoins, Inv, TypeOK
  <2> QED BY <1>1, <1>2, <2>1, <2>2 DEF Inv, SteadyStays
<1> QED BY <1>1, <1>2 DEF DeviceStep, DeviceMoves, DeviceReads, KeyExpires,
                          DeviceStops, DeviceGoes, DeviceJoins

LEMMA DeviceExclusive ==
    ASSUME Inv, NEW d \in Device,
           DeviceStep(d) \/ DeviceStops(d) \/ DeviceGoes(d) \/ DeviceJoins(d)
    PROVE  (Exclusive /\ RunIsRecorded)'
<1>1. RunIsRecorded'
  BY DeviceKeepsJobs DEF Inv, RunIsRecorded, runInfo
<1>2. ASSUME NEW b \in Browser, job[b].pc = "idle"
      PROVE  job'[b] = NoJob
  <2>1. job[b] = NoJob
    BY <1>2 DEF Inv, Exclusive
  <2>2. job' = job \/ Forget(d)
    BY DEF DeviceStep, DeviceMoves, DeviceReads, KeyExpires, DeviceStops,
           DeviceGoes, DeviceJoins
  <2>3. [NoJob EXCEPT !.steady = NoJob.steady \ {d}] = NoJob
    <3>1. NoJob.steady \ {d} = {}
      BY DEF NoJob
    <3>2. NoJob \in Job /\ NoJob.steady = {}
      BY NoJobIsJob DEF NoJob
    <3>3. [NoJob EXCEPT !.steady = {}] = NoJob
      BY <3>2 DEF Job
    <3> QED BY <3>1, <3>3
  <2> QED BY <2>1, <2>2, <2>3 DEF Forget
<1> QED BY <1>1, <1>2, DeviceKeepsJobs DEF Inv, Exclusive

-----------------------------------------------------------------------------
(* The wait for Ready and the start.                                        *)

Together == SteadyStays /\ WaitedFor /\ StartsTogether

LEMMA RequestTogether ==
    ASSUME Inv, NEW b \in Browser, Request(b)
    PROVE  Together'
<1>0. \A x \in Browser : job[x] = NoJob
  BY DEF Request, RedisIncr, RedisSetRunNumber, ProcessDataThrows,
         RedisPublishDaqCommand, Take, Inv, Exclusive
<1>1. UNCHANGED devices
  BY DEF Request, RedisIncr, RedisSetRunNumber, ProcessDataThrows,
         RedisPublishDaqCommand
<1>2. CASE UNCHANGED job
  BY <1>0, <1>2 DEF Together, SteadyStays, WaitedFor, StartsTogether, NoJob
<1>3. CASE \E c \in Commands, s \in Scopes, w \in SUBSET WaitFlags :
              RedisPublishDaqCommand(b, c, s, w) /\ s # <<>>
  <2> PICK c \in Commands, s \in Scopes, w \in SUBSET WaitFlags :
              RedisPublishDaqCommand(b, c, s, w) /\ s # <<>>
    BY <1>3
  <2>1. /\ \A x \in Browser : x # b => job'[x] = NoJob
        /\ job'[b].pc = FirstStep(c, w)
        /\ job'[b].cmd = c
        /\ job'[b].wait = IF c \in Forward THEN w ELSE {}
        /\ job'[b].steady = {d \in Device : proc[d] = "up" /\ NoReset(d)}
    BY <1>0 DEF RedisPublishDaqCommand, Inv, TypeOK
  <2>2. SteadyStays'
    BY <1>1, <2>1 DEF SteadyStays, NoReset, devices, NoJob
  <2>3. FirstStep(c, w) # "waitReady"
    BY DEF FirstStep
  <2>4. c = "Run" /\ "wait-ready" \in w => FirstStep(c, w) # "publish"
    BY DEF FirstStep
  <2>5. WaitedFor'
    BY <2>1, <2>3 DEF WaitedFor, NoJob
  <2>6. StartsTogether'
    BY <2>1, <2>4 DEF StartsTogether, NoJob, Forward
  <2> QED BY <2>2, <2>5, <2>6 DEF Together
<1>4. UNCHANGED job \/ \E c \in Commands, s \in Scopes, w \in SUBSET WaitFlags :
              RedisPublishDaqCommand(b, c, s, w) /\ s # <<>>
  BY DEF Request, RedisIncr, RedisSetRunNumber, ProcessDataThrows,
         RedisPublishDaqCommand
<1> QED BY <1>2, <1>3, <1>4

\* A request that ends leaves nothing to show.
LEMMA EndTogether ==
    ASSUME Inv, NEW b \in Browser, job[b].pc # "idle", GoTo(b, "idle")
    PROVE  Together'
<1>1. \A x \in Browser : job'[x] = NoJob
  BY GoToKeeps DEF Inv, Exclusive
<1> QED BY <1>1 DEF Together, SteadyStays, WaitedFor, StartsTogether, NoJob

\* A command that is no reset leaves the queues without one.
LEMMA PublishNoReset ==
    ASSUME TypeOK, NEW d \in Device, NoReset(d),
           NEW c \in (Forward \union Backward) \ Resets,
           queue'[d] \in {queue[d], Append(queue[d], c)}
    PROVE  NoReset(d)'
<1>1. queue[d] \in Seq(Forward \union Backward)
  BY DEF TypeOK
<1>2. CASE queue'[d] = queue[d]
  BY <1>2 DEF NoReset
<1>3. CASE queue'[d] = Append(queue[d], c)
  BY <1>1, <1>3, AppendProperties DEF NoReset
<1> QED BY <1>2, <1>3

LEMMA PublishTogether ==
    ASSUME Inv, NEW b \in Browser, PublishStep(b)
    PROVE  Together'
<1> DEFINE p == StepAfter(job[b].pc, job[b].cmd, job[b].wait)
<1>1. /\ job[b].pc \in {"connect", "initTask", "publish"}
      /\ GoTo(b, p)
      /\ p \in Steps \union {"idle"}
      /\ TypeOK /\ Exclusive
  BY StepIsKnown DEF PublishStep, Goes, Inv
<1>2. CASE p = "idle"
  BY <1>1, <1>2, EndTogether
<1>3. CASE p # "idle"
  <2>1. job[b].pc \in {"connect", "initTask"} /\ p \in Waits
    BY <1>1, <1>3 DEF StepAfter, Waits
  <2>2. /\ \A x \in Browser : x # b => job'[x] = NoJob
        /\ job'[b].pc = p
        /\ job'[b].scope = job[b].scope
        /\ job'[b].left = job[b].scope
        /\ job'[b].steady = job[b].steady
    BY <1>1, <1>3, <2>1, GoToKeeps DEF Exclusive
  <2>3. Sent(b) \in (Forward \union Backward) \ Resets
    BY <2>1 DEF Sent, Forward, Resets
  <2>4. \A d \in Device : queue'[d] \in {queue[d], Append(queue[d], Sent(b))}
    BY DEF PublishStep, Publish, Sent
  <2>5. SteadyStays'
    <3> SUFFICES ASSUME NEW d \in job[b].steady
                 PROVE  proc'[d] = "up" /\ NoReset(d)'
      BY <2>2 DEF SteadyStays, NoJob
    <3>1. d \in Device /\ proc[d] = "up" /\ NoReset(d)
      BY <1>1 DEF Inv, SteadyStays, TypeOK, Job
    <3> QED BY <1>1, <3>1, <2>3, <2>4, PublishNoReset DEF PublishStep
  <2>6. WaitedFor'
    BY <2>2 DEF WaitedFor, Targeted, InGroup, NoJob
  <2>7. StartsTogether'
    BY <2>1, <2>2 DEF StartsTogether, NoJob, Waits
  <2> QED BY <2>5, <2>6, <2>7 DEF Together
<1> QED BY <1>2, <1>3

LEMMA WaitTogether ==
    ASSUME Inv, NEW b \in Browser, WaitStep(b)
    PROVE  Together'
<1> DEFINE p == StepAfter(job[b].pc, job[b].cmd, job[b].wait)
           s == job[b].left
<1>1. /\ job[b] \in Job /\ job \in [Browser -> Job]
      /\ job[b].pc \in Waits
      /\ s \in Seq(SUBSET Device) /\ s # <<>>
      /\ UNCHANGED <<key, proc, queue>>
      /\ TypeOK /\ Exclusive
  BY DEF WaitStep, Inv, TypeOK, Job, devices
<1>2. \A x \in Browser : x # b => job[x] = NoJob
  BY <1>1 DEF Exclusive, Waits
<1>3. ASSUME NEW d \in job[b].steady, d \in Head(s), job[b].pc = "waitReady"
      PROVE  key[d] \in waitReadyTargets
  <2>1. key[d] \in Rest
    BY <1>1, <1>3 DEF Inv, SteadyStays, TypeOK, Job
  <2> QED BY <1>3, <2>1 DEF WaitStep, WaitIsOver, Targets, Rest, waitReadyTargets
<1>4. \A d : InGroup(d, s) => d \in Head(s) \/ InGroup(d, Tail(s))
  <2> SUFFICES ASSUME NEW d, NEW i \in 1 .. Len(s), d \in s[i], i # 1
               PROVE  InGroup(d, Tail(s))
    BY <1>1 DEF InGroup
  <2>1. i - 1 \in 1 .. Len(Tail(s)) /\ Tail(s)[i - 1] = s[i]
    BY <1>1, HeadTailProperties
  <2> QED BY <2>1 DEF InGroup
<1>5. CASE Tail(s) # <<>>
  <2>1. /\ \A x \in Browser : x # b => job'[x] = NoJob
        /\ job'[b].pc = job[b].pc
        /\ job'[b].cmd = job[b].cmd
        /\ job'[b].scope = job[b].scope
        /\ job'[b].steady = job[b].steady
        /\ job'[b].left = Tail(s)
    BY <1>1, <1>2, <1>5 DEF WaitStep, Job
  <2>2. SteadyStays'
    BY <1>1, <2>1 DEF Inv, SteadyStays, NoReset, NoJob
  <2>3. WaitedFor'
    BY <1>1, <1>3, <1>4, <2>1 DEF Inv, WaitedFor, Targeted, NoJob
  <2>4. StartsTogether'
    BY <1>1, <2>1 DEF StartsTogether, Waits, NoJob
  <2> QED BY <2>2, <2>3, <2>4 DEF Together
<1>6. CASE Tail(s) = <<>>
  <2>1. GoTo(b, p) /\ p \in Steps \union {"idle"} /\ job[b].pc # "idle"
    BY <1>1, <1>6, StepIsKnown DEF WaitStep, Goes, Waits
  <2>2. CASE p = "idle"
    BY <2>1, <2>2, EndTogether
  <2>3. CASE p # "idle"
    <3>1. /\ \A x \in Browser : x # b => job'[x] = NoJob
          /\ job'[b].pc = p
          /\ job'[b].cmd = job[b].cmd
          /\ job'[b].wait = job[b].wait
          /\ job'[b].scope = job[b].scope
          /\ job'[b].steady = job[b].steady
      BY <1>1, <1>2, <2>1, <2>3, GoToKeeps
    <3>2. p \in {"initTask", "publish"}
      BY <1>1, <2>3 DEF StepAfter, Waits
    <3>3. SteadyStays'
      BY <1>1, <3>1 DEF Inv, SteadyStays, NoReset, NoJob
    <3>4. WaitedFor'
      BY <3>1, <3>2 DEF WaitedFor, NoJob
    <3>5. ASSUME p = "publish", job[b].cmd = "Run", "wait-ready" \in job[b].wait,
                 NEW d \in job[b].steady \intersect Targeted(job[b])
          PROVE  key[d] \in waitReadyTargets
      <4>1. job[b].pc = "waitReady"
        BY <1>1, <3>5 DEF StepAfter, Waits
      <4>2. InGroup(d, s) \/ key[d] \in waitReadyTargets
        BY <3>5, <4>1 DEF Inv, WaitedFor
      <4>3. ~InGroup(d, Tail(s))
        <5>1. Len(Tail(s)) = 0
          BY <1>1, <1>6, HeadTailProperties, EmptySeq
        <5> QED BY <5>1 DEF InGroup
      <4> QED BY <1>3, <1>4, <4>1, <4>2, <4>3
    <3>6. StartsTogether'
      BY <1>1, <3>1, <3>5 DEF StartsTogether, Targeted, NoJob
    <3> QED BY <3>3, <3>4, <3>6 DEF Together
  <2> QED BY <2>2, <2>3
<1> QED BY <1>5, <1>6

LEMMA DeviceTogether ==
    ASSUME Inv, NEW d \in Device,
           DeviceStep(d) \/ DeviceStops(d) \/ DeviceGoes(d) \/ DeviceJoins(d)
    PROVE  Together'
<1>0. TypeOK /\ queue[d] \in Seq(Forward \union Backward)
  BY DEF Inv, TypeOK
<1>1. \A e \in Device : e # d =>
          key'[e] = key[e] /\ queue'[e] = queue[e] /\ proc'[e] = proc[e]
  <2>1. CASE DeviceGoes(d)
    BY <1>0, <2>1 DEF DeviceGoes, TypeOK
  <2>2. CASE DeviceReads(d)
    BY <1>0, <2>2 DEF DeviceReads, TypeOK
  <2>3. CASE DeviceMoves(d) \/ KeyExpires(d) \/ DeviceStops(d)
    BY <1>0, <2>3 DEF DeviceMoves, KeyExpires, DeviceStops, TypeOK
  <2>4. CASE DeviceJoins(d)
    BY <1>0, <2>4 DEF DeviceJoins, TypeOK
  <2> QED BY <2>1, <2>2, <2>3, <2>4 DEF DeviceStep
<1>2. ASSUME NEW b \in Browser, NEW e \in job'[b].steady
      PROVE  /\ e \in Device /\ e \in job[b].steady
             /\ proc[e] = "up" /\ NoReset(e)
             /\ e = d => proc'[d] # "down"
  <2>1. job[b].steady \subseteq Device
    BY <1>0 DEF TypeOK, Job
  <2>2. /\ job'[b].steady \in {job[b].steady, job[b].steady \ {d}}
        /\ proc'[d] = "down" => d \notin job'[b].steady
    BY DeviceKeepsJobs
  <2>3. e \in job[b].steady
    BY <1>2, <2>2
  <2> QED BY <1>2, <2>1, <2>2, <2>3 DEF Inv, SteadyStays
\* A steady device that stays has no reset to read, so it stays above.
<1>3. ASSUME NEW b \in Browser, NEW e \in job'[b].steady
      PROVE  /\ proc'[e] = "up" /\ NoReset(e)'
             /\ key[e] \in waitReadyTargets => key'[e] \in waitReadyTargets
  <2>1. CASE e # d
    BY <1>0, <1>1, <1>2, <1>3, <2>1 DEF NoReset
  <2>2. CASE e = d
    <3>0. /\ proc[d] = "up" /\ NoReset(d) /\ proc'[d] # "down"
          /\ ~DeviceGoes(d) /\ ~DeviceJoins(d) /\ ~KeyExpires(d)
      BY <1>2, <1>3, <2>2 DEF DeviceGoes, DeviceJoins, KeyExpires, Inv, TypeOK
    <3>1. CASE DeviceMoves(d)
      <4>1. /\ key[d] \in Rest
            /\ Head(queue[d]) \in (Forward \union Backward) \ Resets
        BY <1>0, <1>1, <3>0, <3>1, HeadTailProperties, EmptySeq
           DEF DeviceMoves, TypeOK, NoReset
      <4>2. UNCHANGED <<queue, proc>>
        BY <3>1 DEF DeviceMoves
      <4>3. key'[d] = IF Head(queue[d]) \in Forward THEN Above[key[d]]
                      ELSE Below[key[d]]
        BY <1>0, <1>1, <3>1 DEF DeviceMoves, TypeOK
      <4> QED BY <2>2, <3>0, <3>1, <4>1, <4>2, <4>3, MoveKeepsRest
              DEF DeviceMoves, NoReset
    <3>2. CASE DeviceReads(d)
      <4>1. queue'[d] = Tail(queue[d]) /\ UNCHANGED <<key, proc>>
        BY <1>0, <1>1, <3>0, <3>2 DEF DeviceReads, TypeOK
      <4>2. NoReset(d)'
        BY <1>0, <1>1, <3>0, <3>2, <4>1, HeadTailProperties DEF DeviceReads, NoReset
      <4> QED BY <2>2, <3>0, <4>1, <4>2
    <3>3. CASE DeviceStops(d)
      BY <1>0, <1>1, <2>2, <3>0, <3>3
         DEF DeviceStops, NoReset, TypeOK, waitReadyTargets
    <3> QED BY <3>0, <3>1, <3>2, <3>3 DEF DeviceStep
  <2> QED BY <2>1, <2>2
<1>4. SteadyStays'
  BY <1>3 DEF SteadyStays
<1>5. WaitedFor'
  BY <1>2, <1>3, DeviceKeepsJobs DEF Inv, WaitedFor, Targeted
<1>6. StartsTogether'
  BY <1>2, <1>3, DeviceKeepsJobs DEF Inv, StartsTogether, Targeted
<1> QED BY <1>4, <1>5, <1>6 DEF Together

LEMMA StepInv == Inv /\ [Next]_vars => Inv'
<1> SUFFICES ASSUME Inv, [Next]_vars PROVE Inv'
  OBVIOUS
<1>0. TypeOK /\ Exclusive
  BY DEF Inv
<1>1. CASE \E b \in Browser : Request(b)
  BY <1>0, <1>1, RequestType, RequestExclusive, RequestTogether DEF Inv, Together
<1>2. CASE \E b \in Browser : Handler(b) \/ RequestThrows(b)
  <2> PICK b \in Browser : PublishStep(b) \/ WaitStep(b) \/ RequestThrows(b)
    BY <1>2 DEF Handler
  <2>1. (TypeOK /\ Exclusive /\ RunIsRecorded)'
    BY <1>0, HandlerType, HandlerExclusive
  <2>2. Together'
    <3>1. CASE RequestThrows(b)
      BY <3>1, EndTogether, HandlerGoes DEF RequestThrows
    <3> QED BY <3>1, PublishTogether, WaitTogether
  <2> QED BY <2>1, <2>2 DEF Inv, Together
<1>3. CASE \E d \in Device : DeviceStep(d) \/ DeviceStops(d) \/ DeviceGoes(d)
                             \/ DeviceJoins(d)
  BY <1>0, <1>3, DeviceType, DeviceExclusive, DeviceTogether DEF Inv, Together
<1>4. CASE UNCHANGED vars
  BY <1>4 DEF vars, Inv, TypeOK, Exclusive, RunIsRecorded, SteadyStays, NoReset,
              WaitedFor, StartsTogether, Targeted
<1> QED BY <1>1, <1>2, <1>3, <1>4 DEF Next

THEOREM Invariance == Spec => []Inv
BY InitInv, StepInv, PTL DEF Spec

\* The controller, its requests and the devices stay in the states the model
\* knows, whatever the order in which browsers, devices and failures act.
THEOREM TypeCorrect == Spec => []TypeOK
<1>1. Inv => TypeOK
  BY DEF Inv
<1> QED BY <1>1, Invariance, PTL

\* RUN after a wait for Ready starts devices that are all in Ready or Running,
\* for any number of browsers, devices and groups (WebGui::Wait under fMutex).
THEOREM ReadyBeforeRun == Spec => []StartsTogether
<1>1. Inv => StartsTogether
  BY DEF Inv
<1> QED BY <1>1, Invariance, PTL

\* latest_run_number is the number of the run that RUN starts, because fMutex
\* keeps the other requests out from the copy to the publication.
THEOREM NumberOfTheRun == Spec => []RunIsRecorded
<1>1. Inv => RunIsRecorded
  BY DEF Inv
<1> QED BY <1>1, Invariance, PTL
=============================================================================
