------------------------------- MODULE Metrics -------------------------------
(***************************************************************************)
(* The metrics plugin (plugins/MetricsPlugin.cxx) of one device, and what  *)
(* it leaves in Redis.  FairMQ's rate logger writes a line per channel and *)
(* period while the device runs; the plugin reads the lines as a log sink, *)
(* sums them up, queues them in a Redis pipeline and sends the pipeline    *)
(* once every channel it knows has had a line.  It makes time series when  *)
(* a run begins and deletes them when it ends.  Every plugin that starts,  *)
(* on this device or another, sweeps the fields of expired instances.      *)
(*                                                                         *)
(* A channel's hashes (messages, bytes, sums, in and out) are always       *)
(* written together and are one field here, as are its time series.        *)
(***************************************************************************)
EXTENDS Integers, FiniteSets

CONSTANTS
    Channel,        \* the subchannels a device may have
    Stray,          \* names in lines that look like a channel's and are not
    Proc,           \* the time series of the process
    NoKey,          \* the empty key
    None,           \* no value
    MaxTtl,         \* metrics-max-ttl
    Skew,           \* how far a sweeping host's clock may be ahead of ours
    Word,           \* the number of values of an unsigned integer
    MaxSum,         \* bound on the messages of a channel in a run
    MaxRuns,        \* bound on the runs
    MaxFaults,      \* bound on the failures of Redis, and on crashes
    MaxSweeps       \* bound on the sweeps of other devices

Line == Channel \union Stray
Key  == Channel \union {Proc, NoKey}

ASSUME NamesAssumption  == /\ IsFiniteSet(Line) /\ Channel \intersect Stray = {}
                           /\ Proc # NoKey /\ {Proc, NoKey} \intersect Channel = {}
ASSUME NoneAssumption   == None \notin Nat \X Nat /\ None \notin Nat
ASSUME BoundsAssumption == /\ MaxTtl \in Nat \ {0} /\ Skew \subseteq Int
                           /\ Word \in Nat \ {0}
                           /\ MaxSum \in Nat /\ MaxRuns \in Nat
                           /\ MaxFaults \in Nat /\ MaxSweeps \in Nat

VARIABLES
    \* the device and its plugin
    state,              \* FairMQ's state, or where the constructor is
    chans,              \* the channels of the device's properties
    fSocketProperties,  \* the channels as they were in DeviceReady
    fTsSockKey,         \* the channels with keys for time series
    fRegisteredTSKeys,
    known,              \* the keys of fSocketMetrics
    fSocketMetrics,     \* the sums
    fNumChannels,       \* the channels counted since the pipeline was sent
    fPipe,              \* whether the pipeline is still valid
    queued,             \* the sums in the pipeline
    \* Redis
    fields,             \* the fields of the instance in the hashes: last-update,
                        \* and the ones written when something happens
                        \* (created-time, state, start-time, run-number, ...)
    published,          \* the sums of the channels, each with its run
    series,             \* the time series there are
    made,               \* the run a series was created in
    points,             \* the runs a series has points of
    lock,               \* who holds the RedMutex "metrics"
    found,              \* what its holder found expired
    \* history and bounds
    run,                \* the number of the run
    fresh,              \* whether the run began with recreate-ts
    told,               \* the messages the lines told of since Ready
    faults, sweeps

plugin  == <<fSocketProperties, fTsSockKey, fRegisteredTSKeys, known,
             fSocketMetrics, fNumChannels, fPipe, queued>>
hashes  == <<fields, published>>
ts      == <<series, made, points>>
sweep   == <<lock, found, sweeps>>
history == <<run, fresh, told>>
vars    == <<state, chans, plugin, hashes, ts, sweep, history, faults>>

\* What a sweep may find expired: this instance, or one whose name is the
\* beginning of this one's.
Victim == {"self", "namesake"}

NothingQueued == [c \in Channel |-> None]
NoSums        == [c \in Line |-> 0]

Init ==
    /\ state = "off" /\ chans = {}
    /\ fSocketProperties = {} /\ fTsSockKey = {} /\ fRegisteredTSKeys = {}
    /\ known = {} /\ fSocketMetrics = NoSums /\ fNumChannels = {}
    /\ fPipe = "valid" /\ queued = NothingQueued
    /\ fields = {} /\ published = [c \in Channel |-> None]
    /\ series = {} /\ made = [k \in Key |-> 0] /\ points = [k \in Key |-> {}]
    /\ lock = "free" /\ found = {} /\ sweeps = 0
    /\ run = 0 /\ fresh = "no" /\ told = NoSums /\ faults = 0

-----------------------------------------------------------------------------
(* The constructor and DeleteExpiredFields.                                 *)

\* The process and its memory are gone.
Ends ==
    /\ state' = "off" /\ chans' = {}
    /\ fSocketProperties' = {} /\ fTsSockKey' = {} /\ fRegisteredTSKeys' = {}
    /\ known' = {} /\ fSocketMetrics' = NoSums /\ fNumChannels' = {}
    /\ fPipe' = "valid" /\ queued' = NothingQueued
    /\ fresh' = "no" /\ told' = NoSums

Start ==
    /\ state = "off"
    /\ run < MaxRuns
    /\ state' = "sweeping"
    /\ UNCHANGED <<chans, plugin, hashes, ts, sweep, history, faults>>

\* last-update was written age ago.  The difference is unsigned and wraps around
\* when the sweeping host's clock is behind.
Expired(age, skew) == "last-update" \in fields /\ (age + skew) % Word > MaxTtl

\* try_lock succeeds and last-update is read.
SweepReads(who) ==
    /\ lock = "free"
    /\ IF who = "self" THEN state = "sweeping" /\ UNCHANGED sweeps
                       ELSE sweeps < MaxSweeps /\ sweeps' = sweeps + 1
    /\ lock' = who
    /\ \E age \in 0 .. (MaxTtl + 1), skew \in Skew, N \in SUBSET {"namesake"} :
          found' = N \union (IF Expired(age, skew) THEN {"self"} ELSE {})
    /\ UNCHANGED <<state, chans, plugin, hashes, ts, history, faults>>

Swept ==
    /\ fields' = IF "self" \in found THEN {} ELSE fields
    /\ published' = IF found # {} THEN [c \in Channel |-> None] ELSE published

SweepDeletesAgain(who) ==
    /\ lock = who
    /\ who = "self" => fPipe = "valid"
    /\ Swept
    /\ lock' = "free" /\ found' = {}
    /\ UNCHANGED <<state, chans, plugin, ts, sweeps, history, faults>>

\* The pipeline is executed and the lock is left.
SweepDeletes(who) ==
    /\ lock = who
    /\ who = "self" => fPipe = "valid"
    /\ Swept
    /\ state' = IF who = "self" THEN "create" ELSE state
    /\ lock' = "free" /\ found' = {}
    /\ UNCHANGED <<chans, plugin, ts, sweeps, history, faults>>

\* A pipeline that failed once throws at every use: the loop goes on for ever.
SweepThrows ==
    /\ lock = "self" /\ fPipe = "invalid"
    /\ lock' = "free" /\ found' = {}
    /\ UNCHANGED <<state, chans, plugin, hashes, ts, sweeps, history, faults>>

SweepFails ==
    /\ lock = "self" /\ fPipe = "valid"
    /\ faults < MaxFaults /\ faults' = faults + 1
    /\ Swept \/ UNCHANGED hashes
    /\ fPipe' = "invalid"
    /\ lock' = "free" /\ found' = {}
    /\ UNCHANGED <<state, chans, fSocketProperties, fTsSockKey,
                   fRegisteredTSKeys, known, fSocketMetrics, fNumChannels,
                   queued, ts, sweeps, history>>

\* The end of the constructor: created-time, hostname and host-ip.
ConstructEnds ==
    /\ state = "create"
    /\ state' = "Idle"
    /\ fields' = fields \union {"facts"}
    /\ UNCHANGED <<chans, plugin, published, ts, sweep, history, faults>>

-----------------------------------------------------------------------------
(* The callbacks.  IsRecreateTS reads the property recreate-ts each time,   *)
(* and the parameter plugin may set it at any time: it may always be either.*)

Alive == state \in {"Idle", "DeviceReady", "Ready", "Running"}

ShowStateUndiscarded ==
    /\ fPipe = "valid"
    /\ queued' = NothingQueued
    /\ published' = [c \in Channel |->
                        IF queued[c] # None THEN <<run, queued[c]>> ELSE published[c]]
    /\ fields' = fields \union {"facts"}
    /\ UNCHANGED <<fPipe, sweep, faults>>

\* The part of the state callback that is common to all states, up to exec().
\* It comes before FairMQ's handler of the state.
ShowState ==
    /\ fPipe = "valid"
    /\ queued' = NothingQueued
    /\ fields' = fields \union {"facts"}
    /\ UNCHANGED <<fPipe, published, sweep, faults>>

\* InitializeSocketProperties.
EnterDeviceReady ==
    /\ \/ state = "Idle" /\ chans' \in SUBSET Channel \ {{}}
       \/ state = "Ready" /\ UNCHANGED chans
    /\ state' = "DeviceReady"
    /\ ShowState
    /\ fSocketProperties' = chans'
    /\ UNCHANGED <<fTsSockKey, fRegisteredTSKeys, known, fSocketMetrics,
                   fNumChannels, ts, run, fresh, told>>

DropSeries(K) ==
    /\ series' = series \ K
    /\ points' = [k \in Key |-> IF k \in K THEN {} ELSE points[k]]
    /\ UNCHANGED made

DeleteTSKeys == DropSeries(fRegisteredTSKeys) /\ fRegisteredTSKeys' = {}

EnterReadySumsOn ==
    /\ state \in {"DeviceReady", "Running"}
    /\ state' = "Ready"
    /\ ShowState
    /\ DeleteTSKeys \/ UNCHANGED <<fRegisteredTSKeys, ts>>
    /\ known' = {} /\ fNumChannels' = {}
    /\ told' = NoSums
    /\ UNCHANGED <<chans, fSocketProperties, fTsSockKey, fSocketMetrics, run, fresh>>

EnterReady ==
    /\ state \in {"DeviceReady", "Running"}
    /\ state' = "Ready"
    /\ ShowState
    /\ DeleteTSKeys \/ UNCHANGED <<fRegisteredTSKeys, ts>>
    /\ known' = {} /\ fSocketMetrics' = NoSums
    /\ fNumChannels' = {}
    /\ told' = NoSums
    /\ UNCHANGED <<chans, fSocketProperties, fTsSockKey, run, fresh>>

MakeSeriesOverOld(K) ==
    /\ series' = series \union K
    /\ made' = [k \in Key |-> IF k \in K THEN run + 1 ELSE made[k]]
    /\ UNCHANGED points

\* A series there is already is deleted first, with its points.
MakeSeries(K) ==
    /\ series' = series \union K
    /\ made' = [k \in Key |-> IF k \in K THEN run + 1 ELSE made[k]]
    /\ points' = [k \in Key |-> IF k \in K THEN {} ELSE points[k]]

CreateTimeseries(K) ==
    /\ MakeSeries(K)
    /\ fRegisteredTSKeys' = (fRegisteredTSKeys \ (K \intersect series)) \union K

SeriesToMake == {Proc} \union fSocketProperties

EnterRunning ==
    /\ state = "Ready"
    /\ run < MaxRuns
    /\ state' = "Running"
    /\ run' = run + 1
    /\ ShowState
    /\ \/ /\ CreateTimeseries(SeriesToMake)
          /\ fTsSockKey' = fTsSockKey \union fSocketProperties
          /\ fresh' = "yes"
       \/ fresh' = "no" /\ UNCHANGED <<fTsSockKey, fRegisteredTSKeys, ts>>
    /\ UNCHANGED <<chans, fSocketProperties, known, fSocketMetrics, fNumChannels, told>>

EnterIdle ==
    /\ state = "DeviceReady"
    /\ state' = "Idle"
    /\ ShowState
    /\ UNCHANGED <<chans, fSocketProperties, fTsSockKey, fRegisteredTSKeys, known,
                   fSocketMetrics, fNumChannels, ts, run, fresh, told>>

\* The callback of Exiting, and the destructor.
Exit ==
    /\ state = "Idle" /\ fPipe = "valid"
    /\ fields' = fields \union {"facts"}
    /\ Ends
    /\ UNCHANGED <<published, ts, sweep, run, faults>>

\* An exception leaves the callback of the next state and ends the device: the
\* pipeline has failed before, or Redis fails, before or after it has executed
\* what was asked of it, or in the middle of it.
CallbackThrows ==
    /\ Alive
    /\ \/ /\ fPipe = "invalid"
          /\ UNCHANGED <<faults, fields, ts, run>>
       \/ /\ fPipe = "valid"
          /\ faults < MaxFaults /\ faults' = faults + 1
          /\ fields' \in {fields, fields \union {"facts"}}
          /\ \/ UNCHANGED <<ts, run>>
             \/ /\ state \in {"DeviceReady", "Running"}
                /\ DropSeries(fRegisteredTSKeys)
                /\ UNCHANGED run
             \/ /\ state = "Ready" /\ run < MaxRuns
                /\ run' = run + 1
                /\ MakeSeries(SeriesToMake) \/ \E K \in SUBSET SeriesToMake : DropSeries(K)
    /\ Ends
    /\ UNCHANGED <<published, sweep>>

\* start-time, stop-time or run-number is set.
OnPropertyChange ==
    /\ Alive
    /\ fields' = fields \union {"facts"}
    /\ UNCHANGED <<state, chans, plugin, published, ts, sweep, history, faults>>

-----------------------------------------------------------------------------
(* The log sink: SendSocketMetrics and SendProcessMetrics.                  *)

\* operator[] makes an entry without keys for a channel without series.
TsKey(c) == IF c \in fTsSockKey THEN c ELSE NoKey

\* exec() of a pipeline with the sums q: TS.ADD creates the series it misses,
\* which nobody registers.
Exec(q) ==
    LET K == {Proc} \union {TsKey(c) : c \in {d \in Channel : q[d] # None}}
    IN  /\ published' = [c \in Channel |->
                            IF q[c] # None THEN <<run, q[c]>> ELSE published[c]]
        /\ fields' = fields \union {"last-update"}
        /\ series' = series \union K
        /\ made' = [k \in Key |-> IF k \in K \ series THEN run ELSE made[k]]
        /\ points' = [k \in Key |-> IF k \in K THEN points[k] \union {run} ELSE points[k]]

\* The line of c, with n messages, is added to its sum.
AddUp(c, n) ==
    /\ state = "Running"
    /\ c \in chans \union Stray
    /\ fSocketMetrics[c] + n <= MaxSum
    /\ fSocketMetrics' = [fSocketMetrics EXCEPT ![c] = @ + n]
    /\ known' = known \union {c}
    /\ told' = [told EXCEPT ![c] = @ + n]
    /\ UNCHANGED <<state, chans, fSocketProperties, fTsSockKey,
                   fRegisteredTSKeys, sweep, run, fresh>>

Enqueue(c) == [queued EXCEPT ![c] = fSocketMetrics'[c]]
Count(c)   == fNumChannels \union {c}

RoundIsOverForAll(c) == Count(c) = Line

\* countAll == fSocketMetrics.size()
RoundIsOver(c) == Cardinality(Count(c)) = Cardinality(known')

\* No property has the type of the channel, or the pipeline throws: the sum is
\* counted and nothing is queued.
LineIgnored(c, n) ==
    /\ AddUp(c, n)
    /\ c \in Stray \/ fPipe = "invalid"
    /\ UNCHANGED <<fNumChannels, fPipe, queued, hashes, ts, faults>>

LineQueued(c, n) ==
    /\ AddUp(c, n)
    /\ c \notin Stray /\ fPipe = "valid"
    /\ ~RoundIsOver(c)
    /\ queued' = Enqueue(c)
    /\ fNumChannels' = Count(c)
    /\ UNCHANGED <<fPipe, hashes, ts, faults>>

LineSent(c, n) ==
    /\ AddUp(c, n)
    /\ c \notin Stray /\ fPipe = "valid"
    /\ RoundIsOver(c)
    /\ Exec(Enqueue(c))
    /\ queued' = NothingQueued
    /\ fNumChannels' = {}
    /\ UNCHANGED <<fPipe, faults>>

\* exec() throws, with or without the commands having reached the server; the
\* count stays as it is.
LineFails(c, n) ==
    /\ AddUp(c, n)
    /\ c \notin Stray /\ fPipe = "valid"
    /\ RoundIsOver(c)
    /\ faults < MaxFaults /\ faults' = faults + 1
    /\ Exec(Enqueue(c)) \/ UNCHANGED <<hashes, ts>>
    /\ fPipe' = "invalid"
    /\ queued' = NothingQueued
    /\ fNumChannels' = Count(c)

\* The messages a line may tell of.
Messages(c) == IF c \in Stray THEN {0} ELSE {0, 1}

SendSocketMetrics(c) ==
    \E n \in Messages(c) : LineIgnored(c, n) \/ LineQueued(c, n) \/ LineSent(c, n)

-----------------------------------------------------------------------------
(* A crash: what is in Redis stays, and the lock's time runs out.           *)

Crash ==
    /\ state # "off"
    /\ faults < MaxFaults /\ faults' = faults + 1
    /\ Ends
    /\ IF lock = "self" THEN lock' = "free" /\ found' = {} ELSE UNCHANGED <<lock, found>>
    /\ UNCHANGED <<hashes, ts, sweeps, run>>

-----------------------------------------------------------------------------
Sweep(who) == SweepReads(who) \/ SweepDeletes(who)

StateChange == EnterDeviceReady \/ EnterReady \/ EnterRunning \/ EnterIdle \/ Exit

Next ==
    \/ Start \/ Sweep("self") \/ Sweep("other")
    \/ SweepThrows \/ SweepFails \/ ConstructEnds
    \/ StateChange \/ CallbackThrows \/ OnPropertyChange
    \/ \E c \in Line : SendSocketMetrics(c)
    \/ \E c \in Channel : \E n \in Messages(c) : LineFails(c, n)
    \/ Crash

Spec == Init /\ [][Next]_vars

\* The constructor goes on, a sweep ends, and FairMQ's rate logger keeps writing
\* the lines of every channel.
FairSpec ==
    /\ Spec
    /\ WF_vars(Sweep("self") \/ ConstructEnds)
    /\ WF_vars(SweepDeletes("other"))
    /\ \A c \in Channel : WF_vars(SendSocketMetrics(c))

-----------------------------------------------------------------------------
(* Properties.                                                              *)

\* Type invariant (the members of MetricsPlugin).
TypeOK ==
    /\ state \in {"off", "sweeping", "create", "Idle", "DeviceReady", "Ready",
                  "Running"}
    /\ chans \subseteq Channel
    /\ fSocketProperties \subseteq Channel /\ fTsSockKey \subseteq Channel
    /\ fRegisteredTSKeys \subseteq Channel \union {Proc}
    /\ known \subseteq Line /\ fNumChannels \subseteq known \intersect Channel
    /\ fSocketMetrics \in [Line -> Nat]
    /\ fPipe \in {"valid", "invalid"}
    /\ queued \in [Channel -> Nat \union {None}]
    /\ fields \subseteq {"facts", "last-update"}
    /\ published \in [Channel -> (Nat \X Nat) \union {None}]
    /\ series \subseteq Key /\ made \in [Key -> Nat]
    /\ points \in [Key -> SUBSET Nat]
    /\ lock \in {"free", "self", "other"} /\ found \subseteq Victim
    /\ run \in Nat /\ fresh \in {"yes", "no"}
    /\ told \in [Line -> Nat]
    /\ faults \in Nat /\ sweeps \in Nat

\* No line is lost or counted twice, or in another run: while the pipeline is
\* valid, what the lines of this run have told of a channel is waiting in the
\* pipeline, if the channel is counted, and otherwise is what Redis shows, unless
\* a sweep deleted it (SendSocketMetrics, the callback of Ready).
NothingIsLost ==
    state = "Running" /\ fPipe = "valid" =>
        \A c \in known \intersect Channel :
            IF c \in fNumChannels
            THEN queued[c] = told[c]
            ELSE published[c] \in {None, <<run, told[c]>>}

\* A run that was begun with recreate-ts has time series of its own: each was
\* created for this run and has points of no other, whatever an earlier process
\* or another setting left behind, and no point went to the empty key (the
\* callback of Running, CreateTimeseries, CreateSocketTS).
SeriesOfTheRun ==
    state = "Running" /\ fresh = "yes" =>
        /\ \A k \in {Proc} \union chans :
              k \in series /\ made[k] = run /\ points[k] \subseteq {run}
        /\ run \notin points[NoKey]

\* The step shows sums of this run only, if any, or deletes some.
ShowsThisRun ==
    \A c \in Channel :
        \/ published'[c] \in {published[c], None}
        \/ /\ state = "Running" /\ state' = "Running"
           /\ published'[c][1] = run

\* What Redis shows of a channel changes only while the device runs and only to
\* a sum of this run, or is deleted: what is left in the pipeline when the run
\* ends is never sent (the state callback).
PublishesDuringRun == [][ShowsThisRun]_vars

\* All the sums of all the channels are in Redis.
Snapshot == \A c \in chans : published[c] = <<run, told[c]>>

\* While the device runs Redis keeps being brought up to date, also after a sweep
\* by another device, unless the pipeline has failed or a line that is no
\* channel's has been counted (SendSocketMetrics).
Publishes ==
    []<>(\/ Snapshot
         \/ state # "Running" \/ fPipe = "invalid" \/ known \intersect Stray # {})

\* The constructor ends, unless its pipeline fails (DeleteExpiredFields).
Starts == (state = "sweeping") ~> (state # "sweeping" \/ fPipe = "invalid")
=============================================================================
