# TLA+ verification of nestdaq

nestdaq runs distributed data acquisition: FairMQ devices that a plugin
registers in Redis, connects to each other and drives through the FairMQ state
machine, and a web controller from which operators publish commands. The
modules here model the parts in which several threads, processes, browsers and
a shared registry have to agree, TLC checks them on small instances, and TLAPS
proves the central invariants for every instance.

## The system

| Part | State it keeps | Operations | Talks to |
|---|---|---|---|
| DAQ service plugin, device control (`plugins/DaqServicePlugin.cxx`) | `fStateQueue`, `fResetDeviceRequested`, `fPluginShutdownRequested`, the FairMQ device state | state-change callback, startup sequence, single and multi commands, command loop, shutdown sequence, destructor | FairMQ (callback, `ChangeDeviceState`), Redis channel `daqctl`, topology |
| DAQ service plugin, registration (same file) | `fId`, `fRegisteredKeys`, `fRegisteredHashes`; in Redis the index hash, presence keys, the lock `resource` | `Register`, `SetId`, `ResetTtl`, `Unregister` | Redis, other processes of the service, controller |
| Topology (`plugins/TopologyConfig.cxx`) | links, bind and connect channels, neighbour lists; channel and address keys in Redis | `Initialize`, `WriteBindAddress`, `WaitBindAddress`, `ResolveConnectAddress`, `ConfigConnect`, `WriteConnectAddress`, `WaitForPeerConnection`, `Reset`, `ResetTtl` | the topologies of the peers, through Redis |
| Web controller, commands (`controller/WebGui.cxx`) | `fMutex`, run numbers in Redis, the list of states polled last | `ProcessData`, the command sequences, `Wait`, `RedisIncr`, `PollState`, `ProcessExpiredKey` | browsers, Redis |
| HTTP and WebSocket sessions (`controller/*session.cxx`, `listener.cxx`, `run_daq-webctl.cxx`) | the queue of responses, `wsSessions` | accept, read, write, upgrade, broadcast, close | browsers, controller |
| Metrics (`plugins/MetricsPlugin.cxx`) | sums per channel, the pipeline, keys of time series | sweep of expired fields, state and property callbacks, log sink | Redis, its time series, other devices' metrics |
| Parameters (`plugins/ParameterConfigPlugin.cxx`) | the device's properties | read the four sources, subscribe, read again | Redis |
| Telemetry, timer, tools, example devices | - | - | - |

What is hard here: the plugin's control thread and FairMQ's state machine
thread meet in a queue and two flags; the control thread waits for the device
while it should read the next command; every process runs `SetId` and
`Unregister` against the same hash with a lock that covers only the first;
keys expire, commands fail after they have taken effect, processes die with
the lock. On the controller's side reads and writes of a connection complete in
any order, requests of several browsers wait for devices that change meanwhile,
and the poll thread walks through sessions that come and go. Notifications
arrive in the middle of the read they ask to repeat, and a pipeline of sums is
sent while the device changes its state. `PROJECT.json` lists these hazards at their lines.

What makes each part correct:

- *device control*: a command leads where it says; a wait is never answered by
  an old state; a canceled address exchange is never used; the device is given
  up only when it is down; END and Error lead to the end of the process.
- *registration*: running processes have distinct indices, which stay theirs
  in the hash; dead ones are reused; nobody is kept from registering.
- *topology*: two ends of a channel agree on the address; the exchange ends.
- *controller*: a run starts when all its devices are ready, with the number
  that is recorded for it; a wait ends.
- *sessions*: requests are answered once each and in order, neither end of the
  queue is left asleep; a page that connects is served, and shows what is there.
- *metrics*: what Redis shows was counted in this run, nothing counted is lost,
  a run's time series are its own.
- *parameters*: no update is lost: the device's properties are what Redis holds,
  and one that Redis holds no more keeps its last value or an older one.

## Modules

`FairMQ` holds the tables of FairMQ's state machine (external code): states,
transitions, which handlers end by themselves.

`DeviceControl` models one device with its two threads. `fsm` is the state
machine thread: `TakeTransition`, `CallbackPush` and the `Callback...` actions
(the plugin's callback up to and after the push to `fStateQueue`), and the
`Handler...` actions. `ctl` is the control thread: `single`/`issue`/`await`/
`record` are the points of `ChangeDeviceStateBySingleCommand` (read the state,
request the transition, wait, write the run's time), `loop`/`consume` those of
`SubscribeToDaqCommand`, and `shutdown...` those of `RunShutdownSequence`. A multi command is the
sequence of single commands it runs (`todo`), as in the source's switch;
`MultiCommand` computes it from two tables instead of listing the cases. Redis
delivers a message only to those who listen (`Publish`). `handshake`,
`receivedIn` and `runOpen` record what the properties compare with.
An exception of a registry call is taken where the code takes it: in the
callback (`CallbackThrows`), by `consume()`'s handlers (`ConsumeThrows`,
`WriteRunTimeThrows`), or nowhere (`Aborts`, which ends the process).

`InstanceRegistry` models `SetId` command by command for several processes,
the presence keys, `ResetTtl`, `Unregister`, crashes, restarts with the same
uuid, the expiry of keys and of the lock, and the controller's
`ProcessExpiredKey`. Constants switch the faults on and off. Time is
abstracted: a key can expire when nobody refreshes it.

`Topology` models the devices of a DAQ that connect through the registry: the
configured endpoints and links, and per device the channel hashes, peer lists
and address keys. `step` is where a device's callback is: `init` (the loop of
`Initialize`), `writeBind`, `written`, `waitBind`, `resolve`, `resolved`,
`waitPeers` (the calls of `OnDeviceStateChange` in Bound). `Resolution` is the
loop of `ResolveConnectAddress` over the peers, a recursive function with its
break, continue and assertions; `Configured` is the way of `connect-config`. An
address is a socket of a device in a round (services, indices and channels are
numbered in the order of their names, which is what the lists are sorted by), so a
stale one can be told from a current one. `Published` is what `WriteAddress` makes
of the sub-sockets: it finds their properties by the prefix `chans.<channel>.<i>`,
with no dot behind the number, and `ReadPeerAddress` has them back in the order of
the keys' texts (`Rank`); both depend on the numerals' `Base`. The operator sends a
command when all devices show the same state (`Broadcast`); what the command does
then is `Accepts`, translated from the plugin's multi commands: BIND and CONNECT
in an earlier state take several transitions, which each device makes at its own
pace. `topo.sentIn` says which of them the operator uses. Devices start
and leave while all are Idle. `Topology` is a
view on several devices at once: of `DeviceControl` it keeps the order in
which a device receives a command, raises the flag of a reset and takes the
transition.

`ResponseStream` is an abstract specification: what a connection promises to a
browser. `HttpPipeline` is the session that keeps the promise, from the accept
to the close or the upgrade. A handler runs on the session's strand and is one
action (`OnReadRequest`, `OnWrite`, ...), `Enqueue` is the queue's
`operator()`, `QueueOnWrite` its `on_write`; `reads` and `writes` count the
operations outstanding, since starting two is the mistake to be excluded, and
`readSock`, `writeSock` remember the socket an operation was started on, since
one that has completed before a shutdown is delivered after it. `Stream` maps a
session to the abstract one: `items_` is what waits, without a closing response
that has been sent, which the code leaves there.

`WebController` models the requests of several browsers. `job[b]` is the handler
of a browser's request: the command, the wait flags, the chosen groups of
devices, and `pc`, the next step of the sequence `RedisPublishDaqCommand` runs
(`FirstStep`, `StepAfter`). `WaitStep` is one poll of `Wait`; `PublishStep` one
`PUBLISH`. The devices are abstract: a state key, the commands not read, and
`DoneIn`, what a command leads to, which is `DeviceControl` without its threads.
`steady` records the devices `StartsTogether` speaks of.

`StateBoard` models the poll thread (`PollState`, then one `Write` per session),
sessions (`OnConnect`, `OnClose`) and the lists a page keeps from summaries that
only say whether something has changed. `operator[]` of the map is modelled by
what it does (`WriteToNobody`): a session that has gone leaves an empty pointer
behind, through which nothing is written, or the reference dangles and the process
ends. An insertion may rehash the table under the loop that goes through it, so
that sessions are skipped or come again (`Inserted`).

`ParameterConfig` models the constructor and the subscriber thread. A read takes
one source per step (`ReadSource`), because anybody may write between two of
them. `Throws` says which values make the code throw, and `Taken` what has been
set by then.

`Metrics` models one device's plugin and what it leaves in Redis: the
constructor with the sweep of expired fields (`SweepReads`, `SweepDeletes`, by
this device or another, under the Redis lock), the callbacks (`EnterReady`, ...,
each with an exception at the point of the code where it is taken), and the log
sink: a line is ignored, queued, or completes a round and sends the pipeline
(`LineIgnored`, `LineQueued`, `LineSent`, `LineFails`). Unsigned subtraction of
clocks is taken modulo `Word`. A series may be made by `TS.CREATE` or, if it is not
there, by `TS.ADD`, and only the first registers it. `told`, `made`, `points` and `fresh`
record what the properties compare with.

A module `MCx` gives the constants of `x` values for TLC, a module `xProofs`
holds the theorems about `x`. Definitions beside an action that are named for
what they get wrong (`QueueOnWriteStops`, `WaitIsOverForOne`) are wrong variants
of it, kept to show that each property depends on the code it is about.

## Runs

| Run | Shows |
|---|---|
| `control_commands` | every command, from every state, from every startup state, without faults of the device: `CommandKeepsPromise`, `RunRecordMatches`, `EndExits`; no deadlock |
| `control_error` | devices that fail or stop by themselves, every command, `consume()` without a timeout: `ConnectOnlyAfterHandshake`, `ErrorReleases`, `WaitsEnd` |
| `control_faults` | every fault at once: `TypeOK`, `ReleasedOnlyWhenDown`, `NoStaleWait` |
| `control_selfstop_end` | *violated*: `EndExits`, when a device leaves Running while the shutdown sequence starts |
| `registry_crash` | three processes that crash anywhere: `TypeOK`, `UniqueIds`, `IndexStaysOwned`, `TakesSmallestIndex`, `EverybodyRegisters` |
| `registry_churn` | failing commands, exits, restarts, the controller: `OneIndexPerUuid` |
| `topology_rounds` | the topologies of `scripts/`, a chain of three services, one with `connect-config`; commands for one transition each, or CONNECT in Idle, which every device carries out at its own pace: `TypeOK`, `PairedByIndex`, `OnePeerPerSubSocket`, `FindsAddresses`, `ConnectsToCurrent`, `HandshakeEnds` |
| `http_pipeline` | a browser that sends more requests than the queue holds: `PipelineSafe`, `NothingStalls`, `ImplementsStream` |
| `web_commands` | two browsers, two devices that crash, stop, leave and join: `TypeOK`, `StartsTogether`, `RunIsRecorded`, `WaitsEnd` |
| `web_board` | two pages and three instances that come and go during broadcasts: `TypeOK`, `ListsAreCurrent`, `NewPageIsServed` |
| `parameters` | changes and deletions before, between and during reads, values that make a read fail: `FollowsRedis`, `Updates` |
| `metrics` | two runs with failing Redis commands, a crash, sweeps by others, clocks that differ: `NothingIsLost`, `SeriesOfTheRun`, `PublishesDuringRun`, `Publishes`, `Starts` |

The violated run is a finding: a device that leaves Running by itself while the
shutdown sequence reads its state and clears the queue is waited for without end,
against the comment that promises an end from any state.

**Limits of the properties that hold.** Some hold only without a fault the code
does meet. Ten more configurations turn that fault on, and TLC finds the
property violated (`tlc -config X.cfg M`):

| Configuration | Module | Violated | What happens |
|---|---|---|---|
| `control_no_peers_end.cfg` | `MCDeviceControl` | `EndExits` | a CONNECT waits for peers that never come; the control thread waits with it and reads no END |
| `registry_leave.cfg` | `MCInstanceRegistry` | `UniqueIds` | `Unregister` deletes without the lock `SetId` takes, between another process's read and claim |
| `registry_expired_event.cfg` | `MCInstanceRegistry` | `UniqueIds` | the controller deletes an index for an expired key that has a new owner |
| `registry_same_uuid.cfg` | `MCInstanceRegistry` | `ReusesIndex` | a process started again with its uuid gets another index than the one it had |
| `control_error_silent.cfg` | `MCDeviceControl` | `ErrorAlwaysReleases` | with the default registry URI `consume()` has no timeout: a device that fails while no message comes is never released |
| `control_error_clear.cfg` | `MCDeviceControl` | `ErrorAlwaysReleases` | the shutdown sequence clears the Error entry away and waits for the next one |
| `topology_old_mark.cfg` | `MCTopology` | `AssertionsHold` | `WriteBindAddress` marks also a channel that was not written for lack of peers; that mark has no time to live and is never deleted. When devices later carry out CONNECT in Idle at their own pace, one takes the old mark of a peer that is still Idle for a new one and finds no address: `assert(address.size()==1)` fails (`TopologyConfig.cxx:1073`) |
| `topology_reset.cfg` | `MCTopology` | `AssertionsHold` | a RESET DEVICE in Bound deletes addresses that a peer is resolving; the same assertion fails |
| `topology_subsockets.cfg` | `MCTopology` | `DifferentAddresses` | with more than `Base` sub-sockets the properties of the last ones are taken for those of one whose number they begin with, so two sub-sockets are published with one address; in the code the base is 10 and it takes eleven, the configuration has base 2 and three. `scripts/README.md:74` promises each sub-socket a different address |
| `parameters_deleted.cfg` | `MCParameterConfig` | `FollowsDeletions` | a parameter deleted from all sources remains a property of the device |

**Bounds.** `MaxInbox` 1 suffices for control: a message can wait while
another one is being handled, which is the only way two messages interact; the
violations of `EndExits` and `ErrorAlwaysReleases` use the shortest operator scripts. Three processes
are the fewest in which two others can fight over an index a first one leaves;
`MaxIndex` is large enough that `ClaimIndex` never meets the bound in
`registry_crash`. `registry_churn` uses two processes and two indices, enough
for one uuid to hold both; the theorem `OneIndex` covers the rest. In
`topology_rounds` two instances on each side reach every branch of `Resolution`
(a neighbour list with a second entry, a binder and a connecter with several
sockets), in one round; the topologies with fewer devices run two, which is what
keys left by an earlier round need. A second round starts with any subset of the
devices. N to M is taken with CONNECT in Idle only, its smaller instance N to one
step by step as well. `Base` is 2 there, so that two sub-sockets are as many as
have numbers of one digit. `http_pipeline` has the code's limit of 8 and ten requests, so that the
queue is filled, emptied and filled again. In `web_commands` two browsers
compete for `fMutex`, two devices can disagree, `MaxQueue` 2 lets a reset and a
forward command be pending together, and one fault is what it takes to make a
wait's group change. `web_board` has a service with two instances, so that the
instances can change while the services do not, and four changes, so that an
instance can go and come back between polls. Three writes in `parameters` are a
value, the one overriding it and a change during the read of either. `metrics`
needs two runs to mix them up, two channels for a round that is half done, and
`Word` 8 for a clock that is behind to wrap around. Symmetry is used only where
no temporal property is checked.

**Fairness.** Both threads of a device are weakly fair: the operating system
schedules them. Operators, failures and self-stops have no fairness.
`consume()` returns without a message only when the registry URI sets a socket
timeout (`ConsumeTimeout`), and no passing run relies on it: `ErrorReleases` is
conditional, the control thread being handed a message again and again. In the
registry, a process that has not crashed goes on, and the lock of a dead one
times out. For the handshake it is enough that some device that can go on does:
between two commands every device has finitely many steps to take.
`EverybodyRegisters` is checked without restarts: with processes that crash and
start again for ever, polling for the lock guarantees nobody a turn. An HTTP
write that has been started completes, with or without an error
(`do_read` sets the stream's `expires_after`); reads need no fairness, a browser may
stay silent. The controller's handler, the devices and the expiry of keys go on, except a
device that waits in Bound for its peers, which may do so for ever; browsers need
not. The poll thread and its writes go on, and a lost connection
is closed in the end by Beast's suggested timeouts. The parameter plugin's
thread goes on. The metrics constructor and a sweep that has begun go on, and
the rate logger keeps writing lines of every channel while the device runs.

## Proofs

*Types.* `TypeCorrect` in each of the eight proof modules, by one step per action.
`http_pipeline`, `parameters` and `metrics` leave the type invariant to it.

*Release.* `ReleaseSafe` proves `ReleasedOnlyWhenDown` for all constants, all
faults included. The property says nothing of the queue through which the
shutdown sequence learns the state, so it is strengthened by `FinalIsFinal` (a
final state has nothing pending and no handler to run) and `FinalIsCurrent` (a
final state in `fStateQueue`, or read from it, is the state of the device).

*Handshake.* `HandshakeBeforeConnect` proves `ConnectOnlyAfterHandshake`
assuming a registry that answers. The invariant has to exclude that the reset
flag is up when a later CONNECT is issued. The flag goes down in the callback
of Idle, and the control thread goes on when it pops Idle; so the proof has to
know that the Idle it pops is the current one. `OnTheWay` and `Arrived` say
that while the device travels to a state the control thread waits for it and
has not yet got it; `JourneyStep` proves this for any state and the commands
that lead to it, and is used for DeviceReady and Idle. `Connects`,
`ShutdownFlag` and `ResetFlag` then say who may connect and when the flags may
be up.

*Waits.* `WaitsAreFresh` proves `NoStaleWait` under every fault. Most awaited
states are covered by their journeys; Ready is the one the device also reaches
by itself and Running the one it leaves by itself, so `RunWait` and `ReadyLeft`
say where in `fStateQueue` an old one of these may stand and who will still
take it.

*Promises.* `PromisesKept` and `RecordFollows` prove `CommandKeepsPromise` and
`RunRecordMatches` for a device that does not fail or stop by itself and a
registry that answers (`Undisturbed`, the setting of `control_commands`). A
multi command is a plan of single commands; the invariant says that the device
moves only while a single command waits (`AtRest`), that each command of the
plan starts where the one before it ends (`Linked`), that the plan starts where
the device is and ends in the promised state (`Planned`), and that the record
follows the device, also into the shutdown sequence (`Recorded`).

*Indices.* `OneIndex` proves `OneIndexPerUuid` under every fault: between
HGETALL and HSETNX every entry of the own uuid is among those to be deleted
(`OwnEntries`). `OwnedIndices` and `DistinctIds` prove `IndexStaysOwned` and
`UniqueIds` where processes only crash and start again (`CrashesOnly`): the
lock makes the holder alone in `SetId` (`Mutex`), a process that is up has its
presence key (`PresenceUp`), so it is found by the scan (`Scanned`, `Read`) and
spared by the purge (`Spared`). Without `CrashesOnly` they do not hold
(`registry_leave.cfg`, `registry_expired_event.cfg`). `SmallestIndex` proves the action property
`TakesSmallestIndex` under the same condition: from HGETALL on nobody else
writes the hash, so every entry is either to be deleted or belongs to a uuid
with a presence key (`Sorted`), only the latter are left after HDEL (`Kept`), and
every index HSETNX has been refused for is still taken (`Passed`, from 0 by
`Begun`).

*HTTP.* `OneOperationAtATime` and `NoLostWakeUp` prove `PipelineSafe` and
`NothingStalls` for every limit. What makes them inductive is who starts the
next operation: a read is outstanding exactly while the queue is not full, a
write exactly while it is not empty, unless an error or a close has ended the
session. `RefinesStream` proves that the session implements
`ResponseStream!SafeSpec`: each handler is `Accept`, `Answer`, `End` or a
stutter under the mapping. That nothing waits for ever is checked by TLC
(`ImplementsStream`).

*Commands.* `ReadyBeforeRun` and `NumberOfTheRun` prove `StartsTogether` and
`RunIsRecorded`. Between the wait that finds a group in Ready and the
publication of RUN, other groups are waited for, and devices go on reading.
`Exclusive` says that only the browser that has `fMutex` is under way, so nobody
publishes a reset meanwhile; `SteadyStays`, that a steady device has no command
to read that would lead it below Ready; `WaitedFor`, that the groups already seen are
still in a target state. `StartsTogether` is `WaitedFor` when no group is left.

*Board.* `PagesAreCurrent` proves `ListsAreCurrent` for any number of pages and
instances. A page learns only whether something has changed, so the invariant
follows a summary on its way: it is the last table, and tells of the instances
whenever it tells of the services (`Broadcasts`); a page has both lists or none
(`BothLists`); and what the summary does not report as changed, the page has got
already (`InTransit`). However a broadcast goes on, a page it comes to again has
got the summary already and one it leaves out does not follow any more (`GoesOn`).

*Topology.* `CurrentAddresses` proves `UsesCurrentAddresses` for every topology
from `AddressesFound`: a reset reaches all devices (`AllReset`), a device that is
not bound has no addresses and a reset deletes what it has written (`Cleared`),
so what is in the registry outside a reset is bound now (`AllCurrent`).

The other results are about topologies as those of `scripts/`. `Crossing`: every
link joins a bind channel with a connect channel of another service.
`OneLinkEach`: a channel without `autoSubChannel` has one link.
`AutoAtBothEnds`: both ends of a link have `autoSubChannel` or neither has, and
`connect-config` is not used together with it. All three hold of the topologies
of `scripts/` and of those TLC checks. Where two services link to one plain
channel, or only one end has sub-channels, the code does not pair the devices in
this way.

`AllAddressesFound` proves `FindsAddresses` under `Crossing`: the addresses are found
as long as the history is `Orderly`, and `CrossingCurrent` proves `ConnectsToCurrent`,
that they are current ones then. A history is orderly when commands take one
transition each (`Stepwise`), or when no bind channel is initialized without a peer
(`Populated`); then devices may carry out several transitions at their own pace.
`topology_old_mark.cfg` shows that one of the two is needed. What the two cases have in common is that a
mark `bound` is only read of a peer that is past its initialization (`MarksHold`):
in the first case because all devices are in one phase (`InStep`), in the second
because every mark is in the list of keys the reset deletes (`Owned`). The invariant
`RoundInv` has either as `Steady` and says that a channel
`Initialize` has not gone through has no list of peers left (`Fresh`) and one it
has gone through has exactly its peers, in order, with as many sockets
(`Listed`); that a mark `bound` is of this round wherever a peer can read it
(`Marked`); that a bound channel has one socket, or one for each peer (`Sized`);
and that what `WaitBindAddress` no longer waits for is marked (`Waits`). So a
device that resolves finds the addresses of all its peers (`PeerReady`).

`PairsByIndex` proves `PairedByIndex` under `Crossing`, `OneLinkEach` and `Orderly`: the two
ends of a link list each other (`PairedEnds`), sorted lists of instances with
the same indices have the same index in each place (`Aligned`, from the
uniqueness of the ordering), and the loop of `ResolveConnectAddress` takes the
peer at the own place (`SamePlace`); `Pairs` keeps that until the next reset.
`OnePeerEach` proves `OnePeerPerSubSocket`, which is about numbers of one digit,
under `Crossing`, `AutoAtBothEnds` and `Orderly`:
the loop takes of every peer the socket at the channel's own place in that
peer's list (`Slots`, kept by `AllChosen`). A place belongs to one channel and a
peer stands once in a list, so a sub-socket has exactly one user (`OneUser`).

The loops of `ResolveConnectAddress` and `ConfigConnect` and the sorted lists are
recursive functions and a `CHOOSE`; what they return is proved by induction in
the form "a set of numbers that has 0 and with each number the next has them
all" (`UpTo`), which follows from the well-foundedness of `<`.

*Parameters.* `NoLostUpdate` proves `FollowsRedis`. A source may change after it
was read and before the read ends; `HalfRead` says that then a notification is
waiting or the change is recorded as one that has none, so the sources read so
far agree with the properties otherwise; `NotYetSubscribed` covers the read of
the constructor. `WasWritten`, that every value in a source or a property has once
been written, covers the parameters that have been deleted (`KeepsDeleted`).

*Metrics.* `LinesAreKept`, `SeriesAreFresh` and `NothingAfterTheRun` prove the two
invariants and the action property from one
inductive invariant: sums agree with what the lines told (`SumsAgree`), there is
something to send only during a run (`OnlyInRun`), the channels of the callbacks
are the device's (`Configured`), no series is newer than the run (`RunsSoFar`),
and the lock is held in the constructor only (`SweepsFirst`).

The assumptions are those named in the modules (`ConstantsAssumption`,
`RegistryAssumption`, `LimitAssumption`, `TopologyAssumption`, ...); TLC evaluates
them in every run. What a theorem needs beyond them stands in its ASSUME.

*Only model-checked:* the liveness properties (`EndExits`, `ErrorReleases`, both
`WaitsEnd`, `EverybodyRegisters`, `HandshakeEnds`, the liveness in
`ImplementsStream`, `Updates`, `Publishes`, `Starts`, `NewPageIsServed`), which
are out of the prover's reach. Every invariant that a passing run checks is
stated by a theorem.

## Not modelled

Log texts, dates and key names; the health and program-option keys, which
nobody reads back; FairMQ's data transport. Telemetry and the string helpers
are pure I/O. In `DeviceControl` the topology is the part of the callback of
Bound that completes or is canceled. `Topology` itself leaves out properties
given on the command line, Unix domain sockets (the same number of addresses
with other names), failing registry commands, devices that crash (the keys
they leave), startup states other than the default `idle`
(`DaqServicePlugin.cxx:93`), with which devices go ahead as they are started,
commands sent while the devices show different states, and changes of the topology
while devices run. It reads the lists
and addresses for one channel at one time. It assumes that no service's name
begins with another's: `ReadLinks` scans for a prefix. The states after
DeviceReady do not touch the topology, so INIT TASK and RUN in an earlier state are
to it what CONNECT is.

In `WebController` a device reads the run number when it takes the command; a
number set between the publication of RUN and the device's callback
(`DaqServicePlugin.cxx:255`) is outside `RunIsRecorded`. `StateBoard` leaves out
what two threads writing to one WebSocket stream at a time do to the bytes, and
the start of the threads in `HttpWebSocketServer`. `Metrics` leaves out values
read from `/proc`, labels, and the race of `fSocketMetrics.clear()` in the
callback of Ready (`MetricsPlugin.cxx:323`), which runs without the mutex the
log sink holds.

Some properties name what the code does not promise and say nothing of it:
a pipeline that has become invalid is never valid again, and a line of a stray
name keeps a round from ending (`Publishes`); a page that has missed a summary
keeps its lists until the next change (`ListsAreCurrent`); the mark that a channel without
peers leaves behind misleads devices that go at their own pace, and a device being
reset may take its addresses from under a peer (`FindsAddresses`, `ConnectsToCurrent`,
`HandshakeEnds`); a reset that has not been
read is not seen by a wait (`StartsTogether`); a device waiting in Bound for peers
that do not come, and devices at rest in different states, make a wait last for
ever (`WaitsEnd`); a run that a device ends by itself stays open in the record
(`RunRecordMatches`); a series that `TS.ADD` creates is in no list and is not
deleted by its process (`SeriesOfTheRun` is about runs with `recreate-ts`); a
parameter deleted everywhere keeps a value it had (`FollowsRedis`); changes before SUBSCRIBE, of
single keys, or of any parameter when the URI names no database, are not
notified (`FollowsRedis`).

## Plan

1. `Topology`: crashes and restarts under the same id (`RPUSH` onto a list
   that has not expired), a topology that changes between rounds, commands to
   single devices.
2. Proofs: `RefinesStream` beyond safety is out of reach; what is left is to
   weaken the conditions of theorems, `Crossing` (links within one service) and
   `Undisturbed` (a device that stops by itself) first.
