------------------------------ MODULE Topology ------------------------------
(***************************************************************************)
(* How the devices of a DAQ find each other (plugins/TopologyConfig.cxx).  *)
(* The registry holds the configured topology: endpoints (the channels of  *)
(* a service, which bind or connect) and links between endpoints.  Each    *)
(* device reads it in InitializingDevice, publishes its channels, and in   *)
(* Bound runs a handshake through the registry: publish the addresses it   *)
(* has bound, wait until the peers have bound theirs, choose the addresses *)
(* to connect to, and wait until the peers have connected.                 *)
(*                                                                         *)
(* state[d] is the FairMQ state of which the plugin's callback has begun;  *)
(* the callback writes it to the registry first, so it is also what the    *)
(* peers read.  The operator broadcasts a command when all devices show    *)
(* the same state; a command that asks for several transitions is carried  *)
(* out by each device at its own pace.  Devices come and go while all of   *)
(* them are Idle.                                                          *)
(***************************************************************************)
EXTENDS Naturals, Sequences, FiniteSets, SequencesExt

CONSTANTS
    Device,      \* the instances: records of a service and an index
    Channel,     \* the channels
    Topologies,  \* the configurations to start from
    Base         \* the base of the numerals in the keys: 10

Services == {d.service : d \in Device}
End      == Services \X Channel
Key      == Device \X Channel

\* An endpoint, as in struct SocketProperty.
EndpointType == [method : {"bind", "connect"}, autoSubChannel : BOOLEAN,
                 waitForPeerConnection : BOOLEAN]

\* A peer as connect-config names it; the indices may be missing.
PeerName ==
    [service : Nat, channel : Channel]
    \union [service : Nat, channel : Channel, sub : Nat]
    \union [service : Nat, index : Nat, channel : Channel]
    \union [service : Nat, index : Nat, channel : Channel, sub : Nat]

\* ChangeDeviceStateByMultiCommand: the states in which a device carries out a
\* command, with the transitions that lead there first.
Accepts == [INIT_DEVICE |-> {"Idle"}, BIND |-> {"Idle", "Initialized"},
            CONNECT |-> {"Idle", "Initialized", "Bound"},
            RESET_DEVICE |-> {"Initialized", "Bound", "DeviceReady"}]

\* Services, indices and channels are numbered in the order of their names.  A
\* topology has the instances that may be started, the endpoints, the links,
\* and for the channels of the connect-config option the list of peers named
\* there.  With it go the states of the devices in which the operator sends
\* each command, and a bound on how often the devices are initialized.
ASSUME TopologyAssumption ==
    /\ IsFiniteSet(Device) /\ Device \subseteq [service : Nat, index : Nat]
    /\ IsFiniteSet(Channel) /\ Channel \subseteq Nat
    /\ Base \in Nat /\ Base >= 2
    /\ \A t \in Topologies :
          /\ t.instances \subseteq Device
          /\ \A cmd \in DOMAIN Accepts : t.sentIn[cmd] \subseteq Accepts[cmd]
          /\ t.rounds \in Nat
          /\ DOMAIN t.endpoint \subseteq End
          /\ \A e \in DOMAIN t.endpoint : t.endpoint[e] \in EndpointType
          /\ t.link \subseteq [L : End, R : End] /\ IsFiniteSet(t.link)
          /\ DOMAIN t.connectConfig \subseteq
                {e \in DOMAIN t.endpoint : t.endpoint[e].method = "connect"}
          /\ \A e \in DOMAIN t.connectConfig :
                t.connectConfig[e] \in Seq(PeerName)

VARIABLES
    topo,        \* the configuration in the registry
    round,       \* how often the devices have been initialized
    state,       \* the state each device has published, Down, or Aborted
    order,       \* the command a device has received and not yet carried out
    canceled,    \* Plugin::IsCanceled()
    step,        \* where the device's callback is
    todo,        \* the own channels the step has still to go through
    wanted,      \* WaitBindAddress: the peers' channels still to be bound
    numSockets,  \* the numSockets of fBindChannels and fConnectChannels
    address,     \* the addresses given to the sockets of a channel
    fRegisteredKeys, \* the keys a reset deletes: kind and channel
    channelKey,  \* registry: the hash of a channel
    peerKey,     \* registry: the list of the peers of a channel
    socketKey    \* registry: the addresses of the sockets of a channel

device   == <<state, order, canceled, step, todo, wanted>>
channels == <<numSockets, address, fRegisteredKeys>>
registry == <<channelKey, peerKey, socketKey>>
vars     == <<topo, round, device, channels, registry>>

Absent == [bound |-> FALSE, numSockets |-> 0]

Init ==
    /\ topo \in Topologies
    /\ round = 0
    /\ state = [d \in Device |-> "Down"]
    /\ order = [d \in Device |-> "none"]
    /\ canceled = [d \in Device |-> FALSE]
    /\ step = [d \in Device |-> "none"]
    /\ todo = [d \in Device |-> {}]
    /\ wanted = [d \in Device |-> {}]
    /\ numSockets = [k \in Key |-> 0]
    /\ address = [k \in Key |-> <<>>]
    /\ fRegisteredKeys = [d \in Device |-> {}]
    /\ channelKey = [k \in Key |-> Absent]
    /\ peerKey = [k \in Key |-> <<>>]
    /\ socketKey = [k \in Key |-> <<>>]

-----------------------------------------------------------------------------
(* The configuration as a device reads it.                                 *)

\* fBindChannels and fConnectChannels: ReadEndpoints, ReadEndpointProperty.
ChannelsOf(d, method) ==
    {c \in Channel : /\ <<d.service, c>> \in DOMAIN topo.endpoint
                     /\ topo.endpoint[<<d.service, c>>].method = method}

Endpoint(d, c) == topo.endpoint[<<d.service, c>>]

\* fLinks: a link is turned so that the own service comes first, and a link
\* within one service is left as it is written.
Links(d) ==
    {IF l.L[1] = d.service THEN [my |-> l.L, peer |-> l.R]
                           ELSE [my |-> l.R, peer |-> l.L] :
        l \in {k \in topo.link : d.service \in {k.L[1], k.R[1]}}}

\* The instances with a presence key.
Present(service) == {d \in Device : d.service = service /\ state[d] # "Down"}

\* The links Initialize follows from channel c, and where they lead.
LinksOf(d, c) == {l \in Links(d) : l.my[1] = l.peer[1] \/ l.my[2] = c}

FarEnd(l, c) ==
    IF l.my[1] = l.peer[1] /\ l.peer[2] = c THEN l.my ELSE l.peer

\* The other ends that WaitBindAddress, WaitForPeerConnection and GetPeerState
\* take for the peers of channel c.
OtherEnds(d, c) ==
    {IF l.my = <<d.service, c>> THEN l.peer ELSE l.my :
        l \in {k \in Links(d) : <<d.service, c>> \in {k.my, k.peer}}}

\* The channels of the instances present at some ends.
ChannelsAt(ends) ==
    UNION {Present(e[1]) \X {e[2]} : e \in ends}

\* The order of std::sort on channel keys.
Before(k, l) ==
    \/ k[1].service < l[1].service
    \/ k[1].service = l[1].service /\ k[1].index < l[1].index
    \/ k[1] = l[1] /\ k[2] < l[2]

SortedKeys(S) ==
    CHOOSE s \in SetToSeqs(S) :
        \A i, j \in 1..Cardinality(S) : i < j => Before(s[i], s[j])

-----------------------------------------------------------------------------
(* The operator and the coming and going of processes.                     *)

Quiet == \A d \in Device : state[d] \in {"Down", "Idle"} /\ order[d] = "none"

\* Plugin::Register, as far as the peers see it.
Start(d) ==
    /\ Quiet
    /\ d \in topo.instances /\ state[d] = "Down"
    /\ state' = [state EXCEPT ![d] = "Idle"]
    /\ UNCHANGED <<topo, round, wanted, order, canceled, step, todo,
                   channels, registry>>

Up == {d \in Device : state[d] # "Down"}

\* The operator sends a command when all devices show the same state and the
\* last command has been carried out or, in Bound, cannot be yet.
Broadcast(cmd) ==
    /\ Up # {}
    /\ \A d \in Up : order[d] = "none"
    /\ order' = [d \in Device |-> IF d \in Up THEN cmd ELSE "none"]
    /\ \E s \in topo.sentIn[cmd] :
          /\ \A d \in Up : state[d] = s
          /\ IF s = "Idle" THEN round < topo.rounds /\ round' = round + 1
                           ELSE round' = round
    /\ UNCHANGED <<topo, wanted, state, canceled, step, todo, channels,
                   registry>>

-----------------------------------------------------------------------------
(* InitializingDevice: Initialize.                                         *)

InitDevice(d) ==
    /\ order[d] \in {"INIT_DEVICE", "BIND", "CONNECT"} /\ state[d] = "Idle"
    /\ state' = [state EXCEPT ![d] = "InitializingDevice"]
    /\ order' = [order EXCEPT ![d] = IF @ = "INIT_DEVICE" THEN "none" ELSE @]
    /\ step' = [step EXCEPT ![d] = "init"]
    /\ todo' = [todo EXCEPT ![d] = ChannelsOf(d, "bind")
                                   \union ChannelsOf(d, "connect")]
    /\ UNCHANGED <<topo, round, wanted, canceled, channels, registry>>

\* WriteChannel: a channel without peers is not written.  RPUSH appends.
WriteChannel(d, c, n, peers) ==
    IF peers = {} THEN UNCHANGED <<fRegisteredKeys, registry>>
    ELSE /\ channelKey' = [channelKey EXCEPT ![<<d, c>>] =
                              [bound |-> FALSE, numSockets |-> n]]
         /\ peerKey' = [peerKey EXCEPT ![<<d, c>>] =
                              @ \o SortedKeys(peers)]
         /\ fRegisteredKeys' = [fRegisteredKeys EXCEPT ![d] =
                              @ \union {<<"channel", c>>, <<"peer", c>>}]
         /\ UNCHANGED socketKey

\* The instances that Initialize finds along the links of channel c, and their
\* channels.
Found(d, c) ==
    {f \in LinksOf(d, c) \X Device : f[2] \in Present(FarEnd(f[1], c)[1])}

PeersOf(d, c) == {<<f[2], FarEnd(f[1], c)[2]>> : f \in Found(d, c)}

\* One channel in the loop of Initialize; bind channels come first.
InitializeChannel(d, c) ==
    /\ step[d] = "init" /\ c \in todo[d]
    /\ \/ c \in ChannelsOf(d, "bind")
       \/ todo[d] \intersect ChannelsOf(d, "bind") = {}
    /\ LET n == numSockets[<<d, c>>] +
                IF Endpoint(d, c).autoSubChannel THEN Cardinality(Found(d, c))
                                                 ELSE 0
       IN  /\ numSockets' = [numSockets EXCEPT ![<<d, c>>] = n]
           /\ WriteChannel(d, c, n, PeersOf(d, c))
    /\ todo' = [todo EXCEPT ![d] = @ \ {c}]
    /\ UNCHANGED <<topo, round, wanted, state, order, canceled, step, address>>

\* Initialize returns and the device completes its initialization.
InitializeDone(d) ==
    /\ step[d] = "init" /\ todo[d] = {}
    /\ state' = [state EXCEPT ![d] = "Initialized"]
    /\ step' = [step EXCEPT ![d] = "none"]
    /\ UNCHANGED <<topo, round, wanted, order, canceled, todo, channels,
                   registry>>

-----------------------------------------------------------------------------
(* Bound: the handshake.                                                   *)

\* The sockets of a channel as ToChannelConfig asks for them, each bound to a
\* port of its own.
BoundSockets(d, c) ==
    [i \in 1..Max({1, numSockets[<<d, c>>]}) |->
        [owner |-> d, channel |-> c, sub |-> i - 1, round |-> round]]

\* FairMQ binds the sockets and the callback of Bound begins.
Bind(d) ==
    /\ order[d] \in {"BIND", "CONNECT"} /\ state[d] = "Initialized"
    /\ state' = [state EXCEPT ![d] = "Bound"]
    /\ order' = [order EXCEPT ![d] = IF @ = "BIND" THEN "none" ELSE @]
    /\ address' = [k \in Key |->
                     IF k[1] = d /\ k[2] \in ChannelsOf(d, "bind")
                     THEN BoundSockets(d, k[2]) ELSE address[k]]
    /\ todo' = [todo EXCEPT ![d] = ChannelsOf(d, "bind")]
    /\ step' = [step EXCEPT ![d] = IF ChannelsOf(d, "bind") = {}
                                   THEN "written" ELSE "writeBind"]
    /\ UNCHANGED <<topo, round, wanted, canceled, numSockets,
                   fRegisteredKeys, registry>>

\* Sub-sockets are numbered in the order of their keys' texts as well, which is
\* the order ReadPeerAddress has them in.  The text of j starts with that of i
\* when i is left of j without some of its last digits.
StartsWith(j, i) ==
    LET cut[m \in 0..j] == IF m = 0 THEN j ELSE cut[m - 1] \div Base
    IN  \E m \in 0..j : cut[m] = i /\ (m > 0 => i > 0)

TextBefore(i, j) ==
    \/ i # j /\ StartsWith(j, i)
    \/ \E x \in 0..i, y \in 0..j :
          /\ x < y /\ x \div Base = y \div Base
          /\ StartsWith(i, x) /\ StartsWith(j, y)

\* The place of sub-socket i among n.
Rank(i, n) == Cardinality({j \in (0..(n - 1)) \ {i} : TextBefore(j, i)})

\* WriteAddress collects the properties of a sub-socket by the start of their
\* names, "chans.<channel>.<i>" without a dot: the sub-sockets whose number
\* starts with the same digits are among them, and the last one is kept.
Alike(t, u, n) ==
    \/ t = u
    \/ \E i, j \in 0..(n - 1) : /\ Rank(i, n) = t - 1 /\ Rank(j, n) = u - 1
                                /\ StartsWith(j, i)

Published(list) ==
    LET n == Len(list)
    IN  [t \in 1..n |-> list[Max({u \in t..n : Alike(t, u, n)})]]

\* One channel in the loop of WriteAddress, called by WriteBindAddress.  The
\* channel's hash is marked even if WriteChannel has not written it.
WriteBindAddress(d, c) ==
    /\ step[d] = "writeBind" /\ c \in todo[d]
    /\ socketKey' = [socketKey EXCEPT ![<<d, c>>] = Published(address[<<d, c>>])]
    /\ channelKey' = [channelKey EXCEPT ![<<d, c>>].bound = TRUE]
    /\ fRegisteredKeys' = [fRegisteredKeys EXCEPT ![d] =
                             @ \union {<<"socket", c>>}]
    /\ todo' = [todo EXCEPT ![d] = @ \ {c}]
    /\ step' = [step EXCEPT ![d] = IF todo[d] = {c} THEN "written" ELSE @]
    /\ UNCHANGED <<topo, round, wanted, state, order, canceled, numSockets,
                   address, peerKey>>

\* WaitBindAddress: find the channels to wait for.
WaitBindAddress(d) ==
    /\ step[d] = "written" /\ ~canceled[d]
    /\ wanted' = [wanted EXCEPT ![d] =
                  ChannelsAt(UNION {OtherEnds(d, c) :
                                     c \in ChannelsOf(d, "connect")})]
    /\ step' = [step EXCEPT ![d] = "waitBind"]
    /\ UNCHANGED <<topo, round, state, order, canceled, todo, channels,
                   registry>>

\* Mutants of BoundFound: the mark is not looked at; the loop has no break.
BoundFoundUnchecked(d, k) ==
    /\ step[d] = "waitBind" /\ k \in wanted[d]
    /\ wanted' = [wanted EXCEPT ![d] = @ \ {k}]
    /\ UNCHANGED <<topo, round, state, order, canceled, step, todo,
                   channels, registry>>

BoundFoundWithoutBreak(d, k) ==
    /\ step[d] = "waitBind" /\ k \in wanted[d]
    /\ channelKey[k].bound
    /\ UNCHANGED vars

\* Its second loop: a channel is found to be bound.
BoundFound(d, k) ==
    /\ step[d] = "waitBind" /\ k \in wanted[d]
    /\ channelKey[k].bound
    /\ wanted' = [wanted EXCEPT ![d] = @ \ {k}]
    /\ UNCHANGED <<topo, round, state, order, canceled, step, todo,
                   channels, registry>>

\* WaitBindAddress returns: nothing to wait for, or a channel not bound and
\* the wait canceled.  Unless canceled, the callback goes on to the connect
\* channels.
WaitBindAddressReturns(d) ==
    LET C == ChannelsOf(d, "connect") IN
    /\ step[d] = "waitBind"
    /\ \/ wanted[d] = {}
       \/ canceled[d] /\ \E k \in wanted[d] : ~channelKey[k].bound
    /\ wanted' = [wanted EXCEPT ![d] = {}]
    /\ todo' = [todo EXCEPT ![d] = IF canceled[d] THEN {} ELSE C]
    /\ step' = [step EXCEPT ![d] = IF canceled[d] THEN "none"
                                   ELSE IF C = {} THEN "waitPeers"
                                   ELSE "resolve"]
    /\ UNCHANGED <<topo, round, state, order, canceled, channels, registry>>

\* Mutant of PlaceIn: counts from one.
PlaceInFromOne(neighbors, k) ==
    LET i == SelectInSeq(neighbors, LAMBDA n : n = k)
    IN  IF i = 0 THEN Len(neighbors) + 1 ELSE i

\* The place of channel k in a list of neighbours, from 0; the length of the
\* list when k is not in it.
PlaceIn(neighbors, k) ==
    LET i == SelectInSeq(neighbors, LAMBDA n : n = k)
    IN  IF i = 0 THEN Len(neighbors) ELSE i - 1

\* The addresses of a peer's channel, in the order of the sub-sockets' keys.
\* MakeAddress has put the host of the peer into them.
ReadPeerAddress(p) == socketKey[p]

\* One round of the loop of ResolveConnectAddress over the peers of channel k.
\* r.found is res.address, r.undefined that a check on the addresses read from
\* the registry fails: an assertion, or an access outside the vector.
ResolvePeer(k, peers, r, p) ==
    LET myIndex == PlaceIn(peerKey[p], k)
        found   == ReadPeerAddress(p)
        mine    == numSockets[k]
        theirs  == channelKey[p].numSockets
        next    == [r EXCEPT !.peerIndex = @ + 1]
        Take(i, f) == IF i < Len(found) THEN [next EXCEPT !.found = f]
                                        ELSE [next EXCEPT !.undefined = TRUE]
    IN  IF r.stop \/ r.undefined THEN r
        ELSE IF r.is1to1 /\ myIndex # r.peerIndex THEN next
        ELSE CASE mine <= 1 /\ theirs <= 1 ->
                    IF myIndex = r.peerIndex \/ Len(peers) = 1
                    THEN [Take(0, <<found[1]>>) EXCEPT !.stop = TRUE]
                    ELSE [next EXCEPT !.is1to1 = TRUE]
               [] mine <= 1 /\ theirs > 1 ->
                    Take(myIndex, <<found[myIndex + 1]>>)
               [] mine > 1 /\ theirs <= 1 ->
                    IF Len(found) = 1 THEN [next EXCEPT !.found = @ \o found]
                                      ELSE [next EXCEPT !.undefined = TRUE]
               [] mine > 1 /\ theirs > 1 ->
                    Take(myIndex, Append(r.found, found[myIndex + 1]))

\* The loop of ResolveConnectAddress for channel k: what it knows after each of
\* the peers, and what it returns.
ResolvedUpTo(k) ==
    LET r[i \in 0..Len(peerKey[k])] ==
            IF i = 0 THEN [found |-> <<>>, peerIndex |-> 0, is1to1 |-> FALSE,
                           stop |-> FALSE, undefined |-> FALSE]
                     ELSE ResolvePeer(k, peerKey[k], r[i - 1], peerKey[k][i])
    IN  r

Resolution(k) == ResolvedUpTo(k)[Len(peerKey[k])]

\* A peer named in connect-config: the index of the instance and that of the
\* sub-channel default to 0.
Named(p) ==
    [device  |-> [service |-> p.service,
                  index   |-> IF "index" \in DOMAIN p THEN p.index ELSE 0],
     channel |-> p.channel,
     sub     |-> IF "sub" \in DOMAIN p THEN p.sub ELSE 0]

\* The addresses found for a peer that connect-config names for channel k: none
\* if it is not there or not found when the retries are used up.  With
\* autoSubChannel and no sub-channel given, findAddresses looks for a key
\* that no device writes.
FindAddress(k, p) ==
    LET n == Named(p)
        a == socketKey[<<n.device, n.channel>>]
    IN  IF \/ n.device \notin Up \/ n.sub >= Len(a)
           \/ Endpoint(k[1], k[2]).autoSubChannel /\ "sub" \notin DOMAIN p
        THEN <<>> ELSE <<a[Rank(n.sub, Len(a)) + 1]>>

\* The loop of ConfigConnect over the peers named for channel k, and its result.
ConfiguredUpTo(k) ==
    LET peers == topo.connectConfig[<<k[1].service, k[2]>>]
        r[i \in 0..Len(peers)] ==
            IF i = 0 THEN <<>> ELSE r[i - 1] \o FindAddress(k, peers[i])
    IN  r

Configured(k) ==
    ConfiguredUpTo(k)[Len(topo.connectConfig[<<k[1].service, k[2]>>])]

HasConnectConfig(d) == \E e \in DOMAIN topo.connectConfig : e[1] = d.service

\* One channel of ConfigConnect; the channels the option does not name are
\* left alone.
ConfigConnect(d, c) ==
    /\ step[d] = "resolve" /\ c \in todo[d] /\ HasConnectConfig(d)
    /\ address' = [address EXCEPT ![<<d, c>>] =
                     IF <<d.service, c>> \in DOMAIN topo.connectConfig
                     THEN @ \o Configured(<<d, c>>) ELSE @]
    /\ todo' = [todo EXCEPT ![d] = @ \ {c}]
    /\ step' = [step EXCEPT ![d] = IF todo[d] = {c} THEN "resolved" ELSE @]
    /\ UNCHANGED <<topo, round, wanted, state, order, canceled, numSockets,
                   fRegisteredKeys, registry>>

\* One channel of ResolveConnectAddress.
ResolveConnectAddress(d, c) ==
    /\ step[d] = "resolve" /\ c \in todo[d] /\ ~HasConnectConfig(d)
    /\ ~Resolution(<<d, c>>).undefined
    /\ address' = [address EXCEPT ![<<d, c>>] = Resolution(<<d, c>>).found]
    /\ todo' = [todo EXCEPT ![d] = @ \ {c}]
    /\ step' = [step EXCEPT ![d] = IF todo[d] = {c} THEN "resolved" ELSE @]
    /\ UNCHANGED <<topo, round, wanted, state, order, canceled, numSockets,
                   fRegisteredKeys, registry>>

\* Mutants of Forget: the callback of Idle leaves fResetDeviceRequested up;
\* Reset does not clear fConnectChannels.
ForgetKeepsCanceled(d) ==
    /\ order' = [order EXCEPT ![d] = "none"]
    /\ numSockets' = [k \in Key |-> IF k[1] = d THEN 0 ELSE numSockets[k]]
    /\ address' = [k \in Key |-> IF k[1] = d THEN <<>> ELSE address[k]]
    /\ UNCHANGED canceled

ForgetKeepsAddress(d) ==
    /\ order' = [order EXCEPT ![d] = "none"]
    /\ canceled' = [canceled EXCEPT ![d] = FALSE]
    /\ numSockets' = [k \in Key |-> IF k[1] = d THEN 0 ELSE numSockets[k]]
    /\ UNCHANGED address

\* Reset clears fBindChannels and fConnectChannels, the callback of Idle lowers
\* fResetDeviceRequested; both go with a process that ends.
Forget(d) ==
    /\ order' = [order EXCEPT ![d] = "none"]
    /\ canceled' = [canceled EXCEPT ![d] = FALSE]
    /\ numSockets' = [k \in Key |-> IF k[1] = d THEN 0 ELSE numSockets[k]]
    /\ address' = [k \in Key |-> IF k[1] = d THEN <<>> ELSE address[k]]

\* An assertion of ResolveConnectAddress fails, or what it reads outside the
\* vector ends the process; its keys stay.
Aborts(d, c) ==
    /\ step[d] = "resolve" /\ c \in todo[d] /\ ~HasConnectConfig(d)
    /\ Resolution(<<d, c>>).undefined
    /\ state' = [state EXCEPT ![d] = "Aborted"]
    /\ step' = [step EXCEPT ![d] = "none"]
    /\ todo' = [todo EXCEPT ![d] = {}]
    /\ Forget(d)
    /\ UNCHANGED <<topo, round, wanted, fRegisteredKeys, registry>>

WriteConnectAddress(d) ==
    LET C == ChannelsOf(d, "connect") IN
    /\ step[d] = "resolved" /\ ~canceled[d]
    /\ socketKey' = [k \in Key |-> IF k[1] = d /\ k[2] \in C
                                   THEN Published(address[k]) ELSE socketKey[k]]
    /\ fRegisteredKeys' = [fRegisteredKeys EXCEPT ![d] =
                             @ \union {"socket"} \X C]
    /\ step' = [step EXCEPT ![d] = "waitPeers"]
    /\ UNCHANGED <<topo, round, wanted, state, order, canceled, todo,
                   numSockets, address, channelKey, peerKey>>

\* topology::WaitDeviceReadyTargets
WaitDeviceReadyTargets == {"DeviceReady", "Ready", "Running"}

\* The devices whose state WaitForPeerConnection reads.
AwaitedPeers(d) ==
    LET C == {c \in ChannelsOf(d, "bind") :
                Endpoint(d, c).waitForPeerConnection}
    IN  UNION {Present(e[1]) : e \in UNION {OtherEnds(d, c) : c \in C}}

WaitForPeerConnection(d) ==
    /\ step[d] = "waitPeers"
    /\ \/ canceled[d]
       \/ AwaitedPeers(d) = {}
       \/ \E w \in WaitDeviceReadyTargets :
             \A p \in AwaitedPeers(d) : state[p] = w
    /\ step' = [step EXCEPT ![d] = "none"]
    /\ UNCHANGED <<topo, round, wanted, state, order, canceled, todo, channels,
                   registry>>

\* The breaks of OnDeviceStateChange.
HandshakeCanceled(d) ==
    /\ step[d] \in {"written", "resolved"} /\ canceled[d]
    /\ step' = [step EXCEPT ![d] = "none"]
    /\ UNCHANGED <<topo, round, wanted, state, order, canceled, todo, channels,
                   registry>>

-----------------------------------------------------------------------------
(* The rest of the life of a device.                                       *)

\* FairMQ takes up CONNECT when the callback of Bound has ended.
Connect(d) ==
    /\ order[d] = "CONNECT" /\ state[d] = "Bound" /\ step[d] = "none"
    /\ state' = [state EXCEPT ![d] = "DeviceReady"]
    /\ order' = [order EXCEPT ![d] = "none"]
    /\ UNCHANGED <<topo, round, wanted, canceled, step, todo, channels,
                   registry>>

\* The control thread reads RESET DEVICE and raises fResetDeviceRequested.
ReceiveReset(d) ==
    /\ order[d] = "RESET_DEVICE" /\ ~canceled[d]
    /\ canceled' = [canceled EXCEPT ![d] = TRUE]
    /\ UNCHANGED <<topo, round, wanted, state, order, step, todo, channels,
                   registry>>

\* Mutant of Unregister: the lists of peers are not deleted.
UnregisterKeepsPeers(d) ==
    LET Gone(kind, k) == k[1] = d /\ <<kind, k[2]>> \in fRegisteredKeys[d]
    IN  /\ channelKey' = [k \in Key |-> IF Gone("channel", k) THEN Absent
                                        ELSE channelKey[k]]
        /\ socketKey' = [k \in Key |-> IF Gone("socket", k) THEN <<>>
                                       ELSE socketKey[k]]
        /\ fRegisteredKeys' = [fRegisteredKeys EXCEPT ![d] = {}]
        /\ UNCHANGED peerKey

\* Unregister: DEL of the registered keys, or their expiry.
Unregister(d) ==
    LET Gone(kind, k) == k[1] = d /\ <<kind, k[2]>> \in fRegisteredKeys[d]
    IN  /\ channelKey' = [k \in Key |-> IF Gone("channel", k) THEN Absent
                                        ELSE channelKey[k]]
        /\ peerKey' = [k \in Key |-> IF Gone("peer", k) THEN <<>>
                                     ELSE peerKey[k]]
        /\ socketKey' = [k \in Key |-> IF Gone("socket", k) THEN <<>>
                                       ELSE socketKey[k]]
        /\ fRegisteredKeys' = [fRegisteredKeys EXCEPT ![d] = {}]

\* FairMQ takes up RESET DEVICE: Reset, and back to Idle.
ResetDevice(d) ==
    /\ order[d] = "RESET_DEVICE" /\ canceled[d] /\ step[d] = "none"
    /\ state' = [state EXCEPT ![d] = "Idle"]
    /\ Forget(d)
    /\ Unregister(d)
    /\ UNCHANGED <<topo, round, wanted, step, todo>>

\* The process ends in Idle, after ~Plugin has called Reset and Unregister.
Leave(d) ==
    /\ Quiet /\ state[d] = "Idle"
    /\ state' = [state EXCEPT ![d] = "Down"]
    /\ Unregister(d)
    /\ UNCHANGED <<topo, round, wanted, order, canceled, step, todo,
                   numSockets, address>>

\* The keys of a process that aborted expire.
Expire(d) ==
    /\ state[d] = "Aborted"
    /\ state' = [state EXCEPT ![d] = "Down"]
    /\ Unregister(d)
    /\ UNCHANGED <<topo, round, wanted, order, canceled, step, todo,
                   numSockets, address>>

-----------------------------------------------------------------------------
DeviceStep(d) ==
    \/ InitDevice(d) \/ InitializeDone(d) \/ Bind(d)
    \/ WaitBindAddress(d) \/ WaitBindAddressReturns(d)
    \/ WriteConnectAddress(d) \/ WaitForPeerConnection(d)
    \/ HandshakeCanceled(d) \/ Connect(d) \/ ReceiveReset(d) \/ ResetDevice(d)
    \/ Expire(d)
    \/ \E c \in todo[d] :
          \/ InitializeChannel(d, c) \/ WriteBindAddress(d, c)
          \/ ConfigConnect(d, c) \/ ResolveConnectAddress(d, c) \/ Aborts(d, c)
    \/ \E k \in wanted[d] : BoundFound(d, k)

Next ==
    \/ \E d \in Device : Start(d) \/ Leave(d) \/ DeviceStep(d)
    \/ \E cmd \in DOMAIN Accepts : Broadcast(cmd)

Spec == Init /\ [][Next]_vars

\* The devices run: some thread that can go on does.  A device has only
\* finitely many steps to take before the next command, so this suffices.
FairSpec == Spec /\ WF_vars(\E d \in Device : DeviceStep(d))

-----------------------------------------------------------------------------
(* Correctness.                                                            *)

Kinds == {"channel", "peer", "socket"}

SocketAddress == [owner : Device, channel : Channel,
                  sub : Nat, round : Nat]

\* Everything has its type, and a device is canceled only while it has a reset
\* to carry out.
TypeOK ==
    /\ topo \in Topologies
    /\ round \in 0..topo.rounds
    /\ state \in [Device -> {"Down", "Idle", "InitializingDevice",
                            "Initialized", "Bound", "DeviceReady", "Aborted"}]
    /\ order \in [Device -> DOMAIN Accepts \union {"none"}]
    /\ canceled \in [Device -> BOOLEAN]
    /\ \A d \in Device : canceled[d] => order[d] = "RESET_DEVICE"
    /\ step \in [Device -> {"none", "init", "writeBind", "written", "waitBind",
                           "resolve", "resolved", "waitPeers"}]
    /\ todo \in [Device -> SUBSET Channel]
    /\ wanted \in [Device -> SUBSET Key]
    /\ numSockets \in [Key -> Nat]
    /\ fRegisteredKeys \in [Device -> SUBSET (Kinds \X Channel)]
    /\ channelKey \in [Key -> [bound : BOOLEAN, numSockets : Nat]]
    /\ peerKey \in [Key -> Seq(Key)]
    /\ address \in [Key -> Seq(SocketAddress)]
    /\ socketKey \in [Key -> Seq(SocketAddress)]

\* A device that has gone through the handshake and has not been told to reset.
Connected(d) == state[d] = "DeviceReady" /\ order[d] = "none"

\* A device connects only to sockets that are bound now: never to those of an
\* earlier round, although keys of earlier rounds, and bound marks that no
\* reset deletes, may be in the registry.
UsesCurrentAddresses ==
    \A d \in {e \in Device : Connected(e)} :
        \A c \in ChannelsOf(d, "connect") :
            \A a \in ToSet(address[<<d, c>>]) :
                /\ state[a.owner] \in {"Bound", "DeviceReady"}
                /\ a \in ToSet(address[<<a.owner, a.channel>>])

Indices(service) == {d.index : d \in Present(service)}

\* scripts/README.md, topology-1-1.sh: N samplers and N sinks form N pairs with
\* the same index, although each side chooses from lists written by others.
PairedByIndex ==
    \A d \in {e \in Device : Connected(e) /\ ~HasConnectConfig(e)} :
        \A c \in ChannelsOf(d, "connect") : \A e \in OtherEnds(d, c) :
            ( /\ ~Endpoint(d, c).autoSubChannel
              /\ ~topo.endpoint[e].autoSubChannel
              /\ Indices(e[1]) = Indices(d.service) ) =>
            /\ Len(address[<<d, c>>]) = 1
            /\ address[<<d, c>>][1].owner =
                   [service |-> e[1], index |-> d.index]

\* scripts/README.md, topology-n-n-m.sh: with autoSubChannel each peer has a
\* sub-socket of its own.  Once all devices are connected, every sub-socket
\* has one peer, and a peer has it once in its list.  That is so as long as the
\* numbers of the sub-sockets have one digit.
OnePeerPerSubSocket ==
    LET Users(a) ==
            {u \in UNION {{k} \X DOMAIN address[k] : k \in Key} :
                /\ u[1][2] \in ChannelsOf(u[1][1], "connect")
                /\ address[u[1]][u[2]] = a}
    IN  (\A d \in Up : Connected(d)) =>
        \A d \in Up : \A c \in ChannelsOf(d, "bind") :
            ( /\ Endpoint(d, c).autoSubChannel
              /\ ChannelsAt(OtherEnds(d, c)) # {}
              /\ Len(address[<<d, c>>]) <= Base ) =>
            \A i \in DOMAIN address[<<d, c>>] :
                Cardinality(Users(address[<<d, c>>][i])) = 1

\* scripts/README.md: "The `autoSubChannel true` flag is used to give each
\* sub-socket a different `address:port`".  WriteAddress publishes them so.
DifferentAddresses ==
    \A k \in Key : \A i, j \in DOMAIN socketKey[k] :
        k[2] \in ChannelsOf(k[1], "bind") /\ i # j =>
        socketKey[k][i] # socketKey[k][j]

\* What ResolveConnectAddress would stumble over for channel c, as it is now.
Unresolvable(d, c) ==
    /\ step[d] = "resolve" /\ c \in todo[d] /\ ~HasConnectConfig(d)
    /\ Resolution(<<d, c>>).undefined

\* What ResolveConnectAddress takes for granted, and partly asserts, of the
\* lists and addresses it reads holds when the device is not being reset.
AddressesFound ==
    \A d \in Device : \A c \in Channel :
        Unresolvable(d, c) => order[d] = "RESET_DEVICE"

\* Whenever a device is initialized, its bind channels have a peer that is there.
Populated ==
    \A d \in Device : state[d] = "InitializingDevice" =>
        \A c \in ChannelsOf(d, "bind") : PeersOf(d, c) # {}

\* The assertions in ResolveConnectAddress: a device with several sockets
\* finds the one address of a peer with one, or more than its own index.
AssertionsHold ==
    \A d \in Device : \A c \in Channel :
        numSockets[<<d, c>>] > 1 => ~Unresolvable(d, c)

\* Every command asks for one transition.
Stepwise ==
    /\ topo.sentIn["INIT_DEVICE"] \subseteq {"Idle"}
    /\ topo.sentIn["BIND"] \subseteq {"Initialized"}
    /\ topo.sentIn["CONNECT"] \subseteq {"Bound"}

\* No channel without peers leaves its mark behind, or no device can meet the
\* mark before its channel is initialized again.
Orderly == Stepwise \/ Populated

\* Devices find all addresses, also when they carry out several transitions at
\* their own pace and wait for each other in Bound only.
FindsAddresses == []Orderly => []AddressesFound

\* Then they connect to sockets that are bound now.
ConnectsToCurrent == []Orderly => []UsesCurrentAddresses

\* The handshake ends: once the devices are told to connect, all of them get to
\* do so.
HandshakeEnds ==
    []Orderly => ((\E d \in Device : order[d] = "CONNECT") ~>
                  (\A d \in Device : order[d] # "CONNECT"))

=============================================================================
