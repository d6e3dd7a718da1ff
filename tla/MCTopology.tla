----------------------------- MODULE MCTopology -----------------------------
(***************************************************************************)
(* Instances of Topology for TLC: the topologies of scripts/ on few        *)
(* devices, and one that uses connect-config.                              *)
(***************************************************************************)
EXTENDS Topology

Inst(s, i) == [service |-> s, index |-> i]

MCDevice  == {Inst(s, i) : s \in 1..2, i \in 0..1} \union {Inst(3, 0)}
In  == 1
Out == 2
MCChannel == {In, Out}

Socket(method, auto) ==
    [method |-> method, autoSubChannel |-> auto, waitForPeerConnection |-> TRUE]

Endpoints(auto) ==
    (<<1, Out>> :> Socket("bind", auto)) @@ (<<2, In>> :> Socket("connect", auto))

DataLink == {[L |-> <<1, Out>>, R |-> <<2, In>>]}
NoConfig == [e \in {} |-> <<>>]

\* Commands for one transition at a time, with every reset.
StepByStep ==
    [INIT_DEVICE |-> {"Idle"}, BIND |-> {"Initialized"}, CONNECT |-> {"Bound"},
     RESET_DEVICE |-> {"Initialized", "Bound", "DeviceReady"}]

BoundReset == [StepByStep EXCEPT !.RESET_DEVICE = {"Bound"}]

\* CONNECT in Idle, and a reset of connected devices.
AtOnce ==
    [INIT_DEVICE |-> {}, BIND |-> {"Idle"}, CONNECT |-> {"Idle", "Bound"},
     RESET_DEVICE |-> {"DeviceReady"}]

\* scripts/topology-1-1.sh
OneToOne ==
    [sentIn |-> StepByStep,
     instances |-> {Inst(s, i) : s \in 1..2, i \in 0..1}, rounds |-> 1,
     endpoint |-> Endpoints(FALSE), link |-> DataLink, connectConfig |-> NoConfig]

\* Every sampler to every sink, as in scripts/topology-2samplers-n-m.sh.
NToM == [OneToOne EXCEPT !.endpoint = Endpoints(TRUE)]

\* Two samplers to one sink, twice.
NToOne == [NToM EXCEPT !.instances = @ \ {Inst(2, 1)}, !.rounds = 2]

\* scripts/topology-n-n-m.sh: sampler, splitter, sink.
Chain ==
    [sentIn |-> StepByStep,
     instances |-> {Inst(1, 0), Inst(2, 0), Inst(3, 0)}, rounds |-> 2,
     endpoint |-> Endpoints(FALSE)
                  @@ (<<2, Out>> :> Socket("bind", TRUE))
                  @@ (<<3, In>> :> Socket("connect", TRUE)),
     link |-> DataLink \union {[L |-> <<2, Out>>, R |-> <<3, In>>]},
     connectConfig |-> NoConfig]

\* The sinks name their peers.
Config ==
    [sentIn |-> StepByStep,
     instances |-> {Inst(1, 0), Inst(1, 1), Inst(2, 0)}, rounds |-> 2,
     endpoint |-> Endpoints(FALSE), link |-> DataLink,
     connectConfig |-> (<<2, In>> :>
         <<[service |-> 1, channel |-> Out],
           [service |-> 1, index |-> 1, channel |-> Out, sub |-> 0]>>)]

\* One sampler, three sinks: in base 2 the third sub-socket's number has two
\* digits, as the eleventh's has in base 10.
ThreeSinks == {Inst(1, 0), Inst(2, 0), Inst(2, 1), Inst(2, 2)}
OneToThree == [NToM EXCEPT !.instances = ThreeSinks]

Documented == {OneToOne, NToM, NToOne, Chain, Config}

Sent(t, commands) == [t EXCEPT !.sentIn = commands]

\* Step by step N to M is left to N to one, its smaller instance.
AllTopologies ==
    (Documented \ {NToM}) \union {Sent(t, AtOnce) : t \in Documented}
NToOneAtOnce   == {Sent(NToOne, AtOnce)}
NToOneReset    == {Sent(NToOne, BoundReset)}
ToThree        == {OneToThree}

=============================================================================
