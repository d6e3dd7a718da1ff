--------------------------- MODULE ParameterConfig ---------------------------
(***************************************************************************)
(* The parameter configuration plugin (plugins/ParameterConfigPlugin.cxx): *)
(* it copies a device's parameters from Redis to the device's properties,  *)
(* once when it is constructed and then whenever Redis notifies it of a    *)
(* change of one of its two hashes.                                        *)
(*                                                                         *)
(* The parameters of an instance come from four sources, read one after    *)
(* the other, the later ones overriding the earlier: the hash of the       *)
(* group, the hash of the instance, the keys below the group's and the     *)
(* keys below the instance's.  Anybody may write to them at any time.      *)
(***************************************************************************)
EXTENDS Naturals

CONSTANTS
    Field,          \* the names of parameters
    Reserved,       \* the ones Parse takes for options with a type
    Unhandled,      \* reserved, but not in SetPropertyOfReservedOption
    Scalar,         \* values that are set as they are
    List,           \* values with a ",", set as an array or a map
    Malformed,      \* values that are not numbers
    MaxWrites,      \* bound on the changes in Redis
    None            \* no value

Value == Scalar \union List \union Malformed

ASSUME FieldAssumption  == Unhandled \subseteq Reserved /\ Reserved \subseteq Field
ASSUME ValueAssumption  == /\ Scalar \intersect List = {}
                           /\ None \notin Value
ASSUME WritesAssumption == MaxWrites \in Nat

VARIABLES
    source,         \* what the four sources hold
    writes,         \* how many changes there have been
    uri,            \* how the Redis server was named on the command line
    pc,             \* the constructor, then the subscriber thread
    at,             \* the source to be read next
    inbox,          \* notifications not consumed
    props,          \* the properties of the device
    fPluginShutdownRequested,
    missed,         \* history: whether something has changed without a
                    \* notification since the last read was begun
    had             \* history: the values each parameter has had

vars == <<source, writes, uri, pc, at, inbox, props,
          fPluginShutdownRequested, missed, had>>

\* Notifications come for the two hashes only.
Sources  == 1 .. 4
Notified == {1, 2}

\* "withDb" is tcp://host:port/db.  Without the number the channels have names
\* nobody publishes to; when only the registry's URI is given the subscriber
\* thread looks for the property of its own and throws.
Uris == {"withDb", "withoutDb", "registry"}

Init ==
    /\ source = [s \in Sources |-> [f \in Field |-> None]]
    /\ writes = 0
    /\ uri \in Uris
    /\ pc = "start"
    /\ at = 1
    /\ inbox = 0
    /\ props = [f \in Field |-> None]
    /\ fPluginShutdownRequested = "no"
    /\ missed = "no"
    /\ had = [f \in Field |-> {}]

-----------------------------------------------------------------------------
(* The others: an operator or a script with HSET, HDEL, SET or DEL.         *)

\* A list given for a number is cut at its "," and is a number like another.
\* The value of an unhandled parameter is not looked at.
ValuesOf(f) ==
    {None} \union (IF f \in Unhandled THEN Malformed
                  ELSE Scalar \union (IF f \in Reserved THEN Malformed ELSE List))

Subscribed == pc \in {"consume", "update"} /\ uri = "withDb"

Change(s, f, v) ==
    /\ writes < MaxWrites
    /\ v # source[s][f]
    /\ source' = [source EXCEPT ![s][f] = v]
    /\ writes' = writes + 1
    /\ had' = [had EXCEPT ![f] = @ \union ({v} \ {None})]
    /\ IF Subscribed /\ s \in Notified
       THEN inbox' = inbox + 1 /\ UNCHANGED missed
       ELSE inbox' = inbox /\ missed' = IF pc = "start" THEN missed ELSE "yes"
    /\ UNCHANGED <<uri, pc, at, props, fPluginShutdownRequested>>

\* The device enters Error or Exiting.
OnShutdown ==
    /\ fPluginShutdownRequested = "no"
    /\ fPluginShutdownRequested' = "yes"
    /\ UNCHANGED <<source, writes, uri, pc, at, inbox, props, missed, had>>

-----------------------------------------------------------------------------
(* ReadParameters.                                                          *)

\* Parse and SetPropertyFromString: a number must be one, and the property of
\* a scalar is compared with its old value as a string, which an array is not.
Throws(f, v) ==
    \/ f \in Reserved \ Unhandled /\ v \in Malformed
    \/ f \notin Reserved /\ v \notin List /\ props[f] \in List

Found(s) == {f \in Field : source[s][f] # None}

\* The properties after the fields in F have been taken from source s.
Taken(s, F) == [f \in Field |-> IF f \in F \ Unhandled THEN source[s][f] ELSE props[f]]

BeginRead == at' = 1 /\ missed' = "no"

\* One source is read and its fields are set, in any order.  An exception
\* leaves the ones that came before it.
ReadSource(next) ==
    IF \E f \in Found(at) : Throws(f, source[at][f])
    THEN /\ \E F \in SUBSET {f \in Found(at) : ~Throws(f, source[at][f])} :
               props' = Taken(at, F)
         /\ pc' = "ended"
         /\ UNCHANGED <<at, inbox, missed>>
    ELSE /\ props' = Taken(at, Found(at))
         /\ IF at = 4
            THEN next
            ELSE at' = at + 1 /\ UNCHANGED <<pc, inbox, missed>>

-----------------------------------------------------------------------------
(* The constructor.                                                         *)

Construct ==
    /\ pc = "start"
    /\ pc' = "construct"
    /\ BeginRead
    /\ UNCHANGED <<source, writes, uri, inbox, props, fPluginShutdownRequested, had>>

\* An exception here leaves the constructor and the device does not start.
ConstructReads ==
    /\ pc = "construct"
    /\ ReadSource(pc' = "subscribe" /\ UNCHANGED <<at, inbox, missed>>)
    /\ UNCHANGED <<source, writes, uri, fPluginShutdownRequested, had>>

-----------------------------------------------------------------------------
(* The subscriber thread.                                                   *)

\* The condition of the loop, then consume().
Loop == pc' = IF fPluginShutdownRequested = "yes" THEN "ended" ELSE "consume"

Subscribe ==
    /\ pc = "subscribe"
    /\ IF uri = "registry" THEN pc' = "ended" ELSE Loop
    /\ UNCHANGED <<source, writes, uri, at, inbox, props,
                   fPluginShutdownRequested, missed, had>>

\* consume() returns from the callback before it takes the next message.
OnMessage ==
    /\ pc = "consume"
    /\ inbox > 0
    /\ inbox' = inbox - 1
    /\ pc' = "update"
    /\ BeginRead
    /\ UNCHANGED <<source, writes, uri, props, fPluginShutdownRequested, had>>

UpdateReadsDrains ==
    /\ pc = "update"
    /\ ReadSource(Loop /\ inbox' = 0 /\ UNCHANGED <<at, missed>>)
    /\ UNCHANGED <<source, writes, uri, fPluginShutdownRequested, had>>

UpdateReadsAgain ==
    /\ pc = "update"
    /\ ReadSource(BeginRead /\ UNCHANGED <<pc, inbox>>)
    /\ UNCHANGED <<source, writes, uri, fPluginShutdownRequested, had>>

UpdateReads ==
    /\ pc = "update"
    /\ ReadSource(Loop /\ UNCHANGED <<at, inbox, missed>>)
    /\ UNCHANGED <<source, writes, uri, fPluginShutdownRequested, had>>

\* Any error but a timeout ends the loop.
RedisFails ==
    /\ pc \in {"consume", "update", "construct"}
    /\ pc' = "ended"
    /\ UNCHANGED <<source, writes, uri, at, inbox, props,
                   fPluginShutdownRequested, missed, had>>

-----------------------------------------------------------------------------
Plugin == Construct \/ ConstructReads \/ Subscribe \/ OnMessage \/ UpdateReads

\* The model ends with the thread.
Next ==
    \/ /\ pc # "ended"
       /\ \E s \in Sources, f \in Field : \E v \in ValuesOf(f) : Change(s, f, v)
    \/ pc # "ended" /\ OnShutdown
    \/ Plugin
    \/ RedisFails

Spec == Init /\ [][Next]_vars

\* The constructor and the subscriber thread go on.
FairSpec == Spec /\ WF_vars(Plugin)

-----------------------------------------------------------------------------
(* Properties.                                                              *)

\* Type invariant (plugins/ParameterConfigPlugin.h).
TypeOK ==
    /\ source \in [Sources -> [Field -> Value \union {None}]]
    /\ writes \in Nat
    /\ uri \in Uris
    /\ pc \in {"start", "construct", "subscribe", "consume", "update", "ended"}
    /\ at \in Sources
    /\ inbox \in Nat
    /\ props \in [Field -> Value \union {None}]
    /\ fPluginShutdownRequested \in {"no", "yes"}
    /\ missed \in {"no", "yes"}
    /\ had \in [Field -> SUBSET Value]

\* The properties are what sources 1 to n say, each overriding the ones before.
Agrees(n) ==
    \A f \in Field \ Unhandled : \A s \in 1 .. n :
        /\ source[s][f] # None
        /\ \A r \in (s + 1) .. n : source[r][f] = None
        => props[f] = source[s][f]

\* The fields that are in none of the sources, or have been deleted from all.
Deleted == {f \in Field : \A s \in Sources : source[s][f] = None}

\* Nothing removes a property of the device: a parameter that is in no source is
\* not set, or keeps one of the values it once had.
KeepsDeleted == \A f \in Deleted : props[f] \in had[f] \union {None}

\* No update is lost: when the plugin has nothing more to read, and was told of
\* everything that changed since it last began to, the property of a parameter
\* that is in Redis has its value there, the instance's before its group's, also
\* when the changes came in the middle of a read.  A deletion is notified and
\* read like any other change, but it has no effect on the properties: what
\* overrode a value gives way to it, and what was deleted everywhere keeps an
\* old value (SubscribeToParameterChange, ReadParameters).
FollowsRedis ==
    pc = "consume" /\ inbox = 0 /\ missed = "no" => Agrees(4) /\ KeepsDeleted

\* The same with the properties of deleted parameters removed, which the code
\* does not do (parameters_deleted.cfg).
FollowsDeletions ==
    pc = "consume" /\ inbox = 0 /\ missed = "no" => \A f \in Deleted : props[f] = None

\* A notification is followed by a complete read, unless the thread ends
\* (SubscribeToParameterChange).
Updates == (inbox > 0) ~> ((inbox = 0 /\ pc = "consume") \/ pc = "ended")
=============================================================================
