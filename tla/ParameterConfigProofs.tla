------------------------ MODULE ParameterConfigProofs ------------------------
(***************************************************************************)
(* Proofs about ParameterConfig, for any parameters, values and number of  *)
(* changes.                                                                *)
(***************************************************************************)
EXTENDS ParameterConfig, TLAPS

\* There is no notification before the subscription.
NotYetSubscribed == pc \in {"start", "construct", "subscribe"} => inbox = 0

\* In the middle of a read the sources already passed have been followed, as
\* long as nothing has changed that nobody will come back for.
HalfRead ==
    /\ pc \in {"construct", "update"} /\ inbox = 0 /\ missed = "no"
          => Agrees(at - 1)
    /\ pc = "subscribe" /\ missed = "no" => Agrees(4)

\* A value in a source has been written there, and one in the properties has
\* been read from a source.
WasWritten ==
    \A f \in Field :
        /\ \A s \in Sources : source[s][f] \in had[f] \union {None}
        /\ props[f] \in had[f] \union {None}

\* What is said of parameters that are still in Redis.
Follows == pc = "consume" /\ inbox = 0 /\ missed = "no" => Agrees(4)

Inv == TypeOK /\ NotYetSubscribed /\ HalfRead /\ Follows

USE FieldAssumption, ValueAssumption, WritesAssumption

LEMMA InitInv == Init => Inv
<1> SUFFICES ASSUME Init PROVE Inv
  OBVIOUS
<1>1. source \in [Sources -> [Field -> Value \union {None}]]
  BY DEF Init
<1>2. TypeOK
  BY <1>1 DEF Init, TypeOK, Sources, Uris
<1> QED BY <1>2 DEF Init, Inv, NotYetSubscribed, HalfRead, Follows

\* What a read that is not cut short does to the properties.
LEMMA TakenType ==
    ASSUME TypeOK, NEW F \in SUBSET Found(at)
    PROVE  Taken(at, F) \in [Field -> Value \union {None}]
BY DEF TypeOK, Taken, Found

LEMMA TakenAgrees ==
    ASSUME TypeOK, Agrees(at - 1), props' = Taken(at, Found(at)),
           UNCHANGED source, NEW n, n = at
    PROVE  Agrees(n)'
<1> SUFFICES ASSUME NEW f \in Field \ Unhandled, NEW s \in 1 .. n,
                    source[s][f] # None,
                    \A r \in (s + 1) .. n : source[r][f] = None
             PROVE  props'[f] = source[s][f]
  BY DEF Agrees
<1>0. n \in 1 .. 4
  BY DEF TypeOK, Sources
<1>1. CASE s = n
  BY <1>1 DEF Taken, Found
<1>2. CASE s # n
  <2>1. source[n][f] = None
    BY <1>0, <1>2
  <2>2. props'[f] = props[f]
    BY <2>1 DEF Taken, Found
  <2>3. s \in 1 .. (n - 1) /\ \A r \in (s + 1) .. (n - 1) : source[r][f] = None
    BY <1>0, <1>2
  <2> QED BY <2>2, <2>3 DEF Agrees
<1> QED BY <1>1, <1>2

\* The steps that are not a read.
LEMMA OthersInv ==
    ASSUME Inv,
           \/ /\ pc # "ended"
              /\ \E s \in Sources, f \in Field : \E v \in ValuesOf(f) : Change(s, f, v)
           \/ OnShutdown \/ Construct \/ Subscribe \/ OnMessage \/ RedisFails
    PROVE  Inv'
<1>0. TypeOK /\ NotYetSubscribed /\ HalfRead /\ Follows
  BY DEF Inv
<1>1. CASE \E s \in Sources, f \in Field : \E v \in ValuesOf(f) : Change(s, f, v)
  <2>0. \A f \in Field : ValuesOf(f) \subseteq Value \union {None}
    BY DEF ValuesOf, Value
  <2> PICK s \in Sources, f \in Field, v \in Value \union {None} : Change(s, f, v)
    BY <1>1, <2>0
  <2>1. source' \in [Sources -> [Field -> Value \union {None}]]
    BY <1>0 DEF Change, TypeOK
  <2>2. /\ inbox' \in Nat /\ writes' \in Nat
        /\ missed' \in {"no", "yes"}
        /\ pc = "start" \/ inbox' # 0 \/ missed' = "yes"
        /\ pc \in {"start", "construct", "subscribe"} =>
              inbox' = inbox /\ (pc # "start" => missed' = "yes")
    BY <1>0 DEF Change, TypeOK, Subscribed
  <2>3. UNCHANGED <<uri, pc, at, props, fPluginShutdownRequested>>
    BY DEF Change
  <2>5. had' \in [Field -> SUBSET Value]
    <3>1. had[f] \union ({v} \ {None}) \in SUBSET Value
      BY <1>0 DEF TypeOK
    <3> QED BY <1>0, <3>1 DEF Change, TypeOK
  <2>4. TypeOK'
    BY <1>0, <2>1, <2>2, <2>3, <2>5 DEF TypeOK
  <2> QED BY <1>0, <2>2, <2>3, <2>4
          DEF Inv, NotYetSubscribed, HalfRead, Follows
<1>2. CASE OnShutdown
  BY <1>0, <1>2 DEF OnShutdown, Inv, TypeOK, NotYetSubscribed, HalfRead,
                    Follows, Agrees
<1>3. CASE Construct
  <2>1. TypeOK'
    BY <1>0, <1>3 DEF Construct, BeginRead, TypeOK, Sources
  <2>2. Agrees(0)'
    BY DEF Agrees
  <2> QED BY <1>0, <1>3, <2>1, <2>2
          DEF Construct, BeginRead, Inv, NotYetSubscribed, HalfRead, Follows
<1>4. CASE Subscribe
  BY <1>0, <1>4 DEF Subscribe, Loop, Inv, TypeOK, NotYetSubscribed, HalfRead,
                    Follows, Agrees
<1>5. CASE OnMessage
  <2>1. TypeOK'
    BY <1>0, <1>5 DEF OnMessage, BeginRead, TypeOK, Sources
  <2>2. Agrees(0)'
    BY DEF Agrees
  <2> QED BY <1>0, <1>5, <2>1, <2>2
          DEF OnMessage, BeginRead, Inv, NotYetSubscribed, HalfRead, Follows
<1>6. CASE RedisFails
  BY <1>0, <1>6 DEF RedisFails, Inv, TypeOK, NotYetSubscribed, HalfRead,
                    Follows
<1> QED BY <1>1, <1>2, <1>3, <1>4, <1>5, <1>6

\* A read of one source ends the thread, goes on to the next source with what
\* has been read so far, or is complete.
LEMMA ReadInv ==
    ASSUME Inv, ConstructReads \/ UpdateReads
    PROVE  Inv'
<1>0. TypeOK /\ NotYetSubscribed /\ HalfRead /\ Follows
  BY DEF Inv
<1>1. /\ pc \in {"construct", "update"}
      /\ UNCHANGED <<source, writes, uri, fPluginShutdownRequested>>
      /\ UNCHANGED <<inbox, missed, had>>
  BY DEF ConstructReads, UpdateReads, ReadSource
<1>2. CASE \E f \in Found(at) : Throws(f, source[at][f])
  <2>1. /\ \E F \in SUBSET Found(at) : props' = Taken(at, F)
        /\ pc' = "ended" /\ at' = at
    BY <1>2 DEF ConstructReads, UpdateReads, ReadSource
  <2>2. props' \in [Field -> Value \union {None}]
    BY <1>0, <2>1, TakenType
  <2>3. TypeOK'
    BY <1>0, <1>1, <2>1, <2>2 DEF TypeOK
  <2> QED BY <2>1, <2>3 DEF Inv, NotYetSubscribed, HalfRead, Follows
<1>3. CASE ~\E f \in Found(at) : Throws(f, source[at][f])
  <2>1. props' = Taken(at, Found(at))
    BY <1>3 DEF ConstructReads, UpdateReads, ReadSource
  <2>2. props' \in [Field -> Value \union {None}]
    BY <1>0, <2>1, TakenType
  <2>3. inbox = 0 /\ missed = "no" => \A n : n = at => Agrees(n)'
    BY <1>0, <1>1, <2>1, TakenAgrees DEF HalfRead
  <2>4. CASE at # 4
    <3>1. at' = at + 1 /\ pc' = pc
      BY <1>3, <2>4 DEF ConstructReads, UpdateReads, ReadSource
    <3>2. TypeOK' /\ at' - 1 = at
      BY <1>0, <1>1, <2>2, <2>4, <3>1 DEF TypeOK, Sources
    <3> QED BY <1>0, <1>1, <2>3, <3>1, <3>2
            DEF Inv, NotYetSubscribed, HalfRead, Follows
  <2>5. CASE at = 4
    <3>1. /\ at' = at
          /\ \/ pc = "construct" /\ pc' = "subscribe"
             \/ pc = "update" /\ pc' \in {"consume", "ended"}
      BY <1>3, <2>5 DEF ConstructReads, UpdateReads, ReadSource, Loop
    <3>2. TypeOK'
      BY <1>0, <1>1, <2>2, <3>1 DEF TypeOK
    <3> QED BY <1>0, <1>1, <2>3, <2>5, <3>1, <3>2
            DEF Inv, NotYetSubscribed, HalfRead, Follows
  <2> QED BY <2>4, <2>5
<1> QED BY <1>2, <1>3

LEMMA StepInv == Inv /\ [Next]_vars => Inv'
<1> SUFFICES ASSUME Inv, [Next]_vars PROVE Inv'
  OBVIOUS
<1>1. CASE UNCHANGED vars
  BY <1>1 DEF vars, Inv, TypeOK, NotYetSubscribed, HalfRead, Follows, Agrees
<1>2. CASE Next
  BY <1>2, OthersInv, ReadInv DEF Next, Plugin
<1> QED BY <1>1, <1>2

THEOREM Invariance == Spec => []Inv
BY InitInv, StepInv, PTL DEF Spec

\* The plugin stays in the states the model knows.
THEOREM TypeCorrect == Spec => []TypeOK
<1>1. Inv => TypeOK
  BY DEF Inv
<1> QED BY <1>1, Invariance, PTL

\* What is in a source or a property has once been written: at first nothing is,
LEMMA WasWrittenInit == Init => WasWritten
BY DEF Init, WasWritten

\* and every step only takes over values that were.
LEMMA WasWrittenStep == TypeOK /\ WasWritten /\ [Next]_vars => WasWritten'
<1> SUFFICES ASSUME TypeOK, WasWritten, [Next]_vars PROVE WasWritten'
  OBVIOUS
<1>1. CASE \E s \in Sources, f \in Field : \E v \in ValuesOf(f) : Change(s, f, v)
  <2> PICK s \in Sources, f \in Field : \E v \in ValuesOf(f) : Change(s, f, v)
    BY <1>1
  <2> PICK v \in ValuesOf(f) : Change(s, f, v)
    OBVIOUS
  <2>1. /\ source' = [source EXCEPT ![s] = [source[s] EXCEPT ![f] = v]]
        /\ had' = [had EXCEPT ![f] = had[f] \union ({v} \ {None})]
        /\ props' = props
    BY DEF Change
  <2>2. \A r \in Sources, g \in Field :
           source'[r][g] = IF r = s /\ g = f THEN v ELSE source[r][g]
    BY <2>1 DEF TypeOK
  <2>3. \A g \in Field : had'[g] = IF g = f THEN had[g] \union ({v} \ {None}) ELSE had[g]
    BY <2>1 DEF TypeOK
  <2> QED BY <2>1, <2>2, <2>3 DEF WasWritten
<1>2. CASE ConstructReads \/ UpdateReads
  <2>1. /\ \E F \in SUBSET Found(at) : props' = Taken(at, F)
        /\ UNCHANGED <<source, had>>
    BY <1>2 DEF ConstructReads, UpdateReads, ReadSource
  <2>2. \A f \in Field : props'[f] \in {props[f], source[at][f]}
    BY <2>1 DEF Taken
  <2> QED BY <2>1, <2>2 DEF WasWritten, TypeOK
<1>3. CASE UNCHANGED <<source, had, props>>
  BY <1>3 DEF WasWritten
<1> QED BY <1>1, <1>2, <1>3
        DEF Next, Plugin, OnShutdown, RedisFails, Construct, Subscribe, OnMessage, vars

\* Whatever is written to Redis and whenever, a plugin with nothing left to read
\* has missed nothing it was told of: what is in Redis is in the properties, and
\* what was deleted has an old value or none (SubscribeToParameterChange).
THEOREM NoLostUpdate == Spec => []FollowsRedis
<1>1. Spec => []WasWritten
  BY WasWrittenInit, WasWrittenStep, TypeCorrect, PTL DEF Spec
<1>2. Inv /\ WasWritten => FollowsRedis
  BY DEF Inv, Follows, FollowsRedis, WasWritten, KeepsDeleted, Deleted
<1> QED BY <1>1, <1>2, Invariance, PTL
=============================================================================
