---------------------------- MODULE MetricsProofs ----------------------------
(***************************************************************************)
(* Proofs about Metrics, for any channels, any number of runs, failures    *)
(* and sweeps, and any clocks.                                             *)
(***************************************************************************)
EXTENDS Metrics, FiniteSetTheorems, TLAPS

-----------------------------------------------------------------------------
(* The inductive invariant.                                                 *)

\* The plugin's sums are what the lines told of.
SumsAgree == fSocketMetrics = told

\* Nothing is known or queued but in a run, and of the channels there are.
OnlyInRun ==
    /\ state # "Running" => known = {}
    /\ \A c \in Channel : queued[c] # None => state = "Running" /\ c \in chans

\* The channels are those of DeviceReady, and have keys if series were made.
Configured ==
    /\ state \in {"DeviceReady", "Ready", "Running"} => fSocketProperties = chans
    /\ state = "Running" /\ fresh = "yes" => chans \subseteq fTsSockKey

\* Nothing is of a run to come.
RunsSoFar == \A k \in Key : made[k] <= run /\ points[k] \subseteq 0 .. run

\* The lock is held in the constructor only.
SweepsFirst == lock = "self" => state = "sweeping"

Inv ==
    /\ SweepsFirst
    /\ TypeOK /\ SumsAgree /\ OnlyInRun /\ Configured /\ RunsSoFar
    /\ NothingIsLost /\ SeriesOfTheRun

USE NamesAssumption, NoneAssumption, BoundsAssumption

LEMMA NoSumsType == NoSums \in [Line -> Nat] /\ NothingQueued \in [Channel -> Nat \union {None}]
BY DEF NoSums, NothingQueued

LEMMA InitInv == Init => Inv
<1> SUFFICES ASSUME Init PROVE Inv
  OBVIOUS
<1>1. TypeOK
  BY NoSumsType DEF Init, TypeOK
<1>2. SumsAgree /\ OnlyInRun /\ Configured /\ RunsSoFar
  BY DEF Init, SumsAgree, OnlyInRun, Configured, RunsSoFar, NothingQueued
<1>3. SweepsFirst /\ NothingIsLost /\ SeriesOfTheRun
  BY DEF Init, SweepsFirst, NothingIsLost, SeriesOfTheRun
<1> QED BY <1>1, <1>2, <1>3 DEF Inv

-----------------------------------------------------------------------------
(* Sweeps: nothing of the plugin changes but where the constructor is, and  *)
(* what Redis shows may be deleted.                                         *)

\* What a sweep may do to the fields.
Deleted == published' = published \/ published' = [c \in Channel |-> None]

\* The rest of the state is as it was.
Untouched ==
    UNCHANGED <<chans, fSocketProperties, fTsSockKey, fRegisteredTSKeys, known,
                fSocketMetrics, fNumChannels, queued, series, made, points,
                run, fresh, told>>

LEMMA DeletedInv ==
    ASSUME Inv, TypeOK', SweepsFirst', Deleted, Untouched,
           state' = state \/ (state # "Running" /\ state' \in {"sweeping", "create", "Idle"}),
           fPipe' = fPipe \/ state # "Running"
    PROVE  Inv'
<1>1. SumsAgree' /\ OnlyInRun' /\ Configured' /\ RunsSoFar'
  BY DEF Inv, Untouched, SumsAgree, OnlyInRun, Configured, RunsSoFar
<1>2. NothingIsLost'
  BY DEF Inv, TypeOK, Untouched, Deleted, NothingIsLost, OnlyInRun
<1>3. SeriesOfTheRun'
  BY DEF Inv, Untouched, SeriesOfTheRun
<1> QED BY <1>1, <1>2, <1>3 DEF Inv

LEMMA SweepInv ==
    ASSUME Inv,
           \/ Start \/ Sweep("self") \/ Sweep("other") \/ SweepThrows \/ SweepFails
           \/ ConstructEnds \/ OnPropertyChange
    PROVE  Inv'
<1>0. TypeOK /\ SweepsFirst
  BY DEF Inv
<1> USE DEF SweepsFirst
<1>1. CASE Start
  <2>1. TypeOK'
    BY <1>0, <1>1 DEF Start, TypeOK, plugin, hashes, ts, sweep, history
  <2> QED BY <1>0, <1>1, <2>1, DeletedInv
          DEF Start, Deleted, Untouched, plugin, hashes, ts, sweep, history
<1>2. ASSUME NEW who \in {"self", "other"}, SweepReads(who) PROVE Inv'
  <2>1. TypeOK'
    <3>1. found' \subseteq Victim
      BY <1>2 DEF SweepReads, Victim
    <3>2. sweeps' \in Nat /\ lock' \in {"free", "self", "other"}
      BY <1>0, <1>2 DEF SweepReads, TypeOK
    <3> QED BY <1>0, <1>2, <3>1, <3>2
            DEF SweepReads, TypeOK, plugin, hashes, ts, history
  <2>2. UNCHANGED <<state, fPipe>> /\ Deleted /\ Untouched /\ SweepsFirst'
    BY <1>2 DEF SweepReads, Deleted, Untouched, plugin, hashes, ts, history
  <2> QED BY <2>1, <2>2, DeletedInv
<1>3. ASSUME Swept PROVE Deleted /\ fields' \subseteq {"facts", "last-update"}
                         /\ published' \in [Channel -> (Nat \X Nat) \union {None}]
  BY <1>0, <1>3 DEF Swept, Deleted, TypeOK
<1>4. ASSUME NEW who \in {"self", "other"}, SweepDeletes(who) PROVE Inv'
  <2>1. Swept
    BY <1>4 DEF SweepDeletes
  <2>2. TypeOK'
    BY <1>0, <1>3, <1>4, <2>1 DEF SweepDeletes, TypeOK, plugin, ts, history
  <2>3. UNCHANGED fPipe /\ Deleted /\ Untouched
    BY <1>3, <1>4, <2>1 DEF SweepDeletes, Untouched, plugin, ts, history
  <2>4. /\ state' = state \/ (state = "sweeping" /\ state' = "create")
        /\ SweepsFirst'
    BY <1>0, <1>4 DEF SweepDeletes
  <2> QED BY <2>2, <2>3, <2>4, DeletedInv
<1>5. CASE SweepThrows
  <2>1. TypeOK'
    BY <1>0, <1>5 DEF SweepThrows, TypeOK, plugin, hashes, ts, history
  <2> QED BY <1>0, <1>5, <2>1, DeletedInv
          DEF SweepThrows, Deleted, Untouched, plugin, hashes, ts, history
<1>6. CASE SweepFails
  <2>1. Deleted /\ fields' \subseteq {"facts", "last-update"}
        /\ published' \in [Channel -> (Nat \X Nat) \union {None}]
    BY <1>0, <1>3, <1>6 DEF SweepFails, hashes, TypeOK, Deleted
  <2>2. TypeOK'
    BY <1>0, <1>6, <2>1 DEF SweepFails, TypeOK, ts, history
  <2> QED BY <1>0, <1>6, <2>1, <2>2, DeletedInv DEF SweepFails, Untouched, ts, history
<1>7. CASE ConstructEnds
  <2>1. TypeOK'
    BY <1>0, <1>7 DEF ConstructEnds, TypeOK, plugin, ts, sweep, history
  <2> QED BY <1>0, <1>7, <2>1, DeletedInv
          DEF ConstructEnds, Deleted, Untouched, plugin, ts, sweep, history
<1>8. CASE OnPropertyChange
  <2>1. TypeOK'
    BY <1>0, <1>8 DEF OnPropertyChange, TypeOK, plugin, ts, sweep, history
  <2> QED BY <1>0, <1>8, <2>1, DeletedInv
          DEF OnPropertyChange, Alive, Deleted, Untouched, plugin, ts, sweep, history
<1> QED BY <1>1, <1>2, <1>4, <1>5, <1>6, <1>7, <1>8 DEF Sweep

-----------------------------------------------------------------------------
(* State changes.                                                           *)

\* The process ends and leaves Redis as it is.
LEMMA EndsInv ==
    ASSUME Inv, Ends, TypeOK', RunsSoFar', SweepsFirst'
    PROVE  Inv'
<1>1. SumsAgree' /\ OnlyInRun' /\ Configured'
  BY DEF Ends, SumsAgree, OnlyInRun, Configured, NothingQueued
<1>2. NothingIsLost' /\ SeriesOfTheRun'
  BY DEF Ends, NothingIsLost, SeriesOfTheRun
<1> QED BY <1>1, <1>2 DEF Inv

\* What the series may become.
SeriesType ==
    /\ series' \subseteq Key /\ made' \in [Key -> Nat] /\ points' \in [Key -> SUBSET Nat]

LEMMA SeriesFacts ==
    ASSUME TypeOK, RunsSoFar
    PROVE  /\ \A K : DropSeries(K) /\ UNCHANGED run => SeriesType /\ RunsSoFar'
           /\ \A K \in SUBSET Key : MakeSeries(K) /\ run' = run + 1
                  => SeriesType /\ RunsSoFar'
           /\ \A K : DropSeries(K) /\ run' = run + 1 => SeriesType /\ RunsSoFar'
<1>1. ASSUME NEW K, DropSeries(K), run' = run \/ run' = run + 1
      PROVE  SeriesType /\ RunsSoFar'
  BY <1>1 DEF TypeOK, RunsSoFar, DropSeries, SeriesType
<1>2. ASSUME NEW K \in SUBSET Key, MakeSeries(K), run' = run + 1
      PROVE  SeriesType /\ RunsSoFar'
  <2>1. SeriesType
    BY <1>2 DEF TypeOK, MakeSeries, SeriesType
  <2>2. ASSUME NEW k \in Key PROVE made'[k] <= run' /\ points'[k] \subseteq 0 .. run'
    BY <1>2 DEF TypeOK, RunsSoFar, MakeSeries
  <2> QED BY <2>1, <2>2 DEF RunsSoFar
<1> QED BY <1>1, <1>2

LEMMA ToMakeType == TypeOK => SeriesToMake \subseteq Key
BY DEF TypeOK, SeriesToMake, Key

LEMMA ExitInv ==
    ASSUME Inv, Exit \/ CallbackThrows \/ Crash
    PROVE  Inv'
<1>0. TypeOK /\ SweepsFirst /\ RunsSoFar
  BY DEF Inv
<1>1. Ends
  BY DEF Exit, CallbackThrows, Crash
<1>2. SeriesType /\ RunsSoFar' /\ run' \in Nat
  <2>1. CASE UNCHANGED <<ts, run>>
    BY <1>0, <2>1 DEF TypeOK, ts, SeriesType, RunsSoFar
  <2>2. CASE CallbackThrows /\ ~UNCHANGED <<ts, run>>
    <3>1. CASE DropSeries(fRegisteredTSKeys) /\ UNCHANGED run
      BY <1>0, <3>1, SeriesFacts DEF TypeOK
    <3>2. CASE run' = run + 1 /\ MakeSeries(SeriesToMake)
      BY <1>0, <3>2, SeriesFacts, ToMakeType DEF TypeOK
    <3>3. CASE run' = run + 1 /\ \E K \in SUBSET SeriesToMake : DropSeries(K)
      BY <1>0, <3>3, SeriesFacts DEF TypeOK
    <3> QED BY <2>2, <3>1, <3>2, <3>3 DEF CallbackThrows
  <2> QED BY <2>1, <2>2 DEF Exit, CallbackThrows, Crash, ts
<1>3. /\ fields' \subseteq {"facts", "last-update"} /\ published' = published
      /\ lock' \in {"free", "self", "other"} /\ found' \subseteq Victim
      /\ sweeps' \in Nat /\ faults' \in Nat /\ lock' # "self"
  <2>1. CASE Exit
    BY <1>0, <2>1 DEF TypeOK, SweepsFirst, Exit, sweep
  <2>2. CASE CallbackThrows
    <3>1. UNCHANGED <<published, lock, found, sweeps>> /\ state # "sweeping"
      BY <2>2 DEF CallbackThrows, Alive, sweep
    <3>2. faults' \in Nat /\ fields' \in {fields, fields \union {"facts"}}
      BY <1>0, <2>2 DEF CallbackThrows, TypeOK
    <3> QED BY <1>0, <3>1, <3>2 DEF TypeOK, SweepsFirst
  <2>3. CASE Crash
    BY <1>0, <2>3 DEF TypeOK, SweepsFirst, Crash, hashes
  <2> QED BY <2>1, <2>2, <2>3
<1>4. TypeOK'
  BY <1>0, <1>1, <1>2, <1>3, NoSumsType DEF TypeOK, Ends, SeriesType
<1> QED BY <1>1, <1>2, <1>3, <1>4, EndsInv DEF SweepsFirst

\* The other states: the pipeline is discarded, what Redis shows stays.
LEMMA EnterInv ==
    ASSUME Inv, EnterDeviceReady \/ EnterReady \/ EnterRunning \/ EnterIdle
    PROVE  Inv'
<1>0. /\ TypeOK /\ SweepsFirst /\ RunsSoFar /\ SumsAgree /\ OnlyInRun /\ Configured
     
  BY DEF Inv
<1>1. /\ queued' = NothingQueued /\ fields' \subseteq {"facts", "last-update"}
      /\ UNCHANGED <<fPipe, published, lock, found, sweeps, faults>>
  BY <1>0 DEF EnterDeviceReady, EnterReady, EnterRunning, EnterIdle, ShowState,
              sweep, TypeOK
<1>2. \A c \in Channel : queued'[c] = None
  BY <1>1 DEF NothingQueued
<1>3. /\ lock' # "self"
      /\ state \in {"Idle", "DeviceReady", "Ready", "Running"}
  BY <1>0, <1>1 DEF EnterDeviceReady, EnterReady, EnterRunning, EnterIdle, SweepsFirst
<1>4. CASE EnterDeviceReady
  <2>1. /\ chans' \subseteq Channel /\ fSocketProperties' = chans'
        /\ state' = "DeviceReady" /\ state # "Running"
        /\ UNCHANGED <<fTsSockKey, fRegisteredTSKeys, known, fSocketMetrics,
                       fNumChannels, series, made, points, run, fresh, told>>
    BY <1>0, <1>4 DEF EnterDeviceReady, TypeOK, ts
  <2>2. TypeOK'
    BY <1>0, <1>1, <2>1, NoSumsType DEF TypeOK
  <2>3. SumsAgree' /\ OnlyInRun' /\ Configured' /\ RunsSoFar' /\ SweepsFirst'
    BY <1>0, <1>2, <1>3, <2>1
    DEF SumsAgree, OnlyInRun, Configured, RunsSoFar, SweepsFirst
  <2>4. NothingIsLost' /\ SeriesOfTheRun'
    BY <1>0, <1>1, <1>3, <2>1 DEF NothingIsLost, SeriesOfTheRun
  <2> QED BY <2>2, <2>3, <2>4 DEF Inv
<1>5. CASE EnterIdle
  <2>1. /\ state' = "Idle" /\ state # "Running"
        /\ UNCHANGED <<chans, fSocketProperties, fTsSockKey, fRegisteredTSKeys,
                       known, fSocketMetrics, fNumChannels, series, made, points,
                       run, fresh, told>>
    BY <1>5 DEF EnterIdle, ts
  <2>2. TypeOK'
    BY <1>0, <1>1, <2>1, NoSumsType DEF TypeOK
  <2>3. SumsAgree' /\ OnlyInRun' /\ Configured' /\ RunsSoFar' /\ SweepsFirst'
    BY <1>0, <1>2, <1>3, <2>1
    DEF SumsAgree, OnlyInRun, Configured, RunsSoFar, SweepsFirst
  <2>4. NothingIsLost' /\ SeriesOfTheRun'
    BY <1>0, <1>1, <1>3, <2>1 DEF NothingIsLost, SeriesOfTheRun
  <2> QED BY <2>2, <2>3, <2>4 DEF Inv
<1>6. CASE EnterReady
  <2>1. /\ state' = "Ready" /\ known' = {} /\ fNumChannels' = {}
        /\ fSocketMetrics' = NoSums /\ told' = NoSums
        /\ UNCHANGED <<chans, fSocketProperties, fTsSockKey, run, fresh>>
        /\ state \in {"DeviceReady", "Running"}
    BY <1>6 DEF EnterReady
  <2>2. /\ SeriesType /\ RunsSoFar' /\ fRegisteredTSKeys' \subseteq Channel \union {Proc}
    <3>1. CASE DeleteTSKeys
      <4>1. DropSeries(fRegisteredTSKeys) /\ fRegisteredTSKeys' = {}
        BY <3>1 DEF DeleteTSKeys
      <4>2. SeriesType /\ RunsSoFar'
        BY <1>0, <2>1, <4>1, SeriesFacts
      <4> QED BY <4>1, <4>2 DEF DropSeries
    <3>2. CASE UNCHANGED <<fRegisteredTSKeys, ts>>
      BY <1>0, <2>1, <3>2 DEF TypeOK, RunsSoFar, SeriesType, ts
    <3> QED BY <1>6, <3>1, <3>2 DEF EnterReady
  <2>3. TypeOK'
    BY <1>0, <1>1, <2>1, <2>2, NoSumsType DEF TypeOK, SeriesType
  <2>4. SumsAgree' /\ OnlyInRun' /\ Configured' /\ SweepsFirst'
    BY <1>0, <1>2, <1>3, <2>1 DEF SumsAgree, OnlyInRun, Configured, SweepsFirst
  <2>5. NothingIsLost' /\ SeriesOfTheRun'
    BY <2>1 DEF NothingIsLost, SeriesOfTheRun
  <2> QED BY <2>2, <2>3, <2>4, <2>5 DEF Inv
<1>7. CASE EnterRunning
  <2>1. /\ state' = "Running" /\ run' = run + 1 /\ run' \in Nat
        /\ state = "Ready" /\ known = {} /\ fSocketProperties = chans
        /\ UNCHANGED <<chans, fSocketProperties, known, fSocketMetrics,
                       fNumChannels, told>>
    BY <1>0, <1>7 DEF EnterRunning, TypeOK, OnlyInRun, Configured
  <2>2. SumsAgree' /\ OnlyInRun' /\ SweepsFirst' /\ NothingIsLost'
    BY <1>0, <1>2, <1>3, <2>1 DEF SumsAgree, OnlyInRun, SweepsFirst, NothingIsLost
  <2>3. CASE /\ CreateTimeseries(SeriesToMake)
             /\ fTsSockKey' = fTsSockKey \union fSocketProperties /\ fresh' = "yes"
    <3>1. MakeSeries(SeriesToMake) /\ SeriesToMake \subseteq Key
      BY <1>0, <2>3, ToMakeType DEF CreateTimeseries
    <3>2. SeriesType /\ RunsSoFar'
      BY <1>0, <2>1, <3>1, SeriesFacts
    <3>3. fRegisteredTSKeys' = (fRegisteredTSKeys \ (SeriesToMake \intersect series))
                                  \union SeriesToMake
      BY <2>3 DEF CreateTimeseries
    <3>4. TypeOK'
      BY <1>0, <1>1, <2>1, <2>3, <3>2, <3>3, NoSumsType
      DEF TypeOK, SeriesType, SeriesToMake
    <3>5. Configured'
      BY <2>1, <2>3 DEF Configured
    <3>6. SeriesOfTheRun'
      <4>1. ASSUME NEW k \in {Proc} \union chans'
            PROVE  k \in series' /\ made'[k] = run' /\ points'[k] \subseteq {run'}
        BY <2>1, <3>1 DEF SeriesToMake, MakeSeries, Key
      <4>2. NoKey \notin SeriesToMake
        BY <1>0 DEF SeriesToMake, TypeOK
      <4>3. run' \notin points'[NoKey]
        BY <1>0, <2>1, <3>1, <4>2 DEF MakeSeries, RunsSoFar, TypeOK, Key
      <4> QED BY <4>1, <4>3 DEF SeriesOfTheRun
    <3> QED BY <2>2, <3>2, <3>4, <3>5, <3>6 DEF Inv
  <2>4. CASE fresh' = "no" /\ UNCHANGED <<fTsSockKey, fRegisteredTSKeys, ts>>
    <3>1. TypeOK'
      BY <1>0, <1>1, <2>1, <2>4, NoSumsType DEF TypeOK, ts
    <3>2. RunsSoFar'
      BY <1>0, <2>1, <2>4 DEF RunsSoFar, TypeOK, ts
    <3>3. Configured' /\ SeriesOfTheRun'
      BY <1>0, <1>1, <2>1, <2>4 DEF Configured, SeriesOfTheRun, ts
    <3> QED BY <2>2, <3>1, <3>2, <3>3 DEF Inv
  <2> QED BY <1>7, <2>3, <2>4 DEF EnterRunning
<1> QED BY <1>4, <1>5, <1>6, <1>7

-----------------------------------------------------------------------------
(* Lines.                                                                   *)

\* What every line does.
LEMMA AddUpFacts ==
    ASSUME Inv, NEW c \in Line, NEW n \in Nat, AddUp(c, n)
    PROVE  /\ fSocketMetrics' \in [Line -> Nat] /\ fSocketMetrics' = told'
           /\ \A d \in Line \ {c} : told'[d] = told[d]
           /\ known' = known \union {c} /\ known' \subseteq Line
           /\ state = "Running" /\ state' = "Running"
           /\ c \in chans \union Stray
           /\ UNCHANGED <<chans, fSocketProperties, fTsSockKey, fRegisteredTSKeys,
                          lock, found, sweeps, run, fresh>>
<1>0. TypeOK /\ SumsAgree
  BY DEF Inv
<1>1. fSocketMetrics' = [fSocketMetrics EXCEPT ![c] = @ + n]
      /\ told' = [told EXCEPT ![c] = @ + n]
  BY DEF AddUp
<1>2. fSocketMetrics' \in [Line -> Nat] /\ fSocketMetrics' = told'
  BY <1>0, <1>1 DEF TypeOK, SumsAgree
<1>3. \A d \in Line \ {c} : told'[d] = told[d]
  BY <1>0, <1>1 DEF TypeOK
<1> QED BY <1>0, <1>2, <1>3 DEF AddUp, TypeOK, sweep

\* The parts that a line leaves alone as long as the series are.
LEMMA LineKeeps ==
    ASSUME Inv, NEW c \in Line, NEW n \in Nat, AddUp(c, n)
    PROVE  /\ SumsAgree' /\ Configured' /\ SweepsFirst'
           /\ UNCHANGED ts => RunsSoFar' /\ SeriesOfTheRun'
<1>1. SumsAgree' /\ Configured' /\ SweepsFirst'
  BY AddUpFacts DEF Inv, SumsAgree, Configured, SweepsFirst
<1>2. ASSUME UNCHANGED ts PROVE RunsSoFar' /\ SeriesOfTheRun'
  BY <1>2, AddUpFacts DEF Inv, ts, RunsSoFar, SeriesOfTheRun
<1> QED BY <1>1, <1>2

LEMMA LineIgnoredInv ==
    ASSUME Inv, NEW c \in Line, NEW n \in Nat, LineIgnored(c, n)
    PROVE  Inv'
<1>0. TypeOK /\ OnlyInRun /\ NothingIsLost
  BY DEF Inv
<1>1. AddUp(c, n) /\ (c \in Stray \/ fPipe = "invalid")
      /\ UNCHANGED <<fNumChannels, fPipe, queued, fields, published, ts,
                     series, made, points, faults>>
  BY DEF LineIgnored, hashes, ts
<1>2. TypeOK'
  BY <1>0, <1>1, AddUpFacts DEF TypeOK
<1>3. OnlyInRun' /\ NothingIsLost'
  BY <1>0, <1>1, AddUpFacts DEF OnlyInRun, NothingIsLost, TypeOK, Line
<1> QED BY <1>1, <1>2, <1>3, LineKeeps DEF Inv

\* A channel's line in the pipeline.
LEMMA EnqueueFacts ==
    ASSUME Inv, NEW c \in Line, NEW n \in Nat, AddUp(c, n), c \notin Stray,
           fPipe = "valid"
    PROVE  /\ c \in Channel /\ c \in chans
           /\ Enqueue(c) \in [Channel -> Nat \union {None}]
           /\ \A d \in Channel : Enqueue(c)[d] # None => d \in chans
           /\ \A d \in Count(c) : Enqueue(c)[d] = told'[d] /\ told'[d] \in Nat
           /\ Count(c) \subseteq known' \intersect Channel
           /\ RoundIsOver(c) => Count(c) = known'
<1>0. TypeOK /\ OnlyInRun /\ NothingIsLost
  BY DEF Inv
<1>1. c \in Channel /\ c \in chans
  BY <1>0, AddUpFacts DEF TypeOK
<1>2. fSocketMetrics'[c] = told'[c] /\ told'[c] \in Nat /\ \A d \in Line : told'[d] \in Nat
  BY AddUpFacts
<1>3. Enqueue(c) \in [Channel -> Nat \union {None}]
  BY <1>0, <1>1, <1>2 DEF Enqueue, TypeOK
<1>4. \A d \in Channel : Enqueue(c)[d] # None => d \in chans
  BY <1>0, <1>1 DEF Enqueue, TypeOK, OnlyInRun
<1>5. Count(c) \subseteq known' \intersect Channel
  BY <1>0, <1>1, AddUpFacts DEF TypeOK, Count
<1>6. ASSUME NEW d \in Count(c) PROVE Enqueue(c)[d] = told'[d] /\ told'[d] \in Nat
  <2>1. CASE d = c
    BY <1>0, <1>1, <1>2, <2>1 DEF Enqueue, TypeOK
  <2>2. CASE d # c
    <3>1. d \in fNumChannels /\ d \in known \intersect Channel /\ d \in Line
      BY <1>0, <2>2 DEF Count, TypeOK, Line
    <3>2. queued[d] = told[d] /\ told'[d] = told[d]
      BY <1>0, <2>2, <3>1, AddUpFacts DEF NothingIsLost
    <3> QED BY <1>0, <1>2, <2>2, <3>1, <3>2 DEF Enqueue, TypeOK
  <2> QED BY <2>1, <2>2
<1>7. ASSUME RoundIsOver(c) PROVE Count(c) = known'
  <2>1. known' \subseteq Line /\ IsFiniteSet(Line)
    BY AddUpFacts
  <2>2. IsFiniteSet(known')
    BY <2>1, FS_Subset
  <2>3. Cardinality(known') = Cardinality(Count(c)) /\ Count(c) \in SUBSET known'
    BY <1>5, <1>7 DEF RoundIsOver
  <2> QED BY <2>2, <2>3, FS_Subset
<1> QED BY <1>1, <1>3, <1>4, <1>5, <1>6, <1>7

LEMMA LineQueuedInv ==
    ASSUME Inv, NEW c \in Line, NEW n \in Nat, LineQueued(c, n)
    PROVE  Inv'
<1>0. TypeOK /\ OnlyInRun /\ NothingIsLost
  BY DEF Inv
<1>1. AddUp(c, n) /\ c \notin Stray /\ fPipe = "valid"
      /\ queued' = Enqueue(c) /\ fNumChannels' = Count(c)
      /\ UNCHANGED <<fPipe, fields, published, ts, series, made, points, faults>>
  BY DEF LineQueued, hashes, ts
<1>2. TypeOK'
  BY <1>0, <1>1, AddUpFacts, EnqueueFacts DEF TypeOK
<1>3. OnlyInRun'
  BY <1>1, AddUpFacts, EnqueueFacts DEF OnlyInRun
<1>4. NothingIsLost'
  <2> SUFFICES ASSUME NEW d \in known' \intersect Channel
               PROVE  IF d \in fNumChannels' THEN queued'[d] = told'[d]
                      ELSE published'[d] \in {None, <<run', told'[d]>>}
    BY DEF NothingIsLost
  <2>1. CASE d \in Count(c)
    BY <1>1, <2>1, EnqueueFacts
  <2>2. CASE d \notin Count(c)
    <3>1. d \in known /\ d \notin fNumChannels /\ d \in Line \ {c}
      BY <1>1, <2>2, AddUpFacts DEF Count, Line
    <3>2. published[d] \in {None, <<run, told[d]>>}
      BY <1>0, <1>1, <3>1, AddUpFacts DEF NothingIsLost
    <3> QED BY <1>1, <2>2, <3>1, <3>2, AddUpFacts
  <2> QED BY <2>1, <2>2
<1> QED BY <1>1, <1>2, <1>3, <1>4, LineKeeps DEF Inv

\* What is executed goes to the channel's own series and to Redis's fields.
LEMMA ExecFacts ==
    ASSUME Inv, NEW q \in [Channel -> Nat \union {None}], Exec(q),
           \A d \in Channel : q[d] # None => d \in chans,
           state = "Running", state' = "Running",
           UNCHANGED <<run, fresh, chans, fTsSockKey, fRegisteredTSKeys>>
    PROVE  /\ SeriesType /\ RunsSoFar' /\ SeriesOfTheRun'
           /\ fields' \subseteq {"facts", "last-update"}
           /\ published' \in [Channel -> (Nat \X Nat) \union {None}]
           /\ \A d \in Channel : q[d] # None => published'[d] = <<run, q[d]>>
           /\ \A d \in Channel : q[d] = None => published'[d] = published[d]
<1> DEFINE K == {Proc} \union {TsKey(c) : c \in {d \in Channel : q[d] # None}}
<1>0. TypeOK /\ RunsSoFar /\ SeriesOfTheRun /\ Configured
  BY DEF Inv
<1>1. /\ published' = [c \in Channel |->
                           IF q[c] # None THEN <<run, q[c]>> ELSE published[c]]
      /\ fields' = fields \union {"last-update"}
      /\ series' = series \union K
      /\ made' = [k \in Key |-> IF k \in K \ series THEN run ELSE made[k]]
      /\ points' = [k \in Key |-> IF k \in K THEN points[k] \union {run} ELSE points[k]]
  BY DEF Exec
<1>2. K \subseteq Key
  BY DEF TsKey, Key
<1>3. fresh = "yes" => NoKey \notin K
  BY <1>0 DEF Configured, TsKey
<1> HIDE DEF K
<1>4. SeriesType
  BY <1>0, <1>1, <1>2 DEF TypeOK, SeriesType
<1>5. RunsSoFar'
  <2>1. ASSUME NEW k \in Key PROVE made'[k] <= run' /\ points'[k] \subseteq 0 .. run'
    BY <1>0, <1>1 DEF TypeOK, RunsSoFar
  <2> QED BY <2>1 DEF RunsSoFar
<1>6. SeriesOfTheRun'
  <2> SUFFICES ASSUME fresh = "yes" PROVE
                 /\ \A k \in {Proc} \union chans :
                       k \in series' /\ made'[k] = run /\ points'[k] \subseteq {run}
                 /\ run \notin points'[NoKey]
    BY DEF SeriesOfTheRun
  <2>1. \A k \in {Proc} \union chans :
           k \in Key /\ k \in series /\ made[k] = run /\ points[k] \subseteq {run}
    BY <1>0 DEF SeriesOfTheRun, TypeOK, Key
  <2>2. NoKey \in Key /\ run \notin points[NoKey]
    BY <1>0 DEF SeriesOfTheRun, Key
  <2> QED BY <1>1, <1>3, <2>1, <2>2
<1>7. /\ published' \in [Channel -> (Nat \X Nat) \union {None}]
      /\ \A d \in Channel : q[d] # None => published'[d] = <<run, q[d]>>
      /\ \A d \in Channel : q[d] = None => published'[d] = published[d]
  <2>1. ASSUME NEW d \in Channel, q[d] # None PROVE <<run, q[d]>> \in Nat \X Nat
    BY <1>0, <2>1 DEF TypeOK
  <2> QED BY <1>0, <1>1, <2>1 DEF TypeOK
<1> QED BY <1>0, <1>1, <1>4, <1>5, <1>6, <1>7 DEF TypeOK

LEMMA LineSentInv ==
    ASSUME Inv, NEW c \in Line, NEW n \in Nat, LineSent(c, n)
    PROVE  Inv'
<1>0. TypeOK
  BY DEF Inv
<1>1. AddUp(c, n) /\ c \notin Stray /\ fPipe = "valid" /\ RoundIsOver(c)
      /\ Exec(Enqueue(c)) /\ queued' = NothingQueued /\ fNumChannels' = {}
      /\ UNCHANGED <<fPipe, faults>>
  BY DEF LineSent
<1>2. /\ SeriesType /\ RunsSoFar' /\ SeriesOfTheRun'
      /\ fields' \subseteq {"facts", "last-update"}
      /\ published' \in [Channel -> (Nat \X Nat) \union {None}]
      /\ \A d \in Channel : Enqueue(c)[d] # None => published'[d] = <<run, Enqueue(c)[d]>>
  BY <1>1, AddUpFacts, EnqueueFacts, ExecFacts
<1>3. TypeOK'
  BY <1>0, <1>1, <1>2, AddUpFacts, NoSumsType DEF TypeOK, SeriesType
<1>4. OnlyInRun'
  BY <1>1, AddUpFacts DEF OnlyInRun, NothingQueued
<1>5. NothingIsLost'
  <2>1. ASSUME NEW d \in known' \intersect Channel
        PROVE  published'[d] = <<run', told'[d]>>
    <3>1. d \in Count(c)
      BY <1>1, EnqueueFacts
    <3> QED BY <1>1, <1>2, <3>1, AddUpFacts, EnqueueFacts
  <2> QED BY <1>1, <2>1 DEF NothingIsLost
<1> QED BY <1>1, <1>2, <1>3, <1>4, <1>5, LineKeeps DEF Inv

LEMMA LineFailsInv ==
    ASSUME Inv, NEW c \in Line, NEW n \in Nat, LineFails(c, n)
    PROVE  Inv'
<1>0. TypeOK
  BY DEF Inv
<1>1. AddUp(c, n) /\ c \notin Stray /\ fPipe = "valid"
      /\ (Exec(Enqueue(c)) \/ UNCHANGED <<hashes, ts>>)
      /\ queued' = NothingQueued /\ fNumChannels' = Count(c)
      /\ fPipe' = "invalid" /\ faults' = faults + 1
  BY DEF LineFails
<1>2. /\ SeriesType /\ RunsSoFar' /\ SeriesOfTheRun'
      /\ fields' \subseteq {"facts", "last-update"}
      /\ published' \in [Channel -> (Nat \X Nat) \union {None}]
  <2>1. CASE Exec(Enqueue(c))
    BY <1>1, <2>1, AddUpFacts, EnqueueFacts, ExecFacts
  <2>2. CASE UNCHANGED <<hashes, ts>>
    BY <1>0, <1>1, <2>2, LineKeeps DEF TypeOK, SeriesType, hashes, ts
  <2> QED BY <1>1, <2>1, <2>2
<1>3. TypeOK'
  BY <1>0, <1>1, <1>2, AddUpFacts, EnqueueFacts, NoSumsType DEF TypeOK, SeriesType
<1>4. OnlyInRun' /\ NothingIsLost'
  BY <1>1, AddUpFacts DEF OnlyInRun, NothingIsLost, NothingQueued
<1> QED BY <1>1, <1>2, <1>3, <1>4, LineKeeps DEF Inv

-----------------------------------------------------------------------------
(* The theorems.                                                            *)

LEMMA StepInv == Inv /\ [Next]_vars => Inv'
<1> SUFFICES ASSUME Inv, [Next]_vars PROVE Inv'
  OBVIOUS
<1>1. CASE UNCHANGED vars
  BY <1>1 DEF vars, plugin, hashes, ts, sweep, history, Inv, TypeOK, SumsAgree,
              OnlyInRun, Configured, RunsSoFar, SweepsFirst, NothingIsLost,
              SeriesOfTheRun
<1>2. CASE \E c \in Line : SendSocketMetrics(c)
  <2>1. \A c \in Line : Messages(c) \subseteq Nat
    BY DEF Messages
  <2> QED BY <1>2, <2>1, LineIgnoredInv, LineQueuedInv, LineSentInv
          DEF SendSocketMetrics
<1>3. CASE \E c \in Channel : \E n \in Messages(c) : LineFails(c, n)
  <2>1. \A c \in Channel : Messages(c) \subseteq Nat /\ c \in Line
    BY DEF Messages, Line
  <2> QED BY <1>3, <2>1, LineFailsInv
<1>4. CASE StateChange \/ CallbackThrows \/ Crash
  BY <1>4, EnterInv, ExitInv DEF StateChange
<1> QED BY <1>1, <1>2, <1>3, <1>4, SweepInv DEF Next

THEOREM Invariance == Spec => []Inv
BY InitInv, StepInv, PTL DEF Spec

\* The plugin's members keep their types, and only channels that had a line are
\* counted (the members of MetricsPlugin).
THEOREM TypeCorrect == Spec => []TypeOK
<1>1. Inv => TypeOK
  BY DEF Inv
<1> QED BY <1>1, Invariance, PTL

\* No line of a run is lost, counted twice or shown in another run, whatever
\* fails and whoever sweeps (SendSocketMetrics, the callback of Ready).
THEOREM LinesAreKept == Spec => []NothingIsLost
<1>1. Inv => NothingIsLost
  BY DEF Inv
<1> QED BY <1>1, Invariance, PTL

\* A run begun with recreate-ts has series of its own (CreateTimeseries,
\* CreateSocketTS).
THEOREM SeriesAreFresh == Spec => []SeriesOfTheRun
<1>1. Inv => SeriesOfTheRun
  BY DEF Inv
<1> QED BY <1>1, Invariance, PTL

\* What is left in the pipeline when a run ends is never sent (the state
\* callback).
THEOREM NothingAfterTheRun == Spec => PublishesDuringRun
<1>1. ASSUME Inv, [Next]_vars PROVE [ShowsThisRun]_vars
  <2> USE DEF ShowsThisRun
  <2>0. CASE UNCHANGED vars
    BY <2>0
  <2>1. CASE published' = published
    BY <2>1
  <2>2. CASE published' = [c \in Channel |-> None]
    BY <2>2
  <2>3. CASE \E c \in Line, n \in Nat : LineSent(c, n) \/ LineFails(c, n)
    <3> PICK c \in Line, n \in Nat : LineSent(c, n) \/ LineFails(c, n)
      BY <2>3
    <3>1. AddUp(c, n) /\ c \notin Stray /\ fPipe = "valid"
          /\ (Exec(Enqueue(c)) \/ published' = published)
      BY DEF LineSent, LineFails, hashes
    <3>2. CASE Exec(Enqueue(c))
      <4>1. \A d \in Channel :
               IF Enqueue(c)[d] # None THEN published'[d] = <<run, Enqueue(c)[d]>>
                                       ELSE published'[d] = published[d]
        BY <1>1, <3>1, <3>2, AddUpFacts, EnqueueFacts, ExecFacts
      <4>2. state = "Running" /\ state' = "Running"
        BY <1>1, <3>1, AddUpFacts
      <4> QED BY <4>1, <4>2
    <3> QED BY <2>1, <3>1, <3>2
  <2>4. ASSUME Swept PROVE published' = published \/ published' = [c \in Channel |-> None]
    BY <2>4 DEF Swept
  <2>5. CASE Sweep("self") \/ Sweep("other") \/ SweepFails
    BY <2>1, <2>2, <2>4, <2>5 DEF Sweep, SweepReads, SweepDeletes, SweepFails, hashes
  <2>6. CASE StateChange
    BY <2>1, <2>6 DEF StateChange, EnterDeviceReady, EnterReady, EnterRunning,
                      EnterIdle, Exit, ShowState
  <2>7. CASE Start \/ SweepThrows \/ ConstructEnds \/ CallbackThrows
             \/ OnPropertyChange \/ Crash
    BY <2>1, <2>7 DEF Start, SweepThrows, ConstructEnds, CallbackThrows,
                      OnPropertyChange, Crash, hashes
  <2>8. CASE \E c \in Line : SendSocketMetrics(c)
    <3> PICK c \in Line : \E n \in Messages(c) :
               LineIgnored(c, n) \/ LineQueued(c, n) \/ LineSent(c, n)
      BY <2>8 DEF SendSocketMetrics
    <3>1. PICK n \in Nat : LineIgnored(c, n) \/ LineQueued(c, n) \/ LineSent(c, n)
      BY DEF Messages
    <3>2. CASE LineIgnored(c, n) \/ LineQueued(c, n)
      BY <2>1, <3>2 DEF LineIgnored, LineQueued, hashes
    <3> QED BY <2>3, <3>1, <3>2
  <2>9. CASE \E c \in Channel : \E n \in Messages(c) : LineFails(c, n)
    BY <2>3, <2>9 DEF Messages, Line
  <2> QED BY <1>1, <2>0, <2>5, <2>6, <2>7, <2>8, <2>9 DEF Next
<1>2. Inv /\ [Next]_vars => [ShowsThisRun]_vars
  BY <1>1
<1> QED BY <1>2, Invariance, PTL DEF Spec, PublishesDuringRun
=============================================================================
