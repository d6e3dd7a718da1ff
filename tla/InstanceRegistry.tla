-------------------------- MODULE InstanceRegistry --------------------------
(***************************************************************************)
(* How the instances of one service get their numbers from the Redis       *)
(* registry (plugins/DaqServicePlugin.cxx: SetId, ResetTtl, Unregister)    *)
(* and how the web controller takes numbers back when a presence key       *)
(* expires (controller/WebGui.cxx: ProcessExpiredKey).                     *)
(*                                                                         *)
(* The registry holds, for the service, a hash from instance index to the  *)
(* uuid of its owner, and for each instance a presence key with a time to  *)
(* live that its owner keeps refreshing.  An index whose owner has no      *)
(* presence key is free to be taken.  Every Redis command is one step.     *)
(* The clock is abstracted: a presence key may expire when nobody refreshes *)
(* it, and with Stall even when somebody should; so may the lock.          *)
(***************************************************************************)
EXTENDS Naturals

CONSTANTS
    Device,        \* the processes of the service, by their uuid
    MaxIndex,      \* bound: the largest instance index
    Nobody,        \* no owner
    Crash,         \* processes may crash
    Restart,       \* a process may be started again with the same --uuid
    GracefulExit,  \* processes may exit and unregister
    Controller,    \* a web controller handles expired presence keys
    Stall,         \* a process may be held up for longer than any time to live
    RedisFails     \* a Redis command may throw, with or without an effect

Index == 0..MaxIndex
NoId  == MaxIndex + 1     \* no instance id yet
UuidId == MaxIndex + 2    \* the uuid itself is the instance id

ASSUME RegistryAssumption ==
    /\ MaxIndex \in Nat
    /\ Nobody \notin Device
    /\ \A b \in {Crash, Restart, GracefulExit, Controller, Stall,
                RedisFails} : b \in BOOLEAN

VARIABLES
    index,     \* the hash service-instance-index: index -> uuid
    presence,  \* the presence keys: index -> uuid
    lock,      \* the holder of the RedMutex "resource"
    pc,        \* where each process is
    keys,      \* SetId: the presence keys found by SCAN
    uuidList,  \* SetId: the uuids found in them
    indexExpired, \* SetId: the entries of the hash with an unknown uuid
    myIndex,   \* SetId: the index to try next, or the one found
    fId,       \* the instance id of each process
    fRegisteredKeys,   \* the indices of the presence keys it will delete
    fRegisteredHashes, \* the index it will delete from the hash
    expired    \* expired presence keys the controller has still to handle

locals == <<keys, uuidList, indexExpired, myIndex>>
fields == <<fId, fRegisteredKeys, fRegisteredHashes>>
vars == <<index, presence, lock, pc, locals, fields, expired>>

Init ==
    /\ index = [i \in Index |-> Nobody]
    /\ presence = [i \in Index |-> Nobody]
    /\ lock = Nobody
    /\ pc = [d \in Device |-> "start"]
    /\ keys = [d \in Device |-> {}]
    /\ uuidList = [d \in Device |-> {}]
    /\ indexExpired = [d \in Device |-> {}]
    /\ myIndex = [d \in Device |-> NoId]
    /\ fId = [d \in Device |-> NoId]
    /\ fRegisteredKeys = [d \in Device |-> {}]
    /\ fRegisteredHashes = [d \in Device |-> NoId]
    /\ expired = {}

Goto(d, p) == pc' = [pc EXCEPT ![d] = p]

\* The local variables of SetId go out of scope.
Forget(d) ==
    /\ keys' = [keys EXCEPT ![d] = {}]
    /\ uuidList' = [uuidList EXCEPT ![d] = {}]
    /\ indexExpired' = [indexExpired EXCEPT ![d] = {}]
    /\ myIndex' = [myIndex EXCEPT ![d] = NoId]

\* The whole process ends.
Gone(d) ==
    /\ Goto(d, "down")
    /\ Forget(d)
    /\ fId' = [fId EXCEPT ![d] = NoId]
    /\ fRegisteredKeys' = [fRegisteredKeys EXCEPT ![d] = {}]
    /\ fRegisteredHashes' = [fRegisteredHashes EXCEPT ![d] = NoId]

-----------------------------------------------------------------------------
(***************************************************************************)
(* SetId, command by command.                                              *)
(***************************************************************************)

\* Mutant of TryLock: the result of try_lock() is ignored.
TryLockIgnored(d) ==
    /\ pc[d] = "start"
    /\ lock' = d
    /\ Goto(d, "scan")
    /\ UNCHANGED <<index, presence, locals, fields, expired>>

\* try_lock(); a process that does not get the lock sleeps and tries again.
TryLock(d) ==
    /\ pc[d] = "start"
    /\ lock = Nobody
    /\ lock' = d
    /\ Goto(d, "scan")
    /\ UNCHANGED <<index, presence, locals, fields, expired>>

\* SCAN for the presence keys of the service.
ScanPresence(d) ==
    /\ pc[d] = "scan"
    /\ keys' = [keys EXCEPT ![d] = {i \in Index : presence[i] # Nobody}]
    /\ Goto(d, "mget")
    /\ UNCHANGED <<index, presence, lock, uuidList, indexExpired, myIndex, fields, expired>>

\* MGET their values.
ReadUuids(d) ==
    /\ pc[d] = "mget"
    /\ uuidList' = [uuidList EXCEPT ![d] = {presence[i] : i \in keys[d]} \ {Nobody}]
    /\ Goto(d, "hgetall")
    /\ UNCHANGED <<index, presence, lock, keys, indexExpired, myIndex, fields, expired>>

\* HGETALL the index hash; sort its entries into expired ones and one's own.
ReadIndex(d) ==
    /\ pc[d] = "hgetall"
    /\ indexExpired' = [indexExpired EXCEPT ![d] =
           {i \in Index : index[i] # Nobody /\ index[i] \notin uuidList[d]}]
    /\ \/ /\ \E i \in Index : /\ index[i] = d /\ d \in uuidList[d]
                              /\ myIndex' = [myIndex EXCEPT ![d] = i]
          /\ Goto(d, "hdelReuse")
       \/ /\ \A i \in Index : ~(index[i] = d /\ d \in uuidList[d])
          /\ myIndex' = [myIndex EXCEPT ![d] = 0]
          /\ Goto(d, "hdel")
    /\ UNCHANGED <<index, presence, lock, keys, uuidList, fields, expired>>

\* HDEL the expired entries.  With an entry of one's own nothing else is done.
Purged(d) == [i \in Index |-> IF i \in indexExpired[d] THEN Nobody ELSE index[i]]

\* Mutant of PurgeExpired: nothing is deleted.
PurgeNothing(d) ==
    /\ pc[d] \in {"hdel", "hdelReuse"}
    /\ Goto(d, IF pc[d] = "hdel" THEN "hsetnx" ELSE "unlock")
    /\ UNCHANGED <<index, presence, lock, locals, fields, expired>>

PurgeExpired(d) ==
    /\ pc[d] \in {"hdel", "hdelReuse"}
    /\ index' = Purged(d)
    /\ Goto(d, IF pc[d] = "hdel" THEN "hsetnx" ELSE "unlock")
    /\ UNCHANGED <<presence, lock, locals, fields, expired>>

\* Mutants of ClaimIndex: HSET instead of HSETNX, and no id.
ClaimOverwrites(d) ==
    /\ pc[d] = "hsetnx"
    /\ index' = [index EXCEPT ![myIndex[d]] = d]
    /\ fId' = [fId EXCEPT ![d] = myIndex[d]]
    /\ fRegisteredHashes' = [fRegisteredHashes EXCEPT ![d] = myIndex[d]]
    /\ Goto(d, "setex")
    /\ UNCHANGED <<presence, lock, locals, fRegisteredKeys, expired>>
ClaimWithoutId(d) ==
    /\ pc[d] = "hsetnx"
    /\ index' = [index EXCEPT ![myIndex[d]] = d]
    /\ fRegisteredHashes' = [fRegisteredHashes EXCEPT ![d] = myIndex[d]]
    /\ Goto(d, "setex")
    /\ UNCHANGED <<presence, lock, locals, fId, fRegisteredKeys, expired>>

\* HSETNX on one index after the other.  fRegisteredHashes.insert() leaves an
\* entry of an earlier attempt as it is.
ClaimIndex(d) ==
    /\ pc[d] = "hsetnx"
    /\ myIndex[d] \in Index
    /\ IF index[myIndex[d]] = Nobody
       THEN /\ index' = [index EXCEPT ![myIndex[d]] = d]
            /\ fId' = [fId EXCEPT ![d] = myIndex[d]]
            /\ fRegisteredHashes' =
                   [fRegisteredHashes EXCEPT ![d] = IF @ = NoId THEN myIndex[d] ELSE @]
            /\ Goto(d, "setex")
            /\ UNCHANGED myIndex
       ELSE /\ myIndex' = [myIndex EXCEPT ![d] = @ + 1]
            /\ UNCHANGED <<index, fId, fRegisteredHashes, pc>>
    /\ UNCHANGED <<presence, lock, keys, uuidList, indexExpired, fRegisteredKeys, expired>>

\* SETEX the presence key.
SetPresence(d) ==
    /\ pc[d] = "setex"
    /\ presence' = [presence EXCEPT ![fId[d]] = d]
    /\ fRegisteredKeys' = [fRegisteredKeys EXCEPT ![d] = @ \union {fId[d]}]
    /\ Goto(d, "unlock")
    /\ UNCHANGED <<index, lock, locals, fId, fRegisteredHashes, expired>>

\* unlock(), and the uuid as the id of a process that still has none.
Released(d) == IF lock = d THEN Nobody ELSE lock

\* Mutant of Unlock: the lock is kept.
UnlockForgotten(d) ==
    /\ pc[d] = "unlock"
    /\ fId' = [fId EXCEPT ![d] = IF @ = NoId THEN UuidId ELSE @]
    /\ Goto(d, "up")
    /\ Forget(d)
    /\ UNCHANGED <<index, presence, lock, fRegisteredKeys, fRegisteredHashes, expired>>

Unlock(d) ==
    /\ pc[d] = "unlock"
    /\ lock' = Released(d)
    /\ fId' = [fId EXCEPT ![d] = IF @ = NoId THEN UuidId ELSE @]
    /\ Goto(d, "up")
    /\ Forget(d)
    /\ UNCHANGED <<index, presence, fRegisteredKeys, fRegisteredHashes, expired>>

SetId(d) ==
    \/ TryLock(d) \/ ScanPresence(d) \/ ReadUuids(d) \/ ReadIndex(d)
    \/ PurgeExpired(d) \/ ClaimIndex(d) \/ SetPresence(d) \/ Unlock(d)

\* A command of SetId throws, before or after it has taken effect.  The handler
\* logs it, the lock goes out of scope, and the loop starts again with what the
\* failed attempt has left in the members of the plugin.
CommandThrows(d) ==
    /\ RedisFails
    /\ pc[d] \in {"scan", "mget", "hgetall", "hdel", "hdelReuse", "hsetnx", "setex", "unlock"}
    /\ \/ UNCHANGED <<index, presence>>
       \/ /\ pc[d] \in {"hdel", "hdelReuse"}
          /\ index' = Purged(d) /\ UNCHANGED presence
       \/ /\ pc[d] = "hsetnx" /\ myIndex[d] \in Index /\ index[myIndex[d]] = Nobody
          /\ index' = [index EXCEPT ![myIndex[d]] = d] /\ UNCHANGED presence
       \/ /\ pc[d] = "setex"
          /\ presence' = [presence EXCEPT ![fId[d]] = d] /\ UNCHANGED index
    /\ lock' = Released(d)
    /\ Goto(d, "start")
    /\ Forget(d)
    /\ UNCHANGED <<fields, expired>>

-----------------------------------------------------------------------------
(***************************************************************************)
(* The life of a registered process.                                       *)
(***************************************************************************)

\* The timer's ResetTtl sets the presence key anew.  The destructor stops the
\* timer but does not wait for a ResetTtl under way.
ResetTtl(d) ==
    /\ pc[d] \in {"up", "leaving"}
    /\ fId[d] \in Index
    /\ presence' = [presence EXCEPT ![fId[d]] = d]
    /\ UNCHANGED <<index, lock, pc, locals, fields, expired>>

\* Unregister: DEL the registered keys, then HDEL the index.
UnregisterKeys(d) ==
    /\ GracefulExit
    /\ pc[d] = "up"
    /\ presence' = [i \in Index |-> IF i \in fRegisteredKeys[d] THEN Nobody ELSE presence[i]]
    /\ Goto(d, "leaving")
    /\ UNCHANGED <<index, lock, locals, fields, expired>>

UnregisterIndex(d) ==
    /\ pc[d] = "leaving"
    /\ index' = [i \in Index |-> IF i = fRegisteredHashes[d] THEN Nobody ELSE index[i]]
    /\ Gone(d)
    /\ UNCHANGED <<presence, lock, expired>>

Crashes(d) ==
    /\ Crash
    /\ pc[d] # "down"
    /\ Gone(d)
    /\ UNCHANGED <<index, presence, lock, expired>>

\* The process is started again with the uuid it had.
Restarts(d) ==
    /\ Restart
    /\ pc[d] = "down"
    /\ Goto(d, "start")
    /\ UNCHANGED <<index, presence, lock, locals, fields, expired>>

-----------------------------------------------------------------------------
(***************************************************************************)
(* Redis and the web controller.                                           *)
(***************************************************************************)

\* The lock of a dead process times out; a living one extends it, unless it is
\* held up.
LockExpires ==
    /\ lock # Nobody
    /\ Stall \/ pc[lock] \in {"down", "start"}
    /\ lock' = Nobody
    /\ UNCHANGED <<index, presence, pc, locals, fields, expired>>

\* Somebody keeps the presence key of index i alive.
Refreshed(i) == \E d \in Device : fId[d] = i /\ pc[d] \in {"setex", "unlock", "up", "leaving"}

PresenceExpires(i) ==
    /\ presence[i] # Nobody
    /\ Stall \/ ~Refreshed(i)
    /\ presence' = [presence EXCEPT ![i] = Nobody]
    /\ expired' = IF Controller THEN expired \union {i} ELSE expired
    /\ UNCHANGED <<index, lock, pc, locals, fields>>

\* A thread of the controller deletes the index of an expired presence key.
ProcessExpiredKey(i) ==
    /\ i \in expired
    /\ index' = [index EXCEPT ![i] = Nobody]
    /\ expired' = expired \ {i}
    /\ UNCHANGED <<presence, lock, pc, locals, fields>>

Next ==
    \/ \E d \in Device :
          \/ SetId(d) \/ ResetTtl(d) \/ UnregisterKeys(d) \/ UnregisterIndex(d)
          \/ CommandThrows(d) \/ Crashes(d) \/ Restarts(d)
    \/ LockExpires
    \/ \E i \in Index : PresenceExpires(i) \/ ProcessExpiredKey(i)

\* A process that lives goes on; the lock of a dead one times out.
Fairness == (\A d \in Device : WF_vars(SetId(d))) /\ WF_vars(LockExpires)

Spec == Init /\ [][Next]_vars
FairSpec == Spec /\ Fairness

-----------------------------------------------------------------------------
(***************************************************************************)
(* Properties.                                                             *)
(***************************************************************************)

ProcessPoint == {"start", "scan", "mget", "hgetall", "hdel", "hdelReuse", "hsetnx",
                 "setex", "unlock", "up", "leaving", "down"}

TypeOK ==
    /\ index \in [Index -> Device \union {Nobody}]
    /\ presence \in [Index -> Device \union {Nobody}]
    /\ lock \in Device \union {Nobody}
    /\ pc \in [Device -> ProcessPoint]
    /\ keys \in [Device -> SUBSET Index]
    /\ uuidList \in [Device -> SUBSET Device]
    /\ indexExpired \in [Device -> SUBSET Index]
    /\ myIndex \in [Device -> 0..NoId]
    /\ fId \in [Device -> 0..UuidId]
    /\ fRegisteredKeys \in [Device -> SUBSET Index]
    /\ fRegisteredHashes \in [Device -> 0..NoId]
    /\ expired \in SUBSET Index
    /\ \A d \in Device : pc[d] = "setex" => fId[d] \in Index

\* The processes that run under an instance id of their own.
Registered(d) == pc[d] \in {"setex", "unlock", "up"} /\ fId[d] \in Index

\* "Each Sampler sends data to one Sink with the same instance index": no two
\* processes of the service run with the same instance index.
UniqueIds ==
    \A d, e \in Device : (Registered(d) /\ Registered(e) /\ fId[d] = fId[e]) => d = e

\* The index of a running process stays its own in the hash, so the next
\* SetId cannot give it away.
IndexStaysOwned == \A d \in Device : Registered(d) => index[fId[d]] = d

\* SetId takes the smallest index: every smaller one belongs to a process that
\* had a presence key, and none that a dead process left behind is passed over.
TakesSmallestIndex ==
    [][\A d \in Device : (pc[d] = "hsetnx" /\ pc'[d] = "setex") =>
           \A j \in Index : j < fId'[d] => index[j] \in uuidList[d]]_vars

\* A uuid owns at most one index, whatever crashes, stalls, starts again, exits
\* or is deleted by the controller: stale entries never add up.
OneIndexPerUuid ==
    \A i, j \in Index : (index[i] = index[j] /\ index[i] # Nobody) => i = j

\* "same uuid is found. reuse the service instance-index": a process that finds
\* an index under its own uuid runs with that index.
ReusesIndex ==
    [][\A d \in Device : (pc[d] = "unlock" /\ pc'[d] = "up") => fId'[d] = myIndex[d]]_vars

\* Every process that does not crash gets its instance id, also when another
\* one dies with the lock.
EverybodyRegisters ==
    \A d \in Device : (pc[d] = "start") ~> (pc[d] \in {"up", "down"})

=============================================================================
