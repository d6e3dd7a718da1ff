----------------------- MODULE InstanceRegistryProofs -----------------------
(***************************************************************************)
(* Proofs about InstanceRegistry, for every set of processes and every     *)
(* bound on the index.                                                     *)
(***************************************************************************)
EXTENDS InstanceRegistry, TLAPS

-----------------------------------------------------------------------------
(***************************************************************************)
(* Types.                                                                  *)
(***************************************************************************)

\* What the proofs need to know of the indices and of the two marks beyond
\* them; the definitions themselves stay closed.
LEMMA IndexFacts ==
    /\ Index \subseteq 0..NoId
    /\ 0..NoId \subseteq 0..UuidId
    /\ NoId \in 0..NoId /\ UuidId \in 0..UuidId /\ 0 \in 0..NoId
    /\ NoId \notin Index /\ UuidId \notin Index
    /\ \A i \in Index : i + 1 \in 0..NoId
  BY RegistryAssumption DEF Index, NoId, UuidId

\* The registry, the lock and the members of every process keep their types
\* through every command, failure, crash and restart.
THEOREM TypeCorrect == Spec => []TypeOK
<1> USE RegistryAssumption, IndexFacts
<1>1. Init => TypeOK
  BY DEF Init, TypeOK, ProcessPoint
<1>2. TypeOK /\ [Next]_vars => TypeOK'
  <2> SUFFICES ASSUME TypeOK, [Next]_vars PROVE TypeOK'
    OBVIOUS
  <2> USE DEF TypeOK, ProcessPoint
  <2>1. ASSUME NEW d \in Device, TryLock(d) PROVE TypeOK'
    BY <2>1 DEF TryLock, Goto, locals, fields
  <2>2. ASSUME NEW d \in Device, ScanPresence(d) PROVE TypeOK'
    BY <2>2 DEF ScanPresence, Goto, fields
  <2>3. ASSUME NEW d \in Device, ReadUuids(d) PROVE TypeOK'
    BY <2>3 DEF ReadUuids, Goto, fields
  <2>4. ASSUME NEW d \in Device, ReadIndex(d) PROVE TypeOK'
    <3>1. indexExpired' \in [Device -> SUBSET Index] /\ myIndex' \in [Device -> 0..NoId]
      BY <2>4 DEF ReadIndex
    <3>2. pc' \in [Device -> ProcessPoint] /\ \A e \in Device : pc'[e] = "setex" => pc[e] = "setex"
      BY <2>4 DEF ReadIndex, Goto
    <3> QED
      BY <2>4, <3>1, <3>2 DEF ReadIndex, fields
  <2>5. ASSUME NEW d \in Device, PurgeExpired(d) PROVE TypeOK'
    BY <2>5 DEF PurgeExpired, Purged, Goto, locals, fields
  <2>6. ASSUME NEW d \in Device, ClaimIndex(d) PROVE TypeOK'
    <3>1. CASE index[myIndex[d]] = Nobody
      <4>1. /\ myIndex[d] \in Index
            /\ index' = [index EXCEPT ![myIndex[d]] = d]
            /\ fId' = [fId EXCEPT ![d] = myIndex[d]]
            /\ pc' = [pc EXCEPT ![d] = "setex"]
        BY <2>6, <3>1 DEF ClaimIndex, Goto
      <4>2. index' \in [Index -> Device \union {Nobody}]
        BY <4>1
      <4>3. /\ fId' \in [Device -> 0..UuidId] /\ fId'[d] \in Index
            /\ \A e \in Device : e # d => fId'[e] = fId[e]
        BY <4>1
      <4>4. fRegisteredHashes' \in [Device -> 0..NoId]
        BY <2>6, <3>1, <4>1 DEF ClaimIndex
      <4>5. /\ pc' \in [Device -> ProcessPoint]
            /\ \A e \in Device : pc'[e] = "setex" => fId'[e] \in Index
        BY <4>1, <4>3
      <4> QED
        BY <2>6, <3>1, <4>2, <4>3, <4>4, <4>5 DEF ClaimIndex
    <3>2. CASE index[myIndex[d]] # Nobody
      BY <2>6, <3>2 DEF ClaimIndex
    <3> QED
      BY <3>1, <3>2
  <2>7. ASSUME NEW d \in Device, SetPresence(d) PROVE TypeOK'
    BY <2>7 DEF SetPresence, Goto, locals
  <2>8. ASSUME NEW d \in Device, Unlock(d) PROVE TypeOK'
    BY <2>8 DEF Unlock, Released, Goto, Forget
  <2>9. ASSUME NEW d \in Device, CommandThrows(d) PROVE TypeOK'
    <3>1. index' \in [Index -> Device \union {Nobody}]
      BY <2>9 DEF CommandThrows, Purged
    <3>2. presence' \in [Index -> Device \union {Nobody}]
      BY <2>9 DEF CommandThrows
    <3>3. pc' \in [Device -> ProcessPoint] /\ \A e \in Device : pc'[e] = "setex" => pc[e] = "setex"
      BY <2>9 DEF CommandThrows, Goto
    <3>4. /\ lock' \in Device \union {Nobody}
          /\ keys' \in [Device -> SUBSET Index]
          /\ uuidList' \in [Device -> SUBSET Device]
          /\ indexExpired' \in [Device -> SUBSET Index]
          /\ myIndex' \in [Device -> 0..NoId]
      BY <2>9 DEF CommandThrows, Released, Forget
    <3> QED
      BY <2>9, <3>1, <3>2, <3>3, <3>4 DEF CommandThrows, fields
  <2>10. ASSUME NEW d \in Device, ResetTtl(d) PROVE TypeOK'
    BY <2>10 DEF ResetTtl, locals, fields
  <2>11. ASSUME NEW d \in Device, UnregisterKeys(d) PROVE TypeOK'
    BY <2>11 DEF UnregisterKeys, Goto, locals, fields
  <2>12. ASSUME NEW d \in Device, UnregisterIndex(d) PROVE TypeOK'
    BY <2>12 DEF UnregisterIndex, Gone, Goto, Forget
  <2>13. ASSUME NEW d \in Device, Crashes(d) PROVE TypeOK'
    BY <2>13 DEF Crashes, Gone, Goto, Forget
  <2>14. ASSUME NEW d \in Device, Restarts(d) PROVE TypeOK'
    BY <2>14 DEF Restarts, Goto, locals, fields
  <2>15. CASE LockExpires
    BY <2>15 DEF LockExpires, locals, fields
  <2>16. ASSUME NEW i \in Index, PresenceExpires(i) PROVE TypeOK'
    BY <2>16 DEF PresenceExpires, locals, fields
  <2>17. ASSUME NEW i \in Index, ProcessExpiredKey(i) PROVE TypeOK'
    BY <2>17 DEF ProcessExpiredKey, locals, fields
  <2>18. CASE UNCHANGED vars
    BY <2>18 DEF vars, locals, fields
  <2> QED
    BY <2>1, <2>2, <2>3, <2>4, <2>5, <2>6, <2>7, <2>8, <2>9, <2>10, <2>11,
       <2>12, <2>13, <2>14, <2>15, <2>16, <2>17, <2>18 DEF Next, SetId
<1> QED
  BY <1>1, <1>2, PTL DEF Spec

-----------------------------------------------------------------------------
(***************************************************************************)
(* A uuid owns at most one index.  SetId claims one only after it has      *)
(* deleted every entry of its own: an entry under its own uuid is either   *)
(* reused, or among the expired ones.                                      *)
(***************************************************************************)

\* What the two commands before the claim know of the entries of their own.
OwnEntries ==
    \A d \in Device : \A i \in Index :
        /\ pc[d] = "hdel" /\ index[i] = d => i \in indexExpired[d]
        /\ pc[d] = "hsetnx" => index[i] # d

ClaimInv == TypeOK /\ OneIndexPerUuid /\ OwnEntries

\* A step that adds no entry and brings no process to one of the two commands.
LEMMA NoNewEntry ==
    ASSUME ClaimInv, TypeOK',
           \A i \in Index : index'[i] \in {index[i], Nobody},
           \A d \in Device :
               /\ pc'[d] = "hdel" => pc[d] = "hdel" /\ indexExpired'[d] = indexExpired[d]
               /\ pc'[d] = "hsetnx" => pc[d] = "hsetnx"
    PROVE  ClaimInv'
  BY RegistryAssumption DEF ClaimInv, OneIndexPerUuid, OwnEntries

\* No step breaks ClaimInv.
LEMMA ClaimStep == ClaimInv /\ TypeOK' /\ [Next]_vars => ClaimInv'
<1> SUFFICES ASSUME ClaimInv, TypeOK', [Next]_vars PROVE ClaimInv'
  OBVIOUS
<1> USE RegistryAssumption
<1>t. TypeOK
  BY DEF ClaimInv
<1>1. ASSUME NEW d \in Device, ReadIndex(d) PROVE ClaimInv'
  <2>1. index' = index
    BY <1>1 DEF ReadIndex
  <2>2. ASSUME NEW e \in Device, e # d
        PROVE  pc'[e] = pc[e] /\ indexExpired'[e] = indexExpired[e]
    BY <1>1, <1>t, <2>2 DEF ReadIndex, Goto, TypeOK
  <2>3. pc'[d] # "hsetnx"
    BY <1>1, <1>t DEF ReadIndex, Goto, TypeOK
  <2>4. ASSUME pc'[d] = "hdel", NEW i \in Index, index[i] = d PROVE i \in indexExpired'[d]
    <3>1. \A j \in Index : ~(index[j] = d /\ d \in uuidList[d])
      BY <1>1, <1>t, <2>4 DEF ReadIndex, Goto, TypeOK
    <3> QED
      BY <1>1, <1>t, <2>4, <3>1 DEF ReadIndex, TypeOK
  <2> QED
    BY <2>1, <2>2, <2>3, <2>4 DEF ClaimInv, OneIndexPerUuid, OwnEntries
<1>2. ASSUME NEW d \in Device, PurgeExpired(d) PROVE ClaimInv'
  <2>1. \A i \in Index : index'[i] = IF i \in indexExpired[d] THEN Nobody ELSE index[i]
    BY <1>2 DEF PurgeExpired, Purged
  <2>2. /\ indexExpired' = indexExpired
        /\ \A e \in Device : e # d => pc'[e] = pc[e]
        /\ pc'[d] # "hdel"
        /\ pc'[d] = "hsetnx" => pc[d] = "hdel"
    BY <1>2, <1>t DEF PurgeExpired, Goto, TypeOK, locals
  <2> QED
    BY <2>1, <2>2 DEF ClaimInv, OneIndexPerUuid, OwnEntries
<1>3. ASSUME NEW d \in Device, pc[d] = "hsetnx", myIndex[d] \in Index,
             index[myIndex[d]] = Nobody, index' = [index EXCEPT ![myIndex[d]] = d],
             pc'[d] \notin {"hdel", "hsetnx"},
             \A e \in Device : e # d => pc'[e] = pc[e] /\ indexExpired'[e] = indexExpired[e]
      PROVE  ClaimInv'
  <2>1. \A i \in Index : index'[i] = IF i = myIndex[d] THEN d ELSE index[i]
    BY <1>3, <1>t DEF TypeOK
  <2>2. \A i \in Index : index[i] # d
    BY <1>3 DEF ClaimInv, OwnEntries
  <2> QED
    BY <1>3, <2>1, <2>2 DEF ClaimInv, OneIndexPerUuid, OwnEntries
<1>4. ASSUME NEW d \in Device, ClaimIndex(d) PROVE ClaimInv'
  <2>1. CASE index[myIndex[d]] = Nobody
    <3>1. /\ pc'[d] = "setex"
          /\ \A e \in Device : e # d => pc'[e] = pc[e] /\ indexExpired'[e] = indexExpired[e]
      BY <1>4, <1>t, <2>1 DEF ClaimIndex, Goto, TypeOK
    <3> QED
      BY <1>3, <1>4, <2>1, <3>1 DEF ClaimIndex
  <2>2. CASE index[myIndex[d]] # Nobody
    BY <1>4, <2>2, NoNewEntry DEF ClaimIndex
  <2> QED
    BY <2>1, <2>2
<1>5. ASSUME NEW d \in Device, CommandThrows(d) PROVE ClaimInv'
  <2>1. /\ pc'[d] = "start"
        /\ \A e \in Device : e # d => pc'[e] = pc[e] /\ indexExpired'[e] = indexExpired[e]
    BY <1>5, <1>t DEF CommandThrows, Goto, Forget, TypeOK
  <2>2. CASE \A i \in Index : index'[i] \in {index[i], Nobody}
    BY <2>1, <2>2, NoNewEntry
  <2>3. CASE /\ pc[d] = "hsetnx" /\ myIndex[d] \in Index /\ index[myIndex[d]] = Nobody
             /\ index' = [index EXCEPT ![myIndex[d]] = d]
    BY <1>3, <2>1, <2>3
  <2> QED
    BY <1>5, <2>2, <2>3 DEF CommandThrows, Purged
<1>6. ASSUME NEW d \in Device, TryLock(d) \/ ScanPresence(d) \/ ReadUuids(d) \/ SetPresence(d)
      PROVE  ClaimInv'
  BY <1>6, <1>t, NoNewEntry DEF TryLock, ScanPresence, ReadUuids, SetPresence, Goto, TypeOK, locals
<1>7. ASSUME NEW d \in Device, Unlock(d) \/ Crashes(d) \/ Restarts(d)
      PROVE  ClaimInv'
  BY <1>7, <1>t, NoNewEntry DEF Unlock, Crashes, Restarts, Gone, Forget, Goto, TypeOK, locals
<1>8. ASSUME NEW d \in Device, ResetTtl(d) \/ UnregisterKeys(d) \/ UnregisterIndex(d)
      PROVE  ClaimInv'
  BY <1>8, <1>t, NoNewEntry
     DEF ResetTtl, UnregisterKeys, UnregisterIndex, Gone, Forget, Goto, TypeOK, locals
<1>9. ASSUME NEW i \in Index, PresenceExpires(i) \/ ProcessExpiredKey(i) PROVE ClaimInv'
  BY <1>9, <1>t, NoNewEntry DEF PresenceExpires, ProcessExpiredKey, TypeOK, locals
<1>10. CASE LockExpires
  BY <1>10, NoNewEntry DEF LockExpires, locals
<1>11. CASE UNCHANGED vars
  BY <1>11, NoNewEntry DEF vars, locals
<1> QED
  BY <1>1, <1>2, <1>4, <1>5, <1>6, <1>7, <1>8, <1>9, <1>10, <1>11 DEF Next, SetId

\* Whatever fails, crashes, stalls, starts again, exits or is deleted by the
\* controller, SetId never leaves a uuid with two indices.
THEOREM OneIndex == Spec => []OneIndexPerUuid
<1>1. Init /\ TypeOK => ClaimInv
  BY RegistryAssumption DEF Init, ClaimInv, OneIndexPerUuid, OwnEntries
<1>2. ClaimInv /\ TypeOK' /\ [Next]_vars => ClaimInv'
  BY ClaimStep
<1>3. ClaimInv => OneIndexPerUuid
  BY DEF ClaimInv
<1> QED
  BY <1>1, <1>2, <1>3, TypeCorrect, PTL DEF Spec

-----------------------------------------------------------------------------
(***************************************************************************)
(* Without failing commands, stalls, graceful exits and the controller,    *)
(* crashes and restarts never make two processes share an index.  The      *)
(* holder of the lock is alone in SetId, so every process that is up had   *)
(* its presence key when the keys were scanned, and its entry is not among *)
(* the expired ones.                                                       *)
(***************************************************************************)

InSetId == {"scan", "mget", "hgetall", "hdel", "hdelReuse", "hsetnx", "setex", "unlock"}
BeforeClaim == InSetId \ {"setex", "unlock"}

\* The process runs with an index of its own.
Up(e) == pc[e] = "up" /\ fId[e] \in Index

\* What SetId and the registry agree on, command by command.
Quiet      == expired = {} /\ \A d \in Device : pc[d] # "leaving"
Mutex      == \A d \in Device : pc[d] \in InSetId => lock = d
NoIdYet    == \A d \in Device : pc[d] \in BeforeClaim \union {"start", "down"} => fId[d] = NoId
PresenceUp == \A d \in Device : (pc[d] \in {"unlock", "up"} /\ fId[d] \in Index)
                                    => presence[fId[d]] = d
Scanned    == \A d, e \in Device : pc[d] = "mget" /\ Up(e) => fId[e] \in keys[d]
Read       == \A d, e \in Device : pc[d] = "hgetall" /\ Up(e) => e \in uuidList[d]
Spared     == \A d, e \in Device : pc[d] \in {"hdel", "hdelReuse"} /\ Up(e)
                                       => fId[e] \notin indexExpired[d]

OwnerInv ==
    /\ TypeOK /\ Quiet /\ Mutex /\ NoIdYet
    /\ IndexStaysOwned /\ PresenceUp
    /\ Scanned /\ Read /\ Spared

CrashesOnly == ~GracefulExit /\ ~Controller /\ ~Stall /\ ~RedisFails

\* No step breaks OwnerInv where processes only crash and start again.
LEMMA OwnerStep ==
    ASSUME CrashesOnly, OwnerInv, TypeOK', [Next]_vars
    PROVE  OwnerInv'
<1> USE RegistryAssumption, IndexFacts DEF InSetId, BeforeClaim, Up, Registered
<1> DEFINE Same(e) == /\ pc'[e] = pc[e] /\ fId'[e] = fId[e]
                      /\ keys'[e] = keys[e] /\ uuidList'[e] = uuidList[e]
                      /\ indexExpired'[e] = indexExpired[e]
<1>t. TypeOK
  BY DEF OwnerInv
<1>1. ASSUME NEW d \in Device, TryLock(d) PROVE OwnerInv'
  <2>1. /\ \A e \in Device : e # d => Same(e)
        /\ pc[d] = "start" /\ pc'[d] = "scan" /\ fId'[d] = fId[d]
        /\ lock = Nobody /\ lock' = d
        /\ index' = index /\ presence' = presence /\ expired' = expired
    BY <1>1, <1>t DEF TryLock, Goto, locals, fields, TypeOK
  <2> QED
    BY <2>1 DEF OwnerInv, Quiet, Mutex, NoIdYet, IndexStaysOwned, PresenceUp, Scanned, Read, Spared
<1>2. ASSUME NEW d \in Device, ScanPresence(d) PROVE OwnerInv'
  <2>1. /\ \A e \in Device : e # d => Same(e)
        /\ pc[d] = "scan" /\ pc'[d] = "mget" /\ fId'[d] = fId[d]
        /\ keys'[d] = {i \in Index : presence[i] # Nobody}
        /\ lock' = lock /\ index' = index /\ presence' = presence /\ expired' = expired
    BY <1>2, <1>t DEF ScanPresence, Goto, fields, TypeOK
  <2>2. \A e \in Device : Up(e) => presence[fId[e]] # Nobody
    BY DEF OwnerInv, PresenceUp
  <2> QED
    BY <2>1, <2>2 DEF OwnerInv, Quiet, Mutex, NoIdYet, IndexStaysOwned, PresenceUp, Scanned, Read, Spared
<1>3. ASSUME NEW d \in Device, ReadUuids(d) PROVE OwnerInv'
  <2>1. /\ \A e \in Device : e # d => Same(e)
        /\ pc[d] = "mget" /\ pc'[d] = "hgetall" /\ fId'[d] = fId[d]
        /\ uuidList'[d] = {presence[i] : i \in keys[d]} \ {Nobody}
        /\ lock' = lock /\ index' = index /\ presence' = presence /\ expired' = expired
    BY <1>3, <1>t DEF ReadUuids, Goto, fields, TypeOK
  <2>2. \A e \in Device : Up(e) => e \in uuidList'[d]
    BY <2>1 DEF OwnerInv, PresenceUp, Scanned
  <2> QED
    BY <2>1, <2>2 DEF OwnerInv, Quiet, Mutex, NoIdYet, IndexStaysOwned, PresenceUp, Scanned, Read, Spared
<1>4. ASSUME NEW d \in Device, ReadIndex(d) PROVE OwnerInv'
  <2>1. /\ \A e \in Device : e # d => Same(e)
        /\ pc[d] = "hgetall" /\ pc'[d] \in {"hdel", "hdelReuse"} /\ fId'[d] = fId[d]
        /\ indexExpired'[d] = {i \in Index : index[i] # Nobody /\ index[i] \notin uuidList[d]}
        /\ lock' = lock /\ index' = index /\ presence' = presence /\ expired' = expired
    BY <1>4, <1>t DEF ReadIndex, Goto, fields, TypeOK
  <2>2. \A e \in Device : Up(e) => fId[e] \notin indexExpired'[d]
    BY <2>1 DEF OwnerInv, IndexStaysOwned, Read
  <2> QED
    BY <2>1, <2>2 DEF OwnerInv, Quiet, Mutex, NoIdYet, IndexStaysOwned, PresenceUp, Scanned, Read, Spared
<1>5. ASSUME NEW d \in Device, PurgeExpired(d) PROVE OwnerInv'
  <2>1. /\ \A e \in Device : e # d => Same(e)
        /\ pc[d] \in {"hdel", "hdelReuse"} /\ pc'[d] \in {"hsetnx", "unlock"} /\ fId'[d] = fId[d]
        /\ \A i \in Index : index'[i] = IF i \in indexExpired[d] THEN Nobody ELSE index[i]
        /\ lock' = lock /\ presence' = presence /\ expired' = expired
    BY <1>5, <1>t DEF PurgeExpired, Purged, Goto, locals, fields, TypeOK
  <2>2. fId[d] = NoId
    BY <2>1 DEF OwnerInv, NoIdYet
  <2>3. \A e \in Device : e # d /\ Registered(e) => Up(e)
    BY <2>1 DEF OwnerInv, Mutex
  <2>4. ASSUME NEW e \in Device, Registered(e)' PROVE index'[fId'[e]] = e
    <3>1. e # d /\ Same(e)
      BY <2>1, <2>2, <2>4
    <3>2. Up(e) /\ index[fId[e]] = e
      BY <2>3, <2>4, <3>1 DEF OwnerInv, IndexStaysOwned
    <3>3. fId[e] \notin indexExpired[d]
      BY <2>1, <3>2 DEF OwnerInv, Spared
    <3> QED
      BY <2>1, <3>1, <3>2, <3>3
  <2> QED
    BY <2>1, <2>2, <2>4
       DEF OwnerInv, Quiet, Mutex, NoIdYet, IndexStaysOwned, PresenceUp, Scanned, Read, Spared
<1>6. ASSUME NEW d \in Device, ClaimIndex(d), index[myIndex[d]] = Nobody PROVE OwnerInv'
  <2>1. /\ \A e \in Device : e # d => Same(e)
        /\ pc[d] = "hsetnx" /\ pc'[d] = "setex" /\ fId'[d] = myIndex[d] /\ myIndex[d] \in Index
        /\ \A i \in Index : index'[i] = IF i = myIndex[d] THEN d ELSE index[i]
        /\ lock' = lock /\ presence' = presence /\ expired' = expired
    BY <1>6, <1>t DEF ClaimIndex, Goto, TypeOK
  <2>2. IndexStaysOwned'
    BY <1>6, <2>1 DEF OwnerInv, IndexStaysOwned
  <2> QED
    BY <2>1, <2>2 DEF OwnerInv, Quiet, Mutex, NoIdYet, PresenceUp, Scanned, Read, Spared
<1>7. ASSUME NEW d \in Device, SetPresence(d) PROVE OwnerInv'
  <2>1. /\ \A e \in Device : e # d => Same(e)
        /\ pc[d] = "setex" /\ pc'[d] = "unlock" /\ fId'[d] = fId[d] /\ fId[d] \in Index
        /\ \A i \in Index : presence'[i] = IF i = fId[d] THEN d ELSE presence[i]
        /\ lock' = lock /\ index' = index /\ expired' = expired
    BY <1>7, <1>t DEF SetPresence, Goto, locals, TypeOK
  <2>2. \A e \in Device : e # d /\ Registered(e) => fId[e] # fId[d]
    BY <2>1 DEF OwnerInv, IndexStaysOwned
  <2>3. ASSUME NEW e \in Device, pc'[e] \in {"unlock", "up"}, fId'[e] \in Index
        PROVE  presence'[fId'[e]] = e
    <3>1. CASE e = d
      BY <2>1, <3>1
    <3>2. CASE e # d
      <4>1. Same(e)
        BY <2>1, <3>2
      <4>2. presence[fId[e]] = e /\ fId[e] # fId[d]
        BY <2>2, <2>3, <3>2, <4>1 DEF OwnerInv, PresenceUp
      <4> QED
        BY <2>1, <2>3, <4>1, <4>2
    <3> QED
      BY <3>1, <3>2
  <2> QED
    BY <2>1, <2>3 DEF OwnerInv, Quiet, Mutex, NoIdYet, IndexStaysOwned, PresenceUp, Scanned, Read, Spared
<1>8. ASSUME NEW d \in Device, Unlock(d) PROVE OwnerInv'
  <2>1. /\ \A e \in Device : e # d => Same(e)
        /\ pc[d] = "unlock" /\ pc'[d] = "up"
        /\ fId[d] \in Index => fId'[d] = fId[d]
        /\ fId'[d] \in Index => fId'[d] = fId[d]
        /\ lock' = Nobody \/ lock' = lock
        /\ index' = index /\ presence' = presence /\ expired' = expired
    BY <1>8, <1>t DEF Unlock, Released, Forget, Goto, TypeOK
  <2>2. \A e \in Device : e # d => pc[e] \notin InSetId
    BY <2>1 DEF OwnerInv, Mutex
  <2> QED
    BY <2>1, <2>2 DEF OwnerInv, Quiet, Mutex, NoIdYet, IndexStaysOwned, PresenceUp, Scanned, Read, Spared
<1>9. ASSUME NEW d \in Device, ResetTtl(d) PROVE OwnerInv'
  <2>1. /\ \A e \in Device : Same(e)
        /\ pc[d] = "up" /\ fId[d] \in Index
        /\ \A i \in Index : presence'[i] = IF i = fId[d] THEN d ELSE presence[i]
        /\ lock' = lock /\ index' = index /\ expired' = expired
    BY <1>9, <1>t DEF ResetTtl, OwnerInv, Quiet, locals, fields, TypeOK
  <2>2. ASSUME NEW e \in Device, pc'[e] \in {"unlock", "up"}, fId'[e] \in Index
        PROVE  presence'[fId'[e]] = e
    <3>1. Same(e) /\ presence[fId[e]] = e
      BY <2>1, <2>2 DEF OwnerInv, PresenceUp
    <3>2. index[fId[e]] = e /\ index[fId[d]] = d
      BY <2>1, <2>2, <3>1 DEF OwnerInv, IndexStaysOwned
    <3> QED
      BY <2>1, <2>2, <3>1, <3>2
  <2> QED
    BY <2>1, <2>2 DEF OwnerInv, Quiet, Mutex, NoIdYet, IndexStaysOwned, PresenceUp, Scanned, Read, Spared
<1>10. ASSUME NEW d \in Device, Crashes(d) \/ Restarts(d) PROVE OwnerInv'
  <2>1. /\ \A e \in Device : e # d => Same(e)
        /\ pc'[d] \in {"down", "start"} /\ fId'[d] = NoId
        /\ lock' = lock /\ index' = index /\ presence' = presence /\ expired' = expired
    BY <1>10, <1>t DEF Crashes, Restarts, Gone, Forget, Goto, locals, fields, TypeOK, OwnerInv, NoIdYet
  <2> QED
    BY <2>1 DEF OwnerInv, Quiet, Mutex, NoIdYet, IndexStaysOwned, PresenceUp, Scanned, Read, Spared
<1>11. CASE LockExpires
  <2>1. /\ \A e \in Device : Same(e)
        /\ lock \in Device /\ pc[lock] \notin InSetId
        /\ index' = index /\ presence' = presence /\ expired' = expired
    BY <1>11, <1>t DEF LockExpires, CrashesOnly, locals, fields, TypeOK
  <2>2. \A e \in Device : pc[e] \notin InSetId
    BY <2>1 DEF OwnerInv, Mutex
  <2> QED
    BY <2>1, <2>2 DEF OwnerInv, Quiet, Mutex, NoIdYet, IndexStaysOwned, PresenceUp, Scanned, Read, Spared
<1>12. ASSUME NEW i \in Index, PresenceExpires(i) PROVE OwnerInv'
  <2>1. /\ \A e \in Device : Same(e)
        /\ \A j \in Index : j # i => presence'[j] = presence[j]
        /\ \A e \in Device : pc[e] \in {"unlock", "up"} => fId[e] # i
        /\ lock' = lock /\ index' = index /\ expired' = expired
    BY <1>12, <1>t DEF PresenceExpires, Refreshed, CrashesOnly, locals, fields, TypeOK
  <2>2. ASSUME NEW e \in Device, pc'[e] \in {"unlock", "up"}, fId'[e] \in Index
        PROVE  presence'[fId'[e]] = e
    <3>1. Same(e) /\ fId[e] # i /\ presence[fId[e]] = e
      BY <2>1, <2>2 DEF OwnerInv, PresenceUp
    <3> QED
      BY <2>1, <2>2, <3>1
  <2> QED
    BY <2>1, <2>2 DEF OwnerInv, Quiet, Mutex, NoIdYet, IndexStaysOwned, PresenceUp, Scanned, Read, Spared
<1>13. ASSUME NEW d \in Device, ClaimIndex(d), index[myIndex[d]] # Nobody PROVE OwnerInv'
  BY <1>13, <1>t DEF ClaimIndex, OwnerInv, Quiet, Mutex, NoIdYet, IndexStaysOwned, PresenceUp,
                     Scanned, Read, Spared
<1>14. CASE UNCHANGED vars
  BY <1>14, <1>t DEF vars, locals, fields, OwnerInv, Quiet, Mutex, NoIdYet, IndexStaysOwned,
                     PresenceUp, Scanned, Read, Spared
<1>15. /\ \A d \in Device : ~CommandThrows(d) /\ ~UnregisterKeys(d) /\ ~UnregisterIndex(d)
       /\ \A i \in Index : ~ProcessExpiredKey(i)
  BY DEF CommandThrows, UnregisterKeys, UnregisterIndex, ProcessExpiredKey, CrashesOnly, OwnerInv, Quiet
<1> QED
  BY <1>1, <1>2, <1>3, <1>4, <1>5, <1>6, <1>7, <1>8, <1>9, <1>10, <1>11, <1>12, <1>13, <1>14,
     <1>15 DEF Next, SetId

\* OwnerInv holds there in every state.
LEMMA OwnerAlways == ASSUME CrashesOnly PROVE Spec => []OwnerInv
<1>1. Init /\ TypeOK => OwnerInv
  BY RegistryAssumption, IndexFacts
     DEF Init, OwnerInv, Quiet, Mutex, NoIdYet, IndexStaysOwned, Registered, PresenceUp,
         Scanned, Read, Spared, Up, InSetId, BeforeClaim
<1>2. OwnerInv /\ TypeOK' /\ [Next]_vars => OwnerInv'
  BY OwnerStep
<1> QED
  BY <1>1, <1>2, TypeCorrect, PTL DEF Spec

\* Where processes only crash and start again, the index of a running process
\* stays its own in the hash.
THEOREM OwnedIndices == ASSUME CrashesOnly PROVE Spec => []IndexStaysOwned
<1>1. OwnerInv => IndexStaysOwned
  BY DEF OwnerInv
<1> QED
  BY <1>1, OwnerAlways, PTL

\* Where processes only crash and start again, SetId never gives two running
\* processes of the service the same index.
THEOREM DistinctIds == ASSUME CrashesOnly PROVE Spec => []UniqueIds
<1>1. OwnerInv => UniqueIds
  BY DEF OwnerInv, IndexStaysOwned, UniqueIds
<1> QED
  BY <1>1, OwnerAlways, PTL

-----------------------------------------------------------------------------
(***************************************************************************)
(* SetId takes the smallest free index.  From the HGETALL on nobody else   *)
(* writes the hash, because the lock is held: what the HDEL leaves in it   *)
(* belongs to a uuid with a presence key, and every index that HSETNX has  *)
(* been refused for is still taken.                                        *)
(***************************************************************************)

Sorted == \A d \in Device : \A j \in Index :
              pc[d] = "hdel" /\ index[j] # Nobody => j \in indexExpired[d] \/ index[j] \in uuidList[d]
Kept   == \A d \in Device : \A j \in Index :
              pc[d] = "hsetnx" /\ index[j] # Nobody => index[j] \in uuidList[d]
Passed == \A d \in Device : \A j \in Index :
              pc[d] = "hsetnx" /\ j < myIndex[d] => index[j] # Nobody
Begun  == \A d \in Device : pc[d] = "hdel" => myIndex[d] = 0

SmallestInv == Sorted /\ Kept /\ Passed /\ Begun

\* A step that leaves the hash alone and brings no process to the two commands.
LEMMA HashUntouched ==
    ASSUME SmallestInv, index' = index,
           \A d \in Device : pc'[d] \in {"hdel", "hsetnx"} =>
               /\ pc'[d] = pc[d] /\ indexExpired'[d] = indexExpired[d]
               /\ uuidList'[d] = uuidList[d] /\ myIndex'[d] = myIndex[d]
    PROVE  SmallestInv'
  BY DEF SmallestInv, Sorted, Kept, Passed, Begun

\* One step of the registry keeps what is known of the hash between HGETALL
\* and the claim.
LEMMA SmallestStep ==
    ASSUME CrashesOnly, OwnerInv, SmallestInv, [Next]_vars
    PROVE  SmallestInv'
<1> USE RegistryAssumption, IndexFacts
<1>t. TypeOK /\ Mutex
  BY DEF OwnerInv
<1>m. ASSUME NEW d \in Device, pc[d] \in InSetId
      PROVE  \A e \in Device : e # d => pc[e] \notin InSetId
  BY <1>t, <1>m DEF Mutex
<1>1. ASSUME NEW d \in Device, ReadIndex(d) PROVE SmallestInv'
  <2>1. /\ index' = index /\ uuidList' = uuidList
        /\ \A e \in Device : e # d => pc'[e] = pc[e]
        /\ pc[d] \in InSetId /\ pc'[d] \in {"hdel", "hdelReuse"}
        /\ indexExpired'[d] = {i \in Index : index[i] # Nobody /\ index[i] \notin uuidList[d]}
    BY <1>1, <1>t DEF ReadIndex, Goto, TypeOK, InSetId
  <2>2. pc'[d] = "hdel" => myIndex'[d] = 0
    BY <1>1, <1>t DEF ReadIndex, Goto, TypeOK
  <2>3. \A e \in Device : e # d => pc'[e] \notin {"hdel", "hsetnx"}
    BY <1>m, <2>1 DEF InSetId
  <2> QED
    BY <2>1, <2>2, <2>3 DEF SmallestInv, Sorted, Kept, Passed, Begun
<1>2. ASSUME NEW d \in Device, PurgeExpired(d) PROVE SmallestInv'
  <2>1. /\ \A i \in Index : index'[i] = IF i \in indexExpired[d] THEN Nobody ELSE index[i]
        /\ uuidList' = uuidList /\ myIndex' = myIndex
        /\ \A e \in Device : e # d => pc'[e] = pc[e]
        /\ pc[d] \in InSetId /\ pc'[d] \in {"hsetnx", "unlock"}
        /\ pc'[d] = "hsetnx" => pc[d] = "hdel"
    BY <1>2, <1>t DEF PurgeExpired, Purged, Goto, TypeOK, locals, InSetId
  <2>2. \A e \in Device : e # d => pc'[e] \notin {"hdel", "hsetnx"}
    BY <1>m, <2>1 DEF InSetId
  <2>3. \A j \in Index : ~(j < 0)
    BY DEF Index
  <2> QED
    BY <2>1, <2>2, <2>3 DEF SmallestInv, Sorted, Kept, Passed, Begun
<1>3. ASSUME NEW d \in Device, ClaimIndex(d), index[myIndex[d]] = Nobody PROVE SmallestInv'
  <2>1. /\ \A e \in Device : e # d => pc'[e] = pc[e]
        /\ pc[d] \in InSetId /\ pc'[d] = "setex"
    BY <1>3, <1>t DEF ClaimIndex, Goto, TypeOK, InSetId
  <2>2. \A e \in Device : pc'[e] \notin {"hdel", "hsetnx"}
    BY <1>m, <2>1 DEF InSetId
  <2> QED
    BY <2>2 DEF SmallestInv, Sorted, Kept, Passed, Begun
<1>4. ASSUME NEW d \in Device, ClaimIndex(d), index[myIndex[d]] # Nobody PROVE SmallestInv'
  <2>1. /\ index' = index /\ uuidList' = uuidList /\ indexExpired' = indexExpired /\ pc' = pc
        /\ myIndex[d] \in Index /\ myIndex'[d] = myIndex[d] + 1 /\ pc[d] = "hsetnx"
        /\ \A e \in Device : e # d => myIndex'[e] = myIndex[e]
    BY <1>4, <1>t DEF ClaimIndex, TypeOK
  <2>2. \A j \in Index : j < myIndex'[d] => j < myIndex[d] \/ j = myIndex[d]
    BY <2>1 DEF Index
  <2> QED
    BY <1>4, <2>1, <2>2 DEF SmallestInv, Sorted, Kept, Passed, Begun
<1>5. ASSUME NEW d \in Device, TryLock(d) \/ ScanPresence(d) \/ ReadUuids(d) \/ SetPresence(d)
      PROVE  SmallestInv'
  BY <1>5, <1>t, HashUntouched
     DEF TryLock, ScanPresence, ReadUuids, SetPresence, Goto, TypeOK, locals
<1>6. ASSUME NEW d \in Device, Unlock(d) \/ Crashes(d) \/ Restarts(d) \/ ResetTtl(d)
      PROVE  SmallestInv'
  BY <1>6, <1>t, HashUntouched
     DEF Unlock, Crashes, Restarts, ResetTtl, Gone, Forget, Goto, TypeOK, locals
<1>7. ASSUME NEW i \in Index, PresenceExpires(i) PROVE SmallestInv'
  BY <1>7, HashUntouched DEF PresenceExpires, locals
<1>8. CASE LockExpires
  BY <1>8, HashUntouched DEF LockExpires, locals
<1>9. CASE UNCHANGED vars
  BY <1>9, HashUntouched DEF vars, locals
<1>10. /\ \A d \in Device : ~CommandThrows(d) /\ ~UnregisterKeys(d) /\ ~UnregisterIndex(d)
       /\ \A i \in Index : ~ProcessExpiredKey(i)
  BY DEF CommandThrows, UnregisterKeys, UnregisterIndex, ProcessExpiredKey, CrashesOnly, OwnerInv, Quiet
<1> QED
  BY <1>1, <1>2, <1>3, <1>4, <1>5, <1>6, <1>7, <1>8, <1>9, <1>10 DEF Next, SetId

\* The claim of an index passes over none that a dead process left behind.
LEMMA ClaimIsSmallest ==
    ASSUME OwnerInv, SmallestInv, [Next]_vars,
           NEW d \in Device, pc[d] = "hsetnx", pc'[d] = "setex",
           NEW j \in Index, j < fId'[d]
    PROVE  index[j] \in uuidList[d]
<1>t. TypeOK
  BY DEF OwnerInv
<1>1. ClaimIndex(d)
  <2>1. ASSUME NEW e \in Device, SetId(e) PROVE ClaimIndex(d)
    BY <1>t, <2>1 DEF SetId, TryLock, ScanPresence, ReadUuids, ReadIndex, PurgeExpired,
                      ClaimIndex, SetPresence, Unlock, Goto, TypeOK
  <2>2. ASSUME NEW e \in Device,
               \/ ResetTtl(e) \/ UnregisterKeys(e) \/ UnregisterIndex(e)
               \/ CommandThrows(e) \/ Crashes(e) \/ Restarts(e)
        PROVE  FALSE
    BY <1>t, <2>2 DEF ResetTtl, UnregisterKeys, UnregisterIndex, CommandThrows, Crashes,
                      Restarts, Gone, Goto, TypeOK
  <2>3. pc' # pc
    BY <1>t DEF TypeOK
  <2> QED
    BY <2>1, <2>2, <2>3 DEF Next, LockExpires, PresenceExpires, ProcessExpiredKey, vars
<1>2. fId'[d] = myIndex[d]
  BY <1>1, <1>t DEF ClaimIndex, TypeOK
<1> QED
  BY <1>2 DEF SmallestInv, Kept, Passed

\* Where processes only crash and start again, SetId takes the smallest index:
\* every smaller one belongs to a process that had a presence key.
THEOREM SmallestIndex == ASSUME CrashesOnly PROVE Spec => TakesSmallestIndex
<1>1. Init => SmallestInv
  BY DEF Init, SmallestInv, Sorted, Kept, Passed, Begun
<1>2. OwnerInv /\ SmallestInv /\ [Next]_vars => SmallestInv'
  BY SmallestStep
<1>3. OwnerInv /\ SmallestInv /\ [Next]_vars
          => [\A d \in Device : (pc[d] = "hsetnx" /\ pc'[d] = "setex") =>
                  \A j \in Index : j < fId'[d] => index[j] \in uuidList[d]]_vars
  BY ClaimIsSmallest
<1> QED
  BY <1>1, <1>2, <1>3, OwnerAlways, PTL DEF Spec, TakesSmallestIndex

=============================================================================
