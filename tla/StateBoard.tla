----------------------------- MODULE StateBoard -----------------------------
(***************************************************************************)
(* The board of the web controller: the thread that polls the states of    *)
(* the instances in Redis and sends a summary to every page                *)
(* (WebGui::PollState and SendStateSummary), the WebSocket sessions it     *)
(* sends them to (run_daq-webctl.cxx, websocket_session.cxx), and what a   *)
(* page (share/controller/daq-webctl.html) makes of a summary.             *)
(*                                                                         *)
(* A summary tells whether the list of services and the list of instances  *)
(* have changed; a page that has its lists rebuilds them only then.        *)
(*                                                                         *)
(* The sending thread goes through wsSessions without the mutex that the   *)
(* sessions' threads take to change it.  An id is never used again.        *)
(***************************************************************************)
EXTENDS Naturals, FiniteSets

CONSTANTS
    Page,           \* the pages that connect, one session each
    Instance,       \* the instances of services
    ServiceOf,      \* the service of an instance
    MaxChanges,     \* bound on the instances that come and go
    None            \* no lists yet, or no summary

ASSUME ServiceAssumption == DOMAIN ServiceOf = Instance /\ IsFiniteSet(Instance)
ASSUME ChangesAssumption == MaxChanges \in Nat

ServicesOf(T) == {ServiceOf[i] : i \in T}
Service       == ServicesOf(Instance)

Summary == [table : SUBSET Instance, service_list_changed : {"true", "false"},
            instance_list_changed : {"true", "false"}]

ASSUME NoneAssumption ==
    /\ \A m \in Summary : m # None
    /\ \A S \in SUBSET Service : S # None
    /\ \A T \in SUBSET Instance : T # None

VARIABLES
    redis,          \* the instances with a state in Redis
    changes,        \* how many have come and gone
    prevTable,      \* the instances of the last summary
    summary,        \* the summary being sent
    todo,           \* the sessions it is still to be sent to
    wsSessions,     \* the sessions by id: none, a session, or an empty pointer
    conn,           \* the connections as they are
    services,       \* the list of services a page offers
    instances,      \* the list of instances a page offers
    missed,         \* history: whether a page has missed a summary since its
                    \* lists were built
    server          \* whether the process is up

vars == <<redis, changes, prevTable, summary, todo, wsSessions, conn, services,
          instances, missed, server>>

board == <<prevTable, summary, services, instances>>

Init ==
    /\ redis = {} /\ changes = 0
    /\ prevTable = {} /\ summary = None /\ todo = {}
    /\ wsSessions = [p \in Page |-> "none"]
    /\ conn = [p \in Page |-> "new"]
    /\ services = [p \in Page |-> None]
    /\ instances = [p \in Page |-> None]
    /\ missed = [p \in Page |-> "no"]
    /\ server = "up"

-----------------------------------------------------------------------------
(* The instances, and the browsers that vanish.                             *)

InstanceComesOrGoes ==
    /\ changes < MaxChanges
    /\ changes' = changes + 1
    /\ \E i \in Instance : redis' = IF i \in redis THEN redis \ {i} ELSE redis \union {i}
    /\ UNCHANGED <<board, todo, wsSessions, conn, missed, server>>

Vanish(p) ==
    /\ conn[p] = "open"
    /\ conn' = [conn EXCEPT ![p] = "lost"]
    /\ UNCHANGED <<redis, changes, board, todo, wsSessions, missed, server>>

-----------------------------------------------------------------------------
(* The poll thread.                                                         *)

Changed(b) == IF b THEN "true" ELSE "false"

SummaryOfSizes(T) ==
    LET sizes(s) == Cardinality({i \in T : ServiceOf[i] = s})
                       # Cardinality({i \in prevTable : ServiceOf[i] = s})
    IN  [table |-> T,
         service_list_changed |->
            Changed(Cardinality(ServicesOf(T)) # Cardinality(ServicesOf(prevTable))),
         instance_list_changed |-> Changed(\E s \in Service : sizes(s))]

\* The comparison with the last table: by the numbers and then by the names,
\* first of services and then of each service's instances.
SummaryOf(T) ==
    LET of(s, U)  == {i \in U : ServiceOf[i] = s}
        service   == \/ Cardinality(ServicesOf(T)) # Cardinality(ServicesOf(prevTable))
                     \/ \E s \in ServicesOf(T) : s \notin ServicesOf(prevTable)
        instance  == \E s \in ServicesOf(T) :
                        \/ Cardinality(of(s, T)) # Cardinality(of(s, prevTable))
                        \/ \E i \in of(s, T) : i \notin of(s, prevTable)
    IN  [table |-> T,
         service_list_changed |-> Changed(service),
         instance_list_changed |-> Changed(service \/ instance)]

BroadcastChanges(m) ==
    LET ids == {p \in Page : wsSessions[p] # "none" /\ m.instance_list_changed = "true"}
    IN  /\ summary' = IF ids = {} THEN None ELSE m
        /\ todo' = ids

\* Send(0, ...) of what PollState has read; it returns if there is no session.
Broadcast(m) ==
    LET ids == {p \in Page : wsSessions[p] # "none"}
    IN  /\ summary' = IF ids = {} THEN None ELSE m
        /\ todo' = ids

\* PollState and the beginning of SendStateSummary.
PollState ==
    /\ todo = {}
    /\ Broadcast(SummaryOf(redis))
    /\ prevTable' = redis
    /\ UNCHANGED <<redis, changes, wsSessions, conn, services, instances, missed, server>>

\* An exception of a Redis command, or of a state that has no name, leaves the
\* thread's function and ends the process.
PollStateThrows ==
    /\ todo = {}
    /\ server' = "down"
    /\ UNCHANGED <<redis, changes, board, todo, wsSessions, conn, missed>>

\* UpdateSummaryTable of the page.  A summary without services has no array to
\* go through, and the page gives up.
UpdateTargets(p) ==
    LET rebuild(shown, changed) ==
            summary.table # {} /\ (shown = None \/ changed = "true")
        s == rebuild(services[p], summary.service_list_changed)
        i == rebuild(instances[p], summary.instance_list_changed)
    IN  /\ services' = IF s THEN [services EXCEPT ![p] = ServicesOf(summary.table)]
                            ELSE services
        /\ instances' = IF i THEN [instances EXCEPT ![p] = summary.table]
                             ELSE instances
        /\ missed' = IF s THEN [missed EXCEPT ![p] = "no"] ELSE missed

SentAndKept(T) == todo' = T /\ UNCHANGED summary

\* The sessions in T are left of the broadcast.
Sent(T) == todo' = T /\ summary' = IF T = {} THEN None ELSE summary

\* Write to a page that is there.
WriteArrives(p) ==
    /\ p \in todo /\ wsSessions[p] = "session" /\ conn[p] = "open"
    /\ UpdateTargets(p)
    /\ Sent(todo \ {p})
    /\ UNCHANGED <<redis, changes, prevTable, wsSessions, conn, server>>

\* The peer has vanished.  The message goes to the socket's buffer and is lost, or
\* write() throws, SendStateSummary catches it and the others get nothing.
WriteIsLost(p) ==
    /\ p \in todo /\ wsSessions[p] = "session" /\ conn[p] = "lost"
    /\ \/ Sent(todo \ {p}) /\ UNCHANGED missed
       \/ /\ Sent({})
          /\ missed' = [q \in Page |-> IF q \in todo \ {p} THEN "yes" ELSE missed[q]]
    /\ UNCHANGED <<redis, changes, prevTable, wsSessions, conn, services, instances, server>>

\* An entry is inserted while the sessions in ids are left of the broadcast.  A
\* new entry may be visited or not, and when the table is rehashed its order is
\* another: the thread skips sessions, or comes to some again.
Inserted(ids) ==
    \/ Sent(ids) /\ UNCHANGED missed
    \/ \E T \in SUBSET (ids \union {q \in Page : wsSessions'[q] # "none"}) :
          /\ Sent(T)
          /\ missed' = [q \in Page |-> IF q \in ids \ T THEN "yes" ELSE missed[q]]

\* The pointer is empty.  operator[] makes an entry for a session that has been
\* erased meanwhile, if it does not follow a dangling reference.
WriteToNobody(p) ==
    /\ p \in todo
    /\ \/ /\ wsSessions[p] = "empty"
          /\ Sent(todo \ {p})
          /\ UNCHANGED <<wsSessions, missed, server>>
       \/ /\ wsSessions[p] = "none"
          /\ wsSessions' = [wsSessions EXCEPT ![p] = "empty"]
          /\ Inserted(todo \ {p})
          /\ UNCHANGED server
       \/ /\ wsSessions[p] = "none"
          /\ server' = "down"
          /\ Sent(todo \ {p})
          /\ UNCHANGED <<wsSessions, missed>>
    /\ UNCHANGED <<redis, changes, prevTable, conn, services, instances>>

-----------------------------------------------------------------------------
(* The sessions' threads.                                                   *)

\* The list of connections is sent to every session.  An exception of write()
\* is not caught and ends the process.
SendWebSocketIdList ==
    \/ UNCHANGED server
    \/ /\ \E q \in Page : wsSessions'[q] = "session" /\ conn'[q] = "lost"
       /\ server' = "down"

\* on_accept and OnConnect, whose insertion may meet a broadcast.
OnConnect(p) ==
    /\ conn[p] = "new"
    /\ conn' = [conn EXCEPT ![p] = "open"]
    /\ wsSessions' = [wsSessions EXCEPT ![p] = "session"]
    /\ \/ todo = {} /\ UNCHANGED <<todo, summary, missed>>
       \/ todo # {} /\ Inserted(todo)
    /\ SendWebSocketIdList
    /\ UNCHANGED <<redis, changes, prevTable, services, instances>>

\* on_read fails and OnClose erases the session.  The poll thread may have taken
\* its id already.
OnClose(p) ==
    /\ conn[p] = "lost"
    /\ conn' = [conn EXCEPT ![p] = "closed"]
    /\ wsSessions' = [wsSessions EXCEPT ![p] = "none"]
    /\ \/ UNCHANGED <<todo, summary>>
       \/ p \in todo /\ Sent(todo \ {p})
    /\ SendWebSocketIdList
    /\ UNCHANGED <<redis, changes, prevTable, services, instances, missed>>

-----------------------------------------------------------------------------
Write(p) == WriteArrives(p) \/ WriteIsLost(p) \/ WriteToNobody(p)

Poll == PollState \/ \E p \in Page : Write(p)

Next ==
    /\ server = "up"
    /\ \/ InstanceComesOrGoes
       \/ Poll
       \/ PollStateThrows
       \/ \E p \in Page : Vanish(p) \/ OnConnect(p) \/ OnClose(p)

Spec == Init /\ [][Next]_vars

\* The poll thread goes on, and a lost connection is noticed in the end: the
\* sessions have Beast's suggested timeouts.
FairSpec ==
    /\ Spec
    /\ WF_vars(server = "up" /\ PollState)
    /\ \A p \in Page : WF_vars(server = "up" /\ Write(p))
    /\ \A p \in Page : WF_vars(server = "up" /\ OnClose(p))

-----------------------------------------------------------------------------
(* Properties.                                                              *)

\* Type invariant (WebGui.h, wsSessions).
TypeOK ==
    /\ redis \subseteq Instance /\ changes \in Nat
    /\ prevTable \subseteq Instance
    /\ summary \in Summary \union {None}
    /\ todo \subseteq Page /\ (todo = {} <=> summary = None)
    /\ wsSessions \in [Page -> {"none", "session", "empty"}]
    /\ conn \in [Page -> {"new", "open", "lost", "closed"}]
    /\ services \in [Page -> (SUBSET Service) \union {None}]
    /\ instances \in [Page -> (SUBSET Instance) \union {None}]
    /\ missed \in [Page -> {"yes", "no"}]
    /\ server \in {"up", "down"}

\* A page that has missed no summary offers the services and the instances of
\* the last one, although it is told only that the lists have changed and may
\* have come in the middle of a broadcast (SendStateSummary, UpdateTargetServices,
\* UpdateTargetInstances).
ListsAreCurrent ==
    \A p \in Page :
        /\ conn[p] = "open" /\ missed[p] = "no" /\ p \notin todo
        /\ services[p] # None /\ prevTable # {}
        => services[p] = ServicesOf(prevTable) /\ instances[p] = prevTable

\* A page that connects is shown the lists in the end, unless there is nothing
\* to show, it goes away, or the process ends (SendStateSummary, Send).
NewPageIsServed ==
    \A p \in Page :
        conn[p] = "open" ~> (\/ services[p] # None \/ conn[p] # "open"
                             \/ server = "down" \/ redis = {})
=============================================================================
