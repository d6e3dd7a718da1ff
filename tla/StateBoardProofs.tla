-------------------------- MODULE StateBoardProofs --------------------------
(***************************************************************************)
(* Proofs about StateBoard, for any pages, instances and services.         *)
(***************************************************************************)
EXTENDS StateBoard, FiniteSetTheorems, TLAPS

-----------------------------------------------------------------------------
(***************************************************************************)
(* What a summary says of two tables.                                      *)
(***************************************************************************)

\* Finitely many instances have finitely many services.
LEMMA ServicesFinite ==
    ASSUME NEW T \in SUBSET Instance
    PROVE  IsFiniteSet(ServicesOf(T)) /\ ServicesOf(T) \subseteq Service
<1> DEFINE of == [i \in T |-> ServiceOf[i]]
<1>1. IsFiniteSet(T)
  BY ServiceAssumption, FS_Subset
<1>2. of \in Surjection(T, ServicesOf(T))
  BY DEF Surjection, ServicesOf
<1>3. IsFiniteSet(ServicesOf(T))
  BY <1>1, <1>2, FS_Surjection
<1> QED
  BY <1>3 DEF ServicesOf, Service

\* Comparing the numbers and then looking the names up one way is enough: a
\* summary that reports no change of a list comes from tables in which the list
\* is the same.
LEMMA SummaryIsRight ==
    ASSUME NEW T \in SUBSET Instance, prevTable \in SUBSET Instance
    PROVE  /\ SummaryOf(T) \in Summary /\ SummaryOf(T).table = T
           /\ SummaryOf(T).service_list_changed = "false"
                => ServicesOf(T) = ServicesOf(prevTable)
           /\ SummaryOf(T).instance_list_changed = "false" => T = prevTable
           /\ SummaryOf(T).service_list_changed = "true"
                => SummaryOf(T).instance_list_changed = "true"
<1> DEFINE of(s, U) == {i \in U : ServiceOf[i] = s}
           service  == \/ Cardinality(ServicesOf(T)) # Cardinality(ServicesOf(prevTable))
                       \/ \E s \in ServicesOf(T) : s \notin ServicesOf(prevTable)
           instance == \E s \in ServicesOf(T) :
                          \/ Cardinality(of(s, T)) # Cardinality(of(s, prevTable))
                          \/ \E i \in of(s, T) : i \notin of(s, prevTable)
<1>1. SummaryOf(T) = [table |-> T, service_list_changed |-> Changed(service),
                      instance_list_changed |-> Changed(service \/ instance)]
  BY DEF SummaryOf
<1>2. ASSUME ~service PROVE ServicesOf(T) = ServicesOf(prevTable)
  <2>1. ServicesOf(T) \in SUBSET ServicesOf(prevTable) /\ IsFiniteSet(ServicesOf(prevTable))
    BY <1>2, ServicesFinite
  <2>2. Cardinality(ServicesOf(prevTable)) = Cardinality(ServicesOf(T))
    BY <1>2
  <2> QED  BY <2>1, <2>2, FS_Subset
<1>3. ASSUME ~service, ~instance PROVE T = prevTable
  <2>1. ASSUME NEW s \in ServicesOf(T) PROVE of(s, T) = of(s, prevTable)
    <3>1. IsFiniteSet(of(s, prevTable))
      BY ServiceAssumption, FS_Subset
    <3>2. of(s, T) \in SUBSET of(s, prevTable)
      BY <1>3
    <3>3. Cardinality(of(s, prevTable)) = Cardinality(of(s, T))
      BY <1>3
    <3> HIDE DEF of
    <3> QED  BY <3>1, <3>2, <3>3, FS_Subset
  <2>2. ASSUME NEW i \in T PROVE i \in prevTable
    <3>1. ServiceOf[i] \in ServicesOf(T) /\ i \in of(ServiceOf[i], T)
      BY DEF ServicesOf
    <3> QED  BY <3>1, <2>1
  <2>3. ASSUME NEW i \in prevTable PROVE i \in T
    <3>1. ServiceOf[i] \in ServicesOf(T) /\ i \in of(ServiceOf[i], prevTable)
      BY <1>2, <1>3 DEF ServicesOf
    <3> QED  BY <3>1, <2>1
  <2> QED  BY <2>2, <2>3
<1> HIDE DEF service, instance
<1>4. Changed(service) \in {"true", "false"} /\ Changed(service \/ instance) \in {"true", "false"}
  BY DEF Changed
<1>5. /\ Changed(service) = "false" => ~service
      /\ Changed(service \/ instance) = "false" => ~service /\ ~instance
      /\ Changed(service) = "true" => Changed(service \/ instance) = "true"
  BY DEF Changed
<1> QED
  BY <1>1, <1>2, <1>3, <1>4, <1>5 DEF Summary

\* Leaving nothing and coming from nothing are changes of the services.
LEMMA FromNothing ==
    ASSUME NEW T \in SUBSET Instance, T # {}, prevTable = {}
    PROVE  SummaryOf(T).service_list_changed = "true"
<1>1. ServicesOf(T) # {} /\ ServicesOf(prevTable) = {}
  BY DEF ServicesOf
<1>2. SummaryOf(T) \in Summary
      /\ (SummaryOf(T).service_list_changed = "false" => ServicesOf(T) = ServicesOf(prevTable))
  BY SummaryIsRight
<1> QED
  BY <1>1, <1>2 DEF Summary

-----------------------------------------------------------------------------
(***************************************************************************)
(* Types.                                                                  *)
(***************************************************************************)

\* The summary under way always has somebody to go to.
LEMMA SentType ==
    ASSUME TypeOK, todo # {}, NEW T \in SUBSET Page, Sent(T)
    PROVE  /\ summary' \in Summary \union {None} /\ todo' \subseteq Page
           /\ (todo' = {} <=> summary' = None)
  BY NoneAssumption DEF TypeOK, Sent

\* So it has when an entry is inserted.
LEMMA InsertedType ==
    ASSUME TypeOK, todo # {}, NEW T \in SUBSET todo, Inserted(T)
    PROVE  /\ summary' \in Summary \union {None} /\ todo' \subseteq Page
           /\ (todo' = {} <=> summary' = None)
           /\ missed' \in [Page -> {"yes", "no"}]
<1>1. T \in SUBSET Page
  BY DEF TypeOK
<1>2. PICK U \in SUBSET Page : Sent(U)
  BY <1>1 DEF Inserted
<1>3. missed' \in [Page -> {"yes", "no"}]
  BY DEF Inserted, TypeOK
<1> QED
  BY <1>2, <1>3, SentType

\* Every step of the browsers, the poll thread and the instances keeps the types.
LEMMA TypeStep == TypeOK /\ [Next]_vars => TypeOK'
<1> SUFFICES ASSUME TypeOK, [Next]_vars PROVE TypeOK'
  OBVIOUS
<1> USE DEF board
<1>1. CASE InstanceComesOrGoes
  BY <1>1 DEF InstanceComesOrGoes, TypeOK
<1>2. ASSUME NEW p \in Page, Vanish(p) PROVE TypeOK'
  BY <1>2 DEF Vanish, TypeOK
<1>3. CASE PollState
  <2> DEFINE ids == {p \in Page : wsSessions[p] # "none"}
             m == SummaryOf(redis)
  <2>1. m \in Summary /\ m # None
    BY SummaryIsRight, NoneAssumption DEF TypeOK
  <2>2. /\ summary' = IF ids = {} THEN None ELSE m
        /\ todo' = ids
    BY <1>3 DEF PollState, Broadcast
  <2> HIDE DEF m
  <2>3. summary' \in Summary \union {None} /\ todo' \subseteq Page /\ (todo' = {} <=> summary' = None)
    BY <2>1, <2>2
  <2> QED  BY <1>3, <2>3 DEF PollState, TypeOK
<1>4. CASE PollStateThrows
  BY <1>4 DEF PollStateThrows, TypeOK
<1>5. ASSUME NEW p \in Page, WriteArrives(p) PROVE TypeOK'
  <2>1. summary \in Summary
    BY <1>5 DEF WriteArrives, TypeOK
  <2>2. ServicesOf(summary.table) \subseteq Service /\ summary.table \subseteq Instance
    BY <2>1, ServicesFinite DEF Summary
  <2>3. /\ services' \in [Page -> (SUBSET Service) \union {None}]
        /\ instances' \in [Page -> (SUBSET Instance) \union {None}]
        /\ missed' \in [Page -> {"yes", "no"}]
    BY <1>5, <2>2 DEF WriteArrives, UpdateTargets, TypeOK
  <2>4. /\ summary' \in Summary \union {None} /\ todo' \subseteq Page
        /\ (todo' = {} <=> summary' = None)
    BY <1>5, SentType DEF WriteArrives, TypeOK
  <2> QED  BY <1>5, <2>3, <2>4 DEF WriteArrives, TypeOK
<1>6. ASSUME NEW p \in Page, WriteIsLost(p) PROVE TypeOK'
  <2>1. /\ summary' \in Summary \union {None} /\ todo' \subseteq Page
        /\ (todo' = {} <=> summary' = None)
    BY <1>6, SentType DEF WriteIsLost, TypeOK
  <2>2. missed' \in [Page -> {"yes", "no"}]
    BY <1>6 DEF WriteIsLost, TypeOK
  <2> QED  BY <1>6, <2>1, <2>2 DEF WriteIsLost, TypeOK
<1>7. ASSUME NEW p \in Page, WriteToNobody(p) PROVE TypeOK'
  <2>1. /\ summary' \in Summary \union {None} /\ todo' \subseteq Page
        /\ (todo' = {} <=> summary' = None)
        /\ missed' \in [Page -> {"yes", "no"}]
    <3>1. CASE Inserted(todo \ {p})
      BY <1>7, <3>1, InsertedType DEF WriteToNobody
    <3>2. CASE Sent(todo \ {p}) /\ UNCHANGED missed
      BY <1>7, <3>2, SentType DEF WriteToNobody, TypeOK
    <3> QED  BY <1>7, <3>1, <3>2 DEF WriteToNobody
  <2> QED  BY <1>7, <2>1 DEF WriteToNobody, TypeOK
<1>8. ASSUME NEW p \in Page, OnConnect(p) PROVE TypeOK'
  <2>1. /\ summary' \in Summary \union {None} /\ todo' \subseteq Page
        /\ (todo' = {} <=> summary' = None)
        /\ missed' \in [Page -> {"yes", "no"}]
    <3>1. CASE todo # {} /\ Inserted(todo)
      BY <3>1, InsertedType
    <3>2. CASE UNCHANGED <<todo, summary, missed>>
      BY <3>2 DEF TypeOK
    <3> QED  BY <1>8, <3>1, <3>2 DEF OnConnect
  <2> QED  BY <1>8, <2>1 DEF OnConnect, SendWebSocketIdList, TypeOK
<1>9. ASSUME NEW p \in Page, OnClose(p) PROVE TypeOK'
  <2>1. /\ summary' \in Summary \union {None} /\ todo' \subseteq Page
        /\ (todo' = {} <=> summary' = None)
    <3>1. CASE UNCHANGED <<todo, summary>>
      BY <3>1 DEF TypeOK
    <3>2. CASE p \in todo /\ Sent(todo \ {p})
      BY <3>2, SentType DEF TypeOK
    <3> QED  BY <1>9, <3>1, <3>2 DEF OnClose
  <2> QED  BY <1>9, <2>1 DEF OnClose, SendWebSocketIdList, TypeOK
<1>10. CASE UNCHANGED vars
  BY <1>10 DEF vars, TypeOK
<1> QED
  BY <1>1, <1>2, <1>3, <1>4, <1>5, <1>6, <1>7, <1>8, <1>9, <1>10 DEF Next, Poll, Write

\* Nobody is connected at the start, and nothing is under way.
LEMMA InitType == Init => TypeOK
  BY NoneAssumption DEF Init, TypeOK

\* Every member keeps its type, and a summary is under way exactly while it has
\* somebody left to go to.
THEOREM TypeCorrect == Spec => []TypeOK
<1>1. TypeOK /\ [Next]_vars => TypeOK'
  BY TypeStep
<1> QED
  BY <1>1, InitType, PTL DEF Spec

-----------------------------------------------------------------------------
\* Exactly the connections that have not been closed have a session, as long as
\* the process is up.
SessionsAreConnections ==
    server = "up" =>
        \A p \in Page : wsSessions[p] = "session" <=> conn[p] \in {"open", "lost"}

\* The threads of the sessions and the poll thread keep sessions and connections
\* together as long as the process is up.
LEMMA SessionsStep ==
    ASSUME TypeOK, SessionsAreConnections, [Next]_vars
    PROVE  SessionsAreConnections'
<1> USE DEF board
<1>1. ASSUME NEW p \in Page, Vanish(p) PROVE SessionsAreConnections'
  BY <1>1 DEF Vanish, SessionsAreConnections, TypeOK
<1>2. ASSUME NEW p \in Page, WriteToNobody(p) PROVE SessionsAreConnections'
  BY <1>2 DEF WriteToNobody, SessionsAreConnections, TypeOK
<1>3. ASSUME NEW p \in Page, OnConnect(p), server = "up" PROVE SessionsAreConnections'
  BY <1>3 DEF OnConnect, SessionsAreConnections, TypeOK
<1>4. ASSUME NEW p \in Page, OnClose(p), server = "up" PROVE SessionsAreConnections'
  BY <1>4 DEF OnClose, SessionsAreConnections, TypeOK
<1>5. CASE UNCHANGED <<wsSessions, conn>> /\ (server = "up" \/ UNCHANGED server)
  BY <1>5 DEF SessionsAreConnections
<1> QED
  BY <1>1, <1>2, <1>3, <1>4, <1>5 DEF Next, Poll, Write, InstanceComesOrGoes, PollState,
     PollStateThrows, WriteArrives, WriteIsLost, vars

-----------------------------------------------------------------------------
(***************************************************************************)
(* The lists of a page.                                                    *)
(***************************************************************************)

\* What is being sent is the last table, and tells of the instances whenever it
\* tells of the services.
Broadcasts ==
    todo # {} => /\ summary.table = prevTable
                 /\ summary.service_list_changed = "true"
                      => summary.instance_list_changed = "true"

\* A page has both lists or none, and none before it has connected.
BothLists ==
    \A p \in Page : /\ services[p] = None <=> instances[p] = None
                    /\ conn[p] = "new" => services[p] = None

\* A page that follows the summaries.
Follows(p) == conn[p] = "open" /\ missed[p] = "no" /\ services[p] # None /\ prevTable # {}

\* What the summary on its way to a page does not report as changed, the page
\* has got already.
InTransit ==
    \A p \in todo :
        Follows(p) =>
            /\ summary.service_list_changed = "false" => services[p] = ServicesOf(prevTable)
            /\ summary.instance_list_changed = "false" => instances[p] = prevTable

ListsInv ==
    /\ TypeOK /\ SessionsAreConnections
    /\ Broadcasts /\ BothLists /\ InTransit /\ ListsAreCurrent

\* Until it is over a broadcast stays what it is.
LEMMA SentKeeps ==
    ASSUME ListsInv, todo # {}, NEW T \in SUBSET Page, Sent(T), UNCHANGED prevTable
    PROVE  Broadcasts' /\ (T # {} => summary' = summary)
  BY DEF Sent, ListsInv, Broadcasts

\* A poll compares with the table the pages have been told of.
LEMMA PollLists ==
    ASSUME ListsInv, PollState, server = "up"
    PROVE  Broadcasts' /\ BothLists' /\ InTransit' /\ ListsAreCurrent'
<1> DEFINE m == SummaryOf(redis)
<1>t. TypeOK /\ redis \in SUBSET Instance /\ prevTable \in SUBSET Instance
  BY DEF ListsInv, TypeOK
<1>1. /\ m \in Summary /\ m.table = redis
      /\ m.service_list_changed = "false" => ServicesOf(redis) = ServicesOf(prevTable)
      /\ m.instance_list_changed = "false" => redis = prevTable
      /\ m.service_list_changed = "true" => m.instance_list_changed = "true"
  BY <1>t, SummaryIsRight
<1>2. redis # {} /\ prevTable = {} => m.service_list_changed = "true"
  BY <1>t, FromNothing
<1>3. /\ todo = {} /\ prevTable' = redis
      /\ UNCHANGED <<conn, services, instances, missed>>
      /\ todo' = {p \in Page : wsSessions[p] # "none"}
      /\ summary' = IF todo' = {} THEN None ELSE m
  BY DEF PollState, Broadcast
<1> HIDE DEF m
<1>4. Broadcasts'
  BY <1>1, <1>3 DEF Broadcasts
<1>5. BothLists'
  BY <1>3 DEF ListsInv, BothLists
<1>6. InTransit'
  <2> SUFFICES ASSUME NEW p \in todo', Follows(p)'
               PROVE  /\ m.service_list_changed = "false" => services[p] = ServicesOf(redis)
                      /\ m.instance_list_changed = "false" => instances[p] = redis
    BY <1>3 DEF InTransit
  <2>1. p \in Page /\ conn[p] = "open" /\ missed[p] = "no" /\ services[p] # None /\ redis # {}
    BY <1>3 DEF Follows
  <2>2. CASE prevTable = {}
    BY <1>1, <1>2, <2>1, <2>2
  <2>3. CASE prevTable # {}
    <3>1. services[p] = ServicesOf(prevTable) /\ instances[p] = prevTable
      BY <1>3, <2>1, <2>3 DEF ListsInv, ListsAreCurrent
    <3> QED  BY <1>1, <3>1
  <2> QED  BY <2>2, <2>3
<1>7. ListsAreCurrent'
  <2> SUFFICES ASSUME NEW p \in Page, conn'[p] = "open", p \notin todo'
               PROVE  FALSE
    BY DEF ListsAreCurrent
  <2> QED
    BY <1>3 DEF ListsInv, SessionsAreConnections, PollState
<1> QED
  BY <1>4, <1>5, <1>6, <1>7

\* A summary that arrives brings the lists of its page up to date.
LEMMA ArrivesLists ==
    ASSUME ListsInv, NEW p \in Page, WriteArrives(p)
    PROVE  Broadcasts' /\ BothLists' /\ InTransit' /\ ListsAreCurrent'
<1> DEFINE T == summary.table
           s == T # {} /\ (services[p] = None \/ summary.service_list_changed = "true")
           i == T # {} /\ (instances[p] = None \/ summary.instance_list_changed = "true")
<1>t. TypeOK /\ p \in todo /\ conn[p] = "open"
  BY DEF ListsInv, WriteArrives
<1>1. summary \in Summary /\ T = prevTable
  BY <1>t DEF TypeOK, ListsInv, Broadcasts
<1>2. T # None /\ ServicesOf(T) # None
  BY <1>1, ServicesFinite, NoneAssumption DEF Summary
<1>3. /\ services' = IF s THEN [services EXCEPT ![p] = ServicesOf(T)] ELSE services
      /\ instances' = IF i THEN [instances EXCEPT ![p] = T] ELSE instances
      /\ missed' = IF s THEN [missed EXCEPT ![p] = "no"] ELSE missed
      /\ UNCHANGED <<conn, prevTable>>
      /\ todo' = todo \ {p}
  BY DEF WriteArrives, UpdateTargets, Sent
<1>4. Broadcasts' /\ (todo' # {} => summary' = summary)
  BY <1>t, <1>3, SentKeeps DEF WriteArrives, TypeOK
<1>5. s => i
  BY <1>t DEF ListsInv, BothLists, Broadcasts
<1>6. /\ services'[p] = IF s THEN ServicesOf(T) ELSE services[p]
      /\ instances'[p] = IF i THEN T ELSE instances[p]
      /\ missed'[p] = IF s THEN "no" ELSE missed[p]
      /\ \A q \in Page \ {p} : /\ services'[q] = services[q] /\ instances'[q] = instances[q]
                               /\ missed'[q] = missed[q]
  BY <1>3, <1>t DEF TypeOK
<1> HIDE DEF s, i, T
<1>7. BothLists'
  <2>1. services'[p] = None <=> instances'[p] = None
    <3>1. ~s /\ i => services[p] # None
      BY DEF s, i
    <3> QED  BY <1>2, <1>5, <1>6, <3>1 DEF ListsInv, BothLists
  <2> QED  BY <2>1, <1>3, <1>6, <1>t DEF ListsInv, BothLists
<1>8. InTransit'
  <2> SUFFICES ASSUME NEW q \in todo', Follows(q)'
               PROVE  /\ summary.service_list_changed = "false" => services[q] = ServicesOf(prevTable)
                      /\ summary.instance_list_changed = "false" => instances[q] = prevTable
    BY <1>3, <1>4, <1>6, <1>t DEF InTransit, TypeOK
  <2>1. q \in todo /\ q \in Page \ {p}
    BY <1>3, <1>t DEF TypeOK
  <2>2. Follows(q)
    BY <2>1, <1>3, <1>6 DEF Follows
  <2> QED  BY <2>1, <2>2 DEF ListsInv, InTransit
<1>9. ListsAreCurrent'
  <2> SUFFICES ASSUME NEW q \in Page, q \notin todo', Follows(q)'
               PROVE  services'[q] = ServicesOf(prevTable) /\ instances'[q] = prevTable
    BY <1>3 DEF ListsAreCurrent, Follows
  <2>1. CASE q # p
    <3>1. q \notin todo /\ Follows(q)
      BY <1>3, <1>6, <2>1 DEF Follows
    <3>2. services[q] = ServicesOf(prevTable) /\ instances[q] = prevTable
      BY <3>1 DEF ListsInv, ListsAreCurrent, Follows
    <3> QED  BY <3>2, <1>6, <2>1
  <2>2. CASE q = p /\ s
    BY <1>1, <1>5, <1>6, <2>2
  <2>3. CASE q = p /\ ~s
    <3>1. Follows(p)
      BY <1>3, <1>6, <2>3 DEF Follows
    <3>2. summary.service_list_changed = "false" /\ T # {}
      BY <1>1, <3>1, <2>3 DEF s, Follows, Summary
    <3>3. services[p] = ServicesOf(prevTable)
      BY <1>t, <3>1, <3>2 DEF ListsInv, InTransit
    <3>4. CASE i
      BY <3>3, <3>4, <1>1, <1>6, <2>3
    <3>5. CASE ~i
      <4>1. summary.instance_list_changed = "false"
        BY <1>1, <3>2, <3>5 DEF i, Summary
      <4>2. instances[p] = prevTable
        BY <1>t, <3>1, <4>1 DEF ListsInv, InTransit
      <4> QED  BY <3>3, <3>5, <4>2, <1>6, <2>3
    <3> QED  BY <3>4, <3>5
  <2> QED  BY <2>1, <2>2, <2>3
<1> QED
  BY <1>4, <1>7, <1>8, <1>9

\* However a broadcast goes on: a page it comes to again has got the summary, and
\* one it leaves out does not follow any more.
LEMMA GoesOn ==
    ASSUME ListsInv, NEW T \in SUBSET Page,
           UNCHANGED <<prevTable, services, instances>>,
           \A q \in Page : conn'[q] = "new" => conn[q] = "new",
           \A q \in Page : Follows(q)' => Follows(q) /\ q \notin todo \ T,
           \/ todo # {} /\ Sent(T)
           \/ UNCHANGED <<todo, summary>> /\ T = todo
    PROVE  Broadcasts' /\ BothLists' /\ InTransit' /\ ListsAreCurrent'
<1>t. TypeOK
  BY DEF ListsInv
<1>1. todo' = T /\ Broadcasts' /\ (T # {} => summary' = summary)
  BY SentKeeps DEF Sent, ListsInv, Broadcasts
<1>2. BothLists'
  BY DEF ListsInv, BothLists
<1>3. ASSUME NEW q \in Page, Follows(q)', q \notin todo
      PROVE  services[q] = ServicesOf(prevTable) /\ instances[q] = prevTable
  BY <1>3 DEF ListsInv, ListsAreCurrent, Follows
<1>4. InTransit'
  <2> SUFFICES ASSUME NEW q \in T, Follows(q)'
               PROVE  /\ summary.service_list_changed = "false" => services[q] = ServicesOf(prevTable)
                      /\ summary.instance_list_changed = "false" => instances[q] = prevTable
    BY <1>1 DEF InTransit
  <2> QED  BY <1>3 DEF ListsInv, InTransit
<1>5. ListsAreCurrent'
  <2> SUFFICES ASSUME NEW q \in Page, q \notin T, Follows(q)'
               PROVE  services[q] = ServicesOf(prevTable) /\ instances[q] = prevTable
    BY <1>1 DEF ListsAreCurrent, Follows
  <2> QED  BY <1>3
<1> QED
  BY <1>1, <1>2, <1>4, <1>5

\* The pages that an insertion leaves out have missed the summary.
LEMMA InsertionMisses ==
    ASSUME ListsInv, todo # {}, NEW S \in SUBSET todo, Inserted(S)
    PROVE  \E T \in SUBSET Page :
              /\ Sent(T)
              /\ \A q \in Page : missed'[q] = "no" => missed[q] = "no" /\ q \notin S \ T
<1>t. TypeOK
  BY DEF ListsInv
<1>1. CASE Sent(S) /\ UNCHANGED missed
  BY <1>1, <1>t DEF TypeOK
<1>2. ASSUME NEW T \in SUBSET (S \union {q \in Page : wsSessions'[q] # "none"}), Sent(T),
             missed' = [q \in Page |-> IF q \in S \ T THEN "yes" ELSE missed[q]]
      PROVE  \E U \in SUBSET Page :
              /\ Sent(U)
              /\ \A q \in Page : missed'[q] = "no" => missed[q] = "no" /\ q \notin S \ U
  BY <1>2, <1>t DEF TypeOK
<1> QED
  BY <1>1, <1>2 DEF Inserted

\* A write that reaches nobody leaves the lists alone, and the pages it keeps
\* from getting the summary have missed it.
LEMMA LostLists ==
    ASSUME ListsInv, server = "up", NEW p \in Page, WriteIsLost(p) \/ WriteToNobody(p)
    PROVE  Broadcasts' /\ BothLists' /\ InTransit' /\ ListsAreCurrent'
<1>t. TypeOK /\ p \in todo /\ UNCHANGED <<prevTable, conn, services, instances>>
  BY DEF ListsInv, WriteIsLost, WriteToNobody
<1>1. conn[p] # "open"
  BY <1>t DEF ListsInv, SessionsAreConnections, WriteIsLost, WriteToNobody
<1>2. PICK T \in SUBSET Page :
        /\ Sent(T)
        /\ \A q \in Page : missed'[q] = "no" => missed[q] = "no" /\ q \notin (todo \ {p}) \ T
  <2>1. CASE Inserted(todo \ {p})
    BY <2>1, <1>t, InsertionMisses
  <2>2. CASE Sent(todo \ {p}) /\ UNCHANGED missed
    BY <2>2, <1>t DEF TypeOK
  <2>3. CASE /\ Sent({})
             /\ missed' = [q \in Page |-> IF q \in todo \ {p} THEN "yes" ELSE missed[q]]
    BY <2>3, <1>t DEF TypeOK
  <2> QED  BY <2>1, <2>2, <2>3 DEF WriteIsLost, WriteToNobody
<1>3. \A q \in Page : Follows(q)' => Follows(q) /\ q \notin todo \ T
  BY <1>t, <1>1, <1>2 DEF Follows
<1> QED
  BY <1>t, <1>2, <1>3, GoesOn

\* Pages that come, vanish or go have no lists yet, or do not follow any more.
LEMMA PagesLists ==
    ASSUME ListsInv, NEW p \in Page, Vanish(p) \/ OnConnect(p) \/ OnClose(p)
    PROVE  Broadcasts' /\ BothLists' /\ InTransit' /\ ListsAreCurrent'
<1>t. TypeOK /\ UNCHANGED <<prevTable, services, instances>>
  BY DEF ListsInv, Vanish, OnConnect, OnClose, board
<1>1. \A q \in Page : conn'[q] = "new" => conn[q] = "new"
  BY <1>t DEF TypeOK, Vanish, OnConnect, OnClose
<1>2. \A q \in Page : conn'[q] = "open" /\ services[q] # None => conn[q] = "open" /\ q # p
  BY <1>t DEF TypeOK, Vanish, OnConnect, OnClose, ListsInv, BothLists
<1>3. PICK T \in SUBSET Page :
        /\ \/ todo # {} /\ Sent(T)
           \/ UNCHANGED <<todo, summary>> /\ T = todo
        /\ \A q \in Page \ {p} : missed'[q] = "no" => missed[q] = "no" /\ q \notin todo \ T
  <2>1. CASE todo # {} /\ Inserted(todo)
    <3>1. todo \in SUBSET todo
      OBVIOUS
    <3>2. PICK T \in SUBSET Page :
            /\ Sent(T)
            /\ \A q \in Page : missed'[q] = "no" => missed[q] = "no" /\ q \notin todo \ T
      BY <2>1, <3>1, InsertionMisses
    <3> QED  BY <2>1, <3>2
  <2>2. CASE p \in todo /\ Sent(todo \ {p}) /\ UNCHANGED missed
    BY <2>2, <1>t DEF TypeOK
  <2>3. CASE UNCHANGED <<todo, summary, missed>>
    BY <2>3, <1>t DEF TypeOK
  <2> QED  BY <2>1, <2>2, <2>3 DEF Vanish, OnConnect, OnClose, board
<1>4. \A q \in Page : Follows(q)' => Follows(q) /\ q \notin todo \ T
  BY <1>t, <1>2, <1>3 DEF Follows
<1> QED
  BY <1>t, <1>1, <1>3, <1>4, GoesOn

\* No step breaks ListsInv.
LEMMA ListsStep == ListsInv /\ [Next]_vars => ListsInv'
<1> SUFFICES ASSUME ListsInv, [Next]_vars PROVE ListsInv'
  OBVIOUS
<1>1. TypeOK' /\ SessionsAreConnections'
  BY TypeStep, SessionsStep DEF ListsInv
<1>2. Broadcasts' /\ BothLists' /\ InTransit' /\ ListsAreCurrent'
  <2>1. CASE InstanceComesOrGoes \/ PollStateThrows \/ UNCHANGED vars
    BY <2>1 DEF InstanceComesOrGoes, PollStateThrows, vars, board, ListsInv, Broadcasts,
       BothLists, InTransit, ListsAreCurrent, Follows
  <2> QED
    BY <2>1, PollLists, ArrivesLists, LostLists, PagesLists DEF Next, Poll, Write
<1> QED
  BY <1>1, <1>2 DEF ListsInv

\* A page that has missed no summary offers the services and instances of the
\* last one, for any pages, instances and services: the flags of a summary are
\* enough to keep the lists of every page current.
THEOREM PagesAreCurrent == Spec => []ListsAreCurrent
<1>1. Init => ListsInv
  <2> SUFFICES ASSUME Init PROVE ListsInv
    OBVIOUS
  <2>1. TypeOK
    BY InitType
  <2> QED
    BY <2>1 DEF Init, ListsInv, SessionsAreConnections, Broadcasts, BothLists, InTransit,
       ListsAreCurrent
<1>2. ListsInv => ListsAreCurrent
  BY DEF ListsInv
<1> QED
  BY <1>1, <1>2, ListsStep, PTL DEF Spec

=============================================================================
