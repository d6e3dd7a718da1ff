------------------------- MODULE HttpPipelineProofs -------------------------
(***************************************************************************)
(* Proofs about HttpPipeline: types, one operation at a time, no lost      *)
(* wake-up, and the safety part of the refinement of ResponseStream, for   *)
(* every limit of the queue.                                               *)
(***************************************************************************)
EXTENDS HttpPipeline, SequenceTheorems, TLAPS

-----------------------------------------------------------------------------
\* Facts about sequences.

\* Appending a request to the queue.
LEMMA AppendFacts ==
    ASSUME NEW q \in Seq(Request), NEW r \in Request
    PROVE  /\ Append(q, r) \in Seq(Request)
           /\ Len(Append(q, r)) = Len(q) + 1
           /\ Append(q, r) # <<>>
           /\ Append(q, r)[Len(Append(q, r))] = r
           /\ q # <<>> => Tail(Append(q, r)) = Append(Tail(q), r)
  <1>1. /\ Append(q, r) \in Seq(Request)
        /\ Len(Append(q, r)) = Len(q) + 1
        /\ Append(q, r) # <<>>
        /\ Append(q, r)[Len(q) + 1] = r
    BY AppendProperties
  <1>2. ASSUME q # <<>> PROVE Tail(Append(q, r)) = Append(Tail(q), r)
    <2>1. Tail(q) \in Seq(Request) /\ Len(Tail(q)) = Len(q) - 1
      BY <1>2, HeadTailProperties
    <2>2. Tail(Append(q, r)) \in Seq(Request) /\ Len(Tail(Append(q, r))) = Len(q)
      BY <1>1, HeadTailProperties, LenProperties
    <2>3. Append(Tail(q), r) \in Seq(Request) /\ Len(Append(Tail(q), r)) = Len(q)
      BY <2>1, AppendProperties, LenProperties
    <2>4. ASSUME NEW i \in 1..Len(q) PROVE Tail(Append(q, r))[i] = Append(Tail(q), r)[i]
      <3>1. Len(q) \in Nat /\ i \in Nat
        BY LenProperties
      <3>2. Tail(Append(q, r))[i] = Append(q, r)[i + 1]
        BY <1>1, <2>2, HeadTailProperties
      <3>3. CASE i = Len(q)
        BY <1>1, <2>1, <3>1, <3>2, <3>3, AppendProperties
      <3>4. CASE i < Len(q)
        <4>1. i \in 1..Len(Tail(q)) /\ i + 1 \in 1..Len(q)
          BY <2>1, <3>1, <3>4
        <4>2. Append(q, r)[i + 1] = q[i + 1]
          BY <4>1, AppendProperties
        <4>3. Append(Tail(q), r)[i] = Tail(q)[i]
          BY <2>1, <4>1, AppendProperties
        <4>4. Tail(q)[i] = q[i + 1]
          BY <1>2, <4>1, HeadTailProperties
        <4> QED BY <3>2, <4>2, <4>3, <4>4
      <3> QED BY <3>1, <3>3, <3>4
    <2> QED BY <2>2, <2>3, <2>4, SeqEqual
  <1> QED BY <1>1, <1>2

\* Taking the oldest response out of the queue.
LEMMA TailFacts ==
    ASSUME NEW q \in Seq(Request), q # <<>>
    PROVE  /\ Head(q) \in Request
           /\ Tail(q) \in Seq(Request)
           /\ Len(Tail(q)) = Len(q) - 1
           /\ Len(q) \in Nat /\ Len(q) >= 1
  BY HeadTailProperties, EmptySeq

\* The response to a request is a request record of the model.
LEMMA NewRequest ==
    ASSUME TypeOK, handled < MaxRequests, NEW close \in BOOLEAN
    PROVE  [id |-> handled + 1, close |-> close] \in Request
  BY MaxRequestsAssumption DEF TypeOK, Request

-----------------------------------------------------------------------------
\* A write completes only when there is a response at the front of items_.
WriteHasItem == writes > 0 => items # <<>>

\* Every handler of the session keeps the types, and never erases from an
\* empty vector.
LEMMA TypeStep ==
    ASSUME TypeOK, WriteHasItem, [Next]_vars
    PROVE  TypeOK'
  <1> USE DEF TypeOK, Socks
  <1>1. CASE OnAccept
    BY <1>1 DEF OnAccept
  <1>2. ASSUME NEW close \in BOOLEAN, OnReadRequest(close) PROVE TypeOK'
    <2>1. [id |-> handled + 1, close |-> close] \in Request
      BY <1>2, NewRequest DEF OnReadRequest, handle_request, ReadCanSucceed
    <2>2. items' \in Seq(Request)
      BY <1>2, <2>1, AppendFacts DEF OnReadRequest, handle_request, ReadCanSucceed, Enqueue
    <2>3. readSock' \in Socks /\ writeSock' \in Socks
      BY <1>2 DEF OnReadRequest, handle_request, ReadCanSucceed, Enqueue
    <2>4. reads' \in Nat /\ writes' \in Nat /\ handled' \in Nat
      BY <1>2 DEF OnReadRequest, handle_request, ReadCanSucceed, Enqueue
    <2> QED BY <1>2, <2>2, <2>3, <2>4 DEF OnReadRequest, handle_request, ReadCanSucceed
  <1>3. CASE OnReadUpgrade
    BY <1>3 DEF OnReadUpgrade, ReadCanSucceed
  <1>4. CASE OnReadEndOfStream
    BY <1>4 DEF OnReadEndOfStream, ReadCanSucceed, do_close
  <1>5. CASE OnReadError
    BY <1>5 DEF OnReadError
  <1>6. CASE OnWrite
    <2>1. items # <<>>
      BY <1>6 DEF OnWrite, WriteCanSucceed, WriteHasItem
    <2>2. Head(items) \in Request /\ Tail(items) \in Seq(Request)
      BY <2>1, TailFacts
    <2>3. answered' \in Seq(Request)
      BY <1>6, <2>2, AppendFacts DEF OnWrite, WriteCanSucceed
    <2>4. items' \in Seq(Request)
      BY <1>6, <2>2 DEF OnWrite, WriteCanSucceed, QueueOnWrite
    <2>5. CASE Head(items).close
      BY <1>6, <2>3, <2>4, <2>5 DEF OnWrite, WriteCanSucceed, do_close
    <2>6. CASE ~Head(items).close
      <3>1. writeSock' \in Socks /\ writes' \in Nat
        BY <1>6, <2>6 DEF OnWrite, WriteCanSucceed, QueueOnWrite
      <3>2. readSock' \in Socks /\ reads' \in Nat
        BY <1>6, <2>6 DEF OnWrite, WriteCanSucceed
      <3>3. sock' = sock /\ handled' = handled /\ errors' = errors
        BY <1>6, <2>6 DEF OnWrite, WriteCanSucceed
      <3> QED BY <2>3, <2>4, <3>1, <3>2, <3>3
    <2> QED BY <2>5, <2>6
  <1>7. CASE OnWriteError
    BY <1>7 DEF OnWriteError
  <1>8. CASE ConnectionFails
    BY <1>8 DEF ConnectionFails, ops
  <1>9. CASE UNCHANGED vars
    BY <1>9 DEF vars
  <1> QED BY <1>1, <1>2, <1>3, <1>4, <1>5, <1>6, <1>7, <1>8, <1>9 DEF Next

-----------------------------------------------------------------------------
\* A read is outstanding only while the queue has room for its response.
ReadNeedsRoom == reads = 1 => Len(items) < Limit

\* A response that closes is never taken out of the queue, and nothing is
\* written after it.
LastStays == SentLast => sock \notin {"none", "open"} /\ writes = 0 /\ items # <<>>

\* Before the connection is accepted nothing has happened.
NotYetAccepted ==
    sock = "none" =>
        reads = 0 /\ writes = 0 /\ items = <<>> /\ answered = <<>> /\ errors = {}

\* The inductive invariant: the properties of the runs and what they rest on.
Inv ==
    /\ TypeOK
    /\ PipelineSafe
    /\ NothingStalls
    /\ ReadNeedsRoom
    /\ LastStays
    /\ NotYetAccepted

\* Nothing is read or written before the listener has accepted.
LEMMA InvInit == Init => Inv
  <1> SUFFICES ASSUME Init PROVE Inv
    OBVIOUS
  <1>1. TypeOK
    BY EmptySeq DEF Init, TypeOK, Socks
  <1>2. Len(items) = 0 /\ Limit \in Nat \ {0}
    BY EmptySeq, LimitAssumption DEF Init
  <1> QED BY <1>1, <1>2 DEF Init, Inv, PipelineSafe, NothingStalls,
             ReadNeedsRoom, LastStays, SentLast, NotYetAccepted

\* on_read pushes one response, writes it if it is alone, and reads on
\* unless the queue is full now.
LEMMA ReadRequestStep ==
    ASSUME Inv, NEW close \in BOOLEAN, OnReadRequest(close)
    PROVE  /\ PipelineSafe' /\ NothingStalls' /\ ReadNeedsRoom'
           /\ LastStays' /\ NotYetAccepted'
  <1> DEFINE r == [id |-> handled + 1, close |-> close]
  <1>1. TypeOK /\ Len(items) \in Nat /\ Limit \in Nat \ {0}
    BY LimitAssumption, LenProperties DEF Inv, TypeOK
  <1>2. r \in Request
    BY <1>1, NewRequest DEF OnReadRequest, handle_request, ReadCanSucceed
  <1>3. items' = Append(items, r)
    BY DEF OnReadRequest, handle_request, ReadCanSucceed, Enqueue
  <1> HIDE DEF r
  <1>4. items' # <<>> /\ Len(items') = Len(items) + 1
    BY <1>1, <1>2, <1>3, AppendFacts DEF TypeOK
  <1>5. reads = 1 /\ Len(items) < Limit
    BY <1>1 DEF Inv, PipelineSafe, ReadNeedsRoom, OnReadRequest, handle_request, ReadCanSucceed, TypeOK
  <1>6. reads' = IF Len(items') >= Limit THEN 0 ELSE 1
    BY <1>5 DEF OnReadRequest, handle_request, ReadCanSucceed, is_full
  <1>7. writes' = IF items = <<>> THEN 1 ELSE writes
    <2>1. items = <<>> => writes = 0
      BY <1>1 DEF Inv, PipelineSafe, TypeOK
    <2> QED BY <2>1 DEF OnReadRequest, handle_request, ReadCanSucceed, Enqueue
  <1>8. sock' = sock /\ errors' = errors /\ answered' = answered
    BY DEF OnReadRequest, handle_request, ReadCanSucceed
  <1>9. sock # "none"
    BY <1>5 DEF Inv, NotYetAccepted
  <1> USE <1>1, <1>4, <1>5, <1>6, <1>7, <1>8, <1>9 DEF Inv
  <1>10. PipelineSafe'
    BY DEF PipelineSafe, TypeOK
  <1>11. NothingStalls'
    BY DEF NothingStalls, TypeOK
  <1>12. ReadNeedsRoom'
    BY DEF ReadNeedsRoom
  <1>13. LastStays'
    BY DEF LastStays, SentLast
  <1> QED BY <1>10, <1>11, <1>12, <1>13 DEF NotYetAccepted

\* on_write drops the response and writes the next, or closes after the
\* last one; it reads if the queue was full, which is when on_read did not.
LEMMA WriteStep ==
    ASSUME Inv, OnWrite
    PROVE  /\ PipelineSafe' /\ NothingStalls' /\ ReadNeedsRoom'
           /\ LastStays' /\ NotYetAccepted'
  <1>1. TypeOK /\ Len(items) \in Nat /\ Limit \in Nat \ {0}
    BY LimitAssumption, LenProperties DEF Inv, TypeOK
  <1>2. writes = 1 /\ items # <<>>
    BY <1>1 DEF Inv, PipelineSafe, OnWrite, WriteCanSucceed, TypeOK
  <1>3. /\ Head(items) \in Request
        /\ Tail(items) \in Seq(Request)
        /\ Len(Tail(items)) = Len(items) - 1
        /\ Len(items) >= 1
    BY <1>1, <1>2, TailFacts DEF TypeOK
  <1>4. /\ answered' # <<>>
        /\ answered'[Len(answered')] = Head(items)
    BY <1>1, <1>3, AppendFacts DEF OnWrite, WriteCanSucceed, TypeOK
  <1>5. SentLast' <=> Head(items).close
    BY <1>4 DEF SentLast
  <1>6. Len(items) <= Limit
    BY DEF Inv, PipelineSafe
  <1>7. errors' = errors /\ sock # "none"
    BY <1>2 DEF OnWrite, WriteCanSucceed, Inv, NotYetAccepted
  <1>8. CASE Head(items).close
    <2>1. /\ sock' = IF sock = "open" THEN "shut" ELSE sock
          /\ writes' = 0 /\ reads' = reads /\ items' = items
      BY <1>2, <1>8 DEF OnWrite, WriteCanSucceed, do_close
    <2>2. PipelineSafe' /\ ReadNeedsRoom'
      BY <2>1 DEF Inv, PipelineSafe, ReadNeedsRoom
    <2>3. NothingStalls' /\ NotYetAccepted' /\ LastStays'
      BY <1>2, <1>7, <2>1 DEF NothingStalls, NotYetAccepted, LastStays
    <2> QED BY <2>2, <2>3
  <1>9. CASE ~Head(items).close
    <2>1. /\ sock' = sock /\ items' = Tail(items)
          /\ writes' = IF Tail(items) # <<>> THEN 1 ELSE 0
          /\ reads' = IF Len(items) >= Limit THEN reads + 1 ELSE reads
      BY <1>2, <1>9 DEF OnWrite, WriteCanSucceed, QueueOnWrite, is_full
    <2>2. Len(items) >= Limit => reads = 0
      BY <1>1 DEF Inv, PipelineSafe, ReadNeedsRoom, TypeOK
    <2>3. PipelineSafe'
      BY <1>1, <1>3, <1>6, <2>1, <2>2 DEF Inv, PipelineSafe, TypeOK
    <2>4. ReadNeedsRoom'
      BY <1>1, <1>3, <1>6, <2>1, <2>2 DEF Inv, ReadNeedsRoom, TypeOK
    <2>5. NothingStalls'
      BY <1>1, <1>3, <1>6, <1>7, <2>1, <2>2
      DEF Inv, PipelineSafe, NothingStalls, TypeOK
    <2>6. LastStays' /\ NotYetAccepted'
      BY <1>5, <1>7, <1>9, <2>1 DEF LastStays, NotYetAccepted
    <2> QED BY <2>3, <2>4, <2>5, <2>6
  <1> QED BY <1>8, <1>9

\* Every handler keeps the invariant.
LEMMA InvStep == Inv /\ [Next]_vars => Inv'
  <1> SUFFICES ASSUME Inv, [Next]_vars PROVE Inv'
    OBVIOUS
  <1>1. TypeOK' /\ TypeOK
    <2>1. WriteHasItem
      BY DEF Inv, PipelineSafe, WriteHasItem, TypeOK
    <2> QED BY <2>1, TypeStep DEF Inv
  <1>2. Limit \in Nat \ {0} /\ Len(items) \in Nat
    BY <1>1, LimitAssumption, LenProperties DEF TypeOK
  <1> USE <1>1, <1>2
      DEF Inv, PipelineSafe, NothingStalls, ReadNeedsRoom, LastStays, SentLast,
          NotYetAccepted
  <1>3. CASE OnAccept
    BY <1>3 DEF OnAccept
  <1>4. ASSUME NEW close \in BOOLEAN, OnReadRequest(close) PROVE Inv'
    BY <1>4, ReadRequestStep
  <1>5. CASE OnReadUpgrade
    BY <1>5 DEF OnReadUpgrade, ReadCanSucceed, TypeOK
  <1>6. CASE OnReadEndOfStream
    BY <1>6 DEF OnReadEndOfStream, ReadCanSucceed, do_close, TypeOK
  <1>7. CASE OnReadError
    BY <1>7 DEF OnReadError, TypeOK
  <1>8. CASE OnWrite
    BY <1>8, WriteStep
  <1>9. CASE OnWriteError
    BY <1>9 DEF OnWriteError, TypeOK
  <1>10. CASE ConnectionFails
    BY <1>10 DEF ConnectionFails, ops
  <1>11. CASE UNCHANGED vars
    BY <1>11 DEF vars
  <1> QED BY <1>3, <1>4, <1>5, <1>6, <1>7, <1>8, <1>9, <1>10, <1>11 DEF Next

-----------------------------------------------------------------------------
\* The invariant holds in every reachable state.
LEMMA Invariance == Spec => []Inv
  BY InvInit, InvStep, PTL DEF Spec

\* The socket, the operations, the queue and the answers have their types.
THEOREM TypeCorrect == Spec => []TypeOK
  <1>1. Inv => TypeOK
    BY DEF Inv
  <1> QED BY <1>1, Invariance, PTL

\* However the browser pipelines, closes or breaks off: one read and one
\* write at a time, a response under every write, a queue within its limit.
THEOREM OneOperationAtATime == Spec => []PipelineSafe
  <1>1. Inv => PipelineSafe
    BY DEF Inv
  <1> QED BY <1>1, Invariance, PTL

\* on_read and on_write never leave a sound connection without the read or
\* the write that takes it on.
THEOREM NoLostWakeUp == Spec => []NothingStalls
  <1>1. Inv => NothingStalls
    BY DEF Inv
  <1> QED BY <1>1, Invariance, PTL

-----------------------------------------------------------------------------
(***************************************************************************)
(* The refinement, without its fairness.                                   *)
(***************************************************************************)

\* What waits and the phase, as the refinement mapping of Stream has them.
waitingBar == IF SentLast THEN Tail(items) ELSE items
phaseBar ==
    IF SentLast THEN "over"
    ELSE IF sock \in {"none", "open"} /\ "write" \notin errors
    THEN "open" ELSE "ending"

\* A step that answers and accepts nothing may only end the promise.
LEMMA QuietStep ==
    ASSUME items' = items, answered' = answered, errors \subseteq errors',
           sock' \in {"none", "open"} => sock \in {"none", "open"}
    PROVE  [Stream!Next]_(Stream!vars)
  <1>1. waitingBar' = waitingBar /\ (SentLast' <=> SentLast)
    BY DEF waitingBar, SentLast
  <1>2. phaseBar' = phaseBar \/ (phaseBar = "open" /\ phaseBar' = "ending")
    BY <1>1 DEF phaseBar
  <1> QED BY <1>1, <1>2
          DEF Stream!Next, Stream!End, Stream!vars, waitingBar, phaseBar

\* on_read accepts the request: its response waits behind the others, a
\* closing one that has been sent not counted.
LEMMA ReadAccepts ==
    ASSUME Inv, NEW close \in BOOLEAN, OnReadRequest(close)
    PROVE  \E r \in Request : Stream!Accept(r)
  <1> DEFINE r == [id |-> handled + 1, close |-> close]
  <1>1. TypeOK /\ Len(items) \in Nat /\ Limit \in Nat \ {0}
    BY LimitAssumption, LenProperties DEF Inv, TypeOK
  <1>2. r \in Request
    BY <1>1, NewRequest DEF OnReadRequest, handle_request
  <1>3. items' = Append(items, r)
    BY DEF OnReadRequest, handle_request, Enqueue
  <1> HIDE DEF r
  <1>4. Len(items) < Limit
    BY <1>1 DEF Inv, PipelineSafe, ReadNeedsRoom, OnReadRequest, handle_request, ReadCanSucceed, TypeOK
  <1>5. sock' = sock /\ errors' = errors /\ answered' = answered
    BY DEF OnReadRequest, handle_request
  <1>6. (SentLast' <=> SentLast) /\ phaseBar' = phaseBar
    BY <1>5 DEF SentLast, phaseBar
  <1>7. CASE SentLast
    <2>1. items # <<>>
      BY <1>7 DEF Inv, LastStays
    <2>2. Len(Tail(items)) < Limit
      BY <1>1, <1>4, <2>1, TailFacts DEF TypeOK
    <2>3. Tail(items') = Append(Tail(items), r)
      BY <1>1, <1>2, <1>3, <2>1, AppendFacts DEF TypeOK
    <2>4. Stream!Accept(r)
      BY <1>5, <1>6, <1>7, <2>2, <2>3 DEF Stream!Accept, phaseBar
    <2> QED BY <1>2, <2>4
  <1>8. CASE ~SentLast
    <2>1. Stream!Accept(r)
      BY <1>3, <1>4, <1>5, <1>6, <1>8 DEF Stream!Accept, phaseBar
    <2> QED BY <1>2, <2>1
  <1> QED BY <1>7, <1>8

\* on_write answers the request that has waited longest; if that closes
\* the connection it is the last.
LEMMA WriteAnswers ==
    ASSUME Inv, OnWrite
    PROVE  Stream!Answer
  <1>1. TypeOK
    BY DEF Inv
  <1>2. items # <<>> /\ ~SentLast
    BY <1>1 DEF Inv, PipelineSafe, LastStays, OnWrite, WriteCanSucceed, TypeOK
  <1>3. Head(items) \in Request
    BY <1>1, <1>2, TailFacts DEF TypeOK
  <1>4. /\ answered' = Append(answered, Head(items))
        /\ answered' # <<>>
        /\ answered'[Len(answered')] = Head(items)
    BY <1>1, <1>3, AppendFacts DEF OnWrite, TypeOK
  <1>5. SentLast' <=> Head(items).close
    BY <1>4 DEF SentLast
  <1>6. errors' = errors
    BY DEF OnWrite
  <1>7. CASE Head(items).close
    <2>1. items' = items
      BY <1>7 DEF OnWrite
    <2> QED BY <1>2, <1>4, <1>5, <1>7, <2>1 DEF Stream!Answer
  <1>8. CASE ~Head(items).close
    <2>1. items' = Tail(items) /\ sock' = sock
      BY <1>8 DEF OnWrite, QueueOnWrite
    <2> QED BY <1>2, <1>4, <1>5, <1>6, <1>8, <2>1 DEF Stream!Answer
  <1> QED BY <1>7, <1>8

\* The session implements the stream: requests are answered once, in order,
\* with at most Limit waiting and none after a closing response. (That they
\* are answered in the end is checked by TLC.)
THEOREM RefinesStream == Spec => Stream!SafeSpec
  <1>1. Init => Stream!Init
    BY DEF Init, Stream!Init, SentLast
  <1>2. Inv /\ [Next]_vars => [Stream!Next]_(Stream!vars)
    <2> SUFFICES ASSUME Inv, [Next]_vars PROVE [Stream!Next]_(Stream!vars)
      OBVIOUS
    <2>1. CASE OnAccept
      BY <2>1, QuietStep DEF OnAccept
    <2>2. ASSUME NEW close \in BOOLEAN, OnReadRequest(close)
          PROVE  [Stream!Next]_(Stream!vars)
      BY <2>2, ReadAccepts DEF Stream!Next
    <2>3. CASE OnReadUpgrade
      BY <2>3, QuietStep DEF OnReadUpgrade
    <2>4. CASE OnReadEndOfStream
      BY <2>4, QuietStep DEF OnReadEndOfStream, do_close
    <2>5. CASE OnReadError
      BY <2>5, QuietStep DEF OnReadError
    <2>6. CASE OnWrite
      BY <2>6, WriteAnswers DEF Stream!Next
    <2>7. CASE OnWriteError
      BY <2>7, QuietStep DEF OnWriteError
    <2>8. CASE ConnectionFails
      BY <2>8, QuietStep DEF ConnectionFails
    <2>9. CASE UNCHANGED vars
      BY <2>9, QuietStep DEF vars
    <2> QED BY <2>1, <2>2, <2>3, <2>4, <2>5, <2>6, <2>7, <2>8, <2>9 DEF Next
  <1> QED BY <1>1, <1>2, Invariance, PTL DEF Spec, Stream!SafeSpec
=============================================================================
