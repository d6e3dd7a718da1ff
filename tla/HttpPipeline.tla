---------------------------- MODULE HttpPipeline ----------------------------
(***************************************************************************)
(* One HTTP connection of the web controller: http_session with its queue  *)
(* of responses (controller/http_session.h, http_session.cxx), from the    *)
(* listener that accepts it to the hand-over to a websocket_session. All   *)
(* handlers of a session run on its strand, so a handler is one action;    *)
(* what is concurrent are the asynchronous read and write, which complete  *)
(* in any order, the browser and the network. handle_request               *)
(* (beast_tools.h) answers every request with one message, whose           *)
(* need_eof() is the request's wish to close.                              *)
(***************************************************************************)
EXTENDS Naturals, Sequences

CONSTANTS
    Limit,              \* queue::limit
    MaxRequests         \* bound on the requests a browser sends

\* static_assert(limit > 0)
ASSUME LimitAssumption == Limit \in Nat \ {0}
ASSUME MaxRequestsAssumption == MaxRequests \in Nat

VARIABLES
    sock,               \* the socket: see Socks
    reads, readSock,    \* async_read operations outstanding; what the socket
                        \* was when the last one was started
    writes, writeSock,  \* the same for async_write
    items,              \* queue::items_
    handled,            \* requests read so far
    errors,             \* which of the handlers has seen an error
    answered            \* responses sent completely, in order

ops == <<reads, readSock, writes, writeSock>>
vars == <<sock, reads, readSock, writes, writeSock, items, handled, errors, answered>>

Socks == {"none",       \* not accepted yet
          "open",
          "shut",       \* shutdown_send has been called
          "released",   \* moved to a websocket_session
          "dead"}       \* timed out or reset

Request == [id : 1..MaxRequests, close : BOOLEAN]

\* What the session promises: see ResponseStream. A response that closes
\* stays in items_ after it has been sent.
SentLast == answered # <<>> /\ answered[Len(answered)].close

Stream == INSTANCE ResponseStream WITH
    waiting <- IF SentLast THEN Tail(items) ELSE items,
    phase <- IF SentLast THEN "over"
             ELSE IF sock \in {"none", "open"} /\ "write" \notin errors
             THEN "open" ELSE "ending"

-----------------------------------------------------------------------------
(* The asynchronous operations. An operation started on a socket that is  *)
(* down fails; one that was started before may have completed already.     *)

ReadCanSucceed == reads > 0 /\ readSock \in {"open", "shut"}

WriteCanSucceed == writes > 0 /\ writeSock = "open"

do_close == sock' = IF sock = "open" THEN "shut" ELSE sock

\* listener::on_accept makes a session and runs it: do_read.
OnAccept ==
    /\ sock = "none"
    /\ sock' = "open"
    /\ reads' = 1 /\ readSock' = "open"
    /\ UNCHANGED <<writes, writeSock, items, handled, errors, answered>>

\* queue::operator(): keep the response and write it if it is the only one.
Enqueue(r) ==
    /\ items' = Append(items, r)
    /\ IF items = <<>> THEN writes' = writes + 1 /\ writeSock' = sock
                       ELSE UNCHANGED <<writes, writeSock>>

\* handle_request: whatever the method, the target and the file are, one
\* response is sent; it keeps the connection alive as the request asks.
handle_request(id, close) == Enqueue([id |-> id, close |-> close])

is_full(q) == Len(q) >= Limit

\* Mutant: reads on although the queue is full.
OnReadRequestAlways(close) ==
    /\ ReadCanSucceed
    /\ handled < MaxRequests
    /\ handled' = handled + 1
    /\ handle_request(handled', close)
    /\ UNCHANGED reads /\ readSock' = sock
    /\ UNCHANGED <<sock, errors, answered>>

\* http_session::on_read of a request that is not an upgrade.
OnReadRequest(close) ==
    /\ ReadCanSucceed
    /\ handled < MaxRequests
    /\ handled' = handled + 1
    /\ handle_request(handled', close)
    /\ IF is_full(items') THEN reads' = reads - 1 /\ UNCHANGED readSock
                          ELSE UNCHANGED reads /\ readSock' = sock
    /\ UNCHANGED <<sock, errors, answered>>

\* on_read of a WebSocket upgrade: release_socket() cancels what is pending.
OnReadUpgrade ==
    /\ ReadCanSucceed
    /\ reads' = reads - 1
    /\ sock' = "released"
    /\ UNCHANGED <<readSock, writes, writeSock, items, handled, errors, answered>>

\* on_read with end_of_stream: the browser has closed its side.
OnReadEndOfStream ==
    /\ ReadCanSucceed
    /\ reads' = reads - 1
    /\ do_close
    /\ UNCHANGED <<readSock, writes, writeSock, items, handled, errors, answered>>

\* on_read with another error: a request that cannot be parsed or is too
\* long, a timeout, a broken connection.
OnReadError ==
    /\ reads > 0
    /\ reads' = reads - 1
    /\ errors' = errors \cup {"read"}
    /\ UNCHANGED <<sock, readSock, writes, writeSock, items, handled, answered>>

\* Mutant: leaves the next response waiting.
QueueOnWriteStops ==
    /\ items' = Tail(items)
    /\ writes' = writes - 1 /\ UNCHANGED writeSock

\* Mutant: drops the response queued last.
QueueOnWriteDropsNewest ==
    /\ items' = SubSeq(items, 1, Len(items) - 1)
    /\ IF items' # <<>> THEN UNCHANGED writes /\ writeSock' = sock
                        ELSE writes' = writes - 1 /\ UNCHANGED writeSock

\* queue::on_write: drop the response that has been sent, write the next.
QueueOnWrite ==
    /\ items' = Tail(items)
    /\ IF items' # <<>> THEN UNCHANGED writes /\ writeSock' = sock
                        ELSE writes' = writes - 1 /\ UNCHANGED writeSock

\* http_session::on_write without error.
OnWrite ==
    /\ WriteCanSucceed
    /\ answered' = Append(answered, Head(items))
    /\ IF Head(items).close
       THEN /\ do_close
            /\ writes' = writes - 1
            /\ UNCHANGED <<reads, readSock, writeSock, items>>
       ELSE /\ QueueOnWrite
            /\ IF is_full(items) THEN reads' = reads + 1 /\ readSock' = sock
                                 ELSE UNCHANGED <<reads, readSock>>
            /\ UNCHANGED sock
    /\ UNCHANGED <<handled, errors>>

\* on_write with an error: the connection is down, or the file that is sent
\* cannot be read. The response stays in the queue.
OnWriteError ==
    /\ writes > 0
    /\ writes' = writes - 1
    /\ errors' = errors \cup {"write"}
    /\ UNCHANGED <<sock, reads, readSock, writeSock, items, handled, answered>>

\* The timeout of do_read (30 s) or the peer ends the connection.
ConnectionFails ==
    /\ sock \in {"open", "shut"}
    /\ sock' = "dead"
    /\ UNCHANGED <<ops, items, handled, errors, answered>>

-----------------------------------------------------------------------------
Init ==
    /\ sock = "none"
    /\ reads = 0 /\ readSock = "none"
    /\ writes = 0 /\ writeSock = "none"
    /\ items = <<>>
    /\ handled = 0
    /\ errors = {}
    /\ answered = <<>>

Next ==
    \/ OnAccept
    \/ \E close \in BOOLEAN : OnReadRequest(close)
    \/ OnReadUpgrade
    \/ OnReadEndOfStream
    \/ OnReadError
    \/ OnWrite
    \/ OnWriteError
    \/ ConnectionFails

\* An outstanding write ends, well or badly; the browser need do nothing.
Spec == Init /\ [][Next]_vars /\ WF_vars(OnWrite \/ OnWriteError)

-----------------------------------------------------------------------------
(* Properties.                                                             *)

\* Type invariant: no more operations complete than were started
\* (http_session.h, http_session.cxx).
TypeOK ==
    /\ sock \in Socks
    /\ reads \in Nat /\ readSock \in Socks
    /\ writes \in Nat /\ writeSock \in Socks
    /\ items \in Seq(Request)
    /\ handled \in Nat
    /\ errors \subseteq {"read", "write"}
    /\ answered \in Seq(Request)

\* The stream and the buffer allow one read and one write at a time
\* (http::async_read, http::async_write), a write uses the message at the
\* front of items_, which is what BOOST_ASSERT(! items_.empty()) in
\* queue::on_write relies on, and the vector never outgrows its limit.
PipelineSafe ==
    /\ reads <= 1
    /\ writes <= 1
    /\ Len(items) <= Limit
    /\ writes = 1 => items # <<>>

\* No lost wake-up: as long as the connection is sound, a response that
\* waits is being written, and a request is being read unless the queue is
\* full. on_write starts the read that on_read did not, on_read the write
\* when there was none.
NothingStalls ==
    sock = "open" =>
        /\ "write" \notin errors /\ items # <<>> => writes = 1
        /\ "read" \notin errors => (reads = 1 <=> Len(items) < Limit)

\* The session implements the stream: one answer per request, in order,
\* none after a closing one, none left waiting on a sound connection.
ImplementsStream == Stream!Spec
=============================================================================
