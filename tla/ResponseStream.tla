--------------------------- MODULE ResponseStream ---------------------------
(***************************************************************************)
(* What an HTTP connection of the web controller promises to a browser,    *)
(* whatever goes on behind it: the requests it has accepted are answered   *)
(* once each and in their order, at most Limit of them are waiting, a      *)
(* response that closes the connection is the last one, and while the      *)
(* connection is sound no accepted request is left waiting for ever.       *)
(* HttpPipeline is shown to implement this specification.                  *)
(***************************************************************************)
EXTENDS Naturals, Sequences

CONSTANTS
    Limit,              \* the most responses that may wait
    Request             \* records; close: the connection ends with the answer

VARIABLES
    waiting,            \* requests accepted and not yet answered, in order
    answered,           \* requests answered, in order
    phase               \* "open", "ending" (no promise any more) or "over"

vars == <<waiting, answered, phase>>

Init == waiting = <<>> /\ answered = <<>> /\ phase = "open"

Accept(r) ==
    /\ Len(waiting) < Limit
    /\ waiting' = Append(waiting, r)
    /\ UNCHANGED <<answered, phase>>

Answer ==
    /\ waiting # <<>>
    /\ phase # "over"
    /\ answered' = Append(answered, Head(waiting))
    /\ waiting' = Tail(waiting)
    /\ phase' = IF Head(waiting).close THEN "over" ELSE phase

\* The connection fails, or the browser ends it or makes it a WebSocket.
End ==
    /\ phase = "open"
    /\ phase' = "ending"
    /\ UNCHANGED <<waiting, answered>>

Next == (\E r \in Request : Accept(r)) \/ Answer \/ End

\* Serving an open connection: answer what waits, or end.
Serve == phase = "open" /\ waiting # <<>> /\ (Answer \/ End)

SafeSpec == Init /\ [][Next]_vars

Spec == SafeSpec /\ WF_vars(Serve)
=============================================================================
