--------------------------- MODULE MessageStream ---------------------------
(* What the connection of a self-service device promises, without bytes,    *)
(* delimiters, checksums and tenants: the requests of the device form a     *)
(* queue, the gateway takes them one at a time from its head, and it        *)
(* answers the one it has taken at most once, with one of the answers that  *)
(* fit it, or lets it go.  A request is never taken twice or out of order,  *)
(* and nothing is answered that nobody asked.                               *)
EXTENDS Naturals, Sequences

CONSTANTS Request,       \* what a device may ask
          NoRequest,     \* nothing is being answered
          Fits(_, _)     \* Fits(r, a): a is an answer to the request r

VARIABLES pending,       \* the requests not yet taken, in the order sent
          current,       \* the request being answered, or NoRequest
          answers,       \* the answers written, in order
          open           \* the connection is open
vars == <<pending, current, answers, open>>

Init == pending = <<>> /\ current = NoRequest /\ answers = <<>> /\ open = TRUE

Ask ==
  /\ Len(pending') = Len(pending) + 1
  /\ SubSeq(pending', 1, Len(pending)) = pending
  /\ pending'[Len(pending')] \in Request
  /\ UNCHANGED <<current, answers, open>>

Take ==
  /\ open = TRUE /\ current = NoRequest /\ pending # <<>>
  /\ current' = Head(pending)
  /\ pending' = Tail(pending)
  /\ UNCHANGED <<answers, open>>

(* The answer is the last thing written, so it belongs to the request.      *)
Reply ==
  /\ open = TRUE /\ current # NoRequest
  /\ Len(answers') = Len(answers) + 1
  /\ SubSeq(answers', 1, Len(answers)) = answers
  /\ Fits(current, answers'[Len(answers')])
  /\ current' = NoRequest
  /\ UNCHANGED <<pending, open>>

LetGo ==
  /\ current # NoRequest
  /\ current' = NoRequest
  /\ UNCHANGED <<pending, answers, open>>

Close ==
  /\ open = TRUE /\ open' = FALSE
  /\ current' = NoRequest
  /\ UNCHANGED <<pending, answers>>

Next == Ask \/ Take \/ Reply \/ LetGo \/ Close

Spec == Init /\ [][Next]_vars
=============================================================================
