---------------------------- MODULE FifoChannel ----------------------------
(***************************************************************************)
(* What a bounded queue of omango promises its users, with every internal  *)
(* step hidden: a first-in first-out channel that never holds more than    *)
(* Capacity messages, hands each message to one receiver, and accepts      *)
(* nothing after it was closed while what it holds can still be received.  *)
(* A send, a receive and a close each take effect in one step; an          *)
(* operation that reports full, empty or closed leaves no trace here.      *)
(***************************************************************************)
EXTENDS Naturals, Sequences

CONSTANTS
  Messages,   \* the payloads
  Receivers,  \* the threads that receive
  Capacity    \* the number of messages the channel can hold

VARIABLES
  queue,      \* the messages sent and not yet received, oldest first
  closed,     \* TRUE once the channel was closed
  got         \* for each receiver, what it received, in order

vars == <<queue, closed, got>>

Init ==
  /\ queue = <<>>
  /\ closed = FALSE
  /\ got = [r \in Receivers |-> <<>>]

Send(m) ==
  /\ ~closed
  /\ Len(queue) < Capacity
  /\ queue' = Append(queue, m)
  /\ UNCHANGED <<closed, got>>

Recv(r) ==
  /\ queue # <<>>
  /\ got' = [got EXCEPT ![r] = Append(@, Head(queue))]
  /\ queue' = Tail(queue)
  /\ UNCHANGED closed

Close ==
  /\ closed' = TRUE
  /\ UNCHANGED <<queue, got>>

Next ==
  \/ \E m \in Messages : Send(m)
  \/ \E r \in Receivers : Recv(r)
  \/ Close

Spec == Init /\ [][Next]_vars

=============================================================================
