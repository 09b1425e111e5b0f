------------------------------ MODULE SpscRing ------------------------------
(***************************************************************************)
(* The lock-free core of omango's bounded SPSC queue: SpscBounded of       *)
(* src/queue/bounded.rs without its wakers, over the elements of           *)
(* src/queue/elem.rs.                                                      *)
(*                                                                         *)
(* It is the ring of MpmcRing with one sender, one receiver and no compare *)
(* and exchange: each side owns its meta, so that the only shared words    *)
(* are the laps of the elements and the closed flag.  Laps are 32-bit      *)
(* words that wrap; since closed has a word of its own, they may.          *)
(*                                                                         *)
(* The calls are try_send, try_recv and close; SpscBounded adds the        *)
(* blocking ones.  One action is one access to a shared word; an owner's   *)
(* work on its meta joins the access before.                               *)
(***************************************************************************)
EXTENDS Naturals, Sequences, FiniteSets

CONSTANTS
  Messages,   \* the payloads: the sender tries the lowest it has left
  NoMsg,      \* what an element holds before its first write
  Capacity,   \* raw_cap of SpscBounded::new: a zero cap becomes one
  LAP_MOD     \* laps count modulo this, 2^32 in the code

Slots == 0 .. Capacity - 1

ASSUME CapacityAssumption == Capacity \in Nat \ {0}

\* An even number of laps, as 2^32 is.
ASSUME LapAssumption == LAP_MOD \in Nat \ (0 .. 3) /\ LAP_MOD % 2 = 0

ASSUME MessagesAssumption == Messages \subseteq Nat /\ NoMsg \notin Messages

VARIABLES
  write_meta,  \* [idx, lap]: the next element to write
  read_meta,   \* [idx, lap]: the next element to read
  lap,         \* ElemArr.lap of every element
  msg,         \* ElemArr.msg of every element
  closed,      \* Meta.closed
  spc, rpc,    \* where the sender and the receiver are
  sent, read,  \* local: the meta the sender, the receiver has claimed
  sval, rval,  \* local: the message each carries
  todo,        \* the messages not yet handed over
  got          \* what the receiver's calls returned, in order

sender == <<spc, sent, sval, todo>>
receiver == <<rpc, read, rval, got>>
vars == <<write_meta, read_meta, lap, msg, closed, sender, receiver>>

Laps == 0 .. LAP_MOD - 1
Meta == [idx : Slots, lap : Laps]

SenderPCs == {"idle", "s_closed", "s_lap", "s_recheck", "s_write", "s_publish",
              "s_ok", "s_full", "s_disconnected"}
ReceiverPCs == {"idle", "r_lap", "r_recheck", "r_read", "r_release", "r_ok", "r_empty"}

\* The successor of a meta: the next index, or index 0 two laps later.
Advance(m) ==
  IF m.idx + 1 < Capacity
  THEN [m EXCEPT !.idx = m.idx + 1]
  ELSE [idx |-> 0, lap |-> (m.lap + 2) % LAP_MOD]

Init ==
  /\ write_meta = [idx |-> 0, lap |-> 0]
  /\ read_meta = [idx |-> 0, lap |-> 1]
  /\ lap = [i \in Slots |-> 0]
  /\ msg = [i \in Slots |-> NoMsg]
  /\ closed = FALSE
  /\ spc = "idle" /\ rpc = "idle"
  /\ sent = write_meta /\ read = read_meta
  /\ sval = NoMsg /\ rval = NoMsg
  /\ todo = Messages
  /\ got = <<>>

is_close == closed

-----------------------------------------------------------------------------
(* Sending                                                                 *)

SendCall(m) ==
  /\ spc = "idle"
  /\ m \in todo /\ \A l \in todo : m <= l
  /\ todo' = todo \ {m}
  /\ sval' = m
  /\ spc' = "s_closed"
  /\ UNCHANGED <<write_meta, read_meta, lap, msg, closed, sent, receiver>>

SendLoadClosed ==
  /\ spc = "s_closed"
  /\ spc' = IF closed THEN "s_disconnected" ELSE "s_lap"
  /\ UNCHANGED <<write_meta, read_meta, lap, msg, closed, sent, sval, todo, receiver>>

\* Mutant: only a lap that is behind is told from one that is ready.
SendLoadLapLess ==
  /\ spc = "s_lap"
  /\ \/ /\ write_meta.lap >= lap[write_meta.idx]
        /\ sent' = write_meta
        /\ write_meta' = Advance(write_meta)
        /\ spc' = "s_write"
     \/ /\ write_meta.lap < lap[write_meta.idx]
        /\ spc' = "s_closed"
        /\ UNCHANGED <<sent, write_meta>>
  /\ UNCHANGED <<read_meta, lap, msg, closed, sval, todo, receiver>>

\* Equal claims the element, Greater looks twice before it is Full, and Less
\* waits for the element: the loop starts over with the meta it has.
SendLoadLap ==
  /\ spc = "s_lap"
  /\ \/ /\ write_meta.lap = lap[write_meta.idx]
        /\ sent' = write_meta
        /\ write_meta' = Advance(write_meta)
        /\ spc' = "s_write"
     \/ /\ write_meta.lap > lap[write_meta.idx]
        /\ spc' = "s_recheck"
        /\ UNCHANGED <<sent, write_meta>>
     \/ /\ write_meta.lap < lap[write_meta.idx]
        /\ spc' = "s_closed"
        /\ UNCHANGED <<sent, write_meta>>
  /\ UNCHANGED <<read_meta, lap, msg, closed, sval, todo, receiver>>

\* Mutant: the second load is left out.
SendNoRecheck ==
  /\ spc = "s_recheck"
  /\ spc' = "s_full"
  /\ UNCHANGED <<write_meta, read_meta, lap, msg, closed, sent, sval, todo, receiver>>

\* Mutant: a full element is waited for.
SendRecheckWaits ==
  /\ spc = "s_recheck"
  /\ spc' = "s_closed"
  /\ UNCHANGED <<write_meta, read_meta, lap, msg, closed, sent, sval, todo, receiver>>

SendRecheck ==
  /\ spc = "s_recheck"
  /\ spc' = IF write_meta.lap > lap[write_meta.idx] THEN "s_full" ELSE "s_closed"
  /\ UNCHANGED <<write_meta, read_meta, lap, msg, closed, sent, sval, todo, receiver>>

SendWrite ==
  /\ spc = "s_write"
  /\ msg' = [msg EXCEPT ![sent.idx] = sval]
  /\ spc' = "s_publish"
  /\ UNCHANGED <<write_meta, read_meta, lap, closed, sent, sval, todo, receiver>>

SendPublish ==
  /\ spc = "s_publish"
  /\ lap' = [lap EXCEPT ![sent.idx] = (sent.lap + 1) % LAP_MOD]
  /\ spc' = "s_ok"
  /\ UNCHANGED <<write_meta, read_meta, msg, closed, sent, sval, todo, receiver>>

SendReturn ==
  /\ spc \in {"s_ok", "s_full", "s_disconnected"}
  /\ todo' = IF spc = "s_ok" THEN todo ELSE todo \cup {sval}
  /\ sval' = NoMsg
  /\ spc' = "idle"
  /\ UNCHANGED <<write_meta, read_meta, lap, msg, closed, sent, receiver>>

\* The blocking send starts over when the queue was full.
SendRetry ==
  /\ spc = "s_full"
  /\ spc' = "s_closed"
  /\ UNCHANGED <<write_meta, read_meta, lap, msg, closed, sent, sval, todo, receiver>>

SenderStep ==
  \/ SendLoadClosed \/ SendLoadLap \/ SendRecheck
  \/ SendWrite \/ SendPublish \/ SendReturn

-----------------------------------------------------------------------------
(* Receiving and closing                                                   *)

RecvCall ==
  /\ rpc = "idle"
  /\ rpc' = "r_lap"
  /\ UNCHANGED <<write_meta, read_meta, lap, msg, closed, read, rval, got, sender>>

RecvLoadLap ==
  /\ rpc = "r_lap"
  /\ \/ /\ read_meta.lap = lap[read_meta.idx]
        /\ read' = read_meta
        /\ read_meta' = Advance(read_meta)
        /\ rpc' = "r_read"
     \/ /\ read_meta.lap # lap[read_meta.idx]
        /\ rpc' = IF read_meta.lap > lap[read_meta.idx] THEN "r_recheck" ELSE "r_lap"
        /\ UNCHANGED <<read, read_meta>>
  /\ UNCHANGED <<write_meta, lap, msg, closed, rval, got, sender>>

RecvRecheck ==
  /\ rpc = "r_recheck"
  /\ rpc' = IF read_meta.lap > lap[read_meta.idx] THEN "r_empty" ELSE "r_lap"
  /\ UNCHANGED <<write_meta, read_meta, lap, msg, closed, read, rval, got, sender>>

\* Mutant: the element is released in the step that reads it.
RecvReadReleasing ==
  /\ rpc = "r_read"
  /\ rval' = msg[read.idx]
  /\ lap' = [lap EXCEPT ![read.idx] = (read.lap + 1) % LAP_MOD]
  /\ rpc' = "r_release"
  /\ UNCHANGED <<write_meta, read_meta, msg, closed, read, got, sender>>

RecvRead ==
  /\ rpc = "r_read"
  /\ rval' = msg[read.idx]
  /\ rpc' = "r_release"
  /\ UNCHANGED <<write_meta, read_meta, lap, msg, closed, read, got, sender>>

RecvRelease ==
  /\ rpc = "r_release"
  /\ lap' = [lap EXCEPT ![read.idx] = (read.lap + 1) % LAP_MOD]
  /\ rpc' = "r_ok"
  /\ UNCHANGED <<write_meta, read_meta, msg, closed, read, rval, got, sender>>

RecvReturn ==
  /\ rpc \in {"r_ok", "r_empty"}
  /\ got' = IF rpc = "r_ok" THEN Append(got, rval) ELSE got
  /\ rval' = NoMsg
  /\ rpc' = "idle"
  /\ UNCHANGED <<write_meta, read_meta, lap, msg, closed, read, sender>>

\* The blocking recv starts over when the queue was empty.
RecvRetry ==
  /\ rpc = "r_empty"
  /\ rpc' = "r_lap"
  /\ UNCHANGED <<write_meta, read_meta, lap, msg, closed, read, rval, got, sender>>

ReceiverStep == RecvLoadLap \/ RecvRecheck \/ RecvRead \/ RecvRelease \/ RecvReturn

\* The store of close(); what it does to the wakers is in SpscBounded.
Close ==
  /\ closed' = TRUE
  /\ UNCHANGED <<write_meta, read_meta, lap, msg, sender, receiver>>

Next ==
  \/ \E m \in Messages : SendCall(m)
  \/ SenderStep \/ SendRetry
  \/ RecvCall \/ ReceiverStep \/ RecvRetry
  \/ Close

Spec == Init /\ [][Next]_vars

-----------------------------------------------------------------------------
(* Properties                                                              *)

\* Type invariant: every index names an element of the buffer.
TypeOK ==
  /\ write_meta \in Meta /\ read_meta \in Meta
  /\ sent \in Meta /\ read \in Meta
  /\ lap \in [Slots -> Laps]
  /\ msg \in [Slots -> Messages \cup {NoMsg}]
  /\ closed \in BOOLEAN
  /\ spc \in SenderPCs /\ rpc \in ReceiverPCs
  /\ sval \in Messages \cup {NoMsg} /\ rval \in Messages \cup {NoMsg}
  /\ todo \subseteq Messages
  /\ got \in Seq(Messages \cup {NoMsg})

Writing == spc \in {"s_write", "s_publish"}
Reading == rpc \in {"r_read", "r_release"}

\* The types hold, and the sender and the receiver are never inside the same
\* element, however often the laps have wrapped: their unlocked accesses to its
\* message do not race.
ElementExclusive == TypeOK /\ (Writing /\ Reading => sent.idx # read.idx)

\* The claims ahead of the receiver, counted in the wrapped arithmetic of laps.
Rounds == (LAP_MOD \div 2) * Capacity
Position(m) == (m.lap \div 2) * Capacity + m.idx
Backlog == (Position(write_meta) + Rounds - Position(read_meta)) % Rounds

SlotMsg(i) == IF spc = "s_write" /\ sent.idx = i THEN sval ELSE msg[i]

Pending == [k \in 1 .. Backlog |-> SlotMsg((read_meta.idx + k - 1) % Capacity)]

Delivered ==
  CASE rpc = "r_read" -> Append(got, msg[read.idx])
    [] rpc \in {"r_release", "r_ok"} -> Append(got, rval)
    [] OTHER -> got

\* A send that has found the queue open may claim its element after a close, so
\* the abstract channel stays open here.
Channel == INSTANCE FifoChannel
           WITH Receivers <- {"receiver"}, queue <- Pending, closed <- FALSE,
                got <- [r \in {"receiver"} |-> Delivered]

\* The ring implements the channel, across every wrap of its laps: first in,
\* first out, at most Capacity messages, each received once.
ImplementsChannel == Channel!Spec

\* Full is answered only when the queue is full, or the element that comes next
\* is still being read; Empty only when the queue is empty, or the element at its
\* head is still being written.
FailuresAreHonest ==
  [][/\ spc # "s_full" /\ spc' = "s_full" =>
          Len(Pending) = Capacity \/ (Reading /\ read.idx = write_meta.idx)
     /\ rpc # "r_empty" /\ rpc' = "r_empty" =>
          Pending = <<>> \/ (Writing /\ sent.idx = read_meta.idx)]_vars

\* The write lap has wrapped past an element that nobody has received yet.
Overtaken == write_meta.lap < lap[write_meta.idx]

=============================================================================
