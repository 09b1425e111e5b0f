----------------------------- MODULE MpmcHandles -----------------------------
(***************************************************************************)
(* The life of a bounded MPMC queue behind its handles (src/queue/mpmc.rs):*)
(* bounded() makes one sender and one receiver that share the queue in an  *)
(* Arc, a handle can be cloned for another thread, and the last handle to  *)
(* go drops the queue, which drops its elements (src/queue/elem.rs).       *)
(*                                                                         *)
(* A call borrows its handle, so a thread is in no call when it drops it.  *)
(* The queue itself is the lock-free ring of MpmcRing.                     *)
(***************************************************************************)
EXTENDS MpmcRing, Functions

VARIABLES
  owners,  \* the threads that own a handle, one each
  drops    \* how often the drop of the queue has dropped each message, and
           \* the bytes of an element that was never written (NoMsg)

hvars == <<vars, owners, drops>>

Contents == Messages \cup {NoMsg}

HandlesInit ==
  /\ Init
  /\ \E s \in Senders, r \in Receivers : owners = {s, r}
  /\ drops = [x \in Contents |-> 0]

\* A clone is for a thread that sends, or that only closes.
CloneSender(s, u) ==
  /\ s \in owners /\ u \notin owners
  /\ pc[s] = "idle"
  /\ owners' = owners \cup {u}
  /\ UNCHANGED <<vars, drops>>

CloneReceiver(r, u) ==
  /\ r \in owners /\ u \notin owners
  /\ pc[r] = "idle"
  /\ owners' = owners \cup {u}
  /\ UNCHANGED <<vars, drops>>

\* Mutant: only the elements between the two indices are dropped.
DroppedBetween(x) ==
  Cardinality({i \in Slots : msg[i] = x /\ read_meta.idx <= i /\ i < write_meta.idx})

\* ElemArr::drop takes the message of every element for initialised, whether
\* it was never written, is still to be received, or was already read.
Dropped(x) == Cardinality({i \in Slots : msg[i] = x})

DropHandle(t) ==
  /\ t \in owners
  /\ pc[t] = "idle"
  /\ owners' = owners \ {t}
  /\ drops' = IF owners = {t} THEN [x \in Contents |-> Dropped(x)] ELSE drops
  /\ UNCHANGED vars

Use(t) ==
  /\ t \in owners
  /\ \/ t \in Senders /\ SenderStep(t)
     \/ t \in Receivers /\ ReceiverStep(t)
     \/ t \in Closers /\ CloserStep(t)
  /\ UNCHANGED <<owners, drops>>

HandlesNext ==
  \/ \E s \in Senders, u \in Senders \cup Closers : CloneSender(s, u)
  \/ \E r \in Receivers, u \in Receivers \cup Closers : CloneReceiver(r, u)
  \/ \E t \in Threads : Use(t) \/ DropHandle(t)

HandlesSpec == HandlesInit /\ [][HandlesNext]_hvars

-----------------------------------------------------------------------------
(* Properties                                                              *)

\* Every message that was sent and not received is dropped with the queue,
\* exactly once: none leaks, and none that its sender has back is dropped.  (A
\* message that was received may be dropped again, if the element it went
\* through was not written since.)
PendingDroppedOnce ==
  owners = {} =>
    \A m \in Messages :
      \/ \E r \in Receivers : m \in Range(got[r])
      \/ drops[m] = IF m \in todo THEN 0 ELSE 1

=============================================================================
