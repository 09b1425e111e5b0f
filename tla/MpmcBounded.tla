----------------------------- MODULE MpmcBounded -----------------------------
(***************************************************************************)
(* omango's bounded MPMC queue with its blocking operations: the lock-free *)
(* ring of MpmcRing composed with the wakers of Wakers, as send, recv,     *)
(* try_send, try_recv and close of src/queue/bounded.rs do.                *)
(*                                                                         *)
(* While a thread is in the code of the wakers its pc stays where the ring *)
(* left it: at s_full or r_empty while it waits, at s_ok or r_ok while it  *)
(* notifies, at c_ok while it closes.  When a step of the wakers brings it *)
(* back, the ring goes on in the same step.                                *)
(***************************************************************************)
EXTENDS MpmcRing

VARIABLES waiters, start, wk_closed, empty, parked, at, mode

W == INSTANCE Wakers

wvars == <<waiters, start, wk_closed, empty, parked, at, mode>>
bvars == <<vars, wvars>>

Users == Senders \cup Receivers

\* The word a waiter watches is the lap of its element, which has moved on.
Ready(t) == lap[meta[t].idx] # elem_lap[t]

Waiting(t) == pc[t] \in {"s_full", "r_empty"}
HandedOver(t) == pc[t] \in {"s_ok", "r_ok"}

BoundedInit == Init /\ W!WakerInit

\* try_send and send, or try_recv and recv.
Call(t) ==
  /\ \/ t \in Senders /\ SendCall(t)
     \/ t \in Receivers /\ RecvCall(t)
  /\ W!Begin(t)

Select(t) ==
  /\ \/ /\ t \in Senders
        /\ \/ SendLoadMeta(t) \/ SendLoadLap(t) \/ SendCas(t)
           \/ SendRecheck(t) \/ SendWrite(t) \/ SendPublish(t)
     \/ /\ t \in Receivers
        /\ \/ RecvLoadMeta(t) \/ RecvLoadLap(t) \/ RecvCas(t)
           \/ RecvRecheck(t) \/ RecvRead(t) \/ RecvRelease(t)
  /\ UNCHANGED wvars

Return(t) == IF t \in Senders THEN SendReturn(t) ELSE RecvReturn(t)

\* Full and Empty, or Disconnected.
ReturnError(t) ==
  /\ \/ Waiting(t) /\ W!Fail(t)
     \/ pc[t] = "s_closed" /\ W!Disconnected(t)
  /\ Return(t)

\* The message was handed over: wake_one_reader_if_any, wake_one_writer_if_any.
ReturnOk(t) ==
  /\ HandedOver(t)
  /\ W!WakeOne(t)
  /\ IF at'[t] = "run" THEN Return(t) ELSE UNCHANGED vars

\* After the wait the selection starts over, a last time for a receive that has
\* seen Closed; a send that has seen it fails.
GoOn(t) ==
  IF t \in Receivers THEN RecvRetry(t)
  ELSE IF mode'[t] = "last" THEN UNCHANGED vars
  ELSE SendRetry(t)

WaitStep(t) ==
  /\ Waiting(t)
  /\ W!Wait(t, is_close, Ready(t))
  /\ IF at'[t] = "run" THEN GoOn(t) ELSE UNCHANGED vars

SpuriousWake(t) == W!SpuriousWake(t) /\ UNCHANGED vars

\* The bit, then the write waker, then the read waker.
SetClosed(c) ==
  /\ CloseCall(c) \/ CloseCas(c)
  /\ IF pc'[c] = "c_ok" THEN W!BeginClose(c) ELSE UNCHANGED wvars

CloseWakers(c) ==
  /\ W!CloseWakers(c)
  /\ IF at'[c] = "run" THEN CloseReturn(c) ELSE UNCHANGED vars

UserStep(t) == Select(t) \/ ReturnError(t) \/ ReturnOk(t) \/ WaitStep(t)

BoundedNext ==
  \/ \E t \in Users : Call(t) \/ UserStep(t) \/ SpuriousWake(t)
  \/ \E c \in Closers : SetClosed(c) \/ CloseWakers(c)

BoundedSpec == BoundedInit /\ [][BoundedNext]_bvars

\* The operating system runs every thread that can run, and parking_lot hands
\* a contended lock over eventually (SF because the lock comes and goes).
\* A compare-exchange that may succeed again and again does so at last.
\* Nobody has to make a call, and nothing wakes a sleeper but a futex wake.
Fairness ==
  /\ \A t \in Users :
       /\ SF_bvars(UserStep(t))
       /\ SF_bvars(Select(t) /\ <<write_meta, read_meta>>' # <<write_meta, read_meta>>)
  /\ \A c \in Closers :
       /\ SF_bvars(pc[c] # "idle" /\ SetClosed(c))
       /\ SF_bvars(SetClosed(c) /\ write_meta' # write_meta)
       /\ SF_bvars(CloseWakers(c))

FairSpec == BoundedSpec /\ Fairness

-----------------------------------------------------------------------------
(* Properties                                                              *)

\* Every Waiter in the deques belongs to a call that is still between register
\* and unregister, and start stays a count of them (Wakers), whatever the ring
\* and the closers do.
RegistrySound == W!RegistrySound

\* The unlocked empty flag is the truth about the deque (Wakers).
EmptyFlagExact == W!EmptyFlagExact

\* The close has been through the waker w: the deque was empty when it left.
ClosedFor(w) ==
  /\ is_close
  /\ \A c \in Closers :
       at[c] # "close_write" /\ (w = "read" => at[c] # "close_read")

\* Once the close has been through a waker, nobody falls asleep there any more, or
\* is past the look at the closed bit that keeps it from it: neither a waiter that
\* every wake-up of the close has missed, nor one that registers only now.
NobodySleepsAfterClose ==
  \A t \in Users :
    ClosedFor(W!Side(t)) => at[t] \notin {"checklap", "park", "wait", "asleep"}

\* A blocking receive reports "empty and disconnected" only from a selection it
\* started after it had seen the closed bit; the element at the head was then
\* empty, or claimed by a sender that has still to publish.
LastTryIsHonest ==
  [][\A r \in Receivers :
       mode[r] = "last" /\ pc[r] # "r_empty" /\ pc'[r] = "r_empty" =>
         /\ is_close
         /\ Pending = <<>> \/ \E s \in Senders : InElement(s) /\ meta[s].idx = read_meta.idx]_bvars

\* A thread that skips the wake-up because it found nobody registered leaves
\* nobody behind who is past the last look at the element it handed over.
SkipIsSafe ==
  [][\A t \in Users :
       at[t] = "run" /\ HandedOver(t) /\ pc'[t] = "idle" =>
         ~ \E u \in Users :
              /\ W!Side(u) = W!Other(t)
              /\ meta[u].idx = meta[t].idx
              /\ at[u] \in {"park", "wait", "asleep"}]_bvars

\* The element that the next send, or the next receive, claims is there for it.
Claimable(t) ==
  IF t \in Receivers THEN lap[read_meta.idx] = read_meta.lap
  ELSE lap[write_meta.idx] = write_meta.lap

\* A blocking call does not sleep on while what it waits for is there: it wakes,
\* or somebody else takes the element.
NobodySleepsOnWork ==
  \A t \in Users :
    at[t] = "asleep" /\ Claimable(t) ~> ~(at[t] = "asleep" /\ Claimable(t))

=============================================================================
