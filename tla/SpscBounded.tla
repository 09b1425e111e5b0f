----------------------------- MODULE SpscBounded -----------------------------
(***************************************************************************)
(* omango's bounded SPSC queue with its blocking operations: the lock-free *)
(* ring of SpscRing composed with the wakers of Wakers, by the trait       *)
(* Bounded of src/queue/bounded.rs, which the MPMC queue shares.           *)
(*                                                                         *)
(* As in MpmcBounded, the sender's and the receiver's place in the ring    *)
(* stays where it is while the code of the wakers runs.  Closers own       *)
(* clones of either handle; the closed flag is a word of its own, so a     *)
(* thread that has seen the queue open may claim an element after it was   *)
(* closed, and wait on a waker that is about to be closed.                 *)
(***************************************************************************)
EXTENDS SpscRing

CONSTANT Closers  \* the threads that call close

VARIABLES waiters, start, wk_closed, empty, parked, at, mode

W == INSTANCE Wakers WITH Senders <- {"sender"}, Receivers <- {"receiver"}

wvars == <<waiters, start, wk_closed, empty, parked, at, mode>>
bvars == <<vars, wvars>>

\* A waiter expects the lap its selection has failed on, one less than its own.
Expected(m) == (m.lap + LAP_MOD - 1) % LAP_MOD
Ready(m) == lap[m.idx] # Expected(m)

BoundedInit == Init /\ W!WakerInit

-----------------------------------------------------------------------------
(* try_send and send                                                       *)

CallSend(m) == SendCall(m) /\ W!Begin("sender")

SendSelect ==
  /\ SendLoadClosed \/ SendLoadLap \/ SendRecheck \/ SendWrite \/ SendPublish
  /\ UNCHANGED wvars

SendOk ==
  /\ spc = "s_ok"
  /\ W!WakeOne("sender")
  /\ IF at'["sender"] = "run" THEN SendReturn ELSE UNCHANGED vars

SendError ==
  /\ \/ spc = "s_full" /\ W!Fail("sender")
     \/ spc = "s_disconnected" /\ W!Disconnected("sender")
  /\ SendReturn

SendWait ==
  /\ spc = "s_full"
  /\ W!Wait("sender", is_close, Ready(write_meta))
  /\ IF at'["sender"] = "run" /\ mode'["sender"] # "last" THEN SendRetry ELSE UNCHANGED vars

SenderRuns == SendSelect \/ SendOk \/ SendError \/ SendWait

-----------------------------------------------------------------------------
(* try_recv and recv                                                       *)

CallRecv == RecvCall /\ W!Begin("receiver")

RecvSelect ==
  /\ RecvLoadLap \/ RecvRecheck \/ RecvRead \/ RecvRelease
  /\ UNCHANGED wvars

RecvOk ==
  /\ rpc = "r_ok"
  /\ W!WakeOne("receiver")
  /\ IF at'["receiver"] = "run" THEN RecvReturn ELSE UNCHANGED vars

RecvError ==
  /\ rpc = "r_empty"
  /\ W!Fail("receiver")
  /\ RecvReturn

\* A receive that has seen Closed selects a last time.
RecvWait ==
  /\ rpc = "r_empty"
  /\ W!Wait("receiver", is_close, Ready(read_meta))
  /\ IF at'["receiver"] = "run" THEN RecvRetry ELSE UNCHANGED vars

ReceiverRuns == RecvSelect \/ RecvOk \/ RecvError \/ RecvWait

-----------------------------------------------------------------------------
(* close                                                                   *)

\* The flag, then the write waker, then the read waker; a second close does all
\* of it again.
CallClose(c) == W!BeginClose(c) /\ Close

CloseWakers(c) == W!CloseWakers(c) /\ UNCHANGED vars

SpuriousWake(t) == W!SpuriousWake(t) /\ UNCHANGED vars

BoundedNext ==
  \/ \E m \in Messages : CallSend(m)
  \/ SenderRuns \/ SpuriousWake("sender")
  \/ CallRecv \/ ReceiverRuns \/ SpuriousWake("receiver")
  \/ \E c \in Closers : CallClose(c) \/ CloseWakers(c)

BoundedSpec == BoundedInit /\ [][BoundedNext]_bvars

\* A thread inside a call runs on, and a contended lock is handed over (SF).
\* Nobody has to call or to close, and only a futex wake wakes a sleeper.
Fairness ==
  /\ SF_bvars(SenderRuns) /\ SF_bvars(ReceiverRuns)
  /\ \A c \in Closers : SF_bvars(CloseWakers(c))

FairSpec == BoundedSpec /\ Fairness

-----------------------------------------------------------------------------
(* Properties                                                              *)

\* A try call returns whatever the other side does or leaves undone; so does a
\* blocking one, or it sleeps.  The exception is a send on a full queue whose
\* write lap has just wrapped: there the element looks ahead of the sender,
\* which spins until somebody receives or closes.
CallsReturnOrSleep ==
  /\ spc # "idle" ~> spc = "idle" \/ Overtaken \/ at["sender"] = "asleep"
  /\ rpc # "idle" ~> rpc = "idle" \/ at["receiver"] = "asleep"

\* After a close every call returns, those that wait or sleep included, however
\* the flag and the two wakers were seen, and close itself returns.
CloseReleases ==
  /\ closed /\ spc # "idle" ~> spc = "idle"
  /\ closed /\ rpc # "idle" ~> rpc = "idle"
  /\ \A c \in Closers : at[c] # "run" ~> at[c] = "run"

=============================================================================
