------------------------------- MODULE Wakers -------------------------------
(***************************************************************************)
(* The two wakers of a bounded queue (src/queue/waker.rs) and the way the  *)
(* blocking calls of src/queue/bounded.rs use them.                        *)
(*                                                                         *)
(* A thread that finds the queue full (empty) polls, registers a Waiter    *)
(* for the element it needs, and sleeps in a futex on the waiter's parked  *)
(* word.  A thread that sent (received) loads the empty flag of the        *)
(* opposite waker and, if somebody is registered, notifies under the lock. *)
(*                                                                         *)
(* The queue is a parameter of the steps: whether it is closed, and        *)
(* whether the element a thread waits for is ready, that is, its lap is no *)
(* longer the one the waiter expects.  at[t] = "run" while a thread is in  *)
(* the queue's own code; a step that takes it back there ends the wait,    *)
(* the notify or the close that the thread was in.                         *)
(*                                                                         *)
(* The futex and the mutex are libraries.  A futex wait sleeps only if the *)
(* word holds the expected value, may wake spuriously, and a wake of a     *)
(* word nobody sleeps on does nothing.  Only the owner of a waiter writes  *)
(* its parked word, and its steps there read nothing that a notifier       *)
(* writes, so notify() and close(), which visit several waiters one after  *)
(* the other under the lock, are single steps.                             *)
(***************************************************************************)
EXTENDS Naturals, FiniteSets, Sequences, SequencesExt, Functions

CONSTANTS
  Senders,    \* the threads that wait on the write waker
  Receivers,  \* the threads that wait on the read waker
  Closers     \* the threads that close the queue

VARIABLES
  waiters,    \* Metadata.waiters of each waker: the owners of the Waiters
  start,      \* Metadata.start: how many of them have been notified
  wk_closed,  \* Metadata.closed
  empty,      \* Waker.empty
  parked,     \* for each thread, the parked word of its Waiter
  at,         \* where each thread is in the code of the wakers
  mode        \* local: a try call, a blocking call, or one that saw Closed

wakers == <<waiters, start, wk_closed, empty>>
wvars == <<wakers, parked, at, mode>>

Users == Senders \cup Receivers
Sides == {"read", "write"}
Modes == {"try", "block", "last"}

\* The waker a thread waits on, and the one it notifies.
Side(t) == IF t \in Receivers THEN "read" ELSE "write"
Other(t) == IF t \in Receivers THEN "write" ELSE "read"

\* Where a thread may be while its Waiter is registered.
WaitPCs == {"check", "checklap", "park", "wait", "asleep", "unregister"}
UserPCs == {"run", "lap", "register", "push", "notify"} \cup WaitPCs
CloserPCs == {"run", "close_write", "close_read"}

\* The lock of a waker spans two steps only in register().
GuardFree(w) == \A t \in Users : ~(at[t] = "push" /\ Side(t) = w)

Move(t, from, to) == at[t] = from /\ at' = [at EXCEPT ![t] = to]

WakerInit ==
  /\ waiters = [w \in Sides |-> <<>>]
  /\ start = [w \in Sides |-> 0]
  /\ wk_closed = [w \in Sides |-> FALSE]
  /\ empty = [w \in Sides |-> TRUE]
  /\ parked = [t \in Users |-> "UN_PARKED"]
  /\ at = [t \in Users \cup Closers |-> "run"]
  /\ mode = [t \in Users |-> "try"]

\* A call begins, in the queue's code, and ends there.
Begin(t) ==
  /\ at[t] = "run"
  /\ \E k \in {"try", "block"} : mode' = [mode EXCEPT ![t] = k]
  /\ UNCHANGED <<wakers, parked, at>>

End(t) == Move(t, "run", "run") /\ mode' = [mode EXCEPT ![t] = "try"]

\* A blocking call that may still wait does not take Full or Empty for an answer.
Fail(t) == mode[t] # "block" /\ End(t) /\ UNCHANGED <<wakers, parked>>

\* Disconnected ends any call at once.
Disconnected(t) == End(t) /\ UNCHANGED <<wakers, parked>>

-----------------------------------------------------------------------------
(* Waiting: Waiter::retry, Waker::register, Waiter::sleep, unregister      *)

\* Mutant: polls that find the queue open end the call as Closed does.
RetryGivesUp(t, closed) ==
  /\ at[t] = "run" /\ mode[t] = "block"
  /\ mode' = [mode EXCEPT ![t] = "last"]
  /\ UNCHANGED <<wakers, parked, at>>

\* The last of the polls of retry(): the earlier ones leave no trace.
RetryIsClose(t, closed) ==
  /\ mode[t] = "block"
  /\ \/ /\ closed
        /\ Move(t, "run", "run")
        /\ mode' = [mode EXCEPT ![t] = "last"]
     \/ ~closed /\ Move(t, "run", "lap") /\ UNCHANGED mode
  /\ UNCHANGED <<wakers, parked>>

RetryLap(t, ready) ==
  /\ Move(t, "lap", IF ready THEN "run" ELSE "register")
  /\ UNCHANGED <<wakers, parked, mode>>

\* Under the lock: give up on a closed waker or a lap that moved on.
Register(t, ready) ==
  /\ GuardFree(Side(t))
  /\ Move(t, "register", IF wk_closed[Side(t)] \/ ready THEN "run" ELSE "push")
  /\ UNCHANGED <<wakers, parked, mode>>

\* Metadata::register.
Enter(w, t) == waiters' = [waiters EXCEPT ![w] = Append(@, t)]

\* Mutant: the empty flag stays up.
RegisterQuietly(t) ==
  /\ Move(t, "push", "check")
  /\ Enter(Side(t), t)
  /\ UNCHANGED <<start, wk_closed, empty, parked, mode>>

RegisterPush(t) ==
  /\ Move(t, "push", "check")
  /\ Enter(Side(t), t)
  /\ empty' = [empty EXCEPT ![Side(t)] = FALSE]
  /\ UNCHANGED <<start, wk_closed, parked, mode>>

\* Mutant: Closed skips unregister.
SleepClosedLeaves(t, closed) ==
  /\ \/ /\ closed
        /\ Move(t, "check", "run")
        /\ parked' = [parked EXCEPT ![t] = "UN_PARKED"]
        /\ mode' = [mode EXCEPT ![t] = "last"]
     \/ ~closed /\ Move(t, "check", "checklap") /\ UNCHANGED <<parked, mode>>
  /\ UNCHANGED wakers

SleepIsClose(t, closed) ==
  /\ \/ /\ closed
        /\ Move(t, "check", "unregister")
        /\ parked' = [parked EXCEPT ![t] = "UN_PARKED"]
        /\ mode' = [mode EXCEPT ![t] = "last"]
     \/ ~closed /\ Move(t, "check", "checklap") /\ UNCHANGED <<parked, mode>>
  /\ UNCHANGED wakers

SleepLap(t, ready) ==
  /\ \/ /\ ready
        /\ Move(t, "checklap", "unregister")
        /\ parked' = [parked EXCEPT ![t] = "UN_PARKED"]
     \/ ~ready /\ Move(t, "checklap", "park") /\ UNCHANGED parked
  /\ UNCHANGED <<wakers, mode>>

Park(t) ==
  /\ Move(t, "park", "wait")
  /\ parked' = [parked EXCEPT ![t] = "PARKED"]
  /\ UNCHANGED <<wakers, mode>>

FutexWait(t) ==
  /\ parked[t] = "PARKED"
  /\ Move(t, "wait", "asleep")
  /\ UNCHANGED <<wakers, parked, mode>>

SpuriousWake(t) ==
  /\ Move(t, "asleep", "check")
  /\ UNCHANGED <<wakers, parked, mode>>

\* Mutant: start is lowered below zero.
LowerBelow(n) == n - 1

\* start shrinks whichever waiter leaves, notified or not.
Lower(n) == IF n > 0 THEN n - 1 ELSE n

\* Mutant: whoever leaves declares the deque empty.
NobodyLeft(deque) == TRUE

IsEmpty(deque) == deque = <<>>

\* Metadata::unregister: the waiter leaves from wherever it stands.
Leave(w, t) ==
  /\ \E i \in DOMAIN waiters[w] :
       /\ waiters[w][i] = t
       /\ waiters' = [waiters EXCEPT ![w] = RemoveAt(@, i)]
  /\ start' = [start EXCEPT ![w] = Lower(@)]

Unregister(t) ==
  LET w == Side(t) IN
  /\ GuardFree(w)
  /\ Move(t, "unregister", "run")
  /\ Leave(w, t)
  /\ empty' = [empty EXCEPT ![w] = IsEmpty(waiters'[w])]
  /\ UNCHANGED <<wk_closed, parked, mode>>

\* The steps of a waiting thread, with what it sees of the queue.
Wait(t, closed, ready) ==
  \/ RetryIsClose(t, closed) \/ RetryLap(t, ready)
  \/ Register(t, ready) \/ RegisterPush(t)
  \/ SleepIsClose(t, closed) \/ SleepLap(t, ready) \/ Park(t) \/ FutexWait(t)
  \/ Unregister(t)

-----------------------------------------------------------------------------
(* Waking and closing                                                      *)

\* A futex wake releases a sleeper; anybody else does not notice it.
Wake(S, t, label) ==
  at' = [u \in DOMAIN at |->
           IF u = t THEN label
           ELSE IF u \in S /\ at[u] = "asleep" THEN "check" ELSE at[u]]

\* The empty flag is loaded without the lock: nobody waits, and the call is over,
\* or somebody may.
LookForWaiters(t) ==
  /\ \/ empty[Other(t)] /\ End(t)
     \/ ~empty[Other(t)] /\ Move(t, "run", "notify") /\ UNCHANGED mode
  /\ UNCHANGED <<wakers, parked>>

\* Metadata::notify counts one waiter more as notified, then wakes every
\* waiter counted so far that it finds parked; none is removed.
Notify(t) ==
  LET w == Other(t)
      n == IF start[w] < Len(waiters[w]) THEN start[w] + 1 ELSE start[w]
      notified == {u \in Range(SubSeq(waiters[w], 1, n)) : parked[u] = "PARKED"}
  IN /\ at[t] = "notify"
     /\ GuardFree(w)
     /\ start' = [start EXCEPT ![w] = n]
     /\ Wake(notified, t, "run")
     /\ mode' = [mode EXCEPT ![t] = "try"]
     /\ UNCHANGED <<waiters, wk_closed, empty, parked>>

WakeOne(t) == LookForWaiters(t) \/ Notify(t)

\* The closed flag of the queue is set: the write waker is next.
BeginClose(c) ==
  /\ Move(c, "run", "close_write")
  /\ UNCHANGED <<wakers, parked, mode>>

\* Mutant: one round of wake-ups is taken to be enough.
CloseWakerOnce(c, w, next) ==
  /\ GuardFree(w)
  /\ wk_closed' = [wk_closed EXCEPT ![w] = TRUE]
  /\ Wake(Range(waiters[w]), c, next)
  /\ UNCHANGED <<waiters, start, empty, parked, mode>>

\* Metadata::close.
WakeAll(c, w) ==
  /\ wk_closed' = [wk_closed EXCEPT ![w] = TRUE]
  /\ Wake(Range(waiters[w]), c, at[c])

\* Waker::close wakes everybody and starts over until nobody is registered.
CloseWaker(c, w, next) ==
  /\ GuardFree(w)
  /\ \/ /\ ~IsEmpty(waiters[w])
        /\ WakeAll(c, w)
        /\ UNCHANGED empty
     \/ /\ IsEmpty(waiters[w])
        /\ empty' = [empty EXCEPT ![w] = TRUE]
        /\ at' = [at EXCEPT ![c] = next]
        /\ UNCHANGED wk_closed
  /\ UNCHANGED <<waiters, start, parked, mode>>

CloseWakers(c) ==
  \/ at[c] = "close_write" /\ CloseWaker(c, "write", "close_read")
  \/ at[c] = "close_read" /\ CloseWaker(c, "read", "run")

-----------------------------------------------------------------------------
\* Any queue: it may answer each look of a thread either way.
WakerNext ==
  \/ \E t \in Users :
       \/ Begin(t) \/ Fail(t) \/ Disconnected(t) \/ SpuriousWake(t) \/ WakeOne(t)
       \/ \E closed, ready \in BOOLEAN : Wait(t, closed, ready)
  \/ \E c \in Closers : BeginClose(c) \/ CloseWakers(c)

WakerSpec == WakerInit /\ [][WakerNext]_wvars

-----------------------------------------------------------------------------
(* Properties                                                              *)

\* Type invariant of both wakers.
WakersTypeOK ==
  /\ waiters \in [Sides -> Seq(Users)]
  /\ start \in [Sides -> Nat]
  /\ wk_closed \in [Sides -> BOOLEAN]
  /\ empty \in [Sides -> BOOLEAN]
  /\ parked \in [Users -> {"PARKED", "UN_PARKED"}]
  /\ at \in [Users \cup Closers -> UserPCs \cup CloserPCs]
  /\ mode \in [Users -> Modes]

\* The types hold, and the deque of raw pointers lists exactly the Waiters whose
\* owners are still between register and unregister, each once: notify never
\* follows a pointer into a stack frame that is gone.  The first start of them,
\* which notify unwraps, exist.
RegistrySound ==
  WakersTypeOK /\ \A w \in Sides :
    /\ Range(waiters[w]) = {t \in Users : at[t] \in WaitPCs /\ Side(t) = w}
    /\ IsInjective(waiters[w])
    /\ start[w] <= Len(waiters[w])

\* The flag that lets a thread skip the lock tells the truth about the deque.
EmptyFlagExact == \A w \in Sides : empty[w] <=> waiters[w] = <<>>

=============================================================================
