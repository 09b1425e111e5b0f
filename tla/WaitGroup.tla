------------------------------ MODULE WaitGroup ------------------------------
(***************************************************************************)
(* omango's WaitGroup (src/wg.rs): a 32-bit counter that members raise and *)
(* lower, and a flag word on which waiters sleep in a futex until a done() *)
(* brings the counter to zero.                                             *)
(*                                                                         *)
(* One action is one atomic access or one futex call.  A futex wait sleeps *)
(* only if the flag holds 0, and may wake spuriously.                      *)
(***************************************************************************)
EXTENDS Naturals

CONSTANTS
  Members,       \* threads that call add and done
  Waiters,       \* threads that call wait; a thread may be both
  COUNT_MOD,     \* the counter counts modulo this, 2^32 in the code
  MaxAdd,        \* bound: the largest n of new(n) and add(n)
  MaxAdds,       \* bound: how often add is called
  MaxUnmatched   \* bound: calls of done that no add has announced

Threads == Members \cup Waiters

ASSUME CountAssumption == COUNT_MOD \in Nat \ {0}

ASSUME BoundAssumption ==
  MaxAdd \in Nat /\ MaxAdds \in Nat /\ MaxUnmatched \in Nat

ASSUME NewAssumption == MaxAdd < COUNT_MOD

VARIABLES
  count,      \* WaitGroup.count
  flag,       \* WaitGroup.flag
  pc,         \* where each thread is in the operation it executes
  owed,       \* the clients' account: announced calls of done still to come
  adds,       \* the number of calls of add so far
  unmatched   \* the number of unannounced calls of done so far

client == <<owed, adds, unmatched>>
vars == <<count, flag, pc, client>>

DonePCs == {"d_store", "d_wake", "panicked"}
WaitPCs == {"w_load", "w_futex", "w_asleep", "w_clear"}

Goto(t, label) == pc' = [pc EXCEPT ![t] = label]

Init ==
  /\ count \in 0 .. MaxAdd
  /\ owed = count
  /\ flag = 0
  /\ pc = [t \in Threads |-> "idle"]
  /\ adds = 0
  /\ unmatched = 0

-----------------------------------------------------------------------------
\* Mutant: add overwrites the counter.
AddStoring(t, n) ==
  /\ pc[t] = "idle"
  /\ adds < MaxAdds
  /\ owed + n < COUNT_MOD
  /\ count > 0 \/ \A w \in Waiters : pc[w] \notin WaitPCs
  /\ count' = n % COUNT_MOD
  /\ owed' = owed + n
  /\ adds' = adds + 1
  /\ UNCHANGED <<flag, pc, unmatched>>

\* add(n).  The documentation allows it while the counter is positive or while
\* nobody waits; clients that stay below COUNT_MOD never wrap the counter.
Add(t, n) ==
  /\ pc[t] = "idle"
  /\ adds < MaxAdds
  /\ owed + n < COUNT_MOD
  /\ count > 0 \/ \A w \in Waiters : pc[w] \notin WaitPCs
  /\ count' = (count + n) % COUNT_MOD
  /\ owed' = owed + n
  /\ adds' = adds + 1
  /\ UNCHANGED <<flag, pc, unmatched>>

\* Mutant: the last member wakes and forgets the flag.
FetchSubNoStore(t) ==
  /\ count' = (count + COUNT_MOD - 1) % COUNT_MOD
  /\ Goto(t, IF count < 1 THEN "panicked" ELSE IF count > 1 THEN "idle" ELSE "d_wake")

\* Mutant: the assertion is gone.
FetchSubUnchecked(t) ==
  /\ count' = (count + COUNT_MOD - 1) % COUNT_MOD
  /\ Goto(t, IF count > 1 THEN "idle" ELSE "d_store")

\* fetch_sub returns the old value, which the assertion and the test for the
\* last member look at after the counter has changed.
FetchSub(t) ==
  /\ count' = (count + COUNT_MOD - 1) % COUNT_MOD
  /\ Goto(t, IF count < 1 THEN "panicked" ELSE IF count > 1 THEN "idle" ELSE "d_store")

DoneCall(t) ==
  /\ pc[t] = "idle"
  /\ owed > 0
  /\ owed' = owed - 1
  /\ FetchSub(t)
  /\ UNCHANGED <<flag, adds, unmatched>>

\* A client's mistake: done without an add.
DoneUnmatched(t) ==
  /\ pc[t] = "idle"
  /\ owed = 0
  /\ unmatched < MaxUnmatched
  /\ unmatched' = unmatched + 1
  /\ FetchSub(t)
  /\ UNCHANGED <<flag, owed, adds>>

\* The caller catches the panic, as the test of done without an add does.
CatchPanic(t) ==
  /\ pc[t] = "panicked"
  /\ Goto(t, "idle")
  /\ UNCHANGED <<count, flag, client>>

DoneStore(t) ==
  /\ pc[t] = "d_store"
  /\ flag' = 1
  /\ Goto(t, "d_wake")
  /\ UNCHANGED <<count, client>>

DoneWakeAll(t) ==
  /\ pc[t] = "d_wake"
  /\ pc' = [u \in Threads |->
              IF u = t THEN "idle"
              ELSE IF pc[u] = "w_asleep" THEN "w_load" ELSE pc[u]]
  /\ UNCHANGED <<count, flag, client>>

-----------------------------------------------------------------------------
WaitCall(w) ==
  /\ pc[w] = "idle"
  /\ Goto(w, "w_load")
  /\ UNCHANGED <<count, flag, client>>

\* should_wait
WaitLoad(w) ==
  /\ pc[w] = "w_load"
  /\ \/ count > 0 /\ Goto(w, "w_futex")
     \/ count = 0 /\ Goto(w, "w_clear")
  /\ UNCHANGED <<count, flag, client>>

\* Mutant: the wait sleeps whatever the flag holds.
WaitPlain(w) ==
  /\ pc[w] = "w_futex"
  /\ Goto(w, "w_asleep")
  /\ UNCHANGED <<count, flag, client>>

WaitFutex(w) ==
  /\ pc[w] = "w_futex"
  /\ \/ flag = 0 /\ Goto(w, "w_asleep")
     \/ flag # 0 /\ Goto(w, "w_load")
  /\ UNCHANGED <<count, flag, client>>

SpuriousWake(w) ==
  /\ pc[w] = "w_asleep"
  /\ Goto(w, "w_load")
  /\ UNCHANGED <<count, flag, client>>

WaitClear(w) ==
  /\ pc[w] = "w_clear"
  /\ flag' = 0
  /\ Goto(w, "idle")
  /\ UNCHANGED <<count, client>>

-----------------------------------------------------------------------------
DoneStep(t) == DoneStore(t) \/ DoneWakeAll(t)
WaitStep(w) == WaitLoad(w) \/ WaitFutex(w) \/ WaitClear(w)

Next ==
  \/ \E t \in Members :
       \/ \E n \in 1 .. MaxAdd : Add(t, n)
       \/ DoneCall(t) \/ DoneUnmatched(t) \/ CatchPanic(t) \/ DoneStep(t)
  \/ \E w \in Waiters : WaitCall(w) \/ WaitStep(w) \/ SpuriousWake(w)

Spec == Init /\ [][Next]_vars

\* A thread inside done or wait runs on unless it sleeps.  Nobody has to call.
Fairness ==
  /\ \A t \in Members : WF_vars(DoneStep(t))
  /\ \A w \in Waiters : WF_vars(WaitStep(w))

FairSpec == Spec /\ Fairness

-----------------------------------------------------------------------------
(* Properties                                                              *)

\* Type invariant.
TypeOK ==
  /\ count \in 0 .. COUNT_MOD - 1
  /\ flag \in {0, 1}
  /\ pc \in [Threads -> {"idle"} \cup DonePCs \cup WaitPCs]
  /\ owed \in Nat
  /\ adds \in 0 .. MaxAdds
  /\ unmatched \in 0 .. MaxUnmatched

\* Somebody is about to set the flag, or to wake the sleepers after having set it.
Storing == \E t \in Threads : pc[t] = "d_store"
Waking == \E t \in Threads : pc[t] = "d_wake"

\* A waiter that sleeps although the counter is zero will be woken: the done
\* that brought the counter to zero has still to call wake_all.
NoLostWakeup ==
  unmatched = 0 =>
    \A w \in Waiters : pc[w] = "w_asleep" /\ count = 0 => Storing \/ Waking

\* The counter is the clients' account, and the assertion in done never fails,
\* as long as every done was announced by new or add.
NoPanic ==
  unmatched = 0 => count = owed /\ \A t \in Threads : pc[t] # "panicked"

\* Inductive strengthening of NoPanic.
AccountInv == TypeOK /\ NoPanic

\* Inductive strengthening of NoLostWakeup for a single waiter: it cannot reach
\* a zero counter with the flag down and nobody about to raise it.
WakeInv ==
  /\ AccountInv
  /\ NoLostWakeup
  /\ unmatched = 0 =>
       \A w \in Waiters : pc[w] = "w_futex" /\ count = 0 => flag = 1 \/ Storing

\* "If the counter becomes zero, all threads blocked on wait are released", as
\* long as nobody calls done unannounced, which wraps the counter.
ZeroReleases ==
  \A w \in Waiters :
    count = 0 /\ pc[w] \in WaitPCs ~> pc[w] = "idle" \/ unmatched > 0

\* The assertion in done catches the first done that no add has announced.
FirstUnmatchedPanics ==
  [][unmatched = 0 /\ unmatched' = 1 => \E t \in Threads : pc'[t] = "panicked"]_vars

=============================================================================
