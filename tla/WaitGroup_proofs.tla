-------------------------- MODULE WaitGroup_proofs --------------------------
(***************************************************************************)
(* Proofs about WaitGroup for every number of members and every counter    *)
(* width: types, the wake-up of a single waiter, and that clients which    *)
(* announce every done never meet the panic.                               *)
(***************************************************************************)
EXTENDS WaitGroup, TLAPS

USE CountAssumption, BoundAssumption, NewAssumption

\* Wrapping arithmetic of fetch_add and fetch_sub stays in the counter.
LEMMA Wrapped == \A n \in Nat : n % COUNT_MOD \in 0 .. COUNT_MOD - 1
OBVIOUS

\* What fetch_sub computes from a counter that holds something.
LEMMA SubOne ==
  ASSUME NEW n \in 1 .. COUNT_MOD - 1
  PROVE  (n + COUNT_MOD - 1) % COUNT_MOD = n - 1
OBVIOUS

\* Every step keeps the types.
LEMMA TypeStep == TypeOK /\ [Next]_vars => TypeOK'
<1> SUFFICES ASSUME TypeOK, [Next]_vars PROVE TypeOK'
  OBVIOUS
<1> USE DEF TypeOK, Goto, DonePCs, WaitPCs, Threads
<1>1. ASSUME NEW t \in Members, NEW n \in 1 .. MaxAdd, Add(t, n) PROVE TypeOK'
  <2>1. count' \in 0 .. COUNT_MOD - 1
    BY <1>1, Wrapped DEF Add
  <2> QED
    BY <1>1, <2>1 DEF Add
<1>2. ASSUME NEW t \in Members, FetchSub(t)
      PROVE  /\ count' \in 0 .. COUNT_MOD - 1
             /\ pc' \in [Threads -> {"idle"} \cup DonePCs \cup WaitPCs]
  <2>1. count' \in 0 .. COUNT_MOD - 1
    BY <1>2, Wrapped DEF FetchSub
  <2> QED
    BY <1>2, <2>1 DEF FetchSub
<1>3. ASSUME NEW t \in Members, DoneCall(t) \/ DoneUnmatched(t) PROVE TypeOK'
  BY <1>2, <1>3 DEF DoneCall, DoneUnmatched
<1>4. ASSUME NEW t \in Members, CatchPanic(t) \/ DoneStep(t) PROVE TypeOK'
  BY <1>4 DEF CatchPanic, DoneStep, DoneStore, DoneWakeAll, client
<1>5. ASSUME NEW w \in Waiters, WaitCall(w) \/ WaitStep(w) \/ SpuriousWake(w) PROVE TypeOK'
  BY <1>5 DEF WaitCall, WaitStep, WaitLoad, WaitFutex, WaitClear, SpuriousWake, client
<1>6. CASE UNCHANGED vars
  BY <1>6 DEF vars, client
<1> QED
  BY <1>1, <1>3, <1>4, <1>5, <1>6 DEF Next

\* The counter and the flag keep their type in every reachable state.
THEOREM Typing == Spec => []TypeOK
<1>1. Init => TypeOK
  BY DEF Init, TypeOK
<1> QED
  BY <1>1, TypeStep, PTL DEF Spec

-----------------------------------------------------------------------------
(* The clients' account                                                    *)

\* Every step keeps the account.
LEMMA AccountStep == AccountInv /\ [Next]_vars => AccountInv'
<1> SUFFICES ASSUME AccountInv, [Next]_vars PROVE NoPanic'
  BY TypeStep DEF AccountInv
<1>0. TypeOK /\ NoPanic
  BY DEF AccountInv
<1> USE DEF Goto
<1>1. ASSUME NEW t \in Members, NEW n \in 1 .. MaxAdd, Add(t, n) PROVE NoPanic'
  BY <1>0, <1>1 DEF Add, NoPanic, TypeOK
<1>2. ASSUME NEW t \in Members, DoneCall(t) PROVE NoPanic'
  <2> SUFFICES ASSUME unmatched' = 0
               PROVE  count' = owed' /\ \A u \in Threads : pc'[u] # "panicked"
    BY DEF NoPanic
  <2>1. count = owed /\ owed' = owed - 1 /\ ~(count < 1)
    BY <1>0, <1>2 DEF DoneCall, NoPanic, TypeOK
  <2>2. count' = count - 1
    BY <1>0, <1>2, <2>1, SubOne DEF DoneCall, FetchSub, TypeOK
  <2>3. pc' = [pc EXCEPT ![t] = IF count > 1 THEN "idle" ELSE "d_store"]
    BY <1>2, <2>1 DEF DoneCall, FetchSub
  <2> QED
    BY <1>0, <1>2, <2>1, <2>2, <2>3 DEF DoneCall, NoPanic, TypeOK
<1>3. ASSUME NEW t \in Members, DoneUnmatched(t) PROVE NoPanic'
  BY <1>0, <1>3 DEF DoneUnmatched, NoPanic, TypeOK
<1>4. CASE /\ UNCHANGED <<count, client>>
           /\ \A t \in Threads : pc'[t] = "panicked" => pc[t] = "panicked"
  BY <1>0, <1>4 DEF NoPanic, client
<1>5. ASSUME NEW t \in Members, CatchPanic(t) \/ DoneStep(t) PROVE NoPanic'
  BY <1>0, <1>4, <1>5 DEF CatchPanic, DoneStep, DoneStore, DoneWakeAll, TypeOK
<1>6. ASSUME NEW w \in Waiters, WaitCall(w) \/ WaitStep(w) \/ SpuriousWake(w)
      PROVE  NoPanic'
  BY <1>0, <1>4, <1>6
     DEF WaitCall, WaitStep, WaitLoad, WaitFutex, WaitClear, SpuriousWake, TypeOK
<1>7. CASE UNCHANGED vars
  BY <1>4, <1>7 DEF vars
<1> QED
  BY <1>1, <1>2, <1>3, <1>5, <1>6, <1>7 DEF Next

\* The account holds at first, with what new(n) announces.
LEMMA AccountInit == Init => AccountInv
BY DEF Init, TypeOK, AccountInv, NoPanic, Threads

\* As long as clients announce every done, the counter is their account and no
\* done fails its assertion, however their calls interleave.
THEOREM AccountKept == Spec => []AccountInv
BY AccountInit, AccountStep, PTL DEF Spec

\* The first done that nobody announced does fail it.
THEOREM FirstUnmatchedCaught == Spec => FirstUnmatchedPanics
<1>1. AccountInv /\ [Next]_vars =>
        [unmatched = 0 /\ unmatched' = 1 => \E t \in Threads : pc'[t] = "panicked"]_vars
  <2> SUFFICES ASSUME AccountInv, Next, unmatched = 0, unmatched' = 1
               PROVE  \E t \in Threads : pc'[t] = "panicked"
    OBVIOUS
  <2>1. PICK t \in Members : DoneUnmatched(t)
    BY DEF Next, Add, DoneCall, CatchPanic, DoneStep, DoneStore, DoneWakeAll,
       WaitCall, WaitStep, WaitLoad, WaitFutex, WaitClear, SpuriousWake, client
  <2>2. count = 0 /\ t \in Threads
    BY <2>1 DEF AccountInv, NoPanic, DoneUnmatched, Threads
  <2>3. pc'[t] = "panicked"
    BY <2>1, <2>2 DEF AccountInv, TypeOK, DoneUnmatched, FetchSub, Goto
  <2> QED
    BY <2>2, <2>3
<1> QED
  BY <1>1, AccountKept, PTL DEF Spec, FirstUnmatchedPanics

-----------------------------------------------------------------------------
(* The single waiter                                                       *)

\* What a wake-up has to find at each waiter while every done was announced.
WakeOK(w) ==
  /\ pc[w] = "w_asleep" /\ count = 0 => Storing \/ Waking
  /\ pc[w] = "w_futex" /\ count = 0 => flag = 1 \/ Storing

\* A step of another thread that neither lowers the flag nor lowers the counter
\* nor takes a done past its store or its wake keeps what a waiter relies on.
LEMMA QuietStep ==
  ASSUME TypeOK, NEW t \in Threads, NEW w \in Waiters, WakeOK(w), count' = count, flag' = flag,
         \A u \in Threads \ {t} : pc'[u] = pc[u],
         pc[t] \notin {"d_store", "d_wake"},
         w = t => pc'[t] \notin {"w_asleep", "w_futex"}
  PROVE  WakeOK(w)'
<1>1. (Storing => Storing') /\ (Waking => Waking')
  BY DEF Storing, Waking
<1> QED
  BY <1>1 DEF WakeOK, Threads

\* Every step keeps WakeInv when there is one waiter.
LEMMA WakeStep ==
  ASSUME \A v, w \in Waiters : v = w
  PROVE  WakeInv /\ [Next]_vars => WakeInv'
<1> SUFFICES ASSUME WakeInv, [Next]_vars PROVE WakeInv'
  OBVIOUS
<1>0. AccountInv /\ AccountInv' /\ TypeOK /\ TypeOK'
  BY AccountStep DEF WakeInv, AccountInv
<1>a. unmatched = 0 => \A w \in Waiters : WakeOK(w)
  BY DEF WakeInv, NoLostWakeup, WakeOK
<1> SUFFICES ASSUME unmatched' = 0, NEW w \in Waiters PROVE WakeOK(w)'
  BY <1>0 DEF WakeInv, NoLostWakeup, WakeOK
<1>b. w \in Threads
  BY DEF Threads
<1> USE DEF Goto
<1>1. ASSUME NEW t \in Members, NEW n \in 1 .. MaxAdd, Add(t, n) PROVE WakeOK(w)'
  <2>1. count' # 0
    BY <1>0, <1>1 DEF AccountInv, NoPanic, Add, TypeOK
  <2> QED
    BY <2>1 DEF WakeOK
<1>2. ASSUME NEW t \in Members, DoneCall(t) PROVE WakeOK(w)'
  <2>0. t \in Threads
    BY DEF Threads
  <2>1. CASE count = 1
    <3>1. pc'[t] = "d_store"
      BY <1>0, <1>2, <2>0, <2>1 DEF DoneCall, FetchSub, TypeOK
    <3> QED
      BY <2>0, <3>1 DEF WakeOK, Storing
  <2>2. CASE count # 1
    <3>1. owed' # 0
      BY <1>0, <1>2, <2>2 DEF AccountInv, NoPanic, DoneCall, TypeOK
    <3> QED
      BY <1>0, <3>1 DEF AccountInv, NoPanic, WakeOK
  <2> QED
    BY <2>1, <2>2
<1>3. ASSUME NEW t \in Members, DoneUnmatched(t) PROVE WakeOK(w)'
  BY <1>0, <1>3 DEF DoneUnmatched, TypeOK
<1>4. ASSUME NEW t \in Threads,
             CatchPanic(t) \/ WaitCall(t) \/ WaitLoad(t) \/ WaitFutex(t) \/ SpuriousWake(t)
      PROVE  WakeOK(w)'
  <2>1. UNCHANGED <<count, flag, client>>
    BY <1>4 DEF CatchPanic, WaitCall, WaitLoad, WaitFutex, SpuriousWake
  <2>2. /\ \A u \in Threads \ {t} : pc'[u] = pc[u]
        /\ pc[t] \notin {"d_store", "d_wake"}
    BY <1>0, <1>4 DEF CatchPanic, WaitCall, WaitLoad, WaitFutex, SpuriousWake, TypeOK
  <2>3. WakeOK(w)
    BY <1>a, <2>1 DEF client
  <2>4. CASE w = t /\ pc'[t] \in {"w_asleep", "w_futex"}
    <3>1. (Storing => Storing') /\ (Waking => Waking')
      BY <2>2 DEF Storing, Waking
    <3>2. \/ pc'[t] = "w_futex" /\ count > 0
          \/ pc'[t] = "w_asleep" /\ pc[t] = "w_futex" /\ flag = 0
      BY <1>0, <1>4, <2>4
         DEF CatchPanic, WaitCall, WaitLoad, WaitFutex, SpuriousWake, TypeOK
    <3> QED
      BY <2>1, <2>3, <2>4, <3>1, <3>2 DEF WakeOK
  <2>5. CASE ~(w = t /\ pc'[t] \in {"w_asleep", "w_futex"})
    BY <1>0, <2>1, <2>2, <2>3, <2>5, QuietStep
  <2> QED
    BY <2>4, <2>5
<1>5. ASSUME NEW t \in Members, DoneStep(t) PROVE WakeOK(w)'
  <2>1. t \in Threads /\ UNCHANGED <<count, client>>
    BY <1>5 DEF Threads, DoneStep, DoneStore, DoneWakeAll
  <2>2. WakeOK(w)
    BY <1>a, <2>1 DEF client
  <2>3. CASE DoneStore(t)
    BY <1>0, <1>b, <2>1, <2>2, <2>3 DEF DoneStore, WakeOK, Waking, TypeOK
  <2>4. CASE DoneWakeAll(t)
    <3>1. Storing => Storing'
      BY <2>1, <2>4 DEF DoneWakeAll, Storing
    <3>2. pc'[w] # "w_asleep" /\ (pc'[w] = "w_futex" => pc[w] = "w_futex")
      BY <1>b, <2>4 DEF DoneWakeAll
    <3> QED
      BY <2>1, <2>2, <2>4, <3>1, <3>2 DEF DoneWakeAll, WakeOK
  <2> QED
    BY <1>5, <2>3, <2>4 DEF DoneStep
<1>6. ASSUME NEW t \in Waiters, WaitClear(t) PROVE WakeOK(w)'
  <2>1. t = w /\ pc'[w] = "idle"
    BY <1>0, <1>6, <1>b DEF WaitClear, TypeOK
  <2> QED
    BY <2>1 DEF WakeOK
<1>7. CASE UNCHANGED vars
  BY <1>a, <1>7 DEF vars, client, WakeOK, Storing, Waking
<1> QED
  BY <1>1, <1>2, <1>3, <1>4, <1>5, <1>6, <1>7 DEF Next, Threads, WaitStep

\* With one waiter no wake-up is lost: asleep on a zero counter it still has a
\* wake_all coming, in every round of use.
THEOREM SingleWaiterIsWoken ==
  ASSUME \A v, w \in Waiters : v = w
  PROVE  Spec => []NoLostWakeup
<1>2. Init => WakeInv
  <2>1. ASSUME Init PROVE NoLostWakeup /\ \A w \in Waiters : pc[w] # "w_futex"
    BY <2>1 DEF Init, NoLostWakeup, Threads
  <2> QED
    BY AccountInit, <2>1 DEF WakeInv
<1>3. WakeInv => NoLostWakeup
  BY DEF WakeInv
<1>4. WakeInv /\ [Next]_vars => WakeInv'
  BY WakeStep
<1> QED
  BY <1>2, <1>3, <1>4, PTL DEF Spec

=============================================================================
