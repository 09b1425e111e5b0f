---------------------------- MODULE Wakers_proofs ----------------------------
(***************************************************************************)
(* Proofs about Wakers for any number of threads and any queue: the deques *)
(* of raw pointers hold the waiting calls and nobody else, and the flag    *)
(* that is read without the lock tells the truth about them.               *)
(***************************************************************************)
EXTENDS Wakers, SequenceTheorems, TLAPS

\* A waiter that enters a deque stands in it once, after all others.
LEMMA Entering ==
  ASSUME NEW S, NEW s \in Seq(S), NEW x \in S, IsInjective(s), x \notin Range(s)
  PROVE  /\ Append(s, x) \in Seq(S)
         /\ Len(Append(s, x)) = Len(s) + 1
         /\ Range(Append(s, x)) = Range(s) \cup {x}
         /\ IsInjective(Append(s, x))
<1>1. /\ Append(s, x) \in Seq(S)
      /\ Len(Append(s, x)) = Len(s) + 1
      /\ \A i \in 1 .. Len(s) : Append(s, x)[i] = s[i]
      /\ Append(s, x)[Len(s) + 1] = x
  BY AppendProperties
<1>2. /\ DOMAIN s = 1 .. Len(s) /\ Len(s) \in Nat
      /\ DOMAIN Append(s, x) = 1 .. Len(s) + 1
  BY <1>1, LenProperties
<1>3. Range(Append(s, x)) = Range(s) \cup {x}
  BY <1>1, <1>2 DEF Range
<1>4. IsInjective(Append(s, x))
  BY <1>1, <1>2 DEF Range, IsInjective
<1> QED
  BY <1>1, <1>3, <1>4

\* A waiter that leaves a deque leaves it to the others, in their order.
LEMMA Leaving ==
  ASSUME NEW S, NEW s \in Seq(S), NEW i \in DOMAIN s, IsInjective(s)
  PROVE  /\ RemoveAt(s, i) \in Seq(S)
         /\ Len(RemoveAt(s, i)) = Len(s) - 1
         /\ Range(RemoveAt(s, i)) = Range(s) \ {s[i]}
         /\ IsInjective(RemoveAt(s, i))
<1> DEFINE before == SubSeq(s, 1, i - 1)
           after == SubSeq(s, i + 1, Len(s))
<1>1. Len(s) \in Nat /\ DOMAIN s = 1 .. Len(s) /\ \A j \in 1 .. Len(s) : s[j] \in S
  BY LenProperties
<1>2. /\ before \in Seq(S) /\ Len(before) = i - 1
      /\ \A j \in 1 .. i - 1 : before[j] = s[j]
  BY <1>1, SubSeqProperties
<1>3. /\ after \in Seq(S) /\ Len(after) = Len(s) - i
      /\ \A j \in 1 .. Len(s) - i : after[j] = s[i + j]
  BY <1>1, SubSeqProperties
<1> HIDE DEF before, after
<1>4. /\ before \o after \in Seq(S)
      /\ Len(before \o after) = Len(s) - 1
      /\ \A j \in 1 .. Len(s) - 1 :
           (before \o after)[j] = IF j < i THEN s[j] ELSE s[j + 1]
  <2>1. i \in 1 .. Len(s)
    BY <1>1
  <2>2. /\ before \o after \in Seq(S)
        /\ Len(before \o after) = Len(before) + Len(after)
        /\ \A j \in 1 .. Len(before) + Len(after) :
             (before \o after)[j] =
               IF j <= Len(before) THEN before[j] ELSE after[j - Len(before)]
    BY <1>2, <1>3, ConcatProperties
  <2>3. Len(before) + Len(after) = Len(s) - 1
    BY <1>1, <1>2, <1>3, <2>1
  <2>4. ASSUME NEW j \in 1 .. Len(s) - 1
        PROVE  (before \o after)[j] = IF j < i THEN s[j] ELSE s[j + 1]
    <3>1. CASE j < i
      BY <1>1, <1>2, <2>1, <2>2, <2>3, <3>1
    <3>2. CASE ~(j < i)
      <4>1. (before \o after)[j] = after[j - (i - 1)]
        BY <1>1, <1>2, <2>1, <2>2, <2>3, <3>2
      <4>2. j - (i - 1) \in 1 .. Len(s) - i /\ i + (j - (i - 1)) = j + 1
        BY <1>1, <2>1, <3>2
      <4> QED
        BY <1>3, <3>2, <4>1, <4>2
    <3> QED
      BY <3>1, <3>2
  <2> QED
    BY <2>2, <2>3, <2>4
<1>5. RemoveAt(s, i) = before \o after
  BY DEF RemoveAt, before, after
<1>6. /\ RemoveAt(s, i) \in Seq(S)
      /\ Len(RemoveAt(s, i)) = Len(s) - 1
      /\ \A j \in 1 .. Len(s) - 1 : RemoveAt(s, i)[j] = IF j < i THEN s[j] ELSE s[j + 1]
  BY <1>4, <1>5, Zenon
<1>7. DOMAIN RemoveAt(s, i) = 1 .. Len(s) - 1
  BY <1>6, LenProperties
<1>8. Range(RemoveAt(s, i)) = Range(s) \ {s[i]}
  <2>1. ASSUME NEW j \in 1 .. Len(s) - 1
        PROVE  RemoveAt(s, i)[j] \in Range(s) \ {s[i]}
    <3>1. PICK k \in 1 .. Len(s) : k # i /\ RemoveAt(s, i)[j] = s[k]
      <4>1. CASE j < i
        BY <1>1, <1>6, <2>1, <4>1
      <4>2. CASE ~(j < i)
        <5>1. j + 1 \in 1 .. Len(s) /\ j + 1 # i /\ RemoveAt(s, i)[j] = s[j + 1]
          BY <1>1, <1>6, <2>1, <4>2
        <5> QED
          BY <5>1
      <4> QED
        BY <4>1, <4>2
    <3> QED
      BY <1>1, <3>1 DEF Range, IsInjective
  <2>2. ASSUME NEW j \in 1 .. Len(s), s[j] # s[i]
        PROVE  s[j] \in Range(RemoveAt(s, i))
    <3>1. CASE j < i
      BY <1>1, <1>6, <1>7, <3>1 DEF Range
    <3>2. CASE j > i
      <4>1. j - 1 \in 1 .. Len(s) - 1 /\ RemoveAt(s, i)[j - 1] = s[j]
        BY <1>1, <1>6, <3>2
      <4> QED
        BY <1>7, <4>1 DEF Range
    <3> QED
      BY <1>1, <2>2, <3>1, <3>2
  <2> QED
    BY <1>1, <1>7, <2>1, <2>2 DEF Range
<1>9. IsInjective(RemoveAt(s, i))
  <2> DEFINE r == RemoveAt(s, i)
             from(j) == IF j < i THEN j ELSE j + 1
  <2>1. ASSUME NEW j \in 1 .. Len(s) - 1
        PROVE  from(j) \in 1 .. Len(s) /\ r[j] = s[from(j)]
    BY <1>1, <1>6
  <2>2. ASSUME NEW j \in 1 .. Len(s) - 1, NEW k \in 1 .. Len(s) - 1, r[j] = r[k]
        PROVE  j = k
    <3>1. from(j) = from(k)
      BY <1>1, <2>1, <2>2 DEF IsInjective
    <3> QED
      BY <1>1, <3>1
  <2> HIDE DEF r
  <2> QED
    BY <1>7, <2>2 DEF IsInjective, r
<1> QED
  BY <1>6, <1>8, <1>9

-----------------------------------------------------------------------------
(* The registry                                                            *)

\* A step that moves nobody into a deque or out of one, and keeps start inside it.
LEMMA QuietStep ==
  ASSUME RegistrySound,
         waiters' = waiters,
         start' \in [Sides -> Nat], \A w \in Sides : start'[w] <= Len(waiters[w]),
         wk_closed' \in [Sides -> BOOLEAN], empty' \in [Sides -> BOOLEAN],
         parked' \in [Users -> {"PARKED", "UN_PARKED"}], mode' \in [Users -> Modes],
         at' \in [Users \cup Closers -> UserPCs \cup CloserPCs],
         \A t \in Users : at'[t] \in WaitPCs <=> at[t] \in WaitPCs
  PROVE  RegistrySound'
<1>1. WakersTypeOK'
  BY DEF RegistrySound, WakersTypeOK
<1>2. ASSUME NEW w \in Sides
      PROVE  {t \in Users : at'[t] \in WaitPCs /\ Side(t) = w} =
             {t \in Users : at[t] \in WaitPCs /\ Side(t) = w}
  OBVIOUS
<1> QED
  BY <1>1, <1>2 DEF RegistrySound, Side

\* A call registers: it was in no deque, and is in that of its side now.
LEMMA PushStep ==
  ASSUME RegistrySound, NEW t \in Users, RegisterPush(t)
  PROVE  RegistrySound'
<1> DEFINE w == Side(t)
<1>1. /\ w \in Sides
      /\ waiters \in [Sides -> Seq(Users)] /\ IsInjective(waiters[w])
      /\ t \notin Range(waiters[w])
  BY DEF RegistrySound, WakersTypeOK, RegisterPush, Move, WaitPCs, Side, Sides
<1>2. waiters' = [waiters EXCEPT ![w] = Append(@, t)]
  BY DEF RegisterPush, Enter
<1>3. /\ waiters'[w] \in Seq(Users)
      /\ Len(waiters'[w]) = Len(waiters[w]) + 1
      /\ Range(waiters'[w]) = Range(waiters[w]) \cup {t}
      /\ IsInjective(waiters'[w])
  BY <1>1, <1>2, Entering
<1>4. \A v \in Sides : v # w => waiters'[v] = waiters[v]
  BY <1>1, <1>2
<1>5. WakersTypeOK'
  BY <1>1, <1>2, <1>3
     DEF RegistrySound, WakersTypeOK, RegisterPush, Move, UserPCs, WaitPCs
<1>6. at' = [at EXCEPT ![t] = "check"] /\ at[t] = "push" /\ start' = start
  BY DEF RegisterPush, Move
<1>7. ASSUME NEW v \in Sides
      PROVE  {u \in Users : at'[u] \in WaitPCs /\ Side(u) = v} =
             {u \in Users : at[u] \in WaitPCs /\ Side(u) = v} \cup
               (IF v = w THEN {t} ELSE {})
  BY <1>6 DEF RegistrySound, WakersTypeOK, WaitPCs
<1>8. ASSUME NEW v \in Sides
      PROVE  /\ Range(waiters'[v]) = {u \in Users : at'[u] \in WaitPCs /\ Side(u) = v}
             /\ IsInjective(waiters'[v])
             /\ start'[v] <= Len(waiters'[v])
  <2>1. CASE v = w
    <3>1. start[w] \in Nat /\ Len(waiters[w]) \in Nat /\ start[w] <= Len(waiters[w])
      BY <1>1, LenProperties DEF RegistrySound, WakersTypeOK
    <3> QED
      BY <1>3, <1>6, <1>7, <2>1, <3>1 DEF RegistrySound
  <2>2. CASE v # w
    BY <1>4, <1>6, <1>7, <2>2 DEF RegistrySound
  <2> QED
    BY <2>1, <2>2
<1> QED
  BY <1>5, <1>8 DEF RegistrySound, Side

\* A call unregisters: it stood in the deque of its side once, and start, which
\* it lowers whether it was notified or not, still counts no more than are left.
LEMMA LeaveStep ==
  ASSUME RegistrySound, NEW t \in Users, Unregister(t)
  PROVE  RegistrySound'
<1> DEFINE w == Side(t)
<1>1. /\ w \in Sides
      /\ waiters \in [Sides -> Seq(Users)] /\ IsInjective(waiters[w])
      /\ start \in [Sides -> Nat] /\ start[w] <= Len(waiters[w])
  BY DEF RegistrySound, WakersTypeOK, Side, Sides
<1>2. PICK i \in DOMAIN waiters[w] :
        waiters[w][i] = t /\ waiters' = [waiters EXCEPT ![w] = RemoveAt(@, i)]
  BY DEF Unregister, Leave
<1>3. /\ waiters'[w] \in Seq(Users)
      /\ Len(waiters'[w]) = Len(waiters[w]) - 1
      /\ Range(waiters'[w]) = Range(waiters[w]) \ {t}
      /\ IsInjective(waiters'[w])
  BY <1>1, <1>2, Leaving
<1>4. \A v \in Sides : v # w => waiters'[v] = waiters[v] /\ start'[v] = start[v]
  BY <1>1, <1>2 DEF Unregister, Leave
<1>5. start' = [start EXCEPT ![w] = Lower(@)]
  BY DEF Unregister, Leave
<1>6. /\ Lower(start[w]) \in Nat
      /\ Lower(start[w]) <= Len(waiters'[w])
  <2>1. Len(waiters[w]) \in Nat \ {0}
    BY <1>1, <1>2, LenProperties
  <2> QED
    BY <1>1, <1>3, <2>1 DEF Lower
<1>7. empty' \in [Sides -> BOOLEAN]
  BY <1>1 DEF Unregister, RegistrySound, WakersTypeOK, IsEmpty
<1>8. WakersTypeOK'
  BY <1>1, <1>2, <1>3, <1>5, <1>6, <1>7
     DEF RegistrySound, WakersTypeOK, Unregister, Move, UserPCs
<1>9. at' = [at EXCEPT ![t] = "run"] /\ at[t] = "unregister"
  BY DEF Unregister, Move
<1>10. ASSUME NEW v \in Sides
       PROVE  {u \in Users : at'[u] \in WaitPCs /\ Side(u) = v} =
              {u \in Users : at[u] \in WaitPCs /\ Side(u) = v} \ 
                (IF v = w THEN {t} ELSE {})
  BY <1>9 DEF RegistrySound, WakersTypeOK, WaitPCs
<1>11. ASSUME NEW v \in Sides
       PROVE  /\ Range(waiters'[v]) = {u \in Users : at'[u] \in WaitPCs /\ Side(u) = v}
              /\ IsInjective(waiters'[v])
              /\ start'[v] <= Len(waiters'[v])
  <2>1. CASE v = w
    BY <1>1, <1>3, <1>5, <1>6, <1>10, <2>1 DEF RegistrySound
  <2>2. CASE v # w
    BY <1>4, <1>10, <2>2 DEF RegistrySound
  <2> QED
    BY <2>1, <2>2
<1> QED
  BY <1>8, <1>11 DEF RegistrySound, Side


\* A notify counts a waiter only if there is one to count.
LEMMA NotifyStep ==
  ASSUME RegistrySound, NEW t \in Users, Notify(t)
  PROVE  RegistrySound'
<1> DEFINE w == Other(t)
           n == IF start[w] < Len(waiters[w]) THEN start[w] + 1 ELSE start[w]
<1>1. w \in Sides
  BY DEF Other, Sides
<1>2. /\ start \in [Sides -> Nat] /\ start' = [start EXCEPT ![w] = n]
      /\ \A v \in Sides : start[v] <= Len(waiters[v]) /\ Len(waiters[v]) \in Nat
  BY LenProperties DEF RegistrySound, WakersTypeOK, Notify
<1>3. start' \in [Sides -> Nat] /\ \A v \in Sides : start'[v] <= Len(waiters[v])
  BY <1>1, <1>2
<1>4. /\ at' \in [Users \cup Closers -> UserPCs \cup CloserPCs]
      /\ \A u \in Users : at'[u] \in WaitPCs <=> at[u] \in WaitPCs
  BY DEF RegistrySound, WakersTypeOK, Notify, Wake, UserPCs, WaitPCs
<1>5. mode' \in [Users -> Modes]
  BY DEF RegistrySound, WakersTypeOK, Notify, Modes
<1> QED
  BY <1>3, <1>4, <1>5, QuietStep DEF RegistrySound, WakersTypeOK, Notify

\* What closes a waker moves sleepers to their next look at the queue, and nobody
\* in or out.
LEMMA CloseStep ==
  ASSUME RegistrySound, NEW c \in Closers, BeginClose(c) \/ CloseWakers(c)
  PROVE  RegistrySound'
<1>1. /\ at' \in [Users \cup Closers -> UserPCs \cup CloserPCs]
      /\ \A u \in Users : at'[u] \in WaitPCs <=> at[u] \in WaitPCs
  <2>1. at \in [Users \cup Closers -> UserPCs \cup CloserPCs]
    BY DEF RegistrySound, WakersTypeOK
  <2>2. CASE BeginClose(c)
    BY <2>1, <2>2 DEF BeginClose, Move, UserPCs, CloserPCs, WaitPCs
  <2>3. ASSUME NEW w \in Sides, NEW next \in {"close_read", "run"},
               at[c] \in {"close_write", "close_read"}, CloseWaker(c, w, next)
        PROVE  /\ at' \in [Users \cup Closers -> UserPCs \cup CloserPCs]
               /\ \A u \in Users : at'[u] \in WaitPCs <=> at[u] \in WaitPCs
    <3>1. CASE at' = [at EXCEPT ![c] = next]
      BY <2>1, <2>3, <3>1 DEF UserPCs, CloserPCs, WaitPCs
    <3>2. CASE Wake(Range(waiters[w]), c, at[c])
      BY <2>1, <2>3, <3>2 DEF Wake, UserPCs, CloserPCs, WaitPCs
    <3> QED
      BY <2>3, <3>1, <3>2 DEF CloseWaker, WakeAll
  <2> QED
    BY <2>2, <2>3 DEF CloseWakers, Sides
<1>2. /\ wk_closed' \in [Sides -> BOOLEAN] /\ empty' \in [Sides -> BOOLEAN]
      /\ UNCHANGED <<waiters, start, parked, mode>>
  BY DEF RegistrySound, WakersTypeOK, BeginClose, CloseWakers, CloseWaker, WakeAll,
     wakers
<1> QED
  BY <1>1, <1>2, QuietStep DEF RegistrySound, WakersTypeOK

\* Every other step of a thread leaves the wakers alone, and moves the thread
\* about either among the labels of a registered call or among the rest.
LEMMA OwnStep ==
  ASSUME RegistrySound, NEW t \in Users, NEW closed \in BOOLEAN, NEW ready \in BOOLEAN,
         \/ Begin(t) \/ Fail(t) \/ Disconnected(t) \/ SpuriousWake(t) \/ LookForWaiters(t)
         \/ RetryIsClose(t, closed) \/ RetryLap(t, ready) \/ Register(t, ready)
         \/ SleepIsClose(t, closed) \/ SleepLap(t, ready) \/ Park(t) \/ FutexWait(t)
  PROVE  RegistrySound'
<1>1. UNCHANGED wakers
  BY DEF Begin, Fail, Disconnected, SpuriousWake, LookForWaiters, RetryIsClose,
     RetryLap, Register, SleepIsClose, SleepLap, Park, FutexWait
<1>2. mode' \in [Users -> Modes] /\ parked' \in [Users -> {"PARKED", "UN_PARKED"}]
  BY DEF RegistrySound, WakersTypeOK, Modes, Begin, Fail, Disconnected, End,
     SpuriousWake, LookForWaiters, RetryIsClose, RetryLap, Register, SleepIsClose,
     SleepLap, Park, FutexWait
<1>3. /\ at' \in [Users \cup Closers -> UserPCs \cup CloserPCs]
      /\ \A u \in Users : at'[u] \in WaitPCs <=> at[u] \in WaitPCs
  BY DEF RegistrySound, WakersTypeOK, UserPCs, WaitPCs, Move, Begin, Fail,
     Disconnected, End, SpuriousWake, LookForWaiters, RetryIsClose, RetryLap, Register,
     SleepIsClose, SleepLap, Park, FutexWait
<1> QED
  BY <1>1, <1>2, <1>3, QuietStep DEF RegistrySound, WakersTypeOK, wakers

\* Every step of the wakers keeps the registry sound.
LEMMA RegistryStep == RegistrySound /\ [WakerNext]_wvars => RegistrySound'
<1> SUFFICES ASSUME RegistrySound, [WakerNext]_wvars PROVE RegistrySound'
  OBVIOUS
<1>1. ASSUME NEW t \in Users, Begin(t) \/ Fail(t) \/ Disconnected(t) \/ SpuriousWake(t)
      PROVE  RegistrySound'
  BY <1>1, OwnStep
<1>2. ASSUME NEW t \in Users, WakeOne(t) PROVE RegistrySound'
  BY <1>2, OwnStep, NotifyStep DEF WakeOne
<1>3. ASSUME NEW t \in Users, NEW closed \in BOOLEAN, NEW ready \in BOOLEAN,
             Wait(t, closed, ready)
      PROVE  RegistrySound'
  BY <1>3, OwnStep, PushStep, LeaveStep DEF Wait
<1>4. ASSUME NEW c \in Closers, BeginClose(c) \/ CloseWakers(c) PROVE RegistrySound'
  BY <1>4, CloseStep
<1>5. CASE UNCHANGED wvars
  BY <1>5, QuietStep DEF RegistrySound, WakersTypeOK, wvars, wakers
<1> QED
  BY <1>1, <1>2, <1>3, <1>4, <1>5 DEF WakerNext

\* Nobody waits at first.
LEMMA RegistryInit == WakerInit => RegistrySound
<1> SUFFICES ASSUME WakerInit PROVE RegistrySound
  OBVIOUS
<1>1. ASSUME NEW w \in Sides
      PROVE  waiters[w] \in Seq(Users) /\ Len(waiters[w]) = 0 /\ DOMAIN waiters[w] = {}
  BY EmptySeq DEF WakerInit
<1>2. WakersTypeOK
  BY <1>1 DEF WakerInit, WakersTypeOK, UserPCs, CloserPCs, Modes
<1> QED
  BY <1>1, <1>2 DEF WakerInit, RegistrySound, Range, IsInjective, WaitPCs, Users

\* Over any queue, and with any threads, no deque ever holds a pointer to a
\* Waiter whose call has returned or misses one that waits.
THEOREM RegistryKept == WakerSpec => []RegistrySound
BY RegistryInit, RegistryStep, PTL DEF WakerSpec

-----------------------------------------------------------------------------
(* The flag                                                                *)

\* Every step keeps the flag of each waker in accord with its deque.
LEMMA FlagStep == RegistrySound /\ EmptyFlagExact /\ [WakerNext]_wvars => EmptyFlagExact'
<1> SUFFICES ASSUME RegistrySound, EmptyFlagExact, [WakerNext]_wvars
             PROVE  EmptyFlagExact'
  OBVIOUS
<1>0. waiters \in [Sides -> Seq(Users)] /\ empty \in [Sides -> BOOLEAN]
  BY DEF RegistrySound, WakersTypeOK
<1>1. ASSUME NEW t \in Users, RegisterPush(t) PROVE EmptyFlagExact'
  <2> DEFINE w == Side(t)
  <2>1. w \in Sides
    BY DEF Side, Sides
  <2>2. waiters'[w] # <<>> /\ empty'[w] = FALSE
    BY <1>0, <1>1, <2>1, AppendProperties DEF RegisterPush, Enter
  <2>3. \A v \in Sides : v # w => waiters'[v] = waiters[v] /\ empty'[v] = empty[v]
    BY <1>0, <1>1 DEF RegisterPush, Enter
  <2> QED
    BY <2>2, <2>3 DEF EmptyFlagExact
<1>2. ASSUME NEW t \in Users, Unregister(t) PROVE EmptyFlagExact'
  BY <1>0, <1>2 DEF Unregister, Leave, IsEmpty, EmptyFlagExact
<1>3. ASSUME NEW c \in Closers, CloseWakers(c) PROVE EmptyFlagExact'
  BY <1>0, <1>3 DEF CloseWakers, CloseWaker, WakeAll, IsEmpty, EmptyFlagExact
<1>4. CASE UNCHANGED <<waiters, empty>>
  BY <1>4 DEF EmptyFlagExact
<1>5. ASSUME NEW t \in Users, Begin(t) \/ Fail(t) \/ Disconnected(t) \/ SpuriousWake(t)
      PROVE  EmptyFlagExact'
  BY <1>4, <1>5 DEF Begin, Fail, Disconnected, SpuriousWake, wakers
<1>6. ASSUME NEW t \in Users, WakeOne(t) PROVE EmptyFlagExact'
  BY <1>4, <1>6 DEF WakeOne, LookForWaiters, Notify, wakers
<1>7. ASSUME NEW t \in Users, NEW closed \in BOOLEAN, NEW ready \in BOOLEAN,
             Wait(t, closed, ready)
      PROVE  EmptyFlagExact'
  BY <1>1, <1>2, <1>4, <1>7
     DEF Wait, RetryIsClose, RetryLap, Register, SleepIsClose, SleepLap, Park,
         FutexWait, wakers
<1>8. ASSUME NEW c \in Closers, BeginClose(c) PROVE EmptyFlagExact'
  BY <1>4, <1>8 DEF BeginClose, wakers
<1>9. CASE UNCHANGED wvars
  BY <1>4, <1>9 DEF wvars, wakers
<1> QED
  BY <1>3, <1>5, <1>6, <1>7, <1>8, <1>9 DEF WakerNext

\* Over any queue, the flag that a sender or receiver loads without the lock is
\* up exactly while the deque is empty.
THEOREM FlagKept == WakerSpec => []EmptyFlagExact
<1>1. WakerInit => EmptyFlagExact
  BY DEF WakerInit, EmptyFlagExact
<1>2. QED
  BY <1>1, RegistryInit, RegistryStep, FlagStep, PTL DEF WakerSpec

=============================================================================
