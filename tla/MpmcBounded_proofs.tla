------------------------- MODULE MpmcBounded_proofs -------------------------
(***************************************************************************)
(* Proofs about the bounded MPMC queue for every number of threads, every  *)
(* capacity and every mask.  First the ring: types, exclusive access to    *)
(* the elements, that a closed queue is never claimed from again, and that *)
(* no message is lost or doubled.  Then the handles: a message still in    *)
(* the queue when the last handle goes is dropped exactly once.  Then,     *)
(* while the lap has not reached the closed bit: the ring is a first-in    *)
(* first-out channel, and Full and Empty say what they seem to.  Last the  *)
(* blocking queue: its steps are steps of the ring and steps of the        *)
(* wakers, so what is proved of either holds of the composition; together  *)
(* they show that a thread which skips a wake-up leaves nobody behind, and *)
(* that a last try is honest.                                              *)
(***************************************************************************)
EXTENDS MpmcBounded, MpmcHandles, TLAPS, FiniteSetTheorems, SequenceTheorems

USE CapacityAssumption, MaskAssumption

\* Advance and WithClosedBit (bounded.rs, the two compare-exchange loops and
\* close) keep the index of a meta inside the buffer.
LEMMA MetaOperators ==
  ASSUME NEW m \in Meta
  PROVE  Advance(m) \in Meta /\ WithClosedBit(m) \in Meta
BY DEF Meta, Slots, Advance, WithClosedBit

\* Popping the frame of a call leaves well-typed locals behind.
LEMMA PopFrameType ==
  ASSUME TypeOK, NEW t \in Threads, PopFrame(t)
  PROVE  /\ meta' \in [Threads -> Meta]
         /\ elem_lap' \in [Threads -> Nat]
         /\ val' \in [Threads -> Messages \cup {NoMsg}]
BY DEF TypeOK, PopFrame, NoMeta, Meta, Slots

\* A sender keeps its message until it returns.
LEMMA CarryStep == TypeOK /\ [Next]_vars => SendersCarry'
<1> SUFFICES ASSUME TypeOK, [Next]_vars PROVE SendersCarry'
  OBVIOUS
<1> USE DEF TypeOK, SendersCarry, Goto
<1>1. ASSUME NEW s \in Senders, SenderStep(s) PROVE SendersCarry'
  <2> s \in Threads
    BY DEF Threads
  <2>1. CASE SendCall(s)
    BY <2>1 DEF SendCall
  <2>2. CASE SendReturn(s)
    BY <2>2 DEF SendReturn, PopFrame
  <2>3. CASE val' = val /\ pc[s] # "idle" /\ \A u \in Senders \ {s} : pc'[u] = pc[u]
    BY <2>3
  <2>4. ASSUME ~SendCall(s), ~SendReturn(s)
        PROVE  val' = val /\ pc[s] # "idle" /\ \A u \in Senders \ {s} : pc'[u] = pc[u]
    BY <1>1, <2>4 DEF SenderStep, SendLoadMeta, SendLoadLap, SendCas,
       SendRecheck, SendWrite, SendPublish, SendRetry, locals, Threads
  <2> QED
    BY <2>1, <2>2, <2>3, <2>4
<1>2. ASSUME NEW r \in Receivers, ReceiverStep(r) PROVE SendersCarry'
  <2>1. \A u \in Senders : pc'[u] = pc[u] /\ val'[u] = val[u]
    BY <1>2, ThreadsAssumption DEF Threads, ReceiverStep, RecvCall, RecvLoadMeta,
       RecvLoadLap, RecvCas, RecvRecheck, RecvRead, RecvRelease, RecvReturn,
       RecvRetry, PopFrame, locals
  <2> QED
    BY <2>1
<1>3. ASSUME NEW c \in Closers, CloserStep(c) PROVE SendersCarry'
  <2>1. \A u \in Senders : pc'[u] = pc[u] /\ val'[u] = val[u]
    BY <1>3, ThreadsAssumption DEF Threads, CloserStep, CloseCall, CloseCas,
       CloseReturn, PopFrame
  <2> QED
    BY <2>1
<1>4. CASE UNCHANGED vars
  BY <1>4 DEF vars, locals
<1> QED
  BY <1>1, <1>2, <1>3, <1>4 DEF Next

\* One step of Next keeps the types.
LEMMA TypeStep == TypeOK /\ [Next]_vars => TypeOK'
<1> SUFFICES ASSUME TypeOK, [Next]_vars PROVE TypeOK'
  OBVIOUS
<1>0. SendersCarry'
  BY CarryStep
<1>1. ASSUME NEW s \in Senders, SenderStep(s) PROVE TypeOK'
  <2> s \in Threads
    BY DEF Threads
  <2>1. CASE SendCall(s)
    BY <1>0, <2>1 DEF TypeOK, SendCall, Goto, SenderPCs, ring
  <2>2. CASE SendLoadMeta(s)
    BY <1>0, <2>2 DEF TypeOK, SendLoadMeta, Goto, SenderPCs, ring, ends
  <2>3. CASE SendLoadLap(s)
    <3>1. elem_lap' \in [Threads -> Nat]
      BY <2>3 DEF TypeOK, SendLoadLap, Meta
    <3>2. pc' \in [Threads -> {"idle"} \cup SenderPCs \cup ReceiverPCs \cup CloserPCs]
      BY <2>3 DEF TypeOK, SendLoadLap, Goto, SenderPCs
    <3> QED
      BY <1>0, <2>3, <3>1, <3>2 DEF TypeOK, SendLoadLap, ring, ends
  <2>4. CASE SendCas(s)
    <3>1. Advance(meta[s]) \in Meta
      BY MetaOperators DEF TypeOK
    <3> QED
      BY <1>0, <2>4, <3>1 DEF TypeOK, SendCas, Goto, SenderPCs, ends
  <2>5. CASE SendRecheck(s)
    BY <1>0, <2>5 DEF TypeOK, SendRecheck, Goto, SenderPCs, ring, locals, ends
  <2>6. CASE SendWrite(s)
    BY <1>0, <2>6 DEF TypeOK, SendWrite, Goto, SenderPCs, Meta, locals, ends
  <2>7. CASE SendPublish(s)
    BY <1>0, <2>7 DEF TypeOK, SendPublish, Goto, SenderPCs, Meta, locals, ends
  <2>8. CASE SendReturn(s)
    <3>1. todo' \subseteq Messages
      BY <2>8 DEF TypeOK, SendersCarry, SendReturn
    <3> QED
      BY <1>0, <2>8, <3>1, PopFrameType DEF TypeOK, SendReturn, Goto, ring
  <2>9. CASE SendRetry(s)
    BY <1>0, <2>9 DEF TypeOK, SendRetry, Goto, SenderPCs, ring, locals, ends
  <2> QED
    BY <1>1, <2>1, <2>2, <2>3, <2>4, <2>5, <2>6, <2>7, <2>8, <2>9 DEF SenderStep
<1>2. ASSUME NEW r \in Receivers, ReceiverStep(r) PROVE TypeOK'
  <2> r \in Threads
    BY DEF Threads
  <2>1. CASE RecvCall(r)
    BY <1>0, <2>1 DEF TypeOK, RecvCall, Goto, ReceiverPCs, ring, locals, ends
  <2>2. CASE RecvLoadMeta(r)
    BY <1>0, <2>2 DEF TypeOK, RecvLoadMeta, Goto, ReceiverPCs, ring, ends
  <2>3. CASE RecvLoadLap(r)
    BY <1>0, <2>3 DEF TypeOK, RecvLoadLap, Goto, ReceiverPCs, Meta, ring, ends
  <2>4. CASE RecvCas(r)
    <3>1. Advance(meta[r]) \in Meta
      BY MetaOperators DEF TypeOK
    <3> QED
      BY <1>0, <2>4, <3>1 DEF TypeOK, RecvCas, Goto, ReceiverPCs, ends
  <2>5. CASE RecvRecheck(r)
    BY <1>0, <2>5 DEF TypeOK, RecvRecheck, Goto, ReceiverPCs, ring, locals, ends
  <2>6. CASE RecvRead(r)
    BY <1>0, <2>6 DEF TypeOK, RecvRead, Goto, ReceiverPCs, Meta, ring, ends
  <2>7. CASE RecvRelease(r)
    BY <1>0, <2>7 DEF TypeOK, RecvRelease, Goto, ReceiverPCs, Meta, locals, ends
  <2>8. CASE RecvReturn(r)
    <3>1. got' \in [Receivers -> Seq(Messages \cup {NoMsg})]
      BY <2>8 DEF TypeOK, RecvReturn
    <3> QED
      BY <1>0, <2>8, <3>1, PopFrameType DEF TypeOK, RecvReturn, Goto, ring
  <2>9. CASE RecvRetry(r)
    BY <1>0, <2>9 DEF TypeOK, RecvRetry, Goto, ReceiverPCs, ring, locals, ends
  <2> QED
    BY <1>2, <2>1, <2>2, <2>3, <2>4, <2>5, <2>6, <2>7, <2>8, <2>9 DEF ReceiverStep
<1>3. ASSUME NEW c \in Closers, CloserStep(c) PROVE TypeOK'
  <2> c \in Threads
    BY DEF Threads
  <2>1. CASE CloseCall(c)
    BY <1>0, <2>1 DEF TypeOK, CloseCall, Goto, CloserPCs, ring, ends
  <2>2. CASE CloseCas(c)
    <3>1. WithClosedBit(meta[c]) \in Meta
      BY MetaOperators DEF TypeOK
    <3> QED
      BY <1>0, <2>2, <3>1 DEF TypeOK, CloseCas, Goto, CloserPCs, ends
  <2>3. CASE CloseReturn(c)
    BY <1>0, <2>3, PopFrameType DEF TypeOK, CloseReturn, Goto, ring, ends
  <2> QED
    BY <1>3, <2>1, <2>2, <2>3 DEF CloserStep
<1>4. CASE UNCHANGED vars
  BY <1>0, <1>4 DEF TypeOK, vars, ring, locals, ends
<1> QED
  BY <1>1, <1>2, <1>3, <1>4 DEF Next

\* Every reachable state of the ring is well typed; in particular no index
\* reaches outside the buffer, which select_bucket_4_send and
\* select_bucket_4_recv read with get_unchecked.
THEOREM Typing == Spec => []TypeOK
<1>1. Init => TypeOK
  BY DEF Init, TypeOK, SendersCarry, Meta, Slots, NoMeta, Threads
<1> QED
  BY <1>1, TypeStep, PTL DEF Spec

-----------------------------------------------------------------------------
(* The arithmetic of claims                                                *)

\* A claim moves the next write of the claimed element two laps on, and of no
\* other element, also when the index wraps.
LEMMA NextWriteAdvance ==
  ASSUME TypeOK, write_meta' = Advance(write_meta), NEW i \in Slots
  PROVE  NextWrite(i)' =
           IF i = write_meta.idx THEN NextWrite(i) + 2 ELSE NextWrite(i)
BY DEF TypeOK, Meta, Slots, Advance, NextWrite

\* The same for the next read.
LEMMA NextReadAdvance ==
  ASSUME TypeOK, read_meta' = Advance(read_meta), NEW i \in Slots
  PROVE  NextRead(i)' =
           IF i = read_meta.idx THEN NextRead(i) + 2 ELSE NextRead(i)
BY DEF TypeOK, Meta, Slots, Advance, NextRead

\* The element at the index of a meta is next claimed at the lap of that meta.
LEMMA NextAtMeta ==
  ASSUME TypeOK
  PROVE  /\ NextWrite(write_meta.idx) = write_meta.lap
         /\ NextRead(read_meta.idx) = read_meta.lap
         /\ \A i \in Slots : NextWrite(i) \in Nat /\ NextRead(i) \in Nat
BY DEF TypeOK, Meta, Slots, NextWrite, NextRead

\* A sender whose compare-exchange succeeds finds its element free: nobody is
\* inside it and no other claim of it is outstanding.
LEMMA SenderClaim ==
  ASSUME RingInv, NEW s \in Threads, pc[s] = "s_cas", write_meta = meta[s]
  PROVE  /\ ~is_close
         /\ elem_lap[s] = lap[meta[s].idx]
         /\ NextWrite(meta[s].idx) = lap[meta[s].idx]
         /\ NextRead(meta[s].idx) = lap[meta[s].idx] + 1
         /\ \A t \in Threads : InElement(t) => meta[t].idx # meta[s].idx
<1> DEFINE i == meta[s].idx
<1>1. i \in Slots /\ lap[i] \in Nat /\ meta[s].lap \in Nat
  BY DEF RingInv, TypeOK, Meta
<1>2. ~is_close /\ elem_lap[s] = meta[s].lap /\ lap[i] >= meta[s].lap
  BY <1>1 DEF RingInv, ThreadPhase, MayClaim, is_close
<1>3. NextWrite(i) = meta[s].lap /\ NextRead(i) \in Nat
  BY <1>1, NextAtMeta DEF RingInv
<1>4. meta[s].lap = lap[i] /\ NextRead(i) = lap[i] + 1
  BY <1>1, <1>2, <1>3 DEF RingInv, ElementPhase
<1>5. ASSUME NEW t \in Threads, InElement(t), meta[t].idx = i PROVE FALSE
  BY <1>1, <1>2, <1>3, <1>4, <1>5
     DEF RingInv, ThreadPhase, WriterPhase, ReaderPhase, InElement
<1> QED
  BY <1>2, <1>3, <1>4, <1>5

\* A receiver whose compare-exchange succeeds finds its element full, whether
\* the queue is open or closed.
LEMMA ReceiverClaim ==
  ASSUME RingInv, NEW r \in Threads, pc[r] = "r_cas", read_meta = meta[r]
  PROVE  /\ elem_lap[r] = lap[meta[r].idx]
         /\ NextRead(meta[r].idx) = lap[meta[r].idx]
         /\ ~is_close => NextWrite(meta[r].idx) = lap[meta[r].idx] + 1
         /\ \A t \in Threads : InElement(t) => meta[t].idx # meta[r].idx
<1> DEFINE i == meta[r].idx
<1>1. i \in Slots /\ lap[i] \in Nat /\ meta[r].lap \in Nat
  BY DEF RingInv, TypeOK, Meta
<1>2. elem_lap[r] = meta[r].lap /\ lap[i] >= meta[r].lap
  BY <1>1 DEF RingInv, ThreadPhase, MayClaim
<1>3. NextRead(i) = meta[r].lap /\ NextWrite(i) \in Nat
  BY <1>1, NextAtMeta DEF RingInv
<1>4. /\ meta[r].lap = lap[i]
      /\ ~is_close => NextWrite(i) = lap[i] + 1
  BY <1>1, <1>2, <1>3 DEF RingInv, ElementPhase
<1>5. ASSUME NEW t \in Threads, InElement(t), meta[t].idx = i PROVE FALSE
  BY <1>1, <1>3, <1>4, <1>5
     DEF RingInv, ThreadPhase, WriterPhase, ReaderPhase, InElement
<1> QED
  BY <1>2, <1>3, <1>4, <1>5

-----------------------------------------------------------------------------
(* The inductive invariant                                                 *)

\* The thread that steps is t: the locals of every other thread stay.
OthersStay(t) ==
  \A u \in Threads \ {t} :
    pc'[u] = pc[u] /\ meta'[u] = meta[u] /\ elem_lap'[u] = elem_lap[u]

\* A step that touches neither metas nor laps, and after which its thread is
\* inside an element only if it was inside the same one before.
LEMMA QuietStep ==
  ASSUME RingInv, TypeOK', NEW t \in Threads, OthersStay(t),
         UNCHANGED <<write_meta, read_meta, lap>>,
         ThreadPhase(t)',
         InElement(t)' => InElement(t) /\ meta'[t] = meta[t]
  PROVE  RingInv'
<1>1. \A i \in Slots : ElementPhase(i)'
  BY DEF RingInv, ElementPhase, NextWrite, NextRead, is_close
<1>2. \A u \in Threads : ThreadPhase(u)'
  <2> SUFFICES ASSUME NEW u \in Threads \ {t} PROVE ThreadPhase(u)'
    OBVIOUS
  <2>1. ThreadPhase(u) /\ pc'[u] = pc[u] /\ meta'[u] = meta[u] /\ elem_lap'[u] = elem_lap[u]
    BY DEF RingInv, OthersStay
  <2> QED
    BY <2>1 DEF ThreadPhase, MayClaim, WriterPhase, ReaderPhase, NextWrite,
       NextRead, is_close
<1>3. ElementExclusive'
  <2>1. \A u \in Threads : InElement(u)' => InElement(u) /\ meta'[u] = meta[u]
    BY DEF OthersStay, InElement
  <2> QED
    BY <2>1 DEF RingInv, ElementExclusive
<1> QED
  BY <1>1, <1>2, <1>3 DEF RingInv

\* A successful claim by a sender.
LEMMA SenderClaimStep ==
  ASSUME RingInv, TypeOK', NEW s \in Threads, pc[s] = "s_cas",
         write_meta = meta[s], write_meta' = Advance(meta[s]),
         OthersStay(s), UNCHANGED <<read_meta, lap>>,
         pc'[s] = "s_write", meta'[s] = meta[s], elem_lap'[s] = elem_lap[s]
  PROVE  RingInv'
<1> DEFINE i == meta[s].idx
<1>0. i \in Slots /\ lap \in [Slots -> Nat]
  BY DEF RingInv, TypeOK, Meta
<1>1. /\ ~is_close
      /\ elem_lap[s] = lap[i]
      /\ NextWrite(i) = lap[i]
      /\ NextRead(i) = lap[i] + 1
      /\ \A t \in Threads : InElement(t) => meta[t].idx # i
  BY SenderClaim
<1>2. \A j \in Slots : NextRead(j)' = NextRead(j)
  BY DEF NextRead
<1>3. \A j \in Slots : NextWrite(j)' = IF j = i THEN NextWrite(j) + 2 ELSE NextWrite(j)
  BY NextWriteAdvance DEF RingInv
<1>4. \A j \in Slots : ElementPhase(j)'
  <2> SUFFICES ASSUME NEW j \in Slots PROVE ElementPhase(j)'
    OBVIOUS
  <2>1. CASE j = i
    BY <1>0, <1>1, <1>2, <1>3, <2>1 DEF ElementPhase
  <2>2. CASE j # i
    BY <1>0, <1>1, <1>2, <1>3, <2>2 DEF RingInv, ElementPhase
  <2> QED
    BY <2>1, <2>2
<1>5. \A t \in Threads : ThreadPhase(t)'
  <2>1. ThreadPhase(s)'
    BY <1>0, <1>1, <1>2, <1>3 DEF ThreadPhase, WriterPhase
  <2>2. ASSUME NEW u \in Threads \ {s} PROVE ThreadPhase(u)'
    <3>1. ThreadPhase(u) /\ pc'[u] = pc[u] /\ meta'[u] = meta[u] /\ elem_lap'[u] = elem_lap[u]
      BY DEF RingInv, OthersStay
    <3>2. meta[u].idx \in Slots
      BY DEF RingInv, TypeOK, Meta
    <3>3. InElement(u) => NextWrite(meta[u].idx)' = NextWrite(meta[u].idx)
      BY <1>1, <1>3, <3>1, <3>2
    <3> QED
      BY <1>1, <1>2, <3>1, <3>2, <3>3
         DEF ThreadPhase, MayClaim, WriterPhase, ReaderPhase, InElement
  <2> QED
    BY <2>1, <2>2
<1>6. ElementExclusive'
  <2>1. \A t \in Threads \ {s} : InElement(t)' => InElement(t) /\ meta'[t] = meta[t]
    BY DEF OthersStay, InElement
  <2> QED
    BY <1>1, <2>1 DEF RingInv, ElementExclusive
<1> QED
  BY <1>4, <1>5, <1>6 DEF RingInv

\* A successful claim by a receiver.
LEMMA ReceiverClaimStep ==
  ASSUME RingInv, TypeOK', NEW r \in Threads, pc[r] = "r_cas",
         read_meta = meta[r], read_meta' = Advance(meta[r]),
         OthersStay(r), UNCHANGED <<write_meta, lap>>,
         pc'[r] = "r_read", meta'[r] = meta[r], elem_lap'[r] = elem_lap[r]
  PROVE  RingInv'
<1> DEFINE i == meta[r].idx
<1>0. i \in Slots /\ lap \in [Slots -> Nat]
  BY DEF RingInv, TypeOK, Meta
<1>1. /\ elem_lap[r] = lap[i]
      /\ NextRead(i) = lap[i]
      /\ ~is_close => NextWrite(i) = lap[i] + 1
      /\ \A t \in Threads : InElement(t) => meta[t].idx # i
  BY ReceiverClaim
<1>2. is_close' = is_close /\ \A j \in Slots : NextWrite(j)' = NextWrite(j)
  BY DEF NextWrite, is_close
<1>3. \A j \in Slots : NextRead(j)' = IF j = i THEN NextRead(j) + 2 ELSE NextRead(j)
  BY NextReadAdvance DEF RingInv
<1>4. \A j \in Slots : ElementPhase(j)'
  <2> SUFFICES ASSUME NEW j \in Slots PROVE ElementPhase(j)'
    OBVIOUS
  <2>1. CASE j = i
    BY <1>0, <1>1, <1>2, <1>3, <2>1 DEF ElementPhase
  <2>2. CASE j # i
    BY <1>0, <1>1, <1>2, <1>3, <2>2 DEF RingInv, ElementPhase
  <2> QED
    BY <2>1, <2>2
<1>5. \A t \in Threads : ThreadPhase(t)'
  <2>1. ThreadPhase(r)'
    BY <1>0, <1>1, <1>2, <1>3 DEF ThreadPhase, ReaderPhase
  <2>2. ASSUME NEW u \in Threads \ {r} PROVE ThreadPhase(u)'
    <3>1. ThreadPhase(u) /\ pc'[u] = pc[u] /\ meta'[u] = meta[u] /\ elem_lap'[u] = elem_lap[u]
      BY DEF RingInv, OthersStay
    <3>2. meta[u].idx \in Slots
      BY DEF RingInv, TypeOK, Meta
    <3>3. InElement(u) => NextRead(meta[u].idx)' = NextRead(meta[u].idx)
      BY <1>1, <1>3, <3>1, <3>2
    <3> QED
      BY <1>2, <3>1, <3>2, <3>3
         DEF ThreadPhase, MayClaim, WriterPhase, ReaderPhase, InElement
  <2> QED
    BY <2>1, <2>2
<1>6. ElementExclusive'
  <2>1. \A t \in Threads \ {r} : InElement(t)' => InElement(t) /\ meta'[t] = meta[t]
    BY DEF OthersStay, InElement
  <2> QED
    BY <1>1, <2>1 DEF RingInv, ElementExclusive
<1> QED
  BY <1>4, <1>5, <1>6 DEF RingInv

\* A thread leaves its element by the store that advances the element's lap.
LEMMA LeaveStep ==
  ASSUME RingInv, TypeOK', NEW t \in Threads, pc[t] \in {"s_publish", "r_release"},
         lap' = [lap EXCEPT ![meta[t].idx] = elem_lap[t] + 1],
         OthersStay(t), UNCHANGED <<write_meta, read_meta>>,
         pc'[t] \in {"s_ok", "r_ok"}
  PROVE  RingInv'
<1> DEFINE i == meta[t].idx
<1>0. i \in Slots /\ lap \in [Slots -> Nat] /\ elem_lap[t] = lap[i] /\ InElement(t)
  BY DEF RingInv, TypeOK, Meta, ThreadPhase, WriterPhase, ReaderPhase, InElement
<1>1. lap'[i] = lap[i] + 1 /\ \A j \in Slots \ {i} : lap'[j] = lap[j]
  BY <1>0
<1>2. /\ is_close' = is_close
      /\ \A j \in Slots : NextWrite(j)' = NextWrite(j) /\ NextRead(j)' = NextRead(j)
  BY DEF NextWrite, NextRead, is_close
<1>3. \/ NextRead(i) = lap[i] + 1 /\ (~is_close => NextWrite(i) = lap[i] + 2)
      \/ NextRead(i) = lap[i] + 2 /\ (~is_close => NextWrite(i) = lap[i] + 1)
  BY DEF RingInv, ThreadPhase, WriterPhase, ReaderPhase
<1>4. \A j \in Slots : ElementPhase(j)'
  <2> SUFFICES ASSUME NEW j \in Slots PROVE ElementPhase(j)'
    OBVIOUS
  <2>1. CASE j = i
    BY <1>0, <1>1, <1>2, <1>3, <2>1 DEF ElementPhase
  <2>2. CASE j # i
    BY <1>1, <1>2, <2>2 DEF RingInv, ElementPhase
  <2> QED
    BY <2>1, <2>2
<1>5. \A u \in Threads : ThreadPhase(u)'
  <2>1. ThreadPhase(t)'
    BY DEF ThreadPhase
  <2>2. ASSUME NEW u \in Threads \ {t} PROVE ThreadPhase(u)'
    <3>1. ThreadPhase(u) /\ pc'[u] = pc[u] /\ meta'[u] = meta[u] /\ elem_lap'[u] = elem_lap[u]
      BY DEF RingInv, OthersStay
    <3>2. meta[u].idx \in Slots /\ meta[u].lap \in Nat
      BY DEF RingInv, TypeOK, Meta
    <3>3. InElement(u) => meta[u].idx # i
      BY <1>0 DEF RingInv, ElementExclusive
    <3>4. MayClaim(u) => MayClaim(u)'
      BY <1>0, <1>1, <3>1, <3>2 DEF MayClaim
    <3> QED
      BY <1>1, <1>2, <3>1, <3>2, <3>3, <3>4
         DEF ThreadPhase, WriterPhase, ReaderPhase, InElement
  <2> QED
    BY <2>1, <2>2
<1>6. ElementExclusive'
  <2>1. \A u \in Threads \ {t} : InElement(u)' => InElement(u) /\ meta'[u] = meta[u]
    BY DEF OthersStay, InElement
  <2>2. ~InElement(t)'
    BY DEF InElement
  <2> QED
    BY <2>1, <2>2 DEF RingInv, ElementExclusive
<1> QED
  BY <1>4, <1>5, <1>6 DEF RingInv

\* Setting the closed bit, which only weakens what the phases demand.
LEMMA CloseStep ==
  ASSUME RingInv, TypeOK', NEW c \in Threads, pc[c] = "c_cas",
         write_meta = meta[c], write_meta' = WithClosedBit(meta[c]),
         OthersStay(c), UNCHANGED <<read_meta, lap>>,
         pc'[c] = "c_ok"
  PROVE  RingInv'
<1>1. is_close'
  BY DEF RingInv, TypeOK, Meta, WithClosedBit, is_close
<1>2. \A j \in Slots : NextRead(j)' = NextRead(j)
  BY DEF NextRead
<1>3. \A j \in Slots : ElementPhase(j)'
  BY <1>1, <1>2 DEF RingInv, ElementPhase
<1>4. \A u \in Threads : ThreadPhase(u)'
  <2>1. ThreadPhase(c)'
    BY DEF ThreadPhase
  <2>2. ASSUME NEW u \in Threads \ {c} PROVE ThreadPhase(u)'
    <3>1. ThreadPhase(u) /\ pc'[u] = pc[u] /\ meta'[u] = meta[u] /\ elem_lap'[u] = elem_lap[u]
      BY DEF RingInv, OthersStay
    <3>2. meta[u].idx \in Slots
      BY DEF RingInv, TypeOK, Meta
    <3> QED
      BY <1>1, <1>2, <3>1, <3>2 DEF ThreadPhase, MayClaim, WriterPhase, ReaderPhase
  <2> QED
    BY <2>1, <2>2
<1>5. ElementExclusive'
  <2>1. \A u \in Threads : InElement(u)' => InElement(u) /\ meta'[u] = meta[u]
    BY DEF OthersStay, InElement
  <2> QED
    BY <2>1 DEF RingInv, ElementExclusive
<1> QED
  BY <1>3, <1>4, <1>5 DEF RingInv

\* Every step of the ring keeps RingInv: only the claims, the stores that end
\* them and the close matter, every other action is quiet.
LEMMA RingStep == RingInv /\ [Next]_vars => RingInv'
<1> SUFFICES ASSUME RingInv, [Next]_vars PROVE RingInv'
  OBVIOUS
<1>0. TypeOK'
  BY TypeStep DEF RingInv
<1>1. ASSUME NEW s \in Senders, SenderStep(s) PROVE RingInv'
  <2>0. s \in Threads
    BY DEF Threads
  <2> USE <1>0, <2>0 DEF TypeOK, Goto, OthersStay
  <2>1. CASE SendCall(s)
    <3>1. OthersStay(s) /\ ThreadPhase(s)' /\ ~InElement(s)'
      BY <2>1 DEF RingInv, SendCall, ThreadPhase, InElement
    <3> QED
      BY <2>1, <3>1, QuietStep DEF SendCall, ring
  <2>2. CASE SendLoadMeta(s)
    <3>1. OthersStay(s) /\ ThreadPhase(s)' /\ ~InElement(s)'
      BY <2>2 DEF RingInv, SendLoadMeta, ThreadPhase, InElement
    <3> QED
      BY <2>2, <3>1, QuietStep DEF SendLoadMeta, ring
  <2>3. CASE SendLoadLap(s)
    <3>1. OthersStay(s) /\ ~InElement(s)'
      BY <2>3 DEF RingInv, SendLoadLap, InElement
    <3>2. ThreadPhase(s)'
      BY <2>3 DEF RingInv, SendLoadLap, ThreadPhase, MayClaim, Meta, ring
    <3> QED
      BY <2>3, <3>1, <3>2, QuietStep DEF SendLoadLap, ring
  <2>4. CASE SendCas(s)
    <3>1. CASE pc'[s] = "s_write"
      <4>1. /\ pc[s] = "s_cas" /\ write_meta = meta[s] /\ write_meta' = Advance(meta[s])
            /\ OthersStay(s) /\ UNCHANGED <<read_meta, lap>>
            /\ meta'[s] = meta[s] /\ elem_lap'[s] = elem_lap[s]
        BY <2>4, <3>1 DEF RingInv, SendCas
      <4> QED
        BY <3>1, <4>1, SenderClaimStep
    <3>2. CASE pc'[s] # "s_write"
      <4>1. /\ UNCHANGED <<write_meta, read_meta, lap>> /\ OthersStay(s)
            /\ pc'[s] = "s_lap"
        BY <2>4, <3>2 DEF RingInv, SendCas
      <4>2. ThreadPhase(s)' /\ ~InElement(s)'
        BY <4>1 DEF ThreadPhase, InElement
      <4> QED
        BY <4>1, <4>2, QuietStep
    <3> QED
      BY <3>1, <3>2
  <2>5. CASE SendRecheck(s)
    <3>1. OthersStay(s) /\ ThreadPhase(s)' /\ ~InElement(s)'
      BY <2>5 DEF RingInv, SendRecheck, ThreadPhase, InElement, locals
    <3> QED
      BY <2>5, <3>1, QuietStep DEF SendRecheck, ring
  <2>6. CASE SendWrite(s)
    <3>1. OthersStay(s) /\ pc[s] = "s_write" /\ pc'[s] = "s_publish" /\ meta' = meta
      BY <2>6 DEF RingInv, SendWrite, locals
    <3>2. ThreadPhase(s)'
      BY <2>6, <3>1 DEF RingInv, SendWrite, ThreadPhase, WriterPhase, NextWrite,
         NextRead, is_close, locals
    <3> QED
      BY <2>6, <3>1, <3>2, QuietStep DEF SendWrite, InElement
  <2>7. CASE SendPublish(s)
    <3>1. OthersStay(s) /\ pc'[s] = "s_ok"
      BY <2>7 DEF RingInv, SendPublish, locals
    <3> QED
      BY <2>7, <3>1, LeaveStep DEF SendPublish
  <2>8. CASE SendReturn(s)
    <3>1. OthersStay(s) /\ ThreadPhase(s)' /\ ~InElement(s)'
      BY <2>8 DEF RingInv, SendReturn, ThreadPhase, InElement, PopFrame
    <3> QED
      BY <2>8, <3>1, QuietStep DEF SendReturn, ring
  <2>9. CASE SendRetry(s)
    <3>1. OthersStay(s) /\ ThreadPhase(s)' /\ ~InElement(s)'
      BY <2>9 DEF RingInv, SendRetry, ThreadPhase, InElement, locals
    <3> QED
      BY <2>9, <3>1, QuietStep DEF SendRetry, ring
  <2> QED
    BY <1>1, <2>1, <2>2, <2>3, <2>4, <2>5, <2>6, <2>7, <2>8, <2>9 DEF SenderStep
<1>2. ASSUME NEW r \in Receivers, ReceiverStep(r) PROVE RingInv'
  <2>0. r \in Threads
    BY DEF Threads
  <2> USE <1>0, <2>0 DEF TypeOK, Goto, OthersStay
  <2>1. CASE RecvCall(r)
    <3>1. OthersStay(r) /\ ThreadPhase(r)' /\ ~InElement(r)'
      BY <2>1 DEF RingInv, RecvCall, ThreadPhase, InElement, locals
    <3> QED
      BY <2>1, <3>1, QuietStep DEF RecvCall, ring
  <2>2. CASE RecvLoadMeta(r)
    <3>1. OthersStay(r) /\ ThreadPhase(r)' /\ ~InElement(r)'
      BY <2>2 DEF RingInv, RecvLoadMeta, ThreadPhase, InElement
    <3> QED
      BY <2>2, <3>1, QuietStep DEF RecvLoadMeta, ring
  <2>3. CASE RecvLoadLap(r)
    <3>1. OthersStay(r) /\ ~InElement(r)'
      BY <2>3 DEF RingInv, RecvLoadLap, InElement
    <3>2. ThreadPhase(r)'
      BY <2>3 DEF RingInv, RecvLoadLap, ThreadPhase, MayClaim, Meta, ring
    <3> QED
      BY <2>3, <3>1, <3>2, QuietStep DEF RecvLoadLap, ring
  <2>4. CASE RecvCas(r)
    <3>1. CASE pc'[r] = "r_read"
      <4>1. /\ pc[r] = "r_cas" /\ read_meta = meta[r] /\ read_meta' = Advance(meta[r])
            /\ OthersStay(r) /\ UNCHANGED <<write_meta, lap>>
            /\ meta'[r] = meta[r] /\ elem_lap'[r] = elem_lap[r]
        BY <2>4, <3>1 DEF RingInv, RecvCas
      <4> QED
        BY <3>1, <4>1, ReceiverClaimStep
    <3>2. CASE pc'[r] # "r_read"
      <4>1. /\ UNCHANGED <<write_meta, read_meta, lap>> /\ OthersStay(r)
            /\ pc'[r] = "r_lap"
        BY <2>4, <3>2 DEF RingInv, RecvCas
      <4>2. ThreadPhase(r)' /\ ~InElement(r)'
        BY <4>1 DEF ThreadPhase, InElement
      <4> QED
        BY <4>1, <4>2, QuietStep
    <3> QED
      BY <3>1, <3>2
  <2>5. CASE RecvRecheck(r)
    <3>1. OthersStay(r) /\ ThreadPhase(r)' /\ ~InElement(r)'
      BY <2>5 DEF RingInv, RecvRecheck, ThreadPhase, InElement, locals
    <3> QED
      BY <2>5, <3>1, QuietStep DEF RecvRecheck, ring
  <2>6. CASE RecvRead(r)
    <3>1. OthersStay(r) /\ pc[r] = "r_read" /\ pc'[r] = "r_release" /\ meta' = meta
      BY <2>6 DEF RingInv, RecvRead
    <3>2. ThreadPhase(r)'
      BY <2>6, <3>1 DEF RingInv, RecvRead, ThreadPhase, ReaderPhase, NextWrite,
         NextRead, is_close, ring
    <3> QED
      BY <2>6, <3>1, <3>2, QuietStep DEF RecvRead, InElement, ring
  <2>7. CASE RecvRelease(r)
    <3>1. OthersStay(r) /\ pc'[r] = "r_ok"
      BY <2>7 DEF RingInv, RecvRelease, locals
    <3> QED
      BY <2>7, <3>1, LeaveStep DEF RecvRelease
  <2>8. CASE RecvReturn(r)
    <3>1. OthersStay(r) /\ ThreadPhase(r)' /\ ~InElement(r)'
      BY <2>8 DEF RingInv, RecvReturn, ThreadPhase, InElement, PopFrame
    <3> QED
      BY <2>8, <3>1, QuietStep DEF RecvReturn, ring
  <2>9. CASE RecvRetry(r)
    <3>1. OthersStay(r) /\ ThreadPhase(r)' /\ ~InElement(r)'
      BY <2>9 DEF RingInv, RecvRetry, ThreadPhase, InElement, locals
    <3> QED
      BY <2>9, <3>1, QuietStep DEF RecvRetry, ring
  <2> QED
    BY <1>2, <2>1, <2>2, <2>3, <2>4, <2>5, <2>6, <2>7, <2>8, <2>9 DEF ReceiverStep
<1>3. ASSUME NEW c \in Closers, CloserStep(c) PROVE RingInv'
  <2>0. c \in Threads
    BY DEF Threads
  <2> USE <1>0, <2>0 DEF TypeOK, Goto, OthersStay
  <2>1. CASE CloseCall(c)
    <3>1. OthersStay(c) /\ ThreadPhase(c)' /\ ~InElement(c)'
      BY <2>1 DEF RingInv, CloseCall, ThreadPhase, InElement
    <3> QED
      BY <2>1, <3>1, QuietStep DEF CloseCall, ring
  <2>2. CASE CloseCas(c)
    <3>1. CASE pc'[c] = "c_ok"
      <4>1. /\ pc[c] = "c_cas" /\ write_meta = meta[c]
            /\ write_meta' = WithClosedBit(meta[c])
            /\ OthersStay(c) /\ UNCHANGED <<read_meta, lap>>
        BY <2>2, <3>1 DEF RingInv, CloseCas
      <4> QED
        BY <3>1, <4>1, CloseStep
    <3>2. CASE pc'[c] # "c_ok"
      <4>1. /\ UNCHANGED <<write_meta, read_meta, lap>> /\ OthersStay(c)
            /\ pc'[c] = "c_cas"
        BY <2>2, <3>2 DEF RingInv, CloseCas
      <4>2. ThreadPhase(c)' /\ ~InElement(c)'
        BY <4>1 DEF ThreadPhase, InElement
      <4> QED
        BY <4>1, <4>2, QuietStep
    <3> QED
      BY <3>1, <3>2
  <2>3. CASE CloseReturn(c)
    <3>1. OthersStay(c) /\ ThreadPhase(c)' /\ ~InElement(c)'
      BY <2>3 DEF RingInv, CloseReturn, ThreadPhase, InElement, PopFrame
    <3> QED
      BY <2>3, <3>1, QuietStep DEF CloseReturn, ring
  <2> QED
    BY <1>3, <2>1, <2>2, <2>3 DEF CloserStep
<1>4. CASE UNCHANGED vars
  BY <1>4 DEF RingInv, TypeOK, SendersCarry, ElementExclusive, ElementPhase,
     ThreadPhase, MayClaim, WriterPhase, ReaderPhase, InElement, NextWrite,
     NextRead, is_close, vars, ring, locals, ends
<1> QED
  BY <1>1, <1>2, <1>3, <1>4 DEF Next

\* The ring starts with every element free.
LEMMA RingInit == Init => RingInv
<1> SUFFICES ASSUME Init PROVE RingInv
  OBVIOUS
<1>1. TypeOK
  BY DEF Init, TypeOK, SendersCarry, Meta, Slots, NoMeta, Threads
<1>2. ElementExclusive /\ \A t \in Threads : ThreadPhase(t)
  BY DEF Init, ElementExclusive, InElement, ThreadPhase
<1>3. \A i \in Slots : ElementPhase(i)
  BY DEF Init, ElementPhase, NextWrite, NextRead, Slots
<1> QED
  BY <1>1, <1>2, <1>3 DEF RingInv

\* The phases of the elements and of the threads hold in every reachable state.
THEOREM RingInvariance == Spec => []RingInv
BY RingInit, RingStep, PTL DEF Spec

\* No two threads are ever inside one element: the plain accesses of
\* ElemArr::write and ElemArr::read do not race, whatever the number of
\* threads, the capacity and the mask, and before as after a close.
THEOREM Exclusion == Spec => []ElementExclusive
<1>1. RingInv => ElementExclusive
  BY DEF RingInv
<1> QED
  BY <1>1, RingInvariance, PTL

\* Once close() has set the bit no step moves write_meta: the senders' compare
\* exchange fails on the bit, and a second close() keeps it.
LEMMA ClosedStays == RingInv /\ [Next]_vars => (is_close => write_meta' = write_meta)
<1> SUFFICES ASSUME RingInv, [Next]_vars, is_close PROVE write_meta' = write_meta
  OBVIOUS
<1>1. ASSUME NEW s \in Senders, SenderStep(s) PROVE write_meta' = write_meta
  <2>1. s \in Threads
    BY DEF Threads
  <2>2. CASE SendCas(s)
    BY <2>1, <2>2 DEF RingInv, TypeOK, Meta, ThreadPhase, SendCas, is_close
  <2> QED
    BY <1>1, <2>2 DEF SenderStep, SendCall, SendLoadMeta, SendLoadLap, SendRecheck,
       SendWrite, SendPublish, SendReturn, SendRetry, ring
<1>2. ASSUME NEW r \in Receivers, ReceiverStep(r) PROVE write_meta' = write_meta
  BY <1>2 DEF ReceiverStep, RecvCall, RecvLoadMeta, RecvLoadLap, RecvCas,
     RecvRecheck, RecvRead, RecvRelease, RecvReturn, RecvRetry, ring
<1>3. ASSUME NEW c \in Closers, CloserStep(c) PROVE write_meta' = write_meta
  BY <1>3 DEF CloserStep, CloseCall, CloseCas, CloseReturn, WithClosedBit, is_close, ring
<1>4. CASE UNCHANGED vars
  BY <1>4 DEF vars, ring
<1> QED
  BY <1>1, <1>2, <1>3, <1>4 DEF Next

\* After close() has set the bit write_meta stands still, so that a sender
\* holding an older meta cannot claim an element any more.
THEOREM ClosedIsFinal == Spec => NoClaimAfterClose
<1>1. RingInv /\ [Next]_vars => [is_close => write_meta' = write_meta]_vars
  BY ClosedStays
<1> QED
  BY <1>1, RingInvariance, PTL DEF Spec, NoClaimAfterClose

-----------------------------------------------------------------------------
(* Where a message is                                                      *)

\* The parity of the lap tells who may be inside an element.
LEMMA Parity ==
  ASSUME RingInv, ReadsOdd
  PROVE  /\ \A i \in Slots : NextRead(i) % 2 = 1
         /\ \A t \in Threads : /\ pc[t] \in {"s_write", "s_publish"} => lap[meta[t].idx] % 2 = 0
                               /\ pc[t] \in {"r_read", "r_release"} => lap[meta[t].idx] % 2 = 1
         /\ \A t \in Threads : pc[t] = "r_cas" /\ read_meta = meta[t] => lap[meta[t].idx] % 2 = 1
<1>1. /\ read_meta.lap \in Nat /\ lap \in [Slots -> Nat]
      /\ \A t \in Threads : meta[t].idx \in Slots
  BY DEF RingInv, TypeOK, Meta
<1>2. \A i \in Slots : NextRead(i) % 2 = 1
  BY <1>1 DEF ReadsOdd, NextRead
<1>3. ASSUME NEW t \in Threads, pc[t] \in {"s_write", "s_publish"}
      PROVE  lap[meta[t].idx] % 2 = 0
  <2>1. NextRead(meta[t].idx) = lap[meta[t].idx] + 1
    BY <1>3 DEF RingInv, ThreadPhase, WriterPhase
  <2> QED
    BY <1>1, <1>2, <2>1
<1>4. ASSUME NEW t \in Threads, pc[t] \in {"r_read", "r_release"}
      PROVE  lap[meta[t].idx] % 2 = 1
  <2>1. NextRead(meta[t].idx) = lap[meta[t].idx] + 2
    BY <1>4 DEF RingInv, ThreadPhase, ReaderPhase
  <2> QED
    BY <1>1, <1>2, <2>1
<1>5. ASSUME NEW t \in Threads, pc[t] = "r_cas", read_meta = meta[t]
      PROVE  lap[meta[t].idx] % 2 = 1
  <2>1. NextRead(meta[t].idx) = lap[meta[t].idx]
    BY <1>5, ReceiverClaim
  <2> QED
    BY <1>1, <1>2, <2>1
<1> QED
  BY <1>2, <1>3, <1>4, <1>5

\* A place is one place, so that the count of places is one.
LEMMA WhereaboutsCount ==
  ASSUME NEW m \in Messages, Whereabouts(m)
  PROVE  (IF m \in todo THEN 1 ELSE 0) + Cardinality(SendersCarrying(m))
           + Cardinality(ReceiversCarrying(m)) + Cardinality(WrittenIn(m))
           + Cardinality(ReturnedBy(m)) = 1
<1>1. BytesIn(m) = {} => WrittenIn(m) = {}
  BY DEF BytesIn, WrittenIn
<1>2. Cardinality({}) = 0 /\ \A x : Cardinality({x}) = 1
  BY FS_EmptySet, FS_Singleton
<1> DEFINE S == SendersCarrying(m)
           R == ReceiversCarrying(m)
           E == WrittenIn(m)
           G == ReturnedBy(m)
<1>3. \/ m \in todo /\ S = {} /\ R = {} /\ E = {} /\ G = {}
      \/ m \notin todo /\ (\E x : S = {x}) /\ R = {} /\ E = {} /\ G = {}
      \/ m \notin todo /\ S = {} /\ R = {} /\ (\E x : E = {x}) /\ G = {}
      \/ m \notin todo /\ S = {} /\ (\E x : R = {x}) /\ E = {} /\ G = {}
      \/ m \notin todo /\ S = {} /\ R = {} /\ E = {} /\ (\E x : G = {x})
  BY <1>1 DEF Whereabouts, Undelivered
<1> HIDE DEF S, R, E, G
<1>4. \A X : (X = {} => Cardinality(X) = 0) /\ ((\E x : X = {x}) => Cardinality(X) = 1)
  BY <1>2
<1>5. \/ m \in todo /\ Cardinality(S) = 0 /\ Cardinality(R) = 0 /\ Cardinality(E) = 0
         /\ Cardinality(G) = 0
      \/ m \notin todo /\ Cardinality(S) = 1 /\ Cardinality(R) = 0 /\ Cardinality(E) = 0
         /\ Cardinality(G) = 0
      \/ m \notin todo /\ Cardinality(S) = 0 /\ Cardinality(R) = 0 /\ Cardinality(E) = 1
         /\ Cardinality(G) = 0
      \/ m \notin todo /\ Cardinality(S) = 0 /\ Cardinality(R) = 1 /\ Cardinality(E) = 0
         /\ Cardinality(G) = 0
      \/ m \notin todo /\ Cardinality(S) = 0 /\ Cardinality(R) = 0 /\ Cardinality(E) = 0
         /\ Cardinality(G) = 1
  BY <1>3, <1>4
<1> QED
  BY <1>5 DEF S, R, E, G

\* The thread that steps is t: the messages the others carry stay.
OthersCarry(t) == OthersStay(t) /\ \A u \in Threads \ {t} : val'[u] = val[u]

\* A step that hands nothing over, and whose thread enters or leaves no place.
LEMMA PlacesStay ==
  ASSUME NEW m \in Messages, Whereabouts(m), NEW t \in Threads, OthersCarry(t),
         UNCHANGED <<msg, lap, todo, got>>,
         t \in Senders =>
           /\ val'[t] = val[t]
           /\ pc'[t] \in {"s_publish", "s_ok"} <=> pc[t] \in {"s_publish", "s_ok"}
           /\ pc'[t] = "s_publish" <=> pc[t] = "s_publish"
           /\ pc[t] = "s_publish" => meta'[t] = meta[t],
         t \in Receivers =>
           /\ InElement(t)' <=> InElement(t)
           /\ pc'[t] = "r_read" <=> pc[t] = "r_read"
           /\ pc'[t] \in {"r_release", "r_ok"} <=> pc[t] \in {"r_release", "r_ok"}
           /\ InElement(t) => meta'[t] = meta[t]
           /\ pc[t] \in {"r_release", "r_ok"} => val'[t] = val[t]
  PROVE  Whereabouts(m)'
<1>1. SendersCarrying(m)' = SendersCarrying(m)
  BY DEF SendersCarrying, OthersCarry, OthersStay, Threads
<1>2. ReceiversCarrying(m)' = ReceiversCarrying(m)
  BY DEF ReceiversCarrying, OthersCarry, OthersStay, InElement, Threads
<1>3. WrittenIn(m)' = WrittenIn(m)
  <2>1. \A i \in Slots : (\E s \in Senders : pc'[s] = "s_publish" /\ meta'[s].idx = i)
                     <=> (\E s \in Senders : pc[s] = "s_publish" /\ meta[s].idx = i)
    BY DEF OthersCarry, OthersStay, Threads
  <2>2. \A i \in Slots : (\E r \in Receivers : InElement(r)' /\ meta'[r].idx = i)
                     <=> (\E r \in Receivers : InElement(r) /\ meta[r].idx = i)
    BY DEF OthersCarry, OthersStay, InElement, Threads
  <2> QED
    BY <2>1, <2>2 DEF WrittenIn
<1>4. ReturnedBy(m)' = ReturnedBy(m) /\ BytesIn(m)' = BytesIn(m)
  BY DEF ReturnedBy, BytesIn
<1> QED
  BY <1>1, <1>2, <1>3, <1>4 DEF Whereabouts, Undelivered

\* A send takes its message from the caller.
LEMMA SendCallPlaces ==
  ASSUME ConserveInv, NEW s \in Senders, SendCall(s), NEW m \in Messages
  PROVE  Whereabouts(m)'
<1> USE DEF ConserveInv, SendCall, Goto, ring
<1>1. PICK n \in todo : val' = [val EXCEPT ![s] = n] /\ todo' = todo \ {n}
  OBVIOUS
<1>2. /\ pc \in [Threads -> {"idle"} \cup SenderPCs \cup ReceiverPCs \cup CloserPCs]
      /\ val \in [Threads -> Messages \cup {NoMsg}] /\ s \in Threads /\ s \notin Receivers
      /\ val[s] = NoMsg /\ NoMsg \notin Messages /\ pc[s] = "idle" /\ pc'[s] = "s_load"
  BY ThreadsAssumption, NoMsgAssumption DEF RingInv, TypeOK, Threads, IdleSendersEmpty
<1>3. /\ \A u \in Threads \ {s} : pc'[u] = pc[u] /\ val'[u] = val[u]
      /\ val'[s] = n
  BY <1>1, <1>2
<1>4. ReturnedBy(m)' = ReturnedBy(m) /\ BytesIn(m)' = BytesIn(m)
  BY DEF ReturnedBy, BytesIn
<1>5. ReceiversCarrying(m)' = ReceiversCarrying(m)
  BY <1>2, <1>3 DEF ReceiversCarrying, Threads
<1>6. WrittenIn(m)' = WrittenIn(m)
  BY <1>2, <1>3 DEF WrittenIn, InElement, Threads
<1>7. SendersCarrying(m)' = IF m = n THEN SendersCarrying(m) \cup {s} ELSE SendersCarrying(m)
  BY <1>2, <1>3 DEF SendersCarrying, Threads
<1>8. CASE m = n
  <2>1. SendersCarrying(m) = {} /\ Undelivered(m) /\ BytesIn(m) = {}
    BY <1>8 DEF Whereabouts
  <2> QED
    BY <1>1, <1>4, <1>5, <1>7, <1>8, <2>1 DEF Whereabouts, Undelivered
<1>9. CASE m # n
  BY <1>1, <1>4, <1>5, <1>6, <1>7, <1>9 DEF Whereabouts, Undelivered
<1> QED
  BY <1>8, <1>9

\* The element takes the message from its sender; what it held was received long ago.
LEMMA SendWritePlaces ==
  ASSUME ConserveInv, NEW s \in Senders, SendWrite(s), NEW m \in Messages
  PROVE  Whereabouts(m)'
<1> USE DEF ConserveInv, SendWrite, Goto, locals, ends
<1> DEFINE i == meta[s].idx
<1>1. /\ pc \in [Threads -> {"idle"} \cup SenderPCs \cup ReceiverPCs \cup CloserPCs]
      /\ s \in Threads /\ s \notin Receivers /\ i \in Slots
      /\ msg \in [Slots -> Messages \cup {NoMsg}]
      /\ pc[s] = "s_write" /\ pc'[s] = "s_publish"
  BY ThreadsAssumption DEF RingInv, TypeOK, Threads, Meta
<1>2. \A u \in Threads \ {s} : pc'[u] = pc[u]
  BY <1>1
<1>3. msg'[i] = val[s] /\ \A j \in Slots \ {i} : msg'[j] = msg[j]
  BY <1>1
<1>4. /\ lap[i] % 2 = 0
      /\ \A u \in Threads \ {s} : InElement(u) => meta[u].idx # i
  BY <1>1, Parity DEF RingInv, ElementExclusive, InElement
<1>5. ReturnedBy(m)' = ReturnedBy(m)
  BY DEF ReturnedBy
<1>6. ReceiversCarrying(m)' = ReceiversCarrying(m)
  <2>1. \A r \in Receivers : pc[r] = "r_read" => meta[r].idx \in Slots \ {i}
    BY <1>1, <1>4 DEF InElement, Threads, RingInv, TypeOK, Meta
  <2> QED
    BY <1>1, <1>2, <1>3, <2>1 DEF ReceiversCarrying, Threads
<1>7. CASE m = val[s]
  <2>1. s \in SendersCarrying(m)
    BY <1>1, <1>7 DEF SendersCarrying
  <2>2. SendersCarrying(m) = {s} /\ Undelivered(m) /\ BytesIn(m) = {} /\ m \notin todo
    BY <2>1 DEF Whereabouts
  <2>3. SendersCarrying(m)' = {}
    BY <1>1, <1>2, <2>2 DEF SendersCarrying, Threads
  <2>4. BytesIn(m)' = {i}
    BY <1>1, <1>3, <1>7, <2>2 DEF BytesIn
  <2>5. WrittenIn(m)' = {i}
    BY <1>1, <2>4 DEF WrittenIn, BytesIn
  <2> QED
    BY <1>1, <1>5, <1>6, <2>2, <2>3, <2>4, <2>5 DEF Whereabouts, Undelivered
<1>8. CASE m # val[s]
  <2>1. SendersCarrying(m)' = SendersCarrying(m)
    BY <1>1, <1>2, <1>8 DEF SendersCarrying, Threads
  <2>2. BytesIn(m)' = BytesIn(m) \ {i}
    BY <1>1, <1>3, <1>8 DEF BytesIn
  <2>3. i \notin WrittenIn(m)
    BY <1>1, <1>4 DEF WrittenIn, InElement, Threads
  <2>4. WrittenIn(m)' = WrittenIn(m)
    <3>1. i \notin WrittenIn(m)'
      BY <1>3, <1>8 DEF WrittenIn
    <3>2. ASSUME NEW j \in Slots \ {i} PROVE j \in WrittenIn(m)' <=> j \in WrittenIn(m)
      <4>1. (\E u \in Senders : pc'[u] = "s_publish" /\ meta'[u].idx = j) <=>
            (\E u \in Senders : pc[u] = "s_publish" /\ meta[u].idx = j)
        BY <1>1, <1>2, <3>2 DEF Threads
      <4>2. (\E r \in Receivers : InElement(r)' /\ meta'[r].idx = j) <=>
            (\E r \in Receivers : InElement(r) /\ meta[r].idx = j)
        BY <1>1, <1>2 DEF Threads, InElement
      <4> QED
        BY <1>3, <4>1, <4>2 DEF WrittenIn
    <3> QED
      BY <2>3, <3>1, <3>2 DEF WrittenIn
  <2> QED
    BY <1>5, <1>6, <2>1, <2>2, <2>3, <2>4 DEF Whereabouts, Undelivered
<1> QED
  BY <1>7, <1>8

\* Publishing a written element leaves it written.
LEMMA SendPublishPlaces ==
  ASSUME ConserveInv, NEW s \in Senders, SendPublish(s), NEW m \in Messages
  PROVE  Whereabouts(m)'
<1> USE DEF ConserveInv, SendPublish, Goto, locals, ends
<1> DEFINE i == meta[s].idx
<1>1. /\ pc \in [Threads -> {"idle"} \cup SenderPCs \cup ReceiverPCs \cup CloserPCs]
      /\ s \in Threads /\ s \notin Receivers /\ i \in Slots /\ lap \in [Slots -> Nat]
      /\ pc[s] = "s_publish" /\ pc'[s] = "s_ok" /\ elem_lap[s] = lap[i]
  BY ThreadsAssumption DEF RingInv, TypeOK, Threads, Meta, ThreadPhase, WriterPhase
<1>2. \A u \in Threads \ {s} : pc'[u] = pc[u]
  BY <1>1
<1>3. lap'[i] = lap[i] + 1 /\ \A j \in Slots \ {i} : lap'[j] = lap[j]
  BY <1>1
<1>4. /\ lap[i] % 2 = 0 /\ lap'[i] % 2 = 1
      /\ \A u \in Threads \ {s} : InElement(u) => meta[u].idx # i
  <2>1. lap[i] % 2 = 0
    BY <1>1, Parity
  <2> QED
    BY <1>1, <1>3, <2>1 DEF RingInv, ElementExclusive, InElement
<1>5. ReturnedBy(m)' = ReturnedBy(m) /\ BytesIn(m)' = BytesIn(m)
  BY DEF ReturnedBy, BytesIn
<1>6. ReceiversCarrying(m)' = ReceiversCarrying(m)
  BY <1>1, <1>2 DEF ReceiversCarrying, Threads
<1>7. SendersCarrying(m)' = SendersCarrying(m)
  BY <1>1, <1>2 DEF SendersCarrying, Threads
<1>8. WrittenIn(m)' = WrittenIn(m)
  <2>1. i \in WrittenIn(m) <=> msg[i] = m
    BY <1>1 DEF WrittenIn
  <2>2. i \in WrittenIn(m)' <=> msg[i] = m
    BY <1>1, <1>2, <1>4 DEF WrittenIn, InElement, Threads
  <2>3. ASSUME NEW j \in Slots \ {i} PROVE j \in WrittenIn(m)' <=> j \in WrittenIn(m)
    <3>1. (\E u \in Senders : pc'[u] = "s_publish" /\ meta'[u].idx = j) <=>
          (\E u \in Senders : pc[u] = "s_publish" /\ meta[u].idx = j)
      BY <1>1, <1>2, <2>3 DEF Threads
    <3>2. (\E r \in Receivers : InElement(r)' /\ meta'[r].idx = j) <=>
          (\E r \in Receivers : InElement(r) /\ meta[r].idx = j)
      BY <1>1, <1>2 DEF Threads, InElement
    <3> QED
      BY <1>3, <3>1, <3>2 DEF WrittenIn
  <2> QED
    BY <2>1, <2>2, <2>3 DEF WrittenIn
<1> QED
  BY <1>5, <1>6, <1>7, <1>8 DEF Whereabouts, Undelivered

\* A send that fails gives its message back, one that succeeds has none left.
LEMMA SendReturnPlaces ==
  ASSUME ConserveInv, NEW s \in Senders, SendReturn(s), NEW m \in Messages
  PROVE  Whereabouts(m)'
<1> USE DEF ConserveInv, SendReturn, Goto, PopFrame, ring
<1>1. /\ pc \in [Threads -> {"idle"} \cup SenderPCs \cup ReceiverPCs \cup CloserPCs]
      /\ val \in [Threads -> Messages \cup {NoMsg}] /\ meta \in [Threads -> Meta]
      /\ s \in Threads /\ s \notin Receivers
      /\ NoMsg \notin Messages /\ pc[s] \in {"s_ok", "s_full", "s_closed"} /\ pc'[s] = "idle"
  BY ThreadsAssumption, NoMsgAssumption DEF RingInv, TypeOK, Threads
<1>2. /\ \A u \in Threads \ {s} : pc'[u] = pc[u] /\ val'[u] = val[u] /\ meta'[u] = meta[u]
      /\ val'[s] = NoMsg
  BY <1>1
<1>3. ReturnedBy(m)' = ReturnedBy(m) /\ BytesIn(m)' = BytesIn(m)
  BY DEF ReturnedBy, BytesIn
<1>4. ReceiversCarrying(m)' = ReceiversCarrying(m)
  BY <1>1, <1>2 DEF ReceiversCarrying, Threads
<1>5. WrittenIn(m)' = WrittenIn(m)
  BY <1>1, <1>2 DEF WrittenIn, InElement, Threads
<1>6. SendersCarrying(m)' = SendersCarrying(m) \ {s}
  BY <1>1, <1>2 DEF SendersCarrying, Threads
<1>7. s \in SendersCarrying(m) <=> pc[s] # "s_ok" /\ m = val[s]
  BY <1>1 DEF SendersCarrying
<1>8. CASE s \in SendersCarrying(m)
  <2>1. SendersCarrying(m) = {s} /\ Undelivered(m) /\ BytesIn(m) = {}
    BY <1>8 DEF Whereabouts
  <2>2. m \in todo'
    BY <1>7, <1>8
  <2> QED
    BY <1>3, <1>4, <1>6, <2>1, <2>2 DEF Whereabouts, Undelivered
<1>9. CASE s \notin SendersCarrying(m)
  <2>1. m \in todo' <=> m \in todo
    BY <1>7, <1>9
  <2> QED
    BY <1>3, <1>4, <1>5, <1>6, <1>9, <2>1 DEF Whereabouts, Undelivered
<1> QED
  BY <1>8, <1>9
\* A receiver that claims an element takes the message written in it.
LEMMA RecvClaimPlaces ==
  ASSUME ConserveInv, NEW r \in Receivers, RecvCas(r), pc'[r] = "r_read", NEW m \in Messages
  PROVE  Whereabouts(m)'
<1> USE DEF ConserveInv, RecvCas, Goto, ends
<1> DEFINE i == meta[r].idx
<1>1. /\ pc \in [Threads -> {"idle"} \cup SenderPCs \cup ReceiverPCs \cup CloserPCs]
      /\ r \in Threads /\ r \notin Senders /\ i \in Slots
      /\ pc[r] = "r_cas" /\ read_meta = meta[r] /\ meta' = meta
      /\ UNCHANGED <<lap, msg, val, todo, got>>
  BY ThreadsAssumption DEF RingInv, TypeOK, Threads, Meta
<1>2. \A u \in Threads \ {r} : pc'[u] = pc[u]
  BY <1>1
<1>3. lap[i] % 2 = 1 /\ \A u \in Threads : InElement(u) => meta[u].idx # i
  BY <1>1, Parity, ReceiverClaim
<1>4. ReturnedBy(m)' = ReturnedBy(m) /\ BytesIn(m)' = BytesIn(m)
  BY <1>1 DEF ReturnedBy, BytesIn
<1>5. SendersCarrying(m)' = SendersCarrying(m)
  BY <1>1, <1>2 DEF SendersCarrying, Threads
<1>6. i \in WrittenIn(m) <=> msg[i] = m
  BY <1>1, <1>3 DEF WrittenIn, Threads
<1>7. WrittenIn(m)' = WrittenIn(m) \ {i}
  <2>1. i \notin WrittenIn(m)'
    <3>1. InElement(r)' /\ meta'[r].idx = i
      BY <1>1 DEF InElement
    <3>2. ~ \E u \in Senders : pc'[u] = "s_publish" /\ meta'[u].idx = i
      BY <1>1, <1>2, <1>3 DEF InElement, Threads
    <3> QED
      BY <3>1, <3>2 DEF WrittenIn
  <2>2. ASSUME NEW j \in Slots \ {i} PROVE j \in WrittenIn(m)' <=> j \in WrittenIn(m)
    <3>1. (\E u \in Senders : pc'[u] = "s_publish" /\ meta'[u].idx = j) <=>
          (\E u \in Senders : pc[u] = "s_publish" /\ meta[u].idx = j)
      BY <1>1, <1>2 DEF Threads
    <3>2. (\E u \in Receivers : InElement(u)' /\ meta'[u].idx = j) <=>
          (\E u \in Receivers : InElement(u) /\ meta[u].idx = j)
      BY <1>1, <1>2, <2>2 DEF Threads, InElement
    <3> QED
      BY <1>1, <3>1, <3>2 DEF WrittenIn
  <2> QED
    BY <2>1, <2>2 DEF WrittenIn
<1>8. ReceiversCarrying(m)' = IF msg[i] = m THEN ReceiversCarrying(m) \cup {r}
                              ELSE ReceiversCarrying(m)
  BY <1>1, <1>2 DEF ReceiversCarrying, Threads
<1>9. CASE msg[i] = m
  <2>1. /\ m \notin todo /\ SendersCarrying(m) = {} /\ Undelivered(m)
        /\ WrittenIn(m) = {i}
    BY <1>6, <1>9 DEF Whereabouts, BytesIn, WrittenIn
  <2> QED
    BY <1>1, <1>4, <1>5, <1>7, <1>8, <1>9, <2>1 DEF Whereabouts, Undelivered
<1>10. CASE msg[i] # m
  BY <1>1, <1>4, <1>5, <1>6, <1>7, <1>8, <1>10 DEF Whereabouts, Undelivered
<1> QED
  BY <1>9, <1>10

\* The read moves the message out of the element.
LEMMA RecvReadPlaces ==
  ASSUME ConserveInv, NEW r \in Receivers, RecvRead(r), NEW m \in Messages
  PROVE  Whereabouts(m)'
<1> USE DEF ConserveInv, RecvRead, Goto, ring, ends
<1>1. /\ pc \in [Threads -> {"idle"} \cup SenderPCs \cup ReceiverPCs \cup CloserPCs]
      /\ val \in [Threads -> Messages \cup {NoMsg}]
      /\ r \in Threads /\ r \notin Senders
      /\ pc[r] = "r_read" /\ pc'[r] = "r_release" /\ val'[r] = msg[meta[r].idx]
  BY ThreadsAssumption DEF RingInv, TypeOK, Threads
<1>2. \A u \in Threads \ {r} : pc'[u] = pc[u] /\ val'[u] = val[u]
  BY <1>1
<1>3. ReturnedBy(m)' = ReturnedBy(m) /\ BytesIn(m)' = BytesIn(m)
  BY DEF ReturnedBy, BytesIn
<1>4. SendersCarrying(m)' = SendersCarrying(m)
  BY <1>1, <1>2 DEF SendersCarrying, Threads
<1>5. ReceiversCarrying(m)' = ReceiversCarrying(m)
  BY <1>1, <1>2 DEF ReceiversCarrying, Threads
<1>6. WrittenIn(m)' = WrittenIn(m)
  BY <1>1, <1>2 DEF WrittenIn, InElement, Threads
<1> QED
  BY <1>3, <1>4, <1>5, <1>6 DEF Whereabouts, Undelivered

\* An element that is released was not written since.
LEMMA RecvReleasePlaces ==
  ASSUME ConserveInv, NEW r \in Receivers, RecvRelease(r), NEW m \in Messages
  PROVE  Whereabouts(m)'
<1> USE DEF ConserveInv, RecvRelease, Goto, locals, ends
<1> DEFINE i == meta[r].idx
<1>1. /\ pc \in [Threads -> {"idle"} \cup SenderPCs \cup ReceiverPCs \cup CloserPCs]
      /\ r \in Threads /\ r \notin Senders /\ i \in Slots /\ lap \in [Slots -> Nat]
      /\ pc[r] = "r_release" /\ pc'[r] = "r_ok" /\ elem_lap[r] = lap[i]
  BY ThreadsAssumption DEF RingInv, TypeOK, Threads, Meta, ThreadPhase, ReaderPhase
<1>2. \A u \in Threads \ {r} : pc'[u] = pc[u]
  BY <1>1
<1>3. lap'[i] = lap[i] + 1 /\ \A j \in Slots \ {i} : lap'[j] = lap[j]
  BY <1>1
<1>4. /\ lap[i] % 2 = 1 /\ lap'[i] % 2 = 0
      /\ \A u \in Threads \ {r} : InElement(u) => meta[u].idx # i
  <2>1. lap[i] % 2 = 1
    BY <1>1, Parity
  <2> QED
    BY <1>1, <1>3, <2>1 DEF RingInv, ElementExclusive, InElement
<1>5. ReturnedBy(m)' = ReturnedBy(m) /\ BytesIn(m)' = BytesIn(m)
  BY DEF ReturnedBy, BytesIn
<1>6. SendersCarrying(m)' = SendersCarrying(m)
  BY <1>1, <1>2 DEF SendersCarrying, Threads
<1>7. ReceiversCarrying(m)' = ReceiversCarrying(m)
  BY <1>1, <1>2 DEF ReceiversCarrying, Threads
<1>8. WrittenIn(m)' = WrittenIn(m)
  <2>1. i \notin WrittenIn(m)
    BY <1>1, <1>4 DEF WrittenIn, InElement, Threads
  <2>2. i \notin WrittenIn(m)'
    BY <1>1, <1>2, <1>4 DEF WrittenIn, InElement, Threads
  <2>3. ASSUME NEW j \in Slots \ {i} PROVE j \in WrittenIn(m)' <=> j \in WrittenIn(m)
    <3>1. (\E u \in Senders : pc'[u] = "s_publish" /\ meta'[u].idx = j) <=>
          (\E u \in Senders : pc[u] = "s_publish" /\ meta[u].idx = j)
      BY <1>1, <1>2 DEF Threads
    <3>2. (\E u \in Receivers : InElement(u)' /\ meta'[u].idx = j) <=>
          (\E u \in Receivers : InElement(u) /\ meta[u].idx = j)
      BY <1>1, <1>2, <2>3 DEF Threads, InElement
    <3> QED
      BY <1>3, <3>1, <3>2 DEF WrittenIn
  <2> QED
    BY <2>1, <2>2, <2>3 DEF WrittenIn
<1> QED
  BY <1>5, <1>6, <1>7, <1>8 DEF Whereabouts, Undelivered

\* A receive that succeeds returns the message it carries, once.
LEMMA RecvReturnPlaces ==
  ASSUME ConserveInv, NEW r \in Receivers, RecvReturn(r), NEW m \in Messages
  PROVE  Whereabouts(m)'
<1> USE DEF ConserveInv, RecvReturn, Goto, PopFrame, ring
<1>1. /\ pc \in [Threads -> {"idle"} \cup SenderPCs \cup ReceiverPCs \cup CloserPCs]
      /\ val \in [Threads -> Messages \cup {NoMsg}] /\ meta \in [Threads -> Meta]
      /\ got \in [Receivers -> Seq(Messages \cup {NoMsg})] /\ got[r] \in Seq(Messages \cup {NoMsg})
      /\ r \in Threads /\ r \notin Senders
      /\ pc[r] \in {"r_ok", "r_empty"} /\ pc'[r] = "idle"
  BY ThreadsAssumption DEF RingInv, TypeOK, Threads
<1>2. \A u \in Threads \ {r} : pc'[u] = pc[u] /\ val'[u] = val[u] /\ meta'[u] = meta[u]
  BY <1>1
<1>3. BytesIn(m)' = BytesIn(m)
  BY DEF BytesIn
<1>4. SendersCarrying(m)' = SendersCarrying(m)
  BY <1>1, <1>2 DEF SendersCarrying, Threads
<1>5. WrittenIn(m)' = WrittenIn(m)
  BY <1>1, <1>2 DEF WrittenIn, InElement, Threads
<1>6. ReceiversCarrying(m)' = ReceiversCarrying(m) \ {r}
  BY <1>1, <1>2 DEF ReceiversCarrying, Threads
<1>7. r \in ReceiversCarrying(m) <=> pc[r] = "r_ok" /\ val[r] = m
  BY <1>1 DEF ReceiversCarrying
<1>8. CASE r \in ReceiversCarrying(m)
  <2>1. /\ m \notin todo /\ SendersCarrying(m) = {} /\ ReturnedBy(m) = {}
        /\ WrittenIn(m) = {} /\ ReceiversCarrying(m) = {r}
    BY <1>8 DEF Whereabouts, Undelivered
  <2>2. /\ \A u \in Receivers \ {r} : got'[u] = got[u]
        /\ got'[r] = Append(got[r], m)
    BY <1>1, <1>7, <1>8
  <2>3. /\ DOMAIN got'[r] = DOMAIN got[r] \cup {Len(got[r]) + 1}
        /\ got'[r][Len(got[r]) + 1] = m
        /\ \A k \in DOMAIN got[r] : got'[r][k] = got[r][k] /\ k # Len(got[r]) + 1
    BY <1>1, <2>2
  <2>4. \A u \in Receivers : \A k \in DOMAIN got[u] : got[u][k] # m
    <3> SUFFICES ASSUME NEW u \in Receivers, NEW k \in DOMAIN got[u], got[u][k] = m
                 PROVE  FALSE
      OBVIOUS
    <3>1. <<u, k>> \in {u} \X DOMAIN got[u]
      OBVIOUS
    <3>2. <<u, k>> \in UNION {{v} \X DOMAIN got[v] : v \in Receivers}
      BY <3>1
    <3>3. <<u, k>> \in ReturnedBy(m)
      BY <3>2 DEF ReturnedBy
    <3> QED
      BY <3>3, <2>1
  <2>5. ReturnedBy(m)' = {<<r, Len(got[r]) + 1>>}
    BY <2>2, <2>3, <2>4 DEF ReturnedBy
  <2> QED
    BY <1>4, <1>5, <1>6, <2>1, <2>5 DEF Whereabouts
<1>9. CASE r \notin ReceiversCarrying(m)
  <2>1. CASE pc[r] = "r_empty"
    <3>1. ReturnedBy(m)' = ReturnedBy(m)
      BY <2>1 DEF ReturnedBy
    <3> QED
      BY <1>3, <1>4, <1>5, <1>6, <1>9, <3>1 DEF Whereabouts, Undelivered
  <2>2. CASE pc[r] = "r_ok"
    <3>1. /\ \A u \in Receivers \ {r} : got'[u] = got[u]
          /\ got'[r] = Append(got[r], val[r]) /\ val[r] # m
      BY <1>1, <1>7, <1>9, <2>2
    <3>2. /\ DOMAIN got'[r] = DOMAIN got[r] \cup {Len(got[r]) + 1}
          /\ got'[r][Len(got[r]) + 1] # m
          /\ \A k \in DOMAIN got[r] : got'[r][k] = got[r][k]
      BY <1>1, <3>1
    <3>3. ReturnedBy(m)' = ReturnedBy(m)
      BY <3>1, <3>2 DEF ReturnedBy
    <3> QED
      BY <1>3, <1>4, <1>5, <1>6, <1>9, <3>3 DEF Whereabouts, Undelivered
  <2> QED
    BY <1>1, <2>1, <2>2
<1> QED
  BY <1>8, <1>9

\* Every other step of a sender, a receiver or a closer hands nothing over.
LEMMA QuietPlaces ==
  ASSUME ConserveInv, NEW t \in Threads, NEW m \in Messages,
         \/ t \in Senders /\ \/ SendLoadMeta(t) \/ SendLoadLap(t) \/ SendCas(t)
                             \/ SendRecheck(t) \/ SendRetry(t)
         \/ t \in Receivers /\ \/ RecvCall(t) \/ RecvLoadMeta(t) \/ RecvLoadLap(t)
                               \/ RecvCas(t) /\ pc'[t] # "r_read"
                               \/ RecvRecheck(t) \/ RecvRetry(t)
         \/ t \in Closers /\ CloserStep(t)
  PROVE  Whereabouts(m)'
<1>1. /\ pc \in [Threads -> {"idle"} \cup SenderPCs \cup ReceiverPCs \cup CloserPCs]
      /\ val \in [Threads -> Messages \cup {NoMsg}] /\ meta \in [Threads -> Meta]
      /\ elem_lap \in [Threads -> Nat] /\ Whereabouts(m)
  BY DEF ConserveInv, RingInv, TypeOK
<1> USE DEF Goto, ring, locals, ends
<1>2. CASE t \in Senders
  <2>1. /\ pc[t] \in {"s_load", "s_lap", "s_cas", "s_recheck", "s_full"} /\ val' = val
        /\ pc'[t] \in {"s_lap", "s_closed", "s_cas", "s_recheck", "s_load", "s_write", "s_full"}
        /\ UNCHANGED <<msg, lap, todo, got>>
    BY <1>1, <1>2, ThreadsAssumption
       DEF SendLoadMeta, SendLoadLap, SendCas, SendRecheck, SendRetry
  <2>2. OthersCarry(t)
    BY <1>1, <1>2, <2>1, ThreadsAssumption
       DEF SendLoadMeta, SendLoadLap, SendCas, SendRecheck, SendRetry, OthersCarry, OthersStay
  <2> QED
    BY <1>1, <1>2, <2>1, <2>2, PlacesStay, ThreadsAssumption
<1>3. CASE t \in Receivers
  <2>1. /\ pc[t] \in {"idle", "r_load", "r_lap", "r_cas", "r_recheck", "r_empty"} /\ val' = val
        /\ pc'[t] \in {"r_lap", "r_cas", "r_recheck", "r_load", "r_empty"}
        /\ UNCHANGED <<msg, lap, todo, got>>
    BY <1>1, <1>3, ThreadsAssumption
       DEF RecvCall, RecvLoadMeta, RecvLoadLap, RecvCas, RecvRecheck, RecvRetry
  <2>2. OthersCarry(t)
    BY <1>1, <1>3, <2>1, ThreadsAssumption
       DEF RecvCall, RecvLoadMeta, RecvLoadLap, RecvCas, RecvRecheck, RecvRetry, OthersCarry,
           OthersStay
  <2>3. ~InElement(t) /\ ~InElement(t)'
    BY <2>1 DEF InElement
  <2> QED
    BY <1>1, <1>3, <2>1, <2>2, <2>3, PlacesStay, ThreadsAssumption
<1>4. CASE t \in Closers
  <2>1. t \notin Senders /\ t \notin Receivers /\ CloserStep(t)
    BY <1>4, ThreadsAssumption
  <2>2. OthersCarry(t) /\ UNCHANGED <<msg, lap, todo, got>>
    BY <1>1, <2>1
       DEF CloserStep, CloseCall, CloseCas, CloseReturn, PopFrame, OthersCarry, OthersStay
  <2> QED
    BY <1>1, <2>1, <2>2, PlacesStay
<1> QED
  BY <1>2, <1>3, <1>4 DEF Threads

\* Every step keeps every message in one place.
LEMMA ConserveStep == ConserveInv /\ [Next]_vars => ConserveInv'
<1> SUFFICES ASSUME ConserveInv, [Next]_vars PROVE ConserveInv'
  OBVIOUS
<1>1. RingInv'
  BY RingStep DEF ConserveInv
<1>2. IdleSendersEmpty'
  <2>1. ASSUME NEW s \in Senders, SenderStep(s) PROVE IdleSendersEmpty'
    <3>1. \A u \in Senders \ {s} : pc'[u] = pc[u] /\ val'[u] = val[u]
      BY <2>1 DEF SenderStep, SendCall, SendLoadMeta, SendLoadLap, SendCas, SendRecheck,
         SendWrite, SendPublish, SendReturn, SendRetry, PopFrame, Goto, ring, locals, ends,
         ConserveInv, RingInv, TypeOK, Threads
    <3>2. pc'[s] = "idle" => val'[s] = NoMsg
      BY <2>1 DEF SenderStep, SendCall, SendLoadMeta, SendLoadLap, SendCas, SendRecheck,
         SendWrite, SendPublish, SendReturn, SendRetry, PopFrame, Goto,
         ConserveInv, RingInv, TypeOK, Threads
    <3> QED
      BY <3>1, <3>2 DEF ConserveInv, IdleSendersEmpty
  <2>2. ASSUME NEW r \in Receivers, ReceiverStep(r) PROVE IdleSendersEmpty'
    <3>1. \A u \in Senders : pc'[u] = pc[u] /\ val'[u] = val[u]
      BY <2>2, ThreadsAssumption DEF ReceiverStep, RecvCall, RecvLoadMeta, RecvLoadLap,
         RecvCas, RecvRecheck, RecvRead, RecvRelease, RecvReturn, RecvRetry, PopFrame, Goto,
         ring, locals, ends, ConserveInv, RingInv, TypeOK, Threads
    <3> QED
      BY <3>1 DEF ConserveInv, IdleSendersEmpty
  <2>3. ASSUME NEW c \in Closers, CloserStep(c) PROVE IdleSendersEmpty'
    <3>1. \A u \in Senders : pc'[u] = pc[u] /\ val'[u] = val[u]
      BY <2>3, ThreadsAssumption DEF CloserStep, CloseCall, CloseCas, CloseReturn, PopFrame,
         Goto, ring, ends, ConserveInv, RingInv, TypeOK, Threads
    <3> QED
      BY <3>1 DEF ConserveInv, IdleSendersEmpty
  <2>4. CASE UNCHANGED vars
    BY <2>4 DEF vars, locals, ConserveInv, IdleSendersEmpty
  <2> QED
    BY <2>1, <2>2, <2>3, <2>4 DEF Next
<1>3. ReadsOdd'
  <2>1. read_meta' = read_meta \/ read_meta' = Advance(read_meta)
    BY DEF Next, vars, SenderStep, SendCall, SendLoadMeta, SendLoadLap, SendCas, SendRecheck,
       SendWrite, SendPublish, SendReturn, SendRetry, ReceiverStep, RecvCall, RecvLoadMeta,
       RecvLoadLap, RecvCas, RecvRecheck, RecvRead, RecvRelease, RecvReturn, RecvRetry,
       CloserStep, CloseCall, CloseCas, CloseReturn, ring
  <2>2. read_meta.lap \in Nat /\ read_meta.lap % 2 = 1
    BY DEF ConserveInv, ReadsOdd, RingInv, TypeOK, Meta
  <2>3. read_meta'.lap \in {read_meta.lap, read_meta.lap + 2}
    <3>1. read_meta \in Meta
      BY DEF ConserveInv, RingInv, TypeOK
    <3>2. [read_meta EXCEPT !.idx = read_meta.idx + 1].lap = read_meta.lap
      BY <3>1 DEF Meta
    <3>3. Advance(read_meta).lap \in {read_meta.lap, read_meta.lap + 2}
      BY <3>2 DEF Advance
    <3> QED
      BY <2>1, <3>3
  <2>4. read_meta'.lap % 2 = 1
    BY <2>2, <2>3
  <2> QED
    BY <2>4 DEF ReadsOdd
<1>4. ASSUME NEW m \in Messages PROVE Whereabouts(m)'
  <2>1. ASSUME NEW s \in Senders, SenderStep(s) PROVE Whereabouts(m)'
    BY <2>1, SendCallPlaces, SendWritePlaces, SendPublishPlaces, SendReturnPlaces,
       QuietPlaces DEF SenderStep, Threads
  <2>2. ASSUME NEW r \in Receivers, ReceiverStep(r) PROVE Whereabouts(m)'
    BY <2>2, RecvClaimPlaces, RecvReadPlaces, RecvReleasePlaces, RecvReturnPlaces,
       QuietPlaces DEF ReceiverStep, Threads
  <2>3. ASSUME NEW c \in Closers, CloserStep(c) PROVE Whereabouts(m)'
    BY <2>3, QuietPlaces DEF Threads
  <2>4. CASE UNCHANGED vars
    <3>1. /\ SendersCarrying(m)' = SendersCarrying(m) /\ BytesIn(m)' = BytesIn(m)
          /\ ReceiversCarrying(m)' = ReceiversCarrying(m)
      BY <2>4 DEF vars, ring, locals, ends, SendersCarrying, ReceiversCarrying, BytesIn
    <3>2. WrittenIn(m)' = WrittenIn(m)
      BY <2>4 DEF vars, ring, locals, WrittenIn, InElement
    <3>3. ReturnedBy(m)' = ReturnedBy(m) /\ todo' = todo
      BY <2>4 DEF vars, ends, ReturnedBy
    <3> QED
      BY <3>1, <3>2, <3>3 DEF ConserveInv, Whereabouts, Undelivered
  <2> QED
    BY <2>1, <2>2, <2>3, <2>4 DEF Next
<1> QED
  BY <1>1, <1>2, <1>3, <1>4 DEF ConserveInv

\* Every message starts with a caller.
LEMMA ConserveInit == Init => ConserveInv
<1> SUFFICES ASSUME Init PROVE ConserveInv
  OBVIOUS
<1>1. RingInv
  BY RingInit
<1>2. IdleSendersEmpty /\ ReadsOdd
  BY DEF Init, IdleSendersEmpty, ReadsOdd, Threads
<1>3. ASSUME NEW m \in Messages PROVE Whereabouts(m)
  BY NoMsgAssumption
     DEF Init, Whereabouts, Undelivered, SendersCarrying, ReceiversCarrying, ReturnedBy,
         BytesIn, Threads, Slots
<1> QED
  BY <1>1, <1>2, <1>3 DEF ConserveInv

\* Where every message is, in every reachable state: with its caller, with one sender,
\* in one element, with one receiver, or in one result.
THEOREM ConserveInvariance == Spec => []ConserveInv
BY ConserveInit, ConserveStep, PTL DEF Spec

\* No message is lost, doubled, or both returned to its sender and delivered, for any
\* number of threads, messages and elements, before and after a close.
THEOREM Conservation == Spec => []MessagesConserved
<1>1. ConserveInv => MessagesConserved
  BY WhereaboutsCount DEF ConserveInv, MessagesConserved
<1> QED
  BY <1>1, ConserveInvariance, PTL

-----------------------------------------------------------------------------
(* The handles                                                             *)

\* A thread without a handle is in no call, and the drop of the queue saw the
\* elements as they still are.
HandlesInv ==
  /\ ConserveInv
  /\ owners \subseteq Threads
  /\ \A t \in Threads \ owners : pc[t] = "idle"
  /\ owners = {} => \A x \in Contents : drops[x] = Dropped(x)

\* What a thread does with its handle is a step of the ring, and cloning or
\* dropping a handle leaves the ring alone.
LEMMA HandlesStepOrStutter == [HandlesNext]_hvars => [Next]_vars
<1>1. ASSUME NEW t \in Threads, Use(t) PROVE [Next]_vars
  BY <1>1 DEF Use, Next
<1>2. ASSUME NEW t \in Threads, DropHandle(t) PROVE [Next]_vars
  BY <1>2 DEF DropHandle
<1>3. ASSUME NEW s \in Threads, NEW u \in Threads, CloneSender(s, u) \/ CloneReceiver(s, u)
      PROVE  [Next]_vars
  BY <1>3 DEF CloneSender, CloneReceiver
<1>4. CASE UNCHANGED hvars
  BY <1>4 DEF hvars
<1> QED
  BY <1>1, <1>2, <1>3, <1>4 DEF HandlesNext, Threads

\* The life of the handles is a life of the ring, so that all that is proved of
\* the ring holds whatever is cloned and dropped.
LEMMA HandlesImplementRing == HandlesSpec => Spec
<1>1. HandlesInit => Init
  BY DEF HandlesInit
<1> QED
  BY <1>1, HandlesStepOrStutter, PTL DEF HandlesSpec, Spec

\* A call moves the thread that makes it and no other.
LEMMA OthersIdle ==
  ASSUME TypeOK, NEW t \in Threads, Use(t), NEW u \in Threads \ {t}
  PROVE  pc'[u] = pc[u]
<1>1. pc \in [Threads -> {"idle"} \cup SenderPCs \cup ReceiverPCs \cup CloserPCs]
  BY DEF TypeOK
<1>2. CASE SenderStep(t)
  BY <1>1, <1>2 DEF SenderStep, SendCall, SendLoadMeta, SendLoadLap, SendCas, SendRecheck,
     SendWrite, SendPublish, SendReturn, SendRetry, Goto
<1>3. CASE ReceiverStep(t)
  BY <1>1, <1>3 DEF ReceiverStep, RecvCall, RecvLoadMeta, RecvLoadLap, RecvCas, RecvRecheck,
     RecvRead, RecvRelease, RecvReturn, RecvRetry, Goto
<1>4. CASE CloserStep(t)
  BY <1>1, <1>4 DEF CloserStep, CloseCall, CloseCas, CloseReturn, Goto
<1> QED
  BY <1>2, <1>3, <1>4 DEF Use

\* The invariant of the handles is inductive.
LEMMA HandlesStep == HandlesInv /\ [HandlesNext]_hvars => HandlesInv'
<1> SUFFICES ASSUME HandlesInv, [HandlesNext]_hvars PROVE HandlesInv'
  OBVIOUS
<1>1. ConserveInv'
  BY HandlesStepOrStutter, ConserveStep DEF HandlesInv
<1>2. ASSUME NEW t \in Threads, Use(t) PROVE HandlesInv'
  <2>1. owners' = owners /\ drops' = drops /\ t \in owners
    BY <1>2 DEF Use
  <2>2. \A u \in Threads \ owners : pc'[u] = "idle"
    BY <1>2, <2>1, OthersIdle DEF HandlesInv, ConserveInv, RingInv
  <2> QED
    BY <1>1, <2>1, <2>2 DEF HandlesInv
<1>3. ASSUME NEW t \in Threads, DropHandle(t) PROVE HandlesInv'
  <2>1. pc' = pc /\ msg' = msg /\ owners' = owners \ {t} /\ pc[t] = "idle" /\ t \in owners
    BY <1>3 DEF DropHandle, vars, ring
  <2>2. ASSUME NEW x \in Contents PROVE Dropped(x)' = Dropped(x)
    BY <2>1 DEF Dropped
  <2>3. owners' = {} => \A x \in Contents : drops'[x] = Dropped(x)'
    BY <1>3, <2>1, <2>2 DEF DropHandle
  <2> QED
    BY <1>1, <2>1, <2>3 DEF HandlesInv
<1>4. ASSUME NEW s \in Threads, NEW u \in Threads, CloneSender(s, u) \/ CloneReceiver(s, u)
      PROVE  HandlesInv'
  <2>1. pc' = pc /\ owners' = owners \cup {u} /\ owners' # {}
    BY <1>4 DEF CloneSender, CloneReceiver, vars
  <2> QED
    BY <1>1, <2>1 DEF HandlesInv
<1>5. CASE UNCHANGED hvars
  <2>1. UNCHANGED <<pc, msg, owners, drops>>
    BY <1>5 DEF hvars, vars, ring
  <2>2. ASSUME NEW x \in Contents PROVE Dropped(x)' = Dropped(x)
    BY <2>1 DEF Dropped
  <2> QED
    BY <1>1, <2>1, <2>2 DEF HandlesInv
<1> QED
  BY <1>2, <1>3, <1>4, <1>5 DEF HandlesNext, Threads

\* Where every message is when the last handle goes: every thread is idle, so that
\* a message is with its caller, in one element, or in one result.
THEOREM HandlesInvariance == HandlesSpec => []HandlesInv
<1>1. HandlesInit => HandlesInv
  <2> SUFFICES ASSUME HandlesInit PROVE HandlesInv
    OBVIOUS
  <2>1. ConserveInv
    BY ConserveInit DEF HandlesInit
  <2>2. owners \subseteq Threads /\ owners # {} /\ \A t \in Threads : pc[t] = "idle"
    BY DEF HandlesInit, Init, Threads
  <2> QED
    BY <2>1, <2>2 DEF HandlesInv
<1> QED
  BY <1>1, HandlesStep, PTL DEF HandlesSpec

\* What was sent and not received is dropped with the queue, once, and what a
\* sender got back is not, however many elements the ring has and however often
\* it went around.
THEOREM PendingIsDropped == HandlesSpec => []PendingDroppedOnce
<1>1. HandlesInv => PendingDroppedOnce
  <2> SUFFICES ASSUME HandlesInv, owners = {}, NEW m \in Messages
               PROVE  \/ \E r \in Receivers : m \in Range(got[r])
                      \/ drops[m] = IF m \in todo THEN 0 ELSE 1
    BY DEF PendingDroppedOnce
  <2>1. \A t \in Threads : pc[t] = "idle"
    BY DEF HandlesInv
  <2>2. SendersCarrying(m) = {} /\ ReceiversCarrying(m) = {}
    BY <2>1, NoMsgAssumption
       DEF HandlesInv, ConserveInv, IdleSendersEmpty, SendersCarrying, ReceiversCarrying,
           Threads
  <2>3. drops[m] = Cardinality(BytesIn(m))
    BY DEF HandlesInv, Contents, Dropped, BytesIn
  <2>4. CASE m \in todo /\ BytesIn(m) = {}
    BY <2>3, <2>4, FS_EmptySet
  <2>5. CASE m \notin todo /\ \E i \in Slots : BytesIn(m) = {i}
    BY <2>3, <2>5, FS_Singleton
  <2>6. ASSUME NEW rk \in ReturnedBy(m) PROVE \E r \in Receivers : m \in Range(got[r])
    <3>1. PICK r \in Receivers : rk \in {r} \X DOMAIN got[r]
      BY DEF ReturnedBy
    <3>2. rk[1] = r /\ rk[2] \in DOMAIN got[r] /\ got[rk[1]][rk[2]] = m
      BY <3>1 DEF ReturnedBy
    <3> QED
      BY <3>2 DEF Range
  <2> QED
    BY <2>2, <2>4, <2>5, <2>6 DEF HandlesInv, ConserveInv, Whereabouts
<1> QED
  BY <1>1, HandlesInvariance, PTL

-----------------------------------------------------------------------------
(* The ring as a channel, while it has laps left                           *)

\* The closed flag is the top bit of the lap of write_meta: the queue must be
\* closed before the laps reach it, or it closes by itself.  2^30 rounds are
\* far away and nothing in the code counts them.
LapsLeft ==
  ~is_close /\ write_meta.idx = Capacity - 1 => write_meta.lap + 2 < MPMC_MASK_32

\* So a step that sets the bit while there are laps left is the exchange of a close.
LEMMA BitStep ==
  ASSUME RingInv, LapsLeft, [Next]_vars, ~is_close, is_close'
  PROVE  \E c \in Closers : pc[c] = "c_cas" /\ pc'[c] = "c_ok"
<1>1. /\ write_meta \in [idx : 0 .. Capacity - 1, lap : Nat]
      /\ MPMC_MASK_32 \in Nat /\ Capacity \in Nat
      /\ pc \in [Threads -> {"idle"} \cup SenderPCs \cup ReceiverPCs \cup CloserPCs]
  BY MaskAssumption, CapacityAssumption DEF RingInv, TypeOK, Meta, Slots
<1>2. write_meta' # write_meta
  BY DEF is_close
<1>3. ASSUME NEW s \in Senders, SenderStep(s) PROVE FALSE
  <2>1. CASE SendCas(s)
    <3>1. write_meta' = Advance(write_meta)
      BY <1>2, <2>1 DEF SendCas
    <3>2. write_meta'.lap < MPMC_MASK_32
      BY <1>1, <3>1 DEF Advance, is_close, LapsLeft
    <3> QED
      BY <1>1, <3>1, <3>2 DEF Advance, is_close
  <2> QED
    BY <1>2, <1>3, <2>1 DEF SenderStep, SendCall, SendLoadMeta, SendLoadLap, SendRecheck,
       SendWrite, SendPublish, SendReturn, SendRetry, ring
<1>4. ASSUME NEW r \in Receivers, ReceiverStep(r) PROVE FALSE
  BY <1>2, <1>4 DEF ReceiverStep, RecvCall, RecvLoadMeta, RecvLoadLap, RecvCas,
     RecvRecheck, RecvRead, RecvRelease, RecvReturn, RecvRetry, ring
<1>5. PICK c \in Closers : CloserStep(c)
  BY <1>2, <1>3, <1>4 DEF Next, vars, ring
<1>6. c \in Threads
  BY DEF Threads
<1> QED
  BY <1>1, <1>2, <1>5, <1>6 DEF CloserStep, CloseCall, CloseCas, CloseReturn, Goto, ring

\* The lap at which element i would next be claimed for writing were the queue
\* not closed.
OpenWrite(i) == IF i < OpenMeta.idx THEN OpenMeta.lap + 2 ELSE OpenMeta.lap

Occupied(i, side) == \E t \in side : InElement(t) /\ meta[t].idx = i

\* The phases of ElementPhase, closed or not, and who is inside in which.
OpenPhase(i) ==
  \/ OpenWrite(i) = lap[i] /\ NextRead(i) = lap[i] + 1 /\ ~Occupied(i, Senders)
  \/ OpenWrite(i) = lap[i] + 2 /\ NextRead(i) = lap[i] + 1 /\ Occupied(i, Senders)
  \/ OpenWrite(i) = lap[i] + 1 /\ NextRead(i) = lap[i]
  \/ OpenWrite(i) = lap[i] + 1 /\ NextRead(i) = lap[i] + 2 /\ Occupied(i, Receivers)

\* The meta a thread has loaded is the present one or two laps behind the next
\* claim of its element.
LoadedWrite(s) ==
  pc[s] \in {"s_cas", "s_recheck"} \/ (pc[s] = "s_lap" /\ meta[s].lap < MPMC_MASK_32) =>
    meta[s] = OpenMeta \/ meta[s].lap + 2 <= OpenWrite(meta[s].idx)
LoadedRead(r) ==
  pc[r] \in {"r_lap", "r_cas", "r_recheck"} =>
    meta[r] = read_meta \/ meta[r].lap + 2 <= NextRead(meta[r].idx)

OpenInv ==
  /\ \A i \in Slots : OpenPhase(i)
  /\ \A s \in Senders : LoadedWrite(s)
  /\ \A r \in Receivers : LoadedRead(r)

\* A step that keeps write_meta keeps what is derived of it.
LEMMA OpenKept ==
  ASSUME UNCHANGED write_meta
  PROVE  /\ is_close' = is_close /\ OpenMeta' = OpenMeta
         /\ \A i \in Slots : OpenWrite(i)' = OpenWrite(i)
BY DEF is_close, OpenMeta, OpenWrite

\* A close changes the bit and nothing else.
LEMMA OpenClosed ==
  ASSUME TypeOK, write_meta' = WithClosedBit(write_meta)
  PROVE  /\ is_close' /\ OpenMeta' = OpenMeta
         /\ \A i \in Slots : OpenWrite(i)' = OpenWrite(i)
<1>1. write_meta \in Meta /\ write_meta.lap \in Nat /\ MPMC_MASK_32 \in Nat
  BY MaskAssumption DEF TypeOK, Meta
<1>2. CASE is_close
  <2>1. write_meta' = write_meta
    BY <1>2 DEF WithClosedBit, is_close
  <2> QED
    BY <1>2, <2>1, OpenKept
<1>3. CASE ~is_close
  <2>1. /\ write_meta' = [write_meta EXCEPT !.lap = write_meta.lap + MPMC_MASK_32]
        /\ OpenMeta = write_meta
    BY <1>3 DEF WithClosedBit, is_close, OpenMeta
  <2>2. write_meta'.lap = write_meta.lap + MPMC_MASK_32 /\ write_meta'.idx = write_meta.idx
    BY <1>1, <2>1 DEF Meta
  <2>3. is_close'
    BY <1>1, <2>2 DEF is_close
  <2>4. OpenMeta' = [write_meta' EXCEPT !.lap = write_meta.lap]
    <3>1. OpenMeta' = [write_meta' EXCEPT !.lap = write_meta'.lap - MPMC_MASK_32]
      BY <2>3 DEF OpenMeta
    <3>2. write_meta'.lap - MPMC_MASK_32 = write_meta.lap
      BY <1>1, <2>2
    <3> QED
      BY <3>1, <3>2
  <2>5. OpenMeta' = write_meta
    BY <1>1, <2>1, <2>4 DEF Meta
  <2> QED
    BY <2>1, <2>3, <2>5 DEF OpenWrite
<1> QED
  BY <1>2, <1>3

\* A claim moves an open queue's metas on, and with laps left it stays open.
LEMMA OpenClaimed ==
  ASSUME TypeOK, LapsLeft, ~is_close, write_meta' = Advance(write_meta)
  PROVE  /\ ~is_close' /\ OpenMeta = write_meta /\ OpenMeta' = write_meta'
         /\ \A i \in Slots :
              /\ OpenWrite(i) = NextWrite(i)
              /\ OpenWrite(i)' = IF i = write_meta.idx THEN OpenWrite(i) + 2
                                 ELSE OpenWrite(i)
<1>1. /\ write_meta \in Meta /\ write_meta.lap \in Nat /\ MPMC_MASK_32 \in Nat
      /\ write_meta.lap < MPMC_MASK_32 /\ write_meta.idx \in Slots /\ Capacity \in Nat \ {0}
  BY MaskAssumption, CapacityAssumption DEF TypeOK, Meta, is_close
<1>2. write_meta'.lap < MPMC_MASK_32 /\ write_meta'.lap \in Nat
  BY <1>1 DEF Advance, LapsLeft, Slots, Meta
<1>3. ~is_close'
  BY <1>1, <1>2 DEF is_close
<1>4. OpenMeta = write_meta /\ OpenMeta' = write_meta'
  BY <1>3 DEF OpenMeta
<1> QED
  BY <1>3, <1>4, NextWriteAdvance DEF OpenWrite, NextWrite

\* Nobody enters or leaves an element but the thread that steps.
LEMMA OccupiedKept ==
  ASSUME NEW t \in Threads, OthersStay(t), NEW side \in SUBSET Threads, NEW i \in Slots,
         \/ (InElement(t) => meta[t].idx # i) /\ (InElement(t)' => meta'[t].idx # i)
         \/ (InElement(t)' <=> InElement(t)) /\ (InElement(t) => meta'[t] = meta[t])
  PROVE  Occupied(i, side)' <=> Occupied(i, side)
<1>1. ASSUME NEW u \in side
      PROVE  InElement(u)' /\ meta'[u].idx = i <=> InElement(u) /\ meta[u].idx = i
  <2>1. CASE u = t
    BY <2>1
  <2>2. CASE u # t
    BY <2>2 DEF OthersStay, InElement
  <2> QED
    BY <2>1, <2>2
<1> QED
  BY <1>1 DEF Occupied

\* A step that claims nothing, publishes nothing and releases nothing.
LEMMA OpenQuiet ==
  ASSUME TypeOK, OpenInv, NEW t \in Threads, OthersStay(t), OpenMeta' = OpenMeta,
         \A i \in Slots : OpenWrite(i)' = OpenWrite(i),
         UNCHANGED <<read_meta, lap>>,
         InElement(t)' <=> InElement(t), InElement(t) => meta'[t] = meta[t],
         t \in Senders => LoadedWrite(t)', t \in Receivers => LoadedRead(t)'
  PROVE  OpenInv'
<1>1. \A i \in Slots : NextRead(i)' = NextRead(i)
  BY DEF NextRead
<1>2. ASSUME NEW i \in Slots PROVE OpenPhase(i)'
  <2>1. /\ Occupied(i, Senders)' <=> Occupied(i, Senders)
        /\ Occupied(i, Receivers)' <=> Occupied(i, Receivers)
    BY OccupiedKept DEF Threads
  <2> QED
    BY <1>1, <2>1 DEF OpenInv, OpenPhase
<1>3. ASSUME NEW u \in Senders PROVE LoadedWrite(u)'
  <2>1. CASE u # t
    <3>1. pc'[u] = pc[u] /\ meta'[u] = meta[u] /\ meta[u].idx \in Slots
      BY <2>1 DEF OthersStay, Threads, TypeOK, Meta
    <3> QED
      BY <3>1 DEF OpenInv, LoadedWrite
  <2> QED
    BY <2>1
<1>4. ASSUME NEW u \in Receivers PROVE LoadedRead(u)'
  <2>1. CASE u # t
    <3>1. pc'[u] = pc[u] /\ meta'[u] = meta[u] /\ meta[u].idx \in Slots
      BY <2>1 DEF OthersStay, Threads, TypeOK, Meta
    <3> QED
      BY <1>1, <3>1 DEF OpenInv, LoadedRead
  <2> QED
    BY <2>1
<1> QED
  BY <1>2, <1>3, <1>4 DEF OpenInv

\* A successful claim by a sender.
LEMMA OpenSenderClaim ==
  ASSUME RingInv, OpenInv, LapsLeft, NEW s \in Senders, pc[s] = "s_cas",
         write_meta = meta[s], write_meta' = Advance(meta[s]),
         OthersStay(s), UNCHANGED <<read_meta, lap>>,
         pc'[s] = "s_write", meta'[s] = meta[s]
  PROVE  OpenInv'
<1> DEFINE i == meta[s].idx
<1>0. /\ s \in Threads /\ i \in Slots /\ TypeOK
      /\ lap \in [Slots -> Nat] /\ meta \in [Threads -> Meta] /\ write_meta.lap \in Nat
  BY DEF Threads, RingInv, TypeOK, Meta
<1>1. /\ ~is_close /\ NextWrite(i) = lap[i] /\ NextRead(i) = lap[i] + 1
      /\ \A t \in Threads : InElement(t) => meta[t].idx # i
  BY <1>0, SenderClaim
<1>2. /\ OpenMeta = write_meta
      /\ \A j \in Slots : /\ OpenWrite(j) = NextWrite(j)
                          /\ OpenWrite(j)' = IF j = i THEN OpenWrite(j) + 2 ELSE OpenWrite(j)
  BY <1>0, <1>1, OpenClaimed
<1>3. \A j \in Slots : NextRead(j)' = NextRead(j) /\ NextWrite(j) \in Nat
  BY <1>0, NextAtMeta DEF NextRead
<1>4. ASSUME NEW j \in Slots PROVE OpenPhase(j)'
  <2>1. CASE j = i
    <3>1. Occupied(i, Senders)'
      BY DEF Occupied, InElement
    <3>2. OpenWrite(i)' = lap'[i] + 2 /\ NextRead(i)' = lap'[i] + 1
      BY <1>0, <1>1, <1>2, <1>3
    <3> QED
      BY <2>1, <3>1, <3>2 DEF OpenPhase
  <2>2. CASE j # i
    <3>1. /\ Occupied(j, Senders)' <=> Occupied(j, Senders)
          /\ Occupied(j, Receivers)' <=> Occupied(j, Receivers)
      BY <1>0, <1>1, <2>2, OccupiedKept DEF Threads, InElement
    <3> QED
      BY <1>2, <1>3, <2>2, <3>1 DEF OpenInv, OpenPhase
  <2> QED
    BY <2>1, <2>2
<1>5. ASSUME NEW u \in Senders PROVE LoadedWrite(u)'
  <2>1. CASE u # s
    <3>1. /\ pc'[u] = pc[u] /\ meta'[u] = meta[u] /\ meta[u].idx \in Slots
          /\ meta[u].lap \in Nat
      BY <1>0, <2>1 DEF OthersStay, Threads, Meta
    <3>2. CASE meta[u] = OpenMeta
      <4>1. meta[u].lap + 2 <= OpenWrite(meta[u].idx)'
        BY <1>0, <1>2, <1>3, <3>1, <3>2, NextAtMeta
      <4> QED
        BY <3>1, <4>1 DEF LoadedWrite
    <3>3. CASE meta[u].lap + 2 <= OpenWrite(meta[u].idx)
      <4>1. meta[u].lap + 2 <= OpenWrite(meta[u].idx)'
        BY <1>2, <1>3, <3>1, <3>3
      <4> QED
        BY <3>1, <4>1 DEF LoadedWrite
    <3> QED
      BY <3>1, <3>2, <3>3 DEF OpenInv, LoadedWrite
  <2>2. CASE u = s
    BY <2>2 DEF LoadedWrite
  <2> QED
    BY <2>1, <2>2
<1>6. ASSUME NEW u \in Receivers PROVE LoadedRead(u)'
  <2>1. pc'[u] = pc[u] /\ meta'[u] = meta[u] /\ meta[u].idx \in Slots
    BY <1>0, ThreadsAssumption DEF OthersStay, Threads, Meta
  <2> QED
    BY <1>3, <2>1 DEF OpenInv, LoadedRead
<1> QED
  BY <1>4, <1>5, <1>6 DEF OpenInv

\* A successful claim by a receiver.
LEMMA OpenReceiverClaim ==
  ASSUME RingInv, OpenInv, NEW r \in Receivers, pc[r] = "r_cas",
         read_meta = meta[r], read_meta' = Advance(meta[r]),
         OthersStay(r), UNCHANGED <<write_meta, lap>>,
         pc'[r] = "r_read", meta'[r] = meta[r]
  PROVE  OpenInv'
<1> DEFINE i == meta[r].idx
<1>0. /\ r \in Threads /\ i \in Slots /\ TypeOK
      /\ lap \in [Slots -> Nat] /\ meta \in [Threads -> Meta] /\ read_meta.lap \in Nat
  BY DEF Threads, RingInv, TypeOK, Meta
<1>1. /\ NextRead(i) = lap[i]
      /\ \A t \in Threads : InElement(t) => meta[t].idx # i
  BY <1>0, ReceiverClaim
<1>2. OpenMeta' = OpenMeta /\ \A j \in Slots : OpenWrite(j)' = OpenWrite(j)
  BY OpenKept
<1>3. \A j \in Slots : /\ NextRead(j)' = IF j = i THEN NextRead(j) + 2 ELSE NextRead(j)
                       /\ NextRead(j) \in Nat
  BY <1>0, NextAtMeta, NextReadAdvance
<1>4. ASSUME NEW j \in Slots PROVE OpenPhase(j)'
  <2>1. CASE j = i
    <3>1. Occupied(i, Receivers)'
      BY DEF Occupied, InElement
    <3>2. OpenWrite(i) = lap[i] + 1
      BY <1>0, <1>1 DEF OpenInv, OpenPhase
    <3>3. OpenWrite(i)' = lap'[i] + 1 /\ NextRead(i)' = lap'[i] + 2
      BY <1>0, <1>1, <1>2, <1>3, <3>2
    <3> QED
      BY <2>1, <3>1, <3>3 DEF OpenPhase
  <2>2. CASE j # i
    <3>1. /\ Occupied(j, Senders)' <=> Occupied(j, Senders)
          /\ Occupied(j, Receivers)' <=> Occupied(j, Receivers)
      BY <1>0, <1>1, <2>2, OccupiedKept DEF Threads, InElement
    <3> QED
      BY <1>2, <1>3, <2>2, <3>1 DEF OpenInv, OpenPhase
  <2> QED
    BY <2>1, <2>2
<1>5. ASSUME NEW u \in Receivers PROVE LoadedRead(u)'
  <2>1. CASE u # r
    <3>1. /\ pc'[u] = pc[u] /\ meta'[u] = meta[u] /\ meta[u].idx \in Slots
          /\ meta[u].lap \in Nat
      BY <1>0, <2>1 DEF OthersStay, Threads, Meta
    <3>2. CASE meta[u] = read_meta
      <4>1. meta[u].lap + 2 <= NextRead(meta[u].idx)'
        BY <1>0, <1>3, <3>1, <3>2, NextAtMeta
      <4> QED
        BY <3>1, <4>1 DEF LoadedRead
    <3>3. CASE meta[u].lap + 2 <= NextRead(meta[u].idx)
      <4>1. meta[u].lap + 2 <= NextRead(meta[u].idx)'
        BY <1>3, <3>1, <3>3
      <4> QED
        BY <3>1, <4>1 DEF LoadedRead
    <3> QED
      BY <3>1, <3>2, <3>3 DEF OpenInv, LoadedRead
  <2>2. CASE u = r
    BY <2>2 DEF LoadedRead
  <2> QED
    BY <2>1, <2>2
<1>6. ASSUME NEW u \in Senders PROVE LoadedWrite(u)'
  <2>1. pc'[u] = pc[u] /\ meta'[u] = meta[u] /\ meta[u].idx \in Slots
    BY <1>0, ThreadsAssumption DEF OthersStay, Threads, Meta
  <2> QED
    BY <1>2, <2>1 DEF OpenInv, LoadedWrite
<1> QED
  BY <1>4, <1>5, <1>6 DEF OpenInv

\* A thread leaves its element: a sender leaves it full, a receiver free.
LEMMA OpenLeave ==
  ASSUME RingInv, OpenInv, NEW t \in Threads,
         \/ t \in Senders /\ pc[t] = "s_publish" /\ pc'[t] = "s_ok"
         \/ t \in Receivers /\ pc[t] = "r_release" /\ pc'[t] = "r_ok",
         lap' = [lap EXCEPT ![meta[t].idx] = elem_lap[t] + 1],
         OthersStay(t), meta'[t] = meta[t], UNCHANGED <<write_meta, read_meta>>
  PROVE  OpenInv'
<1> DEFINE i == meta[t].idx
<1>0. /\ i \in Slots /\ TypeOK /\ lap \in [Slots -> Nat] /\ meta \in [Threads -> Meta]
      /\ InElement(t) /\ ~InElement(t)' /\ elem_lap[t] = lap[i]
  BY DEF RingInv, TypeOK, Meta, InElement, ThreadPhase, WriterPhase, ReaderPhase
<1>1. lap'[i] = lap[i] + 1 /\ \A j \in Slots \ {i} : lap'[j] = lap[j]
  BY <1>0
<1>2. /\ OpenMeta' = OpenMeta
      /\ \A j \in Slots : OpenWrite(j)' = OpenWrite(j) /\ NextRead(j)' = NextRead(j)
  BY OpenKept DEF NextRead
<1>3. \A u \in Threads \ {t} : InElement(u) => meta[u].idx # i
  BY <1>0 DEF RingInv, ElementExclusive
<1>4. OpenPhase(i)'
  <2>1. CASE t \in Senders
    <3>1. Occupied(i, Senders) /\ NextRead(i) = lap[i] + 1
      BY <1>0, <2>1, ThreadsAssumption DEF Occupied, RingInv, ThreadPhase, WriterPhase
    <3>2. OpenWrite(i) = lap[i] + 2
      BY <1>0, <3>1 DEF OpenInv, OpenPhase
    <3>3. OpenWrite(i)' = lap'[i] + 1 /\ NextRead(i)' = lap'[i]
      BY <1>0, <1>1, <1>2, <3>1, <3>2
    <3> QED
      BY <3>3 DEF OpenPhase
  <2>2. CASE t \in Receivers
    <3>1. NextRead(i) = lap[i] + 2
      BY <1>0, <2>2, ThreadsAssumption DEF RingInv, ThreadPhase, ReaderPhase
    <3>2. OpenWrite(i) = lap[i] + 1
      BY <1>0, <3>1 DEF OpenInv, OpenPhase
    <3>3. ~Occupied(i, Senders)'
      BY <1>0, <1>3 DEF Occupied, OthersStay, InElement, Threads
    <3>4. OpenWrite(i)' = lap'[i] /\ NextRead(i)' = lap'[i] + 1
      BY <1>0, <1>1, <1>2, <3>1, <3>2
    <3> QED
      BY <3>3, <3>4 DEF OpenPhase
  <2> QED
    BY <2>1, <2>2
<1>5. ASSUME NEW j \in Slots \ {i} PROVE OpenPhase(j)'
  <2>1. /\ Occupied(j, Senders)' <=> Occupied(j, Senders)
        /\ Occupied(j, Receivers)' <=> Occupied(j, Receivers)
    BY <1>0, OccupiedKept DEF Threads
  <2> QED
    BY <1>1, <1>2, <2>1 DEF OpenInv, OpenPhase
<1>6. ASSUME NEW u \in Senders PROVE LoadedWrite(u)'
  <2>1. CASE u # t
    <3>1. pc'[u] = pc[u] /\ meta'[u] = meta[u] /\ meta[u].idx \in Slots
      BY <1>0, <2>1 DEF OthersStay, Threads, Meta
    <3> QED
      BY <1>2, <3>1 DEF OpenInv, LoadedWrite
  <2>2. CASE u = t
    BY <2>2 DEF LoadedWrite
  <2> QED
    BY <2>1, <2>2
<1>7. ASSUME NEW u \in Receivers PROVE LoadedRead(u)'
  <2>1. CASE u # t
    <3>1. pc'[u] = pc[u] /\ meta'[u] = meta[u] /\ meta[u].idx \in Slots
      BY <1>0, <2>1 DEF OthersStay, Threads, Meta
    <3> QED
      BY <1>2, <3>1 DEF OpenInv, LoadedRead
  <2>2. CASE u = t
    BY <2>2 DEF LoadedRead
  <2> QED
    BY <2>1, <2>2
<1> QED
  BY <1>4, <1>5, <1>6, <1>7 DEF OpenInv

\* Every step of a ring with laps left keeps OpenInv.
LEMMA OpenStep == RingInv /\ OpenInv /\ LapsLeft /\ [Next]_vars => OpenInv'
<1> SUFFICES ASSUME RingInv, OpenInv, LapsLeft, [Next]_vars PROVE OpenInv'
  OBVIOUS
<1>0. /\ TypeOK /\ meta \in [Threads -> Meta] /\ elem_lap \in [Threads -> Nat]
      /\ pc \in [Threads -> {"idle"} \cup SenderPCs \cup ReceiverPCs \cup CloserPCs]
  BY DEF RingInv, TypeOK
<1>1. ASSUME NEW s \in Senders, SenderStep(s) PROVE OpenInv'
  <2>0. s \in Threads /\ s \notin Receivers
    BY ThreadsAssumption DEF Threads
  <2>1. OthersStay(s)
    BY <1>0, <1>1, <2>0 DEF SenderStep, SendCall, SendLoadMeta, SendLoadLap, SendCas,
       SendRecheck, SendWrite, SendPublish, SendReturn, SendRetry, PopFrame, Goto, locals,
       OthersStay
  <2>2. CASE SendLoadMeta(s)
    <3>1. /\ pc[s] = "s_load" /\ pc'[s] = "s_lap" /\ meta'[s] = write_meta
          /\ UNCHANGED <<write_meta, read_meta, lap>>
      BY <1>0, <2>0, <2>2 DEF SendLoadMeta, Goto, ring
    <3>2. LoadedWrite(s)'
      <4>1. write_meta.lap \in Nat /\ MPMC_MASK_32 \in Nat
        BY <1>0, MaskAssumption DEF TypeOK, Meta
      <4>2. meta'[s].lap < MPMC_MASK_32 => meta'[s] = OpenMeta'
        BY <3>1, <4>1 DEF OpenMeta, is_close
      <4> QED
        BY <3>1, <4>2 DEF LoadedWrite
    <3>3. ~InElement(s) /\ ~InElement(s)'
      BY <3>1 DEF InElement
    <3> QED
      BY <1>0, <2>0, <2>1, <3>1, <3>2, <3>3, OpenKept, OpenQuiet
  <2>3. CASE SendLoadLap(s) \/ SendCall(s) \/ SendRecheck(s) \/ SendRetry(s)
    <3>1. /\ pc[s] \in {"s_lap", "idle", "s_recheck", "s_full"}
          /\ pc'[s] \in {"s_closed", "s_cas", "s_recheck", "s_load", "s_full"}
          /\ pc'[s] \in {"s_cas", "s_recheck"} =>
               pc[s] = "s_lap" /\ meta[s].lap < MPMC_MASK_32
          /\ meta' = meta /\ UNCHANGED <<write_meta, read_meta, lap>>
      BY <1>0, <2>0, <2>3 DEF SendLoadLap, SendCall, SendRecheck, SendRetry, Goto, ring, locals
    <3>2. LoadedWrite(s)'
      BY <1>0, <2>0, <3>1, OpenKept DEF LoadedWrite, OpenInv, Meta
    <3>3. ~InElement(s) /\ ~InElement(s)'
      BY <3>1 DEF InElement
    <3> QED
      BY <1>0, <2>0, <2>1, <3>1, <3>2, <3>3, OpenKept, OpenQuiet
  <2>4. CASE SendCas(s) /\ pc'[s] = "s_write"
    <3>1. /\ pc[s] = "s_cas" /\ write_meta = meta[s] /\ write_meta' = Advance(meta[s])
          /\ meta'[s] = meta[s] /\ UNCHANGED <<read_meta, lap>>
      BY <1>0, <2>0, <2>4 DEF SendCas, Goto
    <3> QED
      BY <2>1, <2>4, <3>1, OpenSenderClaim
  <2>5. CASE SendCas(s) /\ pc'[s] # "s_write"
    <3>1. /\ pc[s] = "s_cas" /\ pc'[s] = "s_lap" /\ meta'[s] = write_meta
          /\ UNCHANGED <<write_meta, read_meta, lap>>
      BY <1>0, <2>0, <2>5 DEF SendCas, Goto
    <3>2. LoadedWrite(s)'
      <4>1. write_meta.lap \in Nat /\ MPMC_MASK_32 \in Nat
        BY <1>0, MaskAssumption DEF TypeOK, Meta
      <4>2. meta'[s].lap < MPMC_MASK_32 => meta'[s] = OpenMeta'
        BY <3>1, <4>1 DEF OpenMeta, is_close
      <4> QED
        BY <3>1, <4>2 DEF LoadedWrite
    <3>3. ~InElement(s) /\ ~InElement(s)'
      BY <3>1 DEF InElement
    <3> QED
      BY <1>0, <2>0, <2>1, <3>1, <3>2, <3>3, OpenKept, OpenQuiet
  <2>6. CASE SendWrite(s)
    <3>1. /\ pc[s] = "s_write" /\ pc'[s] = "s_publish" /\ meta' = meta
          /\ UNCHANGED <<write_meta, read_meta, lap>>
      BY <1>0, <2>0, <2>6 DEF SendWrite, Goto, locals
    <3>2. LoadedWrite(s)'
      BY <3>1 DEF LoadedWrite
    <3>3. InElement(s) /\ InElement(s)'
      BY <3>1 DEF InElement
    <3> QED
      BY <1>0, <2>0, <2>1, <3>1, <3>2, <3>3, OpenKept, OpenQuiet
  <2>7. CASE SendPublish(s)
    <3>1. /\ pc[s] = "s_publish" /\ pc'[s] = "s_ok" /\ meta'[s] = meta[s]
          /\ lap' = [lap EXCEPT ![meta[s].idx] = elem_lap[s] + 1]
          /\ UNCHANGED <<write_meta, read_meta>>
      BY <1>0, <2>0, <2>7 DEF SendPublish, Goto, locals
    <3> QED
      BY <2>0, <2>1, <3>1, OpenLeave
  <2>8. CASE SendReturn(s)
    <3>1. /\ pc[s] \in {"s_ok", "s_full", "s_closed"} /\ pc'[s] = "idle"
          /\ UNCHANGED <<write_meta, read_meta, lap>>
      BY <1>0, <2>0, <2>8 DEF SendReturn, Goto, ring
    <3>2. LoadedWrite(s)'
      BY <3>1 DEF LoadedWrite
    <3>3. ~InElement(s) /\ ~InElement(s)'
      BY <3>1 DEF InElement
    <3> QED
      BY <1>0, <2>0, <2>1, <3>1, <3>2, <3>3, OpenKept, OpenQuiet
  <2> QED
    BY <1>1, <2>2, <2>3, <2>4, <2>5, <2>6, <2>7, <2>8 DEF SenderStep
<1>2. ASSUME NEW r \in Receivers, ReceiverStep(r) PROVE OpenInv'
  <2>0. r \in Threads /\ r \notin Senders
    BY ThreadsAssumption DEF Threads
  <2>1. OthersStay(r)
    BY <1>0, <1>2, <2>0 DEF ReceiverStep, RecvCall, RecvLoadMeta, RecvLoadLap, RecvCas,
       RecvRecheck, RecvRead, RecvRelease, RecvReturn, RecvRetry, PopFrame, Goto, locals,
       OthersStay
  <2>2. CASE RecvLoadMeta(r) \/ (RecvCas(r) /\ pc'[r] # "r_read")
    <3>1. /\ pc[r] \in {"r_load", "r_cas"} /\ pc'[r] = "r_lap" /\ meta'[r] = read_meta
          /\ UNCHANGED <<write_meta, read_meta, lap>>
      BY <1>0, <2>0, <2>2 DEF RecvLoadMeta, RecvCas, Goto, ring
    <3>2. LoadedRead(r)'
      BY <3>1 DEF LoadedRead
    <3>3. ~InElement(r) /\ ~InElement(r)'
      BY <3>1 DEF InElement
    <3> QED
      BY <1>0, <2>0, <2>1, <3>1, <3>2, <3>3, OpenKept, OpenQuiet
  <2>3. CASE RecvCall(r) \/ RecvLoadLap(r) \/ RecvRecheck(r) \/ RecvRetry(r)
    <3>1. /\ pc[r] \in {"r_lap", "idle", "r_recheck", "r_empty"}
          /\ pc'[r] \in {"r_cas", "r_recheck", "r_load", "r_empty"}
          /\ pc'[r] \in {"r_cas", "r_recheck"} => pc[r] = "r_lap"
          /\ meta' = meta /\ UNCHANGED <<write_meta, read_meta, lap>>
      BY <1>0, <2>0, <2>3 DEF RecvCall, RecvLoadLap, RecvRecheck, RecvRetry, Goto, ring, locals
    <3>2. LoadedRead(r)'
      BY <1>0, <2>0, <3>1 DEF LoadedRead, OpenInv, NextRead
    <3>3. ~InElement(r) /\ ~InElement(r)'
      BY <3>1 DEF InElement
    <3> QED
      BY <1>0, <2>0, <2>1, <3>1, <3>2, <3>3, OpenKept, OpenQuiet
  <2>4. CASE RecvCas(r) /\ pc'[r] = "r_read"
    <3>1. /\ pc[r] = "r_cas" /\ read_meta = meta[r] /\ read_meta' = Advance(meta[r])
          /\ meta'[r] = meta[r] /\ UNCHANGED <<write_meta, lap>>
      BY <1>0, <2>0, <2>4 DEF RecvCas, Goto
    <3> QED
      BY <2>1, <2>4, <3>1, OpenReceiverClaim
  <2>5. CASE RecvRead(r)
    <3>1. /\ pc[r] = "r_read" /\ pc'[r] = "r_release" /\ meta' = meta
          /\ UNCHANGED <<write_meta, read_meta, lap>>
      BY <1>0, <2>0, <2>5 DEF RecvRead, Goto, ring
    <3>2. LoadedRead(r)'
      BY <3>1 DEF LoadedRead
    <3>3. InElement(r) /\ InElement(r)'
      BY <3>1 DEF InElement
    <3> QED
      BY <1>0, <2>0, <2>1, <3>1, <3>2, <3>3, OpenKept, OpenQuiet
  <2>6. CASE RecvRelease(r)
    <3>1. /\ pc[r] = "r_release" /\ pc'[r] = "r_ok" /\ meta'[r] = meta[r]
          /\ lap' = [lap EXCEPT ![meta[r].idx] = elem_lap[r] + 1]
          /\ UNCHANGED <<write_meta, read_meta>>
      BY <1>0, <2>0, <2>6 DEF RecvRelease, Goto, locals
    <3> QED
      BY <2>0, <2>1, <3>1, OpenLeave
  <2>7. CASE RecvReturn(r)
    <3>1. /\ pc[r] \in {"r_ok", "r_empty"} /\ pc'[r] = "idle"
          /\ UNCHANGED <<write_meta, read_meta, lap>>
      BY <1>0, <2>0, <2>7 DEF RecvReturn, Goto, ring
    <3>2. LoadedRead(r)'
      BY <3>1 DEF LoadedRead
    <3>3. ~InElement(r) /\ ~InElement(r)'
      BY <3>1 DEF InElement
    <3> QED
      BY <1>0, <2>0, <2>1, <3>1, <3>2, <3>3, OpenKept, OpenQuiet
  <2> QED
    BY <1>2, <2>2, <2>3, <2>4, <2>5, <2>6, <2>7 DEF ReceiverStep
<1>3. ASSUME NEW c \in Closers, CloserStep(c) PROVE OpenInv'
  <2>0. c \in Threads /\ c \notin Senders /\ c \notin Receivers
    BY ThreadsAssumption DEF Threads
  <2>1. OthersStay(c) /\ UNCHANGED <<read_meta, lap>>
    BY <1>0, <1>3, <2>0 DEF CloserStep, CloseCall, CloseCas, CloseReturn, PopFrame, Goto,
       ring, OthersStay
  <2>2. pc[c] \in {"idle", "c_cas", "c_ok"} /\ pc'[c] \in {"idle", "c_cas", "c_ok"}
    BY <1>0, <1>3, <2>0 DEF CloserStep, CloseCall, CloseCas, CloseReturn, Goto
  <2>3. ~InElement(c) /\ ~InElement(c)'
    BY <2>2 DEF InElement
  <2>4. write_meta' = write_meta \/ write_meta' = WithClosedBit(write_meta)
    BY <1>3 DEF CloserStep, CloseCall, CloseCas, CloseReturn, ring
  <2>5. OpenMeta' = OpenMeta /\ \A i \in Slots : OpenWrite(i)' = OpenWrite(i)
    BY <1>0, <2>4, OpenKept, OpenClosed
  <2> QED
    BY <1>0, <2>0, <2>1, <2>3, <2>5, OpenQuiet
<1>4. CASE UNCHANGED vars
  <2>1. UNCHANGED <<write_meta, read_meta, lap, pc, meta>>
    BY <1>4 DEF vars, ring, locals
  <2>2. \A i \in Slots : NextRead(i)' = NextRead(i) /\ OpenWrite(i)' = OpenWrite(i)
    BY <2>1, OpenKept DEF NextRead
  <2>3. \A i \in Slots : OpenPhase(i)'
    BY <2>1, <2>2 DEF OpenInv, OpenPhase, Occupied, InElement
  <2>4. \A s \in Senders : LoadedWrite(s)'
    BY <1>0, <2>1, <2>2, OpenKept DEF OpenInv, LoadedWrite, Threads, Meta
  <2>5. \A r \in Receivers : LoadedRead(r)'
    BY <1>0, <2>1, <2>2 DEF OpenInv, LoadedRead, Threads, Meta
  <2> QED
    BY <2>3, <2>4, <2>5 DEF OpenInv
<1> QED
  BY <1>1, <1>2, <1>3, <1>4 DEF Next

\* All elements of a new ring are free.
LEMMA OpenInit == Init => OpenInv
<1> SUFFICES ASSUME Init PROVE OpenInv
  OBVIOUS
<1>1. ~is_close /\ OpenMeta = write_meta
  BY MaskAssumption DEF Init, is_close, OpenMeta
<1>2. \A i \in Slots : OpenPhase(i)
  BY <1>1 DEF Init, OpenPhase, OpenWrite, NextRead, Occupied, InElement, Slots, Threads
<1> QED
  BY <1>2 DEF Init, OpenInv, LoadedWrite, LoadedRead, Threads

\* What the ring relies on to be a channel, open or closed, as long as it has laps left.
THEOREM OpenInvariance == Spec /\ []LapsLeft => [](ConserveInv /\ OpenInv)
<1>1. ConserveInv => RingInv
  BY DEF ConserveInv
<1> QED
  BY <1>1, ConserveInvariance, OpenInit, OpenStep, PTL DEF Spec

\* Two metas at most one lap apart: an index is taken at most once off Capacity.
LEMMA ModSmall ==
  ASSUME NEW a \in Nat, a < 2 * Capacity
  PROVE  a % Capacity = IF a < Capacity THEN a ELSE a - Capacity
<1>1. Capacity \in Nat /\ Capacity > 0
  BY CapacityAssumption
<1> QED
  BY <1>1

\* The number of claims between the two metas, from their indices.
Count == Position(OpenMeta, 0) - Position(read_meta, 1)

\* The metas are less than a lap apart, and their indices tell the count.
MetasClose ==
  /\ OpenMeta \in Meta /\ OpenMeta.idx = write_meta.idx
  /\ Count \in 0 .. Capacity
  /\ \/ /\ read_meta.lap = OpenMeta.lap + 1 /\ read_meta.idx <= OpenMeta.idx
        /\ Count = OpenMeta.idx - read_meta.idx
     \/ /\ read_meta.lap + 1 = OpenMeta.lap /\ OpenMeta.idx <= read_meta.idx
        /\ Count = Capacity + OpenMeta.idx - read_meta.idx

\* So say the phases of the first element, of the last and of those between.
LEMMA CountValue == ConserveInv /\ OpenInv => MetasClose
<1> SUFFICES ASSUME ConserveInv, OpenInv PROVE MetasClose
  OBVIOUS
<1>0. /\ Capacity \in Nat /\ Capacity > 0 /\ MPMC_MASK_32 \in Nat
      /\ write_meta \in Meta /\ read_meta \in Meta /\ lap \in [Slots -> Nat]
      /\ read_meta.lap \in Nat /\ read_meta.lap % 2 = 1
  BY CapacityAssumption, MaskAssumption DEF ConserveInv, RingInv, TypeOK, ReadsOdd, Meta
<1>1. OpenMeta \in Meta /\ OpenMeta.idx = write_meta.idx
  BY <1>0 DEF OpenMeta, is_close, Meta
<1> DEFINE wl == OpenMeta.lap
           wi == OpenMeta.idx
           rl == read_meta.lap
           ri == read_meta.idx
<1>2. /\ wl \in Nat /\ rl \in Nat /\ rl >= 1 /\ wi \in 0 .. Capacity - 1
      /\ ri \in 0 .. Capacity - 1
  BY <1>0, <1>1 DEF Meta, Slots
<1>3. \A i \in Slots : NextRead(i) = OpenWrite(i) + 1 \/ OpenWrite(i) = NextRead(i) + 1
  BY <1>0 DEF OpenInv, OpenPhase
<1>4. \A i \in 0 .. Capacity - 1 :
        LET R == IF i < ri THEN rl + 2 ELSE rl
            O == IF i < wi THEN wl + 2 ELSE wl
        IN  R = O + 1 \/ O = R + 1
  BY <1>3 DEF Slots, NextRead, OpenWrite
<1>5. Count = ((wl \div 2) * Capacity + wi) - (((rl - 1) \div 2) * Capacity + ri)
  <2>1. OpenMeta.lap - 0 = OpenMeta.lap
    BY <1>2
  <2>2. Position(OpenMeta, 0) = (wl \div 2) * Capacity + wi
    BY <2>1, Zenon DEF Position
  <2>3. Position(read_meta, 1) = ((rl - 1) \div 2) * Capacity + ri
    BY Zenon DEF Position
  <2> QED
    BY <2>2, <2>3 DEF Count
<1> HIDE DEF wl, wi, rl, ri
<1>6. CASE rl = wl + 1
  <2>1. ri <= wi
    BY <1>0, <1>2, <1>4, <1>6
  <2>2. rl - 1 = wl
    BY <1>2, <1>6
  <2>3. Count = wi - ri
    <3>1. (wl \div 2) * Capacity \in Int
      BY <1>0, <1>2
    <3> QED
      BY <1>2, <1>5, <2>2, <3>1
  <2> QED
    BY <1>0, <1>1, <1>2, <1>6, <2>1, <2>3 DEF wl, wi, rl, ri, MetasClose
<1>7. CASE wl = rl + 1
  <2>1. wi <= ri
    BY <1>0, <1>2, <1>4, <1>7
  <2>2. wl \div 2 = (rl - 1) \div 2 + 1 /\ (rl - 1) \div 2 \in Int
    BY <1>2, <1>7
  <2>3. Count = Capacity + wi - ri
    <3>1. ASSUME NEW q \in Int
          PROVE  (q + 1) * Capacity = q * Capacity + Capacity /\ q * Capacity \in Int
      BY <1>0
    <3> QED
      BY <1>0, <1>2, <1>5, <2>2, <3>1
  <2> QED
    BY <1>0, <1>1, <1>2, <1>7, <2>1, <2>3 DEF wl, wi, rl, ri, MetasClose
<1> QED
  <2>1. rl = wl + 1 \/ wl = rl + 1
    <3>1. Capacity - 1 \in 0 .. Capacity - 1 /\ ~(Capacity - 1 < ri) /\ ~(Capacity - 1 < wi)
      BY <1>0, <1>2
    <3> QED
      BY <1>4, <3>1
  <2> QED
    BY <2>1, <1>6, <1>7

\* The element that holds the k-th pending message.
At(k) == (read_meta.idx + k - 1) % Capacity

\* A pending element has been claimed for writing and not yet for reading.
LEMMA PendingElement ==
  ASSUME ConserveInv, OpenInv, NEW k \in 1 .. Count
  PROVE  /\ At(k) \in Slots
         /\ At(k) = IF read_meta.idx + k - 1 < Capacity THEN read_meta.idx + k - 1
                    ELSE read_meta.idx + k - 1 - Capacity
         /\ OpenWrite(At(k)) = NextRead(At(k)) + 1
<1>0. /\ Capacity \in Nat /\ Capacity > 0 /\ read_meta.idx \in 0 .. Capacity - 1
      /\ OpenMeta.idx \in 0 .. Capacity - 1 /\ OpenMeta.lap \in Nat /\ read_meta.lap \in Nat
  <2>1. OpenMeta \in Meta /\ read_meta \in Meta
    BY CountValue DEF ConserveInv, RingInv, TypeOK, MetasClose
  <2> QED
    BY <2>1, CapacityAssumption DEF Meta, Slots
<1>1. /\ Count \in 0 .. Capacity
      /\ \/ /\ read_meta.lap = OpenMeta.lap + 1 /\ read_meta.idx <= OpenMeta.idx
            /\ Count = OpenMeta.idx - read_meta.idx
         \/ /\ read_meta.lap + 1 = OpenMeta.lap /\ OpenMeta.idx <= read_meta.idx
            /\ Count = Capacity + OpenMeta.idx - read_meta.idx
  BY CountValue DEF MetasClose
<1>2. At(k) = IF read_meta.idx + k - 1 < Capacity THEN read_meta.idx + k - 1
              ELSE read_meta.idx + k - 1 - Capacity
  <2>1. read_meta.idx + k - 1 \in Nat /\ read_meta.idx + k - 1 < 2 * Capacity
    BY <1>0, <1>1
  <2>2. PICK a \in Nat : a = read_meta.idx + k - 1
    BY <2>1
  <2>3. a % Capacity = IF a < Capacity THEN a ELSE a - Capacity
    BY <2>1, <2>2, ModSmall
  <2>4. At(k) = a % Capacity
    BY <2>2 DEF At
  <2> QED
    BY <1>0, <1>1, <2>2, <2>3, <2>4
<1>3. At(k) \in Slots
  BY <1>0, <1>1, <1>2 DEF Slots
<1>4. OpenWrite(At(k)) = NextRead(At(k)) + 1
  BY <1>0, <1>1, <1>2 DEF OpenWrite, NextRead
<1> QED
  BY <1>2, <1>3, <1>4

\* What is read through SlotMsg is a message that somebody carries or that is there.
LEMMA SlotOfWriter ==
  ASSUME ElementExclusive, NEW s \in Senders, pc[s] = "s_write", NEW i, meta[s].idx = i
  PROVE  SlotMsg(i) = val[s]
<1>1. \A u \in Senders : pc[u] = "s_write" /\ meta[u].idx = i => u = s
  BY DEF ElementExclusive, InElement, Threads
<1>2. (CHOOSE u \in Senders : pc[u] = "s_write" /\ meta[u].idx = i) = s
  BY <1>1
<1> QED
  BY <1>2 DEF SlotMsg

\* An element nobody is writing to holds what is read from it.
LEMMA SlotOfNobody ==
  ASSUME NEW i, ~ \E s \in Senders : pc[s] = "s_write" /\ meta[s].idx = i
  PROVE  SlotMsg(i) = msg[i]
BY DEF SlotMsg

\* Every element has one message to show.
LEMMA SlotType ==
  ASSUME RingInv, NEW i \in Slots
  PROVE  SlotMsg(i) \in Messages \cup {NoMsg}
<1>1. CASE \E s \in Senders : pc[s] = "s_write" /\ meta[s].idx = i
  BY <1>1, SlotOfWriter DEF RingInv, TypeOK, Threads
<1>2. CASE ~ \E s \in Senders : pc[s] = "s_write" /\ meta[s].idx = i
  BY <1>2, SlotOfNobody DEF RingInv, TypeOK
<1> QED
  BY <1>1, <1>2

\* The pending messages form a sequence, one for each claim a sender is ahead.
PendingSeq ==
  /\ Pending \in Seq(Messages \cup {NoMsg})
  /\ Len(Pending) = Count
  /\ \A k \in 1 .. Count : Pending[k] = SlotMsg(At(k)) /\ At(k) \in Slots

\* Pending lists the elements from read_meta to write_meta.
LEMMA PendingType == ConserveInv /\ OpenInv => PendingSeq
<1> SUFFICES ASSUME ConserveInv, OpenInv PROVE PendingSeq
  OBVIOUS
<1>1. Count \in Nat
  BY CountValue, CapacityAssumption DEF MetasClose
<1>2. Pending = [k \in 1 .. Count |-> SlotMsg(At(k))]
  BY DEF Pending, Count, At
<1>3. \A k \in 1 .. Count : At(k) \in Slots /\ SlotMsg(At(k)) \in Messages \cup {NoMsg}
  BY PendingElement, SlotType DEF ConserveInv
<1> QED
  BY <1>1, <1>2, <1>3 DEF PendingSeq

\* What a step does not touch of an element, a later receive does not see.
LEMMA SlotKept ==
  ASSUME RingInv, ElementExclusive', NEW t \in Threads, OthersCarry(t), NEW i \in Slots,
         msg'[i] = msg[i],
         t \in Senders => (pc[t] # "s_write" \/ meta[t].idx # i)
                          /\ (pc'[t] # "s_write" \/ meta'[t].idx # i)
  PROVE  SlotMsg(i)' = SlotMsg(i)
<1>1. ASSUME NEW s \in Senders
      PROVE  pc'[s] = "s_write" /\ meta'[s].idx = i <=> pc[s] = "s_write" /\ meta[s].idx = i
  BY DEF OthersCarry, OthersStay, Threads
<1>2. CASE \E s \in Senders : pc[s] = "s_write" /\ meta[s].idx = i
  <2>1. PICK s \in Senders : pc[s] = "s_write" /\ meta[s].idx = i
    BY <1>2
  <2>2. val'[s] = val[s]
    BY <2>1 DEF OthersCarry, Threads
  <2>3. SlotMsg(i) = val[s]
    BY <2>1, SlotOfWriter DEF RingInv
  <2>4. SlotMsg(i)' = val'[s]
    <3>1. pc'[s] = "s_write" /\ meta'[s].idx = i
      BY <1>1, <2>1
    <3>2. \A u \in Senders : pc'[u] = "s_write" /\ meta'[u].idx = i => u = s
      BY <3>1 DEF ElementExclusive, InElement, Threads
    <3>3. (CHOOSE u \in Senders : pc'[u] = "s_write" /\ meta'[u].idx = i) = s
      BY <3>1, <3>2
    <3> QED
      BY <3>1, <3>3 DEF SlotMsg
  <2> QED
    BY <2>2, <2>3, <2>4
<1>3. CASE ~ \E s \in Senders : pc[s] = "s_write" /\ meta[s].idx = i
  <2>1. ~ \E s \in Senders : pc'[s] = "s_write" /\ meta'[s].idx = i
    BY <1>1, <1>3
  <2>2. SlotMsg(i)' = msg'[i]
    BY <2>1 DEF SlotMsg
  <2> QED
    BY <1>3, <2>2, SlotOfNobody
<1> QED
  BY <1>2, <1>3

\* The channel does not notice a step that keeps both metas and every slot.
LEMMA PendingKept ==
  ASSUME ConserveInv, OpenInv, OpenMeta' = OpenMeta, read_meta' = read_meta,
         \A i \in Slots : SlotMsg(i)' = SlotMsg(i)
  PROVE  Pending' = Pending
<1>1. Count' = Count
  BY DEF Count, Position
<1>2. \A k \in 1 .. Count : At(k)' = At(k) /\ At(k) \in Slots
  BY PendingElement DEF At
<1>3. Pending = [k \in 1 .. Count |-> SlotMsg(At(k))]
  BY DEF Pending, Count, At
<1>4. Pending' = [k \in 1 .. Count' |-> SlotMsg(At(k))']
  BY DEF Pending, Count, At
<1>5. ASSUME NEW k \in 1 .. Count PROVE SlotMsg(At(k))' = SlotMsg(At(k))
  BY <1>2
<1> QED
  BY <1>1, <1>3, <1>4, <1>5

\* The same after a step.
LEMMA AfterAStep == ConserveInv' /\ OpenInv' => MetasClose' /\ PendingSeq'
BY CountValue, PendingType, PTL

\* What the receivers got, by steps of another thread.
LEMMA DeliveredKept ==
  ASSUME TypeOK, NEW t \in Threads, OthersCarry(t),
         \A r \in Receivers \ {t} :
           /\ got'[r] = got[r]
           /\ pc[r] = "r_read" => msg'[meta[r].idx] = msg[meta[r].idx],
         t \in Receivers => Delivered'[t] = Delivered[t]
  PROVE  Delivered' = Delivered
<1>1. ASSUME NEW r \in Receivers PROVE Delivered'[r] = Delivered[r]
  <2>1. CASE r = t
    BY <2>1
  <2>2. CASE r # t
    <3>1. pc'[r] = pc[r] /\ meta'[r] = meta[r] /\ val'[r] = val[r]
      BY <2>2 DEF OthersCarry, OthersStay, Threads
    <3> QED
      BY <2>2, <3>1 DEF Delivered
  <2> QED
    BY <2>1, <2>2
<1>2. /\ Delivered = [r \in Receivers |-> Delivered[r]]
      /\ Delivered' = [r \in Receivers |-> Delivered'[r]]
  BY DEF Delivered
<1> QED
  BY <1>1, <1>2, Zenon

\* A step that moves no meta and writes no element is nothing to the channel.
LEMMA ChannelStutter ==
  ASSUME ConserveInv, OpenInv, ConserveInv', NEW t \in Threads, OthersCarry(t),
         UNCHANGED <<msg, read_meta, OpenMeta, is_close>>,
         t \in Senders => pc[t] # "s_write" /\ pc'[t] # "s_write",
         \A r \in Receivers \ {t} : got'[r] = got[r],
         t \in Receivers => Delivered'[t] = Delivered[t]
  PROVE  UNCHANGED Channel!vars
<1>1. RingInv /\ TypeOK /\ ElementExclusive'
  BY DEF ConserveInv, RingInv
<1>2. \A i \in Slots : SlotMsg(i)' = SlotMsg(i)
  BY <1>1, SlotKept
<1>3. Pending' = Pending
  BY <1>2, PendingKept
<1>4. Delivered' = Delivered
  BY <1>1, DeliveredKept
<1> QED
  BY <1>3, <1>4 DEF Channel!vars

\* A send takes effect when it claims: the message joins the end of the channel.
LEMMA ChannelSend ==
  ASSUME ConserveInv, OpenInv, ConserveInv', OpenInv', LapsLeft,
         NEW s \in Senders, SendCas(s), pc'[s] = "s_write", OthersCarry(s)
  PROVE  Channel!Send(val[s])
<1> DEFINE i == write_meta.idx
<1>0. /\ s \in Threads /\ RingInv /\ TypeOK /\ i \in Slots /\ lap \in [Slots -> Nat]
      /\ pc \in [Threads -> {"idle"} \cup SenderPCs \cup ReceiverPCs \cup CloserPCs]
      /\ meta \in [Threads -> Meta] /\ write_meta.lap \in Nat /\ read_meta \in Meta
      /\ ElementExclusive'
  BY DEF Threads, ConserveInv, RingInv, TypeOK, Meta
<1>1. /\ pc[s] = "s_cas" /\ write_meta = meta[s] /\ write_meta' = Advance(write_meta)
      /\ UNCHANGED <<read_meta, lap, msg, meta, val, got>>
  BY <1>0 DEF SendCas, Goto, ends
<1>2. /\ ~is_close /\ NextWrite(i) = lap[i] /\ NextRead(i) = lap[i] + 1
      /\ \A t \in Threads : InElement(t) => meta[t].idx # i
  BY <1>0, <1>1, SenderClaim
<1>3. /\ ~is_close' /\ OpenMeta = write_meta /\ OpenMeta' = write_meta'
      /\ OpenWrite(i) = NextWrite(i)
  BY <1>0, <1>1, <1>2, OpenClaimed
<1>4. /\ Capacity \in Nat /\ Capacity > 0 /\ read_meta.idx \in 0 .. Capacity - 1
      /\ write_meta.idx \in 0 .. Capacity - 1 /\ read_meta.lap \in Nat
  BY <1>0, CapacityAssumption DEF Slots, Meta
<1>5. /\ MetasClose /\ PendingSeq /\ MetasClose' /\ PendingSeq'
  BY CountValue, PendingType, AfterAStep
<1>6. Count' = Count + 1 /\ Count \in Nat /\ Count < Capacity
  <2>1. /\ write_meta'.idx = IF write_meta.idx + 1 < Capacity THEN write_meta.idx + 1 ELSE 0
        /\ write_meta'.lap = IF write_meta.idx + 1 < Capacity THEN write_meta.lap
                             ELSE write_meta.lap + 2
    BY <1>0, <1>1 DEF Advance, TypeOK, Meta
  <2> QED
    BY <1>0, <1>1, <1>3, <1>4, <1>5, <2>1 DEF MetasClose
<1>7. ASSUME NEW k \in 1 .. Count PROVE Pending'[k] = Pending[k]
  <2>1. At(k) \in Slots /\ OpenWrite(At(k)) = NextRead(At(k)) + 1
    BY PendingElement
  <2>2. At(k) # i
    BY <1>0, <1>2, <1>3, <2>1
  <2>3. SlotMsg(At(k))' = SlotMsg(At(k))
    <3>1. PICK j \in Slots : j = At(k)
      BY <2>1
    <3>2. SlotMsg(j)' = SlotMsg(j)
      BY <1>0, <1>1, <2>2, <3>1, SlotKept
    <3>3. At(k)' = At(k)
      BY <1>1 DEF At
    <3> QED
      BY <3>1, <3>2, <3>3
  <2>4. k \in 1 .. Count'
    BY <1>6
  <2> QED
    BY <1>5, <2>3, <2>4 DEF PendingSeq
<1>8. Pending'[Count + 1] = val[s]
  <2>1. PICK n \in Nat : n = Count + 1
    BY <1>6
  <2>2. Pending'[n] = SlotMsg(At(n))'
    <3>1. n \in 1 .. Count'
      BY <1>6, <2>1
    <3> QED
      BY <1>5, <3>1 DEF PendingSeq
  <2>3. At(n) = i
    <3>1. PICK a \in Nat : a = read_meta.idx + Count /\ a < 2 * Capacity
      BY <1>4, <1>6
    <3>2. a % Capacity = IF a < Capacity THEN a ELSE a - Capacity
      BY <3>1, ModSmall
    <3>3. At(n) = a % Capacity
      <4>1. read_meta.idx + n - 1 = a
        BY <1>4, <1>6, <2>1, <3>1
      <4> QED
        BY <4>1 DEF At
    <3>4. \/ write_meta.idx = a
          \/ write_meta.idx = a - Capacity
      BY <1>3, <1>4, <1>5, <1>6, <3>1 DEF MetasClose
    <3> QED
      BY <1>4, <3>1, <3>2, <3>3, <3>4
  <2>4. At(n)' = At(n)
    BY <1>1 DEF At
  <2>5. PICK j \in Slots : j = i
    BY <1>0
  <2>6. SlotMsg(j)' = val'[s]
    <3>1. pc'[s] = "s_write" /\ meta'[s].idx = j
      BY <1>1, <2>5
    <3>2. \A u \in Senders : pc'[u] = "s_write" /\ meta'[u].idx = j => u = s
      BY <1>0, <3>1 DEF ElementExclusive, InElement, Threads
    <3>3. (CHOOSE u \in Senders : pc'[u] = "s_write" /\ meta'[u].idx = j) = s
      BY <3>1, <3>2
    <3> QED
      BY <3>1, <3>3 DEF SlotMsg
  <2>7. SlotMsg(At(n))' = SlotMsg(j)'
    BY <2>3, <2>4, <2>5
  <2> QED
    BY <1>1, <2>1, <2>2, <2>6, <2>7
<1>9. Pending' = Append(Pending, val[s])
  <2> DEFINE S == Messages \cup {NoMsg}
             p == Append(Pending, val[s])
  <2>1. val[s] \in S /\ Pending \in Seq(S) /\ Pending' \in Seq(S) /\ Len(Pending) = Count
        /\ Len(Pending') = Count'
    BY <1>0, <1>5 DEF PendingSeq, TypeOK
  <2>2. /\ p \in Seq(S) /\ Len(p) = Count + 1
        /\ \A k \in 1 .. Count : p[k] = Pending[k]
        /\ p[Count + 1] = val[s]
    BY <2>1, AppendProperties
  <2>3. \A k \in 1 .. Len(p) : p[k] = Pending'[k]
    BY <1>6, <1>7, <1>8, <2>2
  <2> HIDE DEF p, S
  <2>4. p = Pending'
    BY <1>6, <2>1, <2>2, <2>3, SeqEqual
  <2> QED
    BY <2>4 DEF p
<1>10. Delivered' = Delivered
  BY <1>0, <1>1, DeliveredKept, ThreadsAssumption
<1>11. Len(Pending) < Capacity
  BY <1>5, <1>6 DEF PendingSeq
<1>12. is_close' = is_close
  BY <1>2, <1>3 DEF is_close
<1> QED
  BY <1>2, <1>9, <1>10, <1>11, <1>12 DEF Channel!Send

\* A receive takes effect when it claims: it gets the message at the head, and a
\* claim never succeeds on an empty channel.
LEMMA ChannelRecv ==
  ASSUME ConserveInv, OpenInv, ConserveInv', OpenInv',
         NEW r \in Receivers, RecvCas(r), pc'[r] = "r_read", OthersCarry(r)
  PROVE  Channel!Recv(r)
<1> DEFINE i == meta[r].idx
           S == Messages \cup {NoMsg}
<1>0. /\ r \in Threads /\ r \notin Senders /\ RingInv /\ TypeOK /\ i \in Slots
      /\ lap \in [Slots -> Nat] /\ got \in [Receivers -> Seq(S)] /\ msg \in [Slots -> S]
      /\ pc \in [Threads -> {"idle"} \cup SenderPCs \cup ReceiverPCs \cup CloserPCs]
      /\ meta \in [Threads -> Meta] /\ read_meta.lap \in Nat /\ ElementExclusive'
  BY ThreadsAssumption DEF Threads, ConserveInv, RingInv, TypeOK, Meta
<1>1. /\ pc[r] = "r_cas" /\ read_meta = meta[r] /\ read_meta' = Advance(read_meta)
      /\ UNCHANGED <<write_meta, lap, msg, meta, val, got>>
  BY <1>0 DEF RecvCas, Goto, ends
<1>2. /\ NextRead(i) = lap[i] /\ \A t \in Threads : InElement(t) => meta[t].idx # i
  BY <1>0, <1>1, ReceiverClaim
<1>3. is_close' = is_close /\ OpenMeta' = OpenMeta
  BY <1>1, OpenKept
<1>4. /\ MetasClose /\ PendingSeq /\ MetasClose' /\ PendingSeq'
  BY CountValue, PendingType, AfterAStep
<1>5. /\ Capacity \in Nat /\ Capacity > 0 /\ read_meta.idx \in 0 .. Capacity - 1
      /\ OpenMeta.idx \in 0 .. Capacity - 1 /\ OpenMeta.lap \in Nat
  BY <1>0, <1>1, <1>4, CapacityAssumption DEF Slots, Meta, MetasClose
<1>6. Count \in Nat /\ Count > 0 /\ Count' = Count - 1 /\ Count <= Capacity
  <2>1. /\ read_meta'.idx = IF read_meta.idx + 1 < Capacity THEN read_meta.idx + 1 ELSE 0
        /\ read_meta'.lap = IF read_meta.idx + 1 < Capacity THEN read_meta.lap
                            ELSE read_meta.lap + 2
    BY <1>0, <1>1 DEF Advance, TypeOK, Meta
  <2>2. /\ Count \in 0 .. Capacity
        /\ \/ /\ read_meta.lap = OpenMeta.lap + 1 /\ read_meta.idx <= OpenMeta.idx
              /\ Count = OpenMeta.idx - read_meta.idx
           \/ /\ read_meta.lap + 1 = OpenMeta.lap /\ OpenMeta.idx <= read_meta.idx
              /\ Count = Capacity + OpenMeta.idx - read_meta.idx
    BY <1>4 DEF MetasClose
  <2>3. /\ Count' \in 0 .. Capacity
        /\ \/ /\ read_meta'.lap = OpenMeta.lap + 1 /\ read_meta'.idx <= OpenMeta.idx
              /\ Count' = OpenMeta.idx - read_meta'.idx
           \/ /\ read_meta'.lap + 1 = OpenMeta.lap /\ OpenMeta.idx <= read_meta'.idx
              /\ Count' = Capacity + OpenMeta.idx - read_meta'.idx
    BY <1>3, <1>4 DEF MetasClose
  <2>4. Count > 0
    <3>1. OpenWrite(i) = NextRead(i) + 1
      BY <1>0, <1>2 DEF OpenInv, OpenPhase
    <3>2. NextRead(i) = read_meta.lap
      BY <1>0, <1>1, NextAtMeta
    <3>3. OpenWrite(i) = IF read_meta.idx < OpenMeta.idx THEN OpenMeta.lap + 2 ELSE OpenMeta.lap
      BY <1>1 DEF OpenWrite
    <3> QED
      BY <1>0, <1>5, <2>2, <3>1, <3>2, <3>3
  <2>5. read_meta.lap \in Nat /\ read_meta.idx \in Int /\ OpenMeta.idx \in Int
        /\ OpenMeta.lap \in Int /\ Capacity \in Int /\ OpenMeta.idx < Capacity
    BY <1>0, <1>5
  <2>6. CASE read_meta.idx + 1 < Capacity
    <3>1. read_meta'.idx = read_meta.idx + 1 /\ read_meta'.lap = read_meta.lap
      BY <2>1, <2>6
    <3>2. Count' = Count - 1
      BY <2>2, <2>3, <2>5, <3>1
    <3> QED
      BY <1>5, <2>2, <2>4, <3>2
  <2>7. CASE ~(read_meta.idx + 1 < Capacity)
    <3>1. read_meta'.idx = 0 /\ read_meta'.lap = read_meta.lap + 2
      BY <2>1, <2>7
    <3>2. read_meta.idx = Capacity - 1
      BY <1>5, <2>7
    <3>3. Count' = Count - 1
      BY <2>2, <2>3, <2>4, <2>5, <3>1, <3>2
    <3> QED
      BY <1>5, <2>2, <2>4, <3>3
  <2> QED
    BY <2>6, <2>7
<1>7. SlotMsg(i) = msg[i]
  <2>1. ~ \E s \in Senders : pc[s] = "s_write" /\ meta[s].idx = i
    BY <1>2 DEF InElement, Threads
  <2> QED
    BY <2>1, SlotOfNobody
<1>8. Pending # <<>> /\ Head(Pending) = msg[i]
  <2>1. 1 \in 1 .. Count /\ At(1) = i
    <3>1. 1 \in 1 .. Count
      BY <1>6
    <3> QED
      BY <1>1, <1>5, <3>1, PendingElement
  <2>2. Pending[1] = msg[i] /\ Len(Pending) > 0
    BY <1>4, <1>6, <1>7, <2>1 DEF PendingSeq
  <2> QED
    BY <1>4, <2>2 DEF PendingSeq
<1>9. ASSUME NEW k \in 1 .. (Count - 1) PROVE Pending'[k] = Pending[k + 1]
  <2>1. PICK n \in 1 .. Count : n = k + 1
    BY <1>6
  <2>2. At(k)' = At(n)
    <3>1. At(n) = IF read_meta.idx + n - 1 < Capacity THEN read_meta.idx + n - 1
                  ELSE read_meta.idx + n - 1 - Capacity
      BY PendingElement
    <3>2. read_meta'.idx = IF read_meta.idx + 1 < Capacity THEN read_meta.idx + 1 ELSE 0
      BY <1>0, <1>1 DEF Advance, TypeOK, Meta
    <3>3. PICK a \in Nat : a = read_meta'.idx + k - 1 /\ a < 2 * Capacity
      BY <1>5, <1>6, <3>2
    <3>4. a % Capacity = IF a < Capacity THEN a ELSE a - Capacity
      BY <3>3, ModSmall
    <3>5. At(k)' = a % Capacity
      BY <3>3 DEF At
    <3> QED
      BY <1>5, <1>6, <2>1, <3>1, <3>2, <3>3, <3>4, <3>5
  <2>3. PICK j \in Slots : j = At(n)
    BY PendingElement
  <2>4. SlotMsg(j)' = SlotMsg(j)
    BY <1>0, <1>1, SlotKept
  <2>5. Pending'[k] = SlotMsg(At(k))'
    <3>1. k \in 1 .. Count'
      BY <1>6
    <3> QED
      BY <1>4, <3>1 DEF PendingSeq
  <2>6. Pending[n] = SlotMsg(At(n))
    BY <1>4 DEF PendingSeq
  <2>7. SlotMsg(At(k))' = SlotMsg(j)'
    BY <2>2, <2>3
  <2> QED
    BY <2>1, <2>3, <2>4, <2>5, <2>6, <2>7
<1>10. Pending' = Tail(Pending)
  <2> DEFINE p == Tail(Pending)
  <2>1. /\ Pending \in Seq(S) /\ Pending' \in Seq(S) /\ Len(Pending) = Count
        /\ Len(Pending') = Count'
    BY <1>4 DEF PendingSeq
  <2>2. /\ p \in Seq(S) /\ Len(p) = Count - 1
        /\ \A k \in 1 .. Len(p) : p[k] = Pending[k + 1]
    BY <1>8, <2>1, HeadTailProperties
  <2>3. \A k \in 1 .. Len(p) : p[k] = Pending'[k]
    BY <1>9, <2>2
  <2> HIDE DEF p, S
  <2>4. p = Pending'
    BY <1>6, <2>1, <2>2, <2>3, SeqEqual
  <2> QED
    BY <2>4 DEF p
<1>11. Delivered' = [Delivered EXCEPT ![r] = Append(Delivered[r], msg[i])]
  <2>1. Delivered[r] = got[r]
    BY <1>1 DEF Delivered
  <2>2. Delivered'[r] = Append(got[r], msg[i])
    BY <1>0, <1>1 DEF Delivered
  <2>3. ASSUME NEW u \in Receivers \ {r} PROVE Delivered'[u] = Delivered[u]
    <3>1. pc'[u] = pc[u] /\ meta'[u] = meta[u] /\ val'[u] = val[u]
      BY DEF OthersCarry, OthersStay, Threads
    <3> QED
      BY <1>1, <3>1 DEF Delivered
  <2>4. /\ Delivered = [u \in Receivers |-> Delivered[u]]
        /\ Delivered' = [u \in Receivers |-> Delivered'[u]]
    BY DEF Delivered
  <2> HIDE DEF i
  <2> QED
    BY <2>1, <2>2, <2>3, <2>4
<1> QED
  BY <1>3, <1>8, <1>10, <1>11 DEF Channel!Recv

\* A write puts into the element what the channel already held.
LEMMA ChannelWrite ==
  ASSUME ConserveInv, OpenInv, ConserveInv', NEW s \in Senders, SendWrite(s), OthersCarry(s)
  PROVE  UNCHANGED Channel!vars
<1> DEFINE i == meta[s].idx
<1>0. /\ s \in Threads /\ s \notin Receivers /\ RingInv /\ TypeOK /\ i \in Slots
      /\ pc \in [Threads -> {"idle"} \cup SenderPCs \cup ReceiverPCs \cup CloserPCs]
      /\ msg \in [Slots -> Messages \cup {NoMsg}] /\ meta \in [Threads -> Meta]
      /\ ElementExclusive /\ ElementExclusive'
  BY ThreadsAssumption DEF Threads, ConserveInv, RingInv, TypeOK, Meta
<1>1. /\ pc[s] = "s_write" /\ pc'[s] = "s_publish" /\ msg' = [msg EXCEPT ![i] = val[s]]
      /\ UNCHANGED <<write_meta, read_meta, lap, meta, val, got>>
  BY <1>0 DEF SendWrite, Goto, locals, ends
<1>2. is_close' = is_close /\ OpenMeta' = OpenMeta
  BY <1>1, OpenKept
<1>3. \A u \in Threads \ {s} : InElement(u) => meta[u].idx # i
  BY <1>0, <1>1 DEF ElementExclusive, InElement
<1>4. ASSUME NEW j \in Slots PROVE SlotMsg(j)' = SlotMsg(j)
  <2>1. CASE j # i
    BY <1>0, <1>1, <2>1, SlotKept
  <2>2. CASE j = i
    <3>1. SlotMsg(j) = val[s]
      BY <1>0, <1>1, <2>2, SlotOfWriter
    <3>2. ~ \E u \in Senders : pc'[u] = "s_write" /\ meta'[u].idx = j
      BY <1>1, <1>3, <2>2 DEF OthersCarry, OthersStay, InElement, Threads
    <3>3. SlotMsg(j)' = msg'[j]
      BY <3>2 DEF SlotMsg
    <3> QED
      BY <1>0, <1>1, <2>2, <3>1, <3>3
  <2> QED
    BY <2>1, <2>2
<1>5. Pending' = Pending
  BY <1>1, <1>2, <1>4, PendingKept
<1>6. Delivered' = Delivered
  <2>1. ASSUME NEW r \in Receivers, pc[r] = "r_read" PROVE msg'[meta[r].idx] = msg[meta[r].idx]
    <3>1. r \in Threads \ {s} /\ InElement(r)
      BY <1>0, <2>1 DEF Threads, InElement
    <3> QED
      BY <1>0, <1>1, <1>3, <3>1 DEF Meta
  <2> QED
    BY <1>0, <1>1, <2>1, DeliveredKept
<1> QED
  BY <1>2, <1>5, <1>6 DEF Channel!vars

\* Every step of the ring is one of the channel, or none.
LEMMA ChannelStep ==
  ConserveInv /\ OpenInv /\ LapsLeft /\ ConserveInv' /\ OpenInv' /\ [Next]_vars
    => [Channel!Next]_(Channel!vars)
<1> SUFFICES ASSUME ConserveInv, OpenInv, LapsLeft, ConserveInv', OpenInv', [Next]_vars
             PROVE  [Channel!Next]_(Channel!vars)
  OBVIOUS
<1>0. /\ RingInv /\ TypeOK /\ meta \in [Threads -> Meta] /\ elem_lap \in [Threads -> Nat]
      /\ pc \in [Threads -> {"idle"} \cup SenderPCs \cup ReceiverPCs \cup CloserPCs]
      /\ val \in [Threads -> Messages \cup {NoMsg}]
      /\ got \in [Receivers -> Seq(Messages \cup {NoMsg})]
  BY DEF ConserveInv, RingInv, TypeOK
<1>1. ASSUME NEW s \in Senders, SenderStep(s) PROVE [Channel!Next]_(Channel!vars)
  <2>0. s \in Threads /\ s \notin Receivers
    BY ThreadsAssumption DEF Threads
  <2>1. OthersCarry(s)
    BY <1>0, <1>1, <2>0 DEF SenderStep, SendCall, SendLoadMeta, SendLoadLap, SendCas,
       SendRecheck, SendWrite, SendPublish, SendReturn, SendRetry, PopFrame, Goto, locals,
       OthersStay, OthersCarry
  <2>2. CASE SendCas(s) /\ pc'[s] = "s_write"
    <3>1. Channel!Send(val[s]) /\ val[s] \in Messages
      BY <1>0, <2>0, <2>1, <2>2, ChannelSend DEF SendCas, TypeOK, SendersCarry
    <3> QED
      BY <3>1 DEF Channel!Next
  <2>3. CASE SendWrite(s)
    BY <2>1, <2>3, ChannelWrite
  <2>4. CASE ~SendWrite(s) /\ ~(SendCas(s) /\ pc'[s] = "s_write")
    <3>1. /\ UNCHANGED <<msg, read_meta, write_meta, got>>
          /\ pc[s] # "s_write" /\ pc'[s] # "s_write"
      BY <1>0, <1>1, <2>0, <2>4 DEF SenderStep, SendCall, SendLoadMeta, SendLoadLap, SendCas,
         SendRecheck, SendPublish, SendReturn, SendRetry, Goto, ring, ends
    <3> QED
      BY <2>0, <2>1, <3>1, OpenKept, ChannelStutter
  <2> QED
    BY <2>2, <2>3, <2>4
<1>2. ASSUME NEW r \in Receivers, ReceiverStep(r) PROVE [Channel!Next]_(Channel!vars)
  <2>0. r \in Threads /\ r \notin Senders
    BY ThreadsAssumption DEF Threads
  <2>1. OthersCarry(r)
    BY <1>0, <1>2, <2>0 DEF ReceiverStep, RecvCall, RecvLoadMeta, RecvLoadLap, RecvCas,
       RecvRecheck, RecvRead, RecvRelease, RecvReturn, RecvRetry, PopFrame, Goto, locals,
       OthersStay, OthersCarry
  <2>2. CASE RecvCas(r) /\ pc'[r] = "r_read"
    BY <2>1, <2>2, ChannelRecv DEF Channel!Next
  <2>3. CASE ~(RecvCas(r) /\ pc'[r] = "r_read")
    <3>1. /\ UNCHANGED <<msg, read_meta, write_meta>>
          /\ \A u \in Receivers \ {r} : got'[u] = got[u]
      BY <1>0, <1>2, <2>0, <2>3 DEF ReceiverStep, RecvCall, RecvLoadMeta, RecvLoadLap,
         RecvCas, RecvRecheck, RecvRead, RecvRelease, RecvReturn, RecvRetry, Goto, ring, ends
    <3>2. Delivered'[r] = Delivered[r]
      <4>1. CASE RecvRead(r)
        BY <1>0, <2>0, <4>1 DEF RecvRead, Goto, ring, ends, Delivered
      <4>2. CASE RecvRelease(r)
        BY <1>0, <2>0, <4>2 DEF RecvRelease, Goto, locals, ends, Delivered
      <4>3. CASE RecvReturn(r)
        BY <1>0, <2>0, <4>3 DEF RecvReturn, Goto, ring, Delivered
      <4>4. CASE RecvCall(r) \/ RecvLoadMeta(r) \/ RecvLoadLap(r) \/ RecvCas(r)
                 \/ RecvRecheck(r) \/ RecvRetry(r)
        <5>1. /\ pc[r] \notin {"r_read", "r_release", "r_ok"}
              /\ pc'[r] \notin {"r_read", "r_release", "r_ok"} /\ got' = got
          BY <1>0, <2>0, <2>3, <4>4 DEF RecvCall, RecvLoadMeta, RecvLoadLap, RecvCas,
             RecvRecheck, RecvRetry, Goto, ends
        <5> QED
          BY <5>1 DEF Delivered
      <4> QED
        BY <1>2, <4>1, <4>2, <4>3, <4>4 DEF ReceiverStep
    <3> QED
      BY <2>0, <2>1, <3>1, <3>2, OpenKept, ChannelStutter
  <2> QED
    BY <2>2, <2>3
<1>3. ASSUME NEW c \in Closers, CloserStep(c) PROVE [Channel!Next]_(Channel!vars)
  <2>0. c \in Threads /\ c \notin Senders /\ c \notin Receivers
    BY ThreadsAssumption DEF Threads
  <2>1. OthersCarry(c) /\ UNCHANGED <<read_meta, msg, got>>
    BY <1>0, <1>3, <2>0 DEF CloserStep, CloseCall, CloseCas, CloseReturn, PopFrame, Goto,
       ring, ends, OthersStay, OthersCarry
  <2>2. CASE write_meta' = write_meta
    BY <2>0, <2>1, <2>2, OpenKept, ChannelStutter
  <2>3. CASE write_meta' = WithClosedBit(write_meta)
    <3>1. is_close' /\ OpenMeta' = OpenMeta
      BY <1>0, <2>3, OpenClosed
    <3>2. \A i \in Slots : SlotMsg(i)' = SlotMsg(i)
      BY <1>0, <2>0, <2>1, SlotKept DEF ConserveInv, RingInv
    <3>3. Pending' = Pending /\ Delivered' = Delivered
      BY <1>0, <2>0, <2>1, <3>1, <3>2, PendingKept, DeliveredKept
    <3>4. is_close' = TRUE
      BY <3>1 DEF is_close
    <3> QED
      BY <3>3, <3>4 DEF Channel!Next, Channel!Close
  <2> QED
    BY <1>3, <2>2, <2>3 DEF CloserStep, CloseCall, CloseCas, CloseReturn, ring
<1>4. CASE UNCHANGED vars
  <2>1. UNCHANGED <<write_meta, read_meta, msg, pc, meta, val, got>>
    BY <1>4 DEF vars, ring, locals, ends
  <2> QED
    BY <2>1 DEF Channel!vars, Pending, Delivered, is_close, OpenMeta, Position, SlotMsg
<1> QED
  BY <1>1, <1>2, <1>3, <1>4 DEF Next

\* A new ring is an empty channel.
LEMMA ChannelInit == Init => Channel!Init
<1> SUFFICES ASSUME Init PROVE Channel!Init
  OBVIOUS
<1>1. is_close = FALSE /\ OpenMeta = write_meta
  BY MaskAssumption DEF Init, is_close, OpenMeta
<1>2. Pending = <<>>
  <2>1. MetasClose /\ PendingSeq
    BY ConserveInit, OpenInit, CountValue, PendingType
  <2>2. Count = 0
    BY <1>1, <2>1, CapacityAssumption DEF Init, MetasClose
  <2> QED
    BY <2>1, <2>2 DEF PendingSeq
<1>3. Delivered = [r \in Receivers |-> <<>>]
  BY DEF Init, Delivered, Threads
<1> QED
  BY <1>1, <1>2, <1>3 DEF Channel!Init

\* The ring implements the first-in first-out channel, for any number of senders,
\* receivers and closers and any capacity, before and after a close, as long as it
\* has laps left.
THEOREM ChannelImplemented == Spec /\ []LapsLeft => ImplementsChannel
BY ChannelInit, ChannelStep, OpenInvariance, PTL DEF Spec, ImplementsChannel, Channel!Spec

-----------------------------------------------------------------------------
(* Honest failures                                                         *)

\* A sender that finds its element behind the meta it has loaded has loaded the
\* present meta; the element is then unread for a whole lap, or being read.
LEMMA FullIsHonest ==
  ASSUME ConserveInv, OpenInv, NEW s \in Senders, pc[s] = "s_recheck",
         meta[s].lap > lap[meta[s].idx]
  PROVE  Len(Pending) = Capacity \/ Occupied(OpenMeta.idx, Receivers)
<1> DEFINE i == meta[s].idx
<1>0. /\ s \in Threads /\ i \in Slots /\ lap[i] \in Nat /\ meta[s].lap \in Nat
      /\ read_meta \in Meta /\ read_meta.lap \in Nat /\ Capacity \in Nat
  BY CapacityAssumption DEF ConserveInv, RingInv, TypeOK, Meta, Threads
<1>1. OpenPhase(i) /\ MetasClose /\ PendingSeq
  BY <1>0, CountValue, PendingType DEF OpenInv
<1>2. OpenWrite(i) \in Nat /\ OpenMeta.lap \in Nat /\ OpenMeta.idx \in Slots
  BY <1>1 DEF MetasClose, Meta, OpenWrite
<1>3. meta[s] = OpenMeta
  <2>1. meta[s] = OpenMeta \/ meta[s].lap + 2 <= OpenWrite(i)
    BY DEF OpenInv, LoadedWrite
  <2>2. lap[i] + 2 >= OpenWrite(i)
    BY <1>0, <1>1, <1>2 DEF OpenPhase
  <2> QED
    BY <1>0, <1>2, <2>1, <2>2
<1>4. OpenWrite(i) = OpenMeta.lap /\ i = OpenMeta.idx /\ OpenMeta.lap > lap[i]
  BY <1>2, <1>3 DEF OpenWrite, Slots
<1>5. CASE Occupied(i, Receivers)
  BY <1>4, <1>5
<1>6. CASE ~Occupied(i, Receivers)
  <2>1. NextRead(i) + 1 = OpenMeta.lap
    BY <1>0, <1>1, <1>2, <1>4, <1>6 DEF OpenPhase
  <2>2. NextRead(i) = IF OpenMeta.idx < read_meta.idx THEN read_meta.lap + 2 ELSE read_meta.lap
    BY <1>4 DEF NextRead
  <2>3. read_meta.idx \in Int /\ OpenMeta.idx \in Int
    BY <1>0, <1>2 DEF Meta, Slots
  <2>4. \/ read_meta.lap = OpenMeta.lap + 1 /\ read_meta.idx <= OpenMeta.idx
        \/ /\ read_meta.lap + 1 = OpenMeta.lap /\ OpenMeta.idx <= read_meta.idx
           /\ Count = Capacity + OpenMeta.idx - read_meta.idx
    BY <1>1 DEF MetasClose
  <2>5. Count = Capacity
    BY <1>0, <1>2, <2>1, <2>2, <2>3, <2>4
  <2> QED
    BY <1>1, <2>5 DEF PendingSeq
<1> QED
  BY <1>5, <1>6

\* A receiver that finds its element behind has loaded the present meta; the
\* channel is then empty, or its head is being written.
LEMMA EmptyIsHonest ==
  ASSUME ConserveInv, OpenInv, NEW r \in Receivers, pc[r] = "r_recheck",
         meta[r].lap > lap[meta[r].idx]
  PROVE  Pending = <<>> \/ Occupied(read_meta.idx, Senders)
<1> DEFINE i == meta[r].idx
<1>0. /\ r \in Threads /\ i \in Slots /\ lap[i] \in Nat /\ meta[r].lap \in Nat
      /\ read_meta \in Meta /\ read_meta.lap \in Nat /\ read_meta.idx \in Slots
  BY DEF ConserveInv, RingInv, TypeOK, Meta, Threads
<1>1. OpenPhase(i) /\ MetasClose /\ PendingSeq
  BY <1>0, CountValue, PendingType DEF OpenInv
<1>2. NextRead(i) \in Nat /\ OpenMeta.lap \in Nat /\ OpenMeta.idx \in Slots
  BY <1>0, <1>1 DEF MetasClose, Meta, NextRead
<1>3. meta[r] = read_meta
  <2>1. meta[r] = read_meta \/ meta[r].lap + 2 <= NextRead(i)
    BY DEF OpenInv, LoadedRead
  <2>2. lap[i] + 2 >= NextRead(i)
    BY <1>0, <1>1, <1>2 DEF OpenPhase
  <2> QED
    BY <1>0, <1>2, <2>1, <2>2
<1>4. NextRead(i) = read_meta.lap /\ i = read_meta.idx /\ read_meta.lap > lap[i]
  BY <1>0, <1>3 DEF NextRead, Slots
<1>5. CASE Occupied(i, Senders)
  BY <1>4, <1>5
<1>6. CASE ~Occupied(i, Senders)
  <2>1. OpenWrite(i) + 1 = read_meta.lap
    BY <1>0, <1>1, <1>2, <1>4, <1>6 DEF OpenPhase
  <2>2. OpenWrite(i) = IF read_meta.idx < OpenMeta.idx THEN OpenMeta.lap + 2 ELSE OpenMeta.lap
    BY <1>4 DEF OpenWrite
  <2>3. read_meta.idx \in Int /\ OpenMeta.idx \in Int
    BY <1>0, <1>2 DEF Slots
  <2>4. \/ /\ read_meta.lap = OpenMeta.lap + 1 /\ read_meta.idx <= OpenMeta.idx
           /\ Count = OpenMeta.idx - read_meta.idx
        \/ read_meta.lap + 1 = OpenMeta.lap /\ OpenMeta.idx <= read_meta.idx
    BY <1>1 DEF MetasClose
  <2>5. Count = 0
    BY <1>0, <1>2, <2>1, <2>2, <2>3, <2>4
  <2> QED
    BY <1>1, <2>5 DEF PendingSeq
<1> QED
  BY <1>5, <1>6

\* Only the second look at the lap of the element makes a call fail.
LEMMA FailureStep ==
  ASSUME TypeOK, [Next]_vars
  PROVE  /\ \A s \in Senders : pc[s] # "s_full" /\ pc'[s] = "s_full" =>
              pc[s] = "s_recheck" /\ meta[s].lap > lap[meta[s].idx]
         /\ \A r \in Receivers : pc[r] # "r_empty" /\ pc'[r] = "r_empty" =>
              pc[r] = "r_recheck" /\ meta[r].lap > lap[meta[r].idx]
<1>0. pc \in [Threads -> {"idle"} \cup SenderPCs \cup ReceiverPCs \cup CloserPCs]
  BY DEF TypeOK
<1>1. ASSUME NEW s \in Senders, SenderStep(s), NEW t \in Threads,
             pc'[t] # pc[t], pc'[t] \in {"s_full", "r_empty"}
      PROVE  t = s /\ pc[t] = "s_recheck" /\ meta[t].lap > lap[meta[t].idx]
                /\ pc'[t] = "s_full"
  BY <1>0, <1>1 DEF SenderStep, SendCall, SendLoadMeta, SendLoadLap, SendCas, SendRecheck,
     SendWrite, SendPublish, SendReturn, SendRetry, Goto, Threads
<1>2. ASSUME NEW r \in Receivers, ReceiverStep(r), NEW t \in Threads,
             pc'[t] # pc[t], pc'[t] \in {"s_full", "r_empty"}
      PROVE  t = r /\ pc[t] = "r_recheck" /\ meta[t].lap > lap[meta[t].idx]
                /\ pc'[t] = "r_empty"
  BY <1>0, <1>2 DEF ReceiverStep, RecvCall, RecvLoadMeta, RecvLoadLap, RecvCas, RecvRecheck,
     RecvRead, RecvRelease, RecvReturn, RecvRetry, Goto, Threads
<1>3. ASSUME NEW c \in Closers, CloserStep(c), NEW t \in Threads, pc'[t] # pc[t]
      PROVE  pc'[t] \notin {"s_full", "r_empty"}
  BY <1>0, <1>3 DEF CloserStep, CloseCall, CloseCas, CloseReturn, Goto, Threads
<1>4. ASSUME NEW t \in Threads, pc'[t] # pc[t], pc'[t] \in {"s_full", "r_empty"}
      PROVE  /\ pc'[t] = "s_full" => pc[t] = "s_recheck"
             /\ pc'[t] = "r_empty" => pc[t] = "r_recheck"
             /\ meta[t].lap > lap[meta[t].idx]
  BY <1>1, <1>2, <1>3, <1>4 DEF Next, vars
<1> QED
  BY <1>4 DEF Threads

\* What a failing call says of the channel at the moment it fails.
LEMMA HonestStep ==
  ASSUME ConserveInv, OpenInv, [Next]_vars
  PROVE  /\ \A s \in Senders : pc[s] # "s_full" /\ pc'[s] = "s_full" =>
              Len(Pending) = Capacity \/ Occupied(OpenMeta.idx, Receivers)
         /\ \A r \in Receivers : pc[r] # "r_empty" /\ pc'[r] = "r_empty" =>
              Pending = <<>> \/ Occupied(read_meta.idx, Senders)
BY FailureStep, FullIsHonest, EmptyIsHonest DEF ConserveInv, RingInv

\* For any number of threads and elements: Full only of a full channel or one whose
\* next element is still being read, Empty only of an empty one or one whose head
\* is still being written.
THEOREM FailuresHonest == Spec /\ []LapsLeft => FailuresAreHonest
<1>1. ConserveInv /\ OpenInv /\ [Next]_vars =>
        [/\ \A s \in Senders :
              pc[s] # "s_full" /\ pc'[s] = "s_full" =>
                \/ Len(Pending) = Capacity
                \/ \E r \in Receivers : InElement(r) /\ meta[r].idx = OpenMeta.idx
         /\ \A r \in Receivers :
              pc[r] # "r_empty" /\ pc'[r] = "r_empty" =>
                \/ Pending = <<>>
                \/ \E s \in Senders : InElement(s) /\ meta[s].idx = read_meta.idx]_vars
  BY HonestStep DEF Occupied
<1> QED
  BY <1>1, OpenInvariance, PTL DEF Spec, FailuresAreHonest

-----------------------------------------------------------------------------
(* The blocking queue                                                      *)

\* The wakers once more, with what is proved about them.
P == INSTANCE Wakers_proofs

-----------------------------------------------------------------------------
(* Over the ring                                                           *)

\* A step of a blocking or a try call, or of a close, is a step of the ring or
\* leaves the ring alone.
LEMMA RingStepOrStutter == [BoundedNext]_bvars => [Next]_vars
<1> SUFFICES ASSUME [BoundedNext]_bvars PROVE [Next]_vars
  OBVIOUS
<1>1. ASSUME NEW s \in Senders, SenderStep(s) PROVE Next
  BY <1>1 DEF Next
<1>2. ASSUME NEW r \in Receivers, ReceiverStep(r) PROVE Next
  BY <1>2 DEF Next
<1>3. ASSUME NEW c \in Closers, CloserStep(c) PROVE Next
  BY <1>3 DEF Next
<1>4. ASSUME NEW t \in Users, Call(t) PROVE Next
  BY <1>1, <1>2, <1>4 DEF Call, SenderStep, ReceiverStep
<1>5. ASSUME NEW t \in Users, Select(t) PROVE Next
  BY <1>1, <1>2, <1>5 DEF Select, SenderStep, ReceiverStep
<1>6. ASSUME NEW t \in Users, Return(t) PROVE Next
  BY <1>1, <1>2, <1>6 DEF Return, Users, SenderStep, ReceiverStep
<1>7. ASSUME NEW t \in Users, WaitStep(t) PROVE [Next]_vars
  <2>1. CASE UNCHANGED vars
    BY <2>1
  <2>2. CASE GoOn(t)
    BY <1>1, <1>2, <2>2 DEF GoOn, Users, SenderStep, ReceiverStep
  <2> QED
    BY <1>7, <2>1, <2>2 DEF WaitStep
<1>8. ASSUME NEW t \in Users, UserStep(t) \/ SpuriousWake(t) PROVE [Next]_vars
  BY <1>5, <1>6, <1>7, <1>8 DEF UserStep, ReturnError, ReturnOk, SpuriousWake
<1>9. ASSUME NEW c \in Closers, SetClosed(c) \/ CloseWakers(c) PROVE [Next]_vars
  BY <1>3, <1>9 DEF SetClosed, CloseWakers, CloserStep
<1>10. CASE UNCHANGED bvars
  BY <1>10 DEF bvars
<1> QED
  BY <1>4, <1>8, <1>9, <1>10 DEF BoundedNext

\* The blocking queue implements the lock-free one: waiting, waking and closing
\* the wakers do nothing to the ring that its own operations do not.
LEMMA RingImplemented == BoundedSpec => Spec
<1>1. BoundedInit => Init
  BY DEF BoundedInit
<1> QED
  BY <1>1, RingStepOrStutter, PTL DEF BoundedSpec, Spec

\* So at most one thread is inside an element, whatever blocks, wakes and closes.
THEOREM BlockingExclusion == BoundedSpec => []ElementExclusive
BY RingImplemented, Exclusion, PTL

\* Nor is a message lost or doubled by a call that blocks, wakes or gives up.
THEOREM BlockingConserves == BoundedSpec => []MessagesConserved
BY RingImplemented, Conservation, PTL

\* The blocking queue, too.
THEOREM BlockingChannel == BoundedSpec /\ []LapsLeft => ImplementsChannel
BY ChannelImplemented, RingImplemented, PTL

-----------------------------------------------------------------------------
(* Over the wakers                                                         *)

\* W and P stand for the same wakers: they begin alike,
LEMMA SameInit == W!WakerInit <=> P!WakerInit
BY DEF W!WakerInit, P!WakerInit, W!Users, P!Users, W!Sides, P!Sides

\* take the same steps,
LEMMA SameNext == W!WakerNext <=> P!WakerNext
BY DEF W!WakerNext, P!WakerNext, W!wakers, P!wakers, W!Users, P!Users, W!Side,
       P!Side, W!Other, P!Other, W!GuardFree, P!GuardFree, W!Move, P!Move, W!Begin,
       P!Begin, W!End, P!End, W!Fail, P!Fail, W!Disconnected, P!Disconnected,
       W!RetryIsClose, P!RetryIsClose, W!RetryLap, P!RetryLap, W!Register,
       P!Register, W!Enter, P!Enter, W!RegisterPush, P!RegisterPush, W!SleepIsClose,
       P!SleepIsClose, W!SleepLap, P!SleepLap, W!Park, P!Park, W!FutexWait,
       P!FutexWait, W!SpuriousWake, P!SpuriousWake, W!Lower, P!Lower, W!IsEmpty,
       P!IsEmpty, W!Leave, P!Leave, W!Unregister, P!Unregister, W!Wait, P!Wait,
       W!Wake, P!Wake, W!LookForWaiters, P!LookForWaiters, W!Notify, P!Notify,
       W!WakeOne, P!WakeOne, W!BeginClose, P!BeginClose, W!WakeAll, P!WakeAll,
       W!CloseWaker, P!CloseWaker, W!CloseWakers, P!CloseWakers, W!Range, P!Range,
       W!RemoveAt, P!RemoveAt

\* keep the same registry,
LEMMA SameRegistry == W!RegistrySound <=> P!RegistrySound
BY DEF W!RegistrySound, P!RegistrySound, W!WakersTypeOK, P!WakersTypeOK, W!Users,
       P!Users, W!Sides, P!Sides, W!Side, P!Side, W!WaitPCs, P!WaitPCs, W!UserPCs,
       P!UserPCs, W!CloserPCs, P!CloserPCs, W!Modes, P!Modes, W!Range, P!Range,
       W!IsInjective, P!IsInjective

\* and the same flag.
LEMMA SameFlag == W!EmptyFlagExact <=> P!EmptyFlagExact
BY DEF W!EmptyFlagExact, P!EmptyFlagExact, W!Sides, P!Sides

\* A step of the queue is a step of the wakers or leaves the wakers alone.
LEMMA WakersStepOrStutter == [BoundedNext]_bvars => [P!WakerNext]_(P!wvars)
<1> SUFFICES ASSUME [BoundedNext]_bvars PROVE W!WakerNext \/ UNCHANGED wvars
  BY SameNext DEF wvars, P!wvars, P!wakers
<1>1. ASSUME NEW t \in Users,
             \/ W!Begin(t) \/ W!Fail(t) \/ W!Disconnected(t) \/ W!SpuriousWake(t)
             \/ W!WakeOne(t) \/ W!Wait(t, is_close, Ready(t))
      PROVE  W!WakerNext
  <2>1. t \in W!Users /\ is_close \in BOOLEAN /\ Ready(t) \in BOOLEAN
    BY DEF Users, W!Users, is_close, Ready
  <2> QED
    BY <1>1, <2>1, Zenon DEF W!WakerNext
<1>2. ASSUME NEW c \in Closers, W!BeginClose(c) \/ W!CloseWakers(c) PROVE W!WakerNext
  BY <1>2 DEF W!WakerNext
<1>3. ASSUME NEW t \in Users, Call(t) \/ UserStep(t) \/ SpuriousWake(t)
      PROVE  W!WakerNext \/ UNCHANGED wvars
  BY <1>1, <1>3
     DEF Call, UserStep, Select, ReturnError, ReturnOk, WaitStep, SpuriousWake
<1>4. ASSUME NEW c \in Closers, SetClosed(c) \/ CloseWakers(c)
      PROVE  W!WakerNext \/ UNCHANGED wvars
  BY <1>2, <1>4 DEF SetClosed, CloseWakers
<1> QED
  BY <1>3, <1>4 DEF BoundedNext, bvars

\* Whatever the ring answers, the wakers behave as they do over any queue.
LEMMA WakersImplemented == BoundedSpec => P!WakerSpec
<1>1. BoundedInit => P!WakerInit
  BY SameInit DEF BoundedInit
<1> QED
  BY <1>1, WakersStepOrStutter, PTL DEF BoundedSpec, P!WakerSpec

\* No notify and no close of a bounded MPMC queue follows a pointer to a Waiter
\* whose call has returned, or misses one that waits.
THEOREM RegistryBlocking == BoundedSpec => []RegistrySound
BY WakersImplemented, P!RegistryKept, SameRegistry, PTL DEF RegistrySound

\* The flag it loads without the lock tells it whether anybody waits.
THEOREM FlagBlocking == BoundedSpec => []EmptyFlagExact
BY WakersImplemented, P!FlagKept, SameFlag, PTL DEF EmptyFlagExact

-----------------------------------------------------------------------------
(* Skipping the wake-up                                                    *)

\* Only its own step takes a thread that has handed its message over to idle.
LEMMA OwnReturn ==
  ASSUME TypeOK, BoundedNext, NEW t \in Users, HandedOver(t), pc'[t] = "idle"
  PROVE  ReturnOk(t) /\ at'[t] = "run"
<1> USE DEF HandedOver, Goto
<1>1. /\ t \in Threads
      /\ pc \in [Threads -> {"idle"} \cup SenderPCs \cup ReceiverPCs \cup CloserPCs]
  BY DEF TypeOK, Users, Threads
<1>2. pc[t] \in {"s_ok", "r_ok"}
  OBVIOUS
<1>3. ASSUME NEW u \in Users, Call(u) PROVE FALSE
  BY <1>1, <1>2, <1>3 DEF Call, SendCall, RecvCall
<1>4. ASSUME NEW u \in Users, Select(u) PROVE FALSE
  BY <1>1, <1>2, <1>4
     DEF Select, SendLoadMeta, SendLoadLap, SendCas, SendRecheck, SendWrite, SendPublish,
         RecvLoadMeta, RecvLoadLap, RecvCas, RecvRecheck, RecvRead, RecvRelease
<1>5. ASSUME NEW u \in Users, ReturnError(u) PROVE FALSE
  BY <1>1, <1>2, <1>5 DEF ReturnError, Waiting, Return, SendReturn, RecvReturn
<1>6. ASSUME NEW u \in Users, WaitStep(u) PROVE FALSE
  BY <1>1, <1>2, <1>6 DEF WaitStep, Waiting, GoOn, SendRetry, RecvRetry, vars
<1>7. ASSUME NEW u \in Users, SpuriousWake(u) PROVE FALSE
  BY <1>1, <1>2, <1>7 DEF SpuriousWake, vars
<1>8. ASSUME NEW c \in Closers, SetClosed(c) \/ CloseWakers(c) PROVE FALSE
  BY <1>1, <1>2, <1>8 DEF SetClosed, CloseCall, CloseCas, CloseWakers, CloseReturn, vars
<1>9. PICK u \in Users : ReturnOk(u)
  BY <1>3, <1>4, <1>5, <1>6, <1>7, <1>8 DEF BoundedNext, UserStep
<1>10. at'[u] = "run" /\ Return(u)
  BY <1>1, <1>2, <1>9 DEF ReturnOk, vars
<1> QED
  BY <1>1, <1>2, <1>9, <1>10 DEF Return, SendReturn, RecvReturn

\* A thread that returns without a wake-up has found the flag of the opposite
\* waker up; then its deque is empty, and nobody is registered.
LEMMA SkipStep ==
  ASSUME TypeOK, RegistrySound, EmptyFlagExact, BoundedNext,
         NEW t \in Users, at[t] = "run", HandedOver(t), pc'[t] = "idle",
         NEW u \in Users, W!Side(u) = W!Other(t)
  PROVE  at[u] \notin W!WaitPCs
<1>1. ReturnOk(t) /\ at'[t] = "run"
  BY OwnReturn
<1>2. at \in [W!Users \cup Closers -> W!UserPCs \cup W!CloserPCs]
  BY DEF RegistrySound, W!RegistrySound, W!WakersTypeOK
<1>3. empty[W!Other(t)]
  BY <1>1, <1>2
     DEF ReturnOk, W!WakeOne, W!LookForWaiters, W!Notify, W!Move, Users, W!Users
<1>4. W!Other(t) \in W!Sides
  BY DEF W!Other, W!Sides
<1>5. waiters[W!Other(t)] = <<>>
  BY <1>3, <1>4 DEF EmptyFlagExact, W!EmptyFlagExact
<1>6. {v \in W!Users : at[v] \in W!WaitPCs /\ W!Side(v) = W!Other(t)} = {}
  BY <1>4, <1>5 DEF RegistrySound, W!RegistrySound, W!Range
<1> QED
  BY <1>6 DEF Users, W!Users

\* A thread that skips the wake-up leaves nobody behind who is past the last look
\* at the element it handed over, nor anybody else on that side.
THEOREM SkippingIsSafe == BoundedSpec => SkipIsSafe
<1>1. TypeOK /\ RegistrySound /\ EmptyFlagExact /\ [BoundedNext]_bvars =>
        [\A t \in Users :
           at[t] = "run" /\ HandedOver(t) /\ pc'[t] = "idle" =>
             ~ \E u \in Users :
                  /\ W!Side(u) = W!Other(t)
                  /\ meta[u].idx = meta[t].idx
                  /\ at[u] \in {"park", "wait", "asleep"}]_bvars
  BY SkipStep DEF W!WaitPCs
<1> QED
  BY <1>1, RegistryBlocking, FlagBlocking, RingImplemented, Typing, PTL
     DEF BoundedSpec, SkipIsSafe

-----------------------------------------------------------------------------
(* The last try                                                            *)

\* A call that has seen Closed has seen the bit, which stays.
SeenIsClosed == \A t \in Users : mode[t] = "last" => is_close

\* Only a look at the bit makes a try the last one.
LEMMA LastTryStep ==
  ASSUME RingInv, RegistrySound, SeenIsClosed, [BoundedNext]_bvars
  PROVE  SeenIsClosed'
<1>1. is_close => is_close'
  BY RingStepOrStutter, ClosedStays DEF is_close
<1>2. mode \in [W!Users -> W!Modes] /\ W!Users = Users
  BY DEF RegistrySound, W!RegistrySound, W!WakersTypeOK, W!Users, Users
<1>3. ASSUME NEW t \in Users,
             \/ W!Begin(t) \/ W!Fail(t) \/ W!Disconnected(t) \/ W!SpuriousWake(t)
             \/ W!WakeOne(t) \/ W!Wait(t, is_close, Ready(t)),
             NEW u \in Users, mode'[u] = "last"
      PROVE  mode[u] = "last" \/ is_close
  <2>1. CASE W!Begin(t) \/ W!Fail(t) \/ W!Disconnected(t) \/ W!SpuriousWake(t) \/ W!WakeOne(t)
    BY <1>2, <1>3, <2>1 DEF W!Begin, W!Fail, W!Disconnected, W!End, W!SpuriousWake, W!WakeOne,
       W!LookForWaiters, W!Notify
  <2>2. CASE W!Wait(t, is_close, Ready(t))
    BY <1>2, <1>3, <2>2 DEF W!Wait, W!RetryIsClose, W!RetryLap, W!Register, W!RegisterPush,
       W!SleepIsClose, W!SleepLap, W!Park, W!FutexWait, W!Unregister
  <2> QED
    BY <1>3, <2>1, <2>2
<1>4. ASSUME NEW t \in Users, Call(t) \/ UserStep(t) \/ SpuriousWake(t),
             NEW u \in Users, mode'[u] = "last"
      PROVE  mode[u] = "last" \/ is_close
  BY <1>3, <1>4
     DEF Call, UserStep, Select, ReturnError, ReturnOk, WaitStep, SpuriousWake, wvars
<1>5. ASSUME NEW c \in Closers, SetClosed(c) \/ CloseWakers(c) PROVE mode' = mode
  BY <1>5 DEF SetClosed, CloseWakers, W!BeginClose, W!CloseWakers, W!CloseWaker, wvars
<1>6. ASSUME UNCHANGED bvars PROVE mode' = mode
  BY <1>6 DEF bvars, wvars
<1>7. ASSUME NEW u \in Users, mode'[u] = "last" PROVE mode[u] = "last" \/ is_close
  <2>1. CASE \E t \in Users : Call(t) \/ UserStep(t) \/ SpuriousWake(t)
    BY <1>4, <1>7, <2>1
  <2>2. CASE \E c \in Closers : SetClosed(c) \/ CloseWakers(c)
    BY <1>5, <1>7, <2>2
  <2>3. CASE UNCHANGED bvars
    BY <1>6, <1>7, <2>3
  <2> QED
    BY <2>1, <2>2, <2>3 DEF BoundedNext
<1> QED
  BY <1>1, <1>7 DEF SeenIsClosed

\* For any number of threads: a blocking receive that gives up has seen the bit, and
\* what it says of the channel holds when it gives up.
THEOREM LastTryHonest == BoundedSpec /\ []LapsLeft => LastTryIsHonest
<1>1. BoundedInit => SeenIsClosed
  BY DEF BoundedInit, W!WakerInit, SeenIsClosed, W!Users, Users
<1>2. ConserveInv => RingInv
  BY DEF ConserveInv
<1>3. ConserveInv /\ RegistrySound /\ SeenIsClosed /\ [BoundedNext]_bvars => SeenIsClosed'
  BY <1>2, LastTryStep
<1>4. ConserveInv /\ OpenInv /\ SeenIsClosed /\ [BoundedNext]_bvars
      => [\A r \in Receivers :
            mode[r] = "last" /\ pc[r] # "r_empty" /\ pc'[r] = "r_empty" =>
              /\ is_close
              /\ Pending = <<>> \/ \E s \in Senders :
                                     InElement(s) /\ meta[s].idx = read_meta.idx]_bvars
  BY RingStepOrStutter, HonestStep DEF Occupied, SeenIsClosed, Users
<1> QED
  BY <1>1, <1>3, <1>4, RegistryBlocking, RingImplemented, OpenInvariance, PTL
     DEF BoundedSpec, LastTryIsHonest

-----------------------------------------------------------------------------
(* Nobody is left asleep by a close                                        *)

\* Only a close sets the bit, while there are laps left, and it goes on to the
\* wakers in the step that does.
LEMMA BitByClose ==
  ASSUME RingInv, RegistrySound, LapsLeft, [BoundedNext]_bvars, ~is_close, is_close'
  PROVE  \E c \in Closers : at'[c] = "close_write"
<1>1. PICK c \in Closers : pc[c] = "c_cas" /\ pc'[c] = "c_ok"
  BY RingStepOrStutter, BitStep
<1>2. /\ pc \in [Threads -> {"idle"} \cup SenderPCs \cup ReceiverPCs \cup CloserPCs]
      /\ at \in [W!Users \cup Closers -> W!UserPCs \cup W!CloserPCs]
      /\ c \in Threads /\ \A t \in Users : t # c /\ t \in Threads
  BY ThreadsAssumption
     DEF RingInv, TypeOK, RegistrySound, W!RegistrySound, W!WakersTypeOK, Threads, Users
<1>3. ASSUME NEW t \in Users, Call(t) \/ UserStep(t) \/ SpuriousWake(t) PROVE pc'[c] = pc[c]
  <2>1. ASSUME NEW label, Goto(t, label) PROVE pc'[c] = pc[c]
    BY <1>2, <2>1 DEF Goto
  <2>2. CASE Call(t) \/ Select(t)
    BY <2>1, <2>2
       DEF Call, SendCall, RecvCall, Select, SendLoadMeta, SendLoadLap, SendCas, SendRecheck,
           SendWrite, SendPublish, RecvLoadMeta, RecvLoadLap, RecvCas, RecvRecheck,
           RecvRead, RecvRelease
  <2>3. CASE ReturnError(t) \/ ReturnOk(t) \/ WaitStep(t) \/ SpuriousWake(t)
    BY <2>1, <2>3
       DEF ReturnError, ReturnOk, WaitStep, SpuriousWake, Return, GoOn, SendReturn,
           RecvReturn, SendRetry, RecvRetry, vars
  <2> QED
    BY <1>3, <2>2, <2>3 DEF UserStep
<1>4. PICK d \in Closers : SetClosed(d) \/ CloseWakers(d)
  BY <1>1, <1>3 DEF BoundedNext, bvars, vars
<1>5. d = c
  BY <1>1, <1>2, <1>4
     DEF SetClosed, CloseWakers, CloseCall, CloseCas, CloseReturn, Goto, Threads, vars
<1>6. W!BeginClose(c)
  BY <1>1, <1>2, <1>4, <1>5 DEF SetClosed, CloseWakers, CloseReturn, Goto, vars
<1> QED
  BY <1>2, <1>6 DEF W!BeginClose, W!Move

\* A thread that is not past the look at the bit does not get past it any more.
LEMMA LookSeesBit ==
  ASSUME RegistrySound, is_close, [BoundedNext]_bvars, NEW t \in Users,
         at[t] \notin {"checklap", "park", "wait", "asleep"}
  PROVE  at'[t] \notin {"checklap", "park", "wait", "asleep"}
<1>1. /\ at \in [W!Users \cup Closers -> W!UserPCs \cup W!CloserPCs]
      /\ W!Users = Users
  BY DEF RegistrySound, W!RegistrySound, W!WakersTypeOK, W!Users, Users
<1>2. ASSUME NEW u \in Users, W!Wait(u, is_close, Ready(u))
      PROVE  at'[t] \notin {"checklap", "park", "wait", "asleep"}
  BY <1>1, <1>2
     DEF W!Wait, W!RetryIsClose, W!RetryLap, W!Register, W!RegisterPush, W!SleepIsClose,
         W!SleepLap, W!Park, W!FutexWait, W!Unregister, W!Move
<1>3. ASSUME NEW u \in Users, W!WakeOne(u)
      PROVE  at'[t] \notin {"checklap", "park", "wait", "asleep"}
  BY <1>1, <1>3 DEF W!WakeOne, W!LookForWaiters, W!Notify, W!Wake, W!End, W!Move
<1>4. ASSUME NEW u \in Users,
             \/ W!Begin(u) \/ W!Fail(u) \/ W!Disconnected(u) \/ W!SpuriousWake(u)
      PROVE  at'[t] \notin {"checklap", "park", "wait", "asleep"}
  BY <1>1, <1>4 DEF W!Begin, W!Fail, W!Disconnected, W!SpuriousWake, W!End, W!Move
<1>5. ASSUME NEW c \in Closers, W!BeginClose(c) \/ W!CloseWakers(c)
      PROVE  at'[t] \notin {"checklap", "park", "wait", "asleep"}
  BY <1>1, <1>5
     DEF W!BeginClose, W!CloseWakers, W!CloseWaker, W!WakeAll, W!Wake, W!Move
<1>6. ASSUME NEW u \in Users, Call(u) \/ UserStep(u) \/ SpuriousWake(u)
      PROVE  at'[t] \notin {"checklap", "park", "wait", "asleep"}
  BY <1>2, <1>3, <1>4, <1>6
     DEF Call, UserStep, Select, ReturnError, ReturnOk, WaitStep, SpuriousWake, wvars
<1>7. ASSUME NEW c \in Closers, SetClosed(c) \/ CloseWakers(c)
      PROVE  at'[t] \notin {"checklap", "park", "wait", "asleep"}
  BY <1>5, <1>7 DEF SetClosed, CloseWakers, wvars
<1> QED
  BY <1>6, <1>7 DEF BoundedNext, bvars, wvars

\* A close leaves a waker only when nobody is registered there.
LEMMA CloserLeaves ==
  ASSUME RegistrySound, [BoundedNext]_bvars, NEW c \in Closers,
         at[c] \in {"close_write", "close_read"}, at'[c] # at[c]
  PROVE  /\ at' = [at EXCEPT ![c] = IF at[c] = "close_write" THEN "close_read" ELSE "run"]
         /\ waiters[IF at[c] = "close_write" THEN "write" ELSE "read"] = <<>>
<1>1. /\ at \in [W!Users \cup Closers -> W!UserPCs \cup W!CloserPCs]
      /\ W!Users = Users
  BY DEF RegistrySound, W!RegistrySound, W!WakersTypeOK, W!Users, Users
<1>2. \A u \in Users : u # c
  BY ThreadsAssumption DEF Users
<1>3. ASSUME NEW u \in Users, W!Wait(u, is_close, Ready(u)) PROVE FALSE
  BY <1>1, <1>2, <1>3
     DEF W!Wait, W!RetryIsClose, W!RetryLap, W!Register, W!RegisterPush, W!SleepIsClose,
         W!SleepLap, W!Park, W!FutexWait, W!Unregister, W!Move
<1>4. ASSUME NEW u \in Users, W!WakeOne(u) PROVE FALSE
  BY <1>1, <1>2, <1>4 DEF W!WakeOne, W!LookForWaiters, W!Notify, W!Wake, W!End, W!Move
<1>5. ASSUME NEW u \in Users,
             \/ W!Begin(u) \/ W!Fail(u) \/ W!Disconnected(u) \/ W!SpuriousWake(u)
      PROVE  FALSE
  BY <1>1, <1>2, <1>5 DEF W!Begin, W!Fail, W!Disconnected, W!SpuriousWake, W!End, W!Move
<1>6. ASSUME NEW u \in Users, Call(u) \/ UserStep(u) \/ SpuriousWake(u) PROVE FALSE
  BY <1>3, <1>4, <1>5, <1>6
     DEF Call, UserStep, Select, ReturnError, ReturnOk, WaitStep, SpuriousWake, wvars
<1>7. ASSUME NEW d \in Closers, SetClosed(d) PROVE FALSE
  BY <1>1, <1>7 DEF SetClosed, W!BeginClose, W!Move, wvars
<1>8. PICK d \in Closers : W!CloseWakers(d)
  BY <1>6, <1>7 DEF BoundedNext, CloseWakers, bvars, wvars
<1> QED
  BY <1>1, <1>8 DEF W!CloseWakers, W!CloseWaker, W!WakeAll, W!Wake, W!IsEmpty

\* A step after which the close has been through a waker finds nobody who sleeps
\* there, or is about to.
LEMMA SleepStep ==
  ASSUME RingInv, RegistrySound, LapsLeft, NobodySleepsAfterClose, [BoundedNext]_bvars
  PROVE  NobodySleepsAfterClose'
<1> SUFFICES ASSUME NEW t \in Users, ClosedFor(W!Side(t))'
             PROVE  at'[t] \notin {"checklap", "park", "wait", "asleep"}
  BY DEF NobodySleepsAfterClose, W!Side
<1>1. /\ is_close' /\ \A c \in Closers : at'[c] # "close_write"
      /\ W!Side(t) = "read" => \A c \in Closers : at'[c] # "close_read"
  BY DEF ClosedFor, W!Side
<1>2. is_close
  BY <1>1, BitByClose
<1>3. CASE ClosedFor(W!Side(t))
  BY <1>2, <1>3, LookSeesBit DEF NobodySleepsAfterClose
<1>4. CASE ~ClosedFor(W!Side(t))
  <2>1. PICK c \in Closers : \/ at[c] = "close_write"
                             \/ W!Side(t) = "read" /\ at[c] = "close_read"
    BY <1>2, <1>4 DEF ClosedFor
  <2>2. /\ at[c] = IF W!Side(t) = "read" THEN "close_read" ELSE "close_write"
        /\ at' = [at EXCEPT ![c] = IF at[c] = "close_write" THEN "close_read" ELSE "run"]
        /\ waiters[W!Side(t)] = <<>>
    BY <1>1, <2>1, CloserLeaves
       DEF RegistrySound, W!RegistrySound, W!WakersTypeOK, W!Side
  <2>3. t # c
    BY ThreadsAssumption DEF Users
  <2>4. at[t] \notin W!WaitPCs
    BY <2>2 DEF RegistrySound, W!RegistrySound, W!Range, W!Users, Users, W!Side, W!Sides
  <2> QED
    BY <2>2, <2>3, <2>4
       DEF RegistrySound, W!RegistrySound, W!WakersTypeOK, W!Users, Users, W!WaitPCs
<1> QED
  BY <1>3, <1>4

\* For any number of threads: whatever wake-ups miss a waiter, a close that is
\* through with a waker leaves nobody asleep there, and nobody falls asleep later.
THEOREM NobodySleepsOn == BoundedSpec /\ []LapsLeft => []NobodySleepsAfterClose
<1>1. BoundedInit => NobodySleepsAfterClose
  BY DEF BoundedInit, W!WakerInit, NobodySleepsAfterClose, Users, W!Users
<1>2. RingInv /\ RegistrySound /\ LapsLeft /\ NobodySleepsAfterClose /\ [BoundedNext]_bvars
      => NobodySleepsAfterClose'
  BY SleepStep
<1> QED
  BY <1>1, <1>2, RegistryBlocking, RingImplemented, RingInvariance, PTL DEF BoundedSpec

=============================================================================
