------------------------------ MODULE MpmcRing ------------------------------
(***************************************************************************)
(* The lock-free core of omango's bounded MPMC queue: MpmcBounded of       *)
(* src/queue/bounded.rs without its wakers, over the elements of           *)
(* src/queue/elem.rs.                                                      *)
(*                                                                         *)
(* Every element carries a lap counter.  A sender may claim the element    *)
(* that write_meta names when the element's lap equals the lap of          *)
(* write_meta; it then writes the message and stores lap + 1.  A receiver  *)
(* does the same with read_meta, whose laps are odd.  A claim is a         *)
(* compare-exchange of write_meta or read_meta, and both metas are packed  *)
(* 64-bit words (index in the low half, lap in the high half) that are     *)
(* records here.  The top bit of the lap of write_meta is the closed flag. *)
(*                                                                         *)
(* One action is one access to shared memory, in program order, so every   *)
(* interleaving of the threads at that grain is explored.                  *)
(***************************************************************************)
EXTENDS Naturals, Sequences, FiniteSets

CONSTANTS
  Senders,       \* threads that hold a BSender and send
  Receivers,     \* threads that hold a BReceiver and receive
  Closers,       \* threads that hold either handle and only close
  Messages,      \* the payloads; each is sent successfully at most once
  NoMsg,         \* what an element holds before its first write
  Capacity,      \* raw_cap of MpmcBounded::new: a zero cap becomes one
  MPMC_MASK_32   \* the closed bit of a lap, 2^31 in the code

Threads == Senders \cup Receivers \cup Closers
Slots == 0 .. Capacity - 1

ASSUME CapacityAssumption == Capacity \in Nat \ {0}

ASSUME MaskAssumption == MPMC_MASK_32 \in Nat \ {0}

ASSUME ThreadsAssumption ==
  /\ Senders \cap Receivers = {}
  /\ Senders \cap Closers = {}
  /\ Receivers \cap Closers = {}

ASSUME NoMsgAssumption == NoMsg \notin Messages

VARIABLES
  write_meta,  \* [idx, lap]: the next element to claim for writing
  read_meta,   \* [idx, lap]: the next element to claim for reading
  lap,         \* ElemArr.lap of every element
  msg,         \* ElemArr.msg of every element
  pc,          \* where each thread is in the operation it executes
  meta,        \* local: the meta a thread last loaded, or the one it claimed
  elem_lap,    \* local: the lap a thread last loaded from its element
  val,         \* local: the message a thread carries
  todo,        \* the messages that no sender has handed over yet
  got          \* for each receiver, what its calls returned, in order

ring == <<write_meta, read_meta, lap, msg>>
locals == <<meta, elem_lap, val>>
ends == <<todo, got>>
vars == <<ring, pc, locals, ends>>

Meta == [idx : Slots, lap : Nat]
NoMeta == [idx |-> 0, lap |-> 0]

SenderPCs == {"s_load", "s_lap", "s_cas", "s_recheck", "s_write",
              "s_publish", "s_ok", "s_full", "s_closed"}
ReceiverPCs == {"r_load", "r_lap", "r_cas", "r_recheck", "r_read",
                "r_release", "r_ok", "r_empty"}
CloserPCs == {"c_cas", "c_ok"}

-----------------------------------------------------------------------------
(* Helpers                                                                 *)

Goto(t, label) == pc' = [pc EXCEPT ![t] = label]

\* The stack frame of a call is gone once the call has returned.
PopFrame(t) ==
  /\ meta' = [meta EXCEPT ![t] = NoMeta]
  /\ elem_lap' = [elem_lap EXCEPT ![t] = 0]
  /\ val' = [val EXCEPT ![t] = NoMsg]

\* The successor of a meta: the next index, or index 0 two laps later.
Advance(m) ==
  IF m.idx + 1 < Capacity
  THEN [m EXCEPT !.idx = m.idx + 1]
  ELSE [idx |-> 0, lap |-> m.lap + 2]

\* A meta with its closed bit set (meta | MPMC_MASK_64).
WithClosedBit(m) ==
  IF m.lap >= MPMC_MASK_32 THEN m
  ELSE [m EXCEPT !.lap = m.lap + MPMC_MASK_32]

is_close == write_meta.lap >= MPMC_MASK_32

-----------------------------------------------------------------------------
Init ==
  /\ write_meta = [idx |-> 0, lap |-> 0]
  /\ read_meta = [idx |-> 0, lap |-> 1]
  /\ lap = [i \in Slots |-> 0]
  /\ msg = [i \in Slots |-> NoMsg]
  /\ pc = [t \in Threads |-> "idle"]
  /\ meta = [t \in Threads |-> NoMeta]
  /\ elem_lap = [t \in Threads |-> 0]
  /\ val = [t \in Threads |-> NoMsg]
  /\ todo = Messages
  /\ got = [r \in Receivers |-> <<>>]

-----------------------------------------------------------------------------
(* Sending: select_bucket_4_send, then ElemArr::write                      *)

SendCall(s) ==
  /\ pc[s] = "idle"
  /\ \E m \in todo :
       /\ val' = [val EXCEPT ![s] = m]
       /\ todo' = todo \ {m}
  /\ Goto(s, "s_load")
  /\ UNCHANGED <<ring, meta, elem_lap, got>>

SendLoadMeta(s) ==
  /\ pc[s] = "s_load"
  /\ meta' = [meta EXCEPT ![s] = write_meta]
  /\ Goto(s, "s_lap")
  /\ UNCHANGED <<ring, elem_lap, val, ends>>

\* Closed is decided on the loaded meta alone; otherwise the lap of the
\* element is loaded and compared with the lap of the meta.
SendLoadLap(s) ==
  /\ pc[s] = "s_lap"
  /\ \/ /\ meta[s].lap >= MPMC_MASK_32
        /\ Goto(s, "s_closed")
        /\ UNCHANGED elem_lap
     \/ /\ meta[s].lap < MPMC_MASK_32
        /\ elem_lap' = [elem_lap EXCEPT ![s] = lap[meta[s].idx]]
        /\ \/ meta[s].lap = lap[meta[s].idx] /\ Goto(s, "s_cas")
           \/ meta[s].lap > lap[meta[s].idx] /\ Goto(s, "s_recheck")
           \/ meta[s].lap < lap[meta[s].idx] /\ Goto(s, "s_load")
  /\ UNCHANGED <<ring, meta, val, ends>>

\* Mutant: a plain store claims the element.
SendStore(s) ==
  /\ pc[s] = "s_cas"
  /\ write_meta' = Advance(meta[s])
  /\ Goto(s, "s_write")
  /\ UNCHANGED <<read_meta, lap, msg, locals, ends>>

\* Mutant: the exchange compares the index and forgets the lap.
SendCasIndex(s) ==
  /\ pc[s] = "s_cas"
  /\ write_meta.idx = meta[s].idx
  /\ write_meta' = Advance(meta[s])
  /\ Goto(s, "s_write")
  /\ UNCHANGED <<read_meta, lap, msg, locals, ends>>

\* compare_exchange_weak: it succeeds only on the loaded value, and it may
\* fail even then; a failure reloads the meta.
SendCas(s) ==
  /\ pc[s] = "s_cas"
  /\ \/ /\ write_meta = meta[s]
        /\ write_meta' = Advance(meta[s])
        /\ Goto(s, "s_write")
        /\ UNCHANGED meta
     \/ /\ meta' = [meta EXCEPT ![s] = write_meta]
        /\ Goto(s, "s_lap")
        /\ UNCHANGED write_meta
  /\ UNCHANGED <<read_meta, lap, msg, elem_lap, val, ends>>

\* Mutant: the first load of the lap is believed.
SendNoRecheck(s) ==
  /\ pc[s] = "s_recheck"
  /\ Goto(s, "s_full")
  /\ UNCHANGED <<ring, locals, ends>>

\* The second load that tells a full queue from a meta that went stale.
SendRecheck(s) ==
  /\ pc[s] = "s_recheck"
  /\ \/ meta[s].lap > lap[meta[s].idx] /\ Goto(s, "s_full")
     \/ meta[s].lap <= lap[meta[s].idx] /\ Goto(s, "s_load")
  /\ UNCHANGED <<ring, locals, ends>>

SendWrite(s) ==
  /\ pc[s] = "s_write"
  /\ msg' = [msg EXCEPT ![meta[s].idx] = val[s]]
  /\ Goto(s, "s_publish")
  /\ UNCHANGED <<write_meta, read_meta, lap, locals, ends>>

SendPublish(s) ==
  /\ pc[s] = "s_publish"
  /\ lap' = [lap EXCEPT ![meta[s].idx] = elem_lap[s] + 1]
  /\ Goto(s, "s_ok")
  /\ UNCHANGED <<write_meta, read_meta, msg, locals, ends>>

\* Mutant: Disconnected drops the message.
SendReturnDropping(s) ==
  /\ pc[s] \in {"s_ok", "s_full", "s_closed"}
  /\ todo' = IF pc[s] = "s_full" THEN todo \cup {val[s]} ELSE todo
  /\ PopFrame(s)
  /\ Goto(s, "idle")
  /\ UNCHANGED <<ring, got>>

\* Full and Disconnected give the message back to the caller.
SendReturn(s) ==
  /\ pc[s] \in {"s_ok", "s_full", "s_closed"}
  /\ todo' = IF pc[s] = "s_ok" THEN todo ELSE todo \cup {val[s]}
  /\ PopFrame(s)
  /\ Goto(s, "idle")
  /\ UNCHANGED <<ring, got>>

\* The blocking send starts over when the queue was full.
SendRetry(s) ==
  /\ pc[s] = "s_full"
  /\ Goto(s, "s_load")
  /\ UNCHANGED <<ring, locals, ends>>

SenderStep(s) ==
  \/ SendCall(s) \/ SendLoadMeta(s) \/ SendLoadLap(s) \/ SendCas(s)
  \/ SendRecheck(s) \/ SendWrite(s) \/ SendPublish(s)
  \/ SendReturn(s) \/ SendRetry(s)

-----------------------------------------------------------------------------
(* Receiving: select_bucket_4_recv, then ElemArr::read                     *)

RecvCall(r) ==
  /\ pc[r] = "idle"
  /\ Goto(r, "r_load")
  /\ UNCHANGED <<ring, locals, ends>>

RecvLoadMeta(r) ==
  /\ pc[r] = "r_load"
  /\ meta' = [meta EXCEPT ![r] = read_meta]
  /\ Goto(r, "r_lap")
  /\ UNCHANGED <<ring, elem_lap, val, ends>>

RecvLoadLap(r) ==
  /\ pc[r] = "r_lap"
  /\ elem_lap' = [elem_lap EXCEPT ![r] = lap[meta[r].idx]]
  /\ \/ meta[r].lap = lap[meta[r].idx] /\ Goto(r, "r_cas")
     \/ meta[r].lap > lap[meta[r].idx] /\ Goto(r, "r_recheck")
     \/ meta[r].lap < lap[meta[r].idx] /\ Goto(r, "r_load")
  /\ UNCHANGED <<ring, meta, val, ends>>

RecvCas(r) ==
  /\ pc[r] = "r_cas"
  /\ \/ /\ read_meta = meta[r]
        /\ read_meta' = Advance(meta[r])
        /\ Goto(r, "r_read")
        /\ UNCHANGED meta
     \/ /\ meta' = [meta EXCEPT ![r] = read_meta]
        /\ Goto(r, "r_lap")
        /\ UNCHANGED read_meta
  /\ UNCHANGED <<write_meta, lap, msg, elem_lap, val, ends>>

RecvRecheck(r) ==
  /\ pc[r] = "r_recheck"
  /\ \/ meta[r].lap > lap[meta[r].idx] /\ Goto(r, "r_empty")
     \/ meta[r].lap <= lap[meta[r].idx] /\ Goto(r, "r_load")
  /\ UNCHANGED <<ring, locals, ends>>

\* Mutant: the element is released in the step that reads it.
RecvReadReleasing(r) ==
  /\ pc[r] = "r_read"
  /\ val' = [val EXCEPT ![r] = msg[meta[r].idx]]
  /\ lap' = [lap EXCEPT ![meta[r].idx] = elem_lap[r] + 1]
  /\ Goto(r, "r_release")
  /\ UNCHANGED <<write_meta, read_meta, msg, meta, elem_lap, ends>>

\* The read moves the message out bit by bit; the element keeps its bytes.
RecvRead(r) ==
  /\ pc[r] = "r_read"
  /\ val' = [val EXCEPT ![r] = msg[meta[r].idx]]
  /\ Goto(r, "r_release")
  /\ UNCHANGED <<ring, meta, elem_lap, ends>>

RecvRelease(r) ==
  /\ pc[r] = "r_release"
  /\ lap' = [lap EXCEPT ![meta[r].idx] = elem_lap[r] + 1]
  /\ Goto(r, "r_ok")
  /\ UNCHANGED <<write_meta, read_meta, msg, locals, ends>>

RecvReturn(r) ==
  /\ pc[r] \in {"r_ok", "r_empty"}
  /\ got' = IF pc[r] = "r_ok" THEN [got EXCEPT ![r] = Append(@, val[r])] ELSE got
  /\ PopFrame(r)
  /\ Goto(r, "idle")
  /\ UNCHANGED <<ring, todo>>

\* The blocking recv starts over when the queue was empty.
RecvRetry(r) ==
  /\ pc[r] = "r_empty"
  /\ Goto(r, "r_load")
  /\ UNCHANGED <<ring, locals, ends>>

ReceiverStep(r) ==
  \/ RecvCall(r) \/ RecvLoadMeta(r) \/ RecvLoadLap(r) \/ RecvCas(r)
  \/ RecvRecheck(r) \/ RecvRead(r) \/ RecvRelease(r)
  \/ RecvReturn(r) \/ RecvRetry(r)

-----------------------------------------------------------------------------
(* Closing                                                                 *)

\* close() loads write_meta and returns at once when the bit is set.
CloseCall(c) ==
  /\ pc[c] = "idle"
  /\ ~is_close
  /\ meta' = [meta EXCEPT ![c] = write_meta]
  /\ Goto(c, "c_cas")
  /\ UNCHANGED <<ring, elem_lap, val, ends>>

\* Mutant: a plain store of the meta loaded earlier.
CloseStore(c) ==
  /\ pc[c] = "c_cas"
  /\ write_meta' = WithClosedBit(meta[c])
  /\ Goto(c, "c_ok")
  /\ UNCHANGED <<read_meta, lap, msg, locals, ends>>

CloseCas(c) ==
  /\ pc[c] = "c_cas"
  /\ \/ /\ write_meta = meta[c]
        /\ write_meta' = WithClosedBit(meta[c])
        /\ Goto(c, "c_ok")
        /\ UNCHANGED meta
     \/ /\ meta' = [meta EXCEPT ![c] = write_meta]
        /\ UNCHANGED <<write_meta, pc>>
  /\ UNCHANGED <<read_meta, lap, msg, elem_lap, val, ends>>

CloseReturn(c) ==
  /\ pc[c] = "c_ok"
  /\ PopFrame(c)
  /\ Goto(c, "idle")
  /\ UNCHANGED <<ring, ends>>

CloserStep(c) == CloseCall(c) \/ CloseCas(c) \/ CloseReturn(c)

Next ==
  \/ \E s \in Senders : SenderStep(s)
  \/ \E r \in Receivers : ReceiverStep(r)
  \/ \E c \in Closers : CloserStep(c)

Spec == Init /\ [][Next]_vars

-----------------------------------------------------------------------------
(* Properties                                                              *)

\* A sender has its message in hand until its call returns.
SendersCarry == \A s \in Senders : pc[s] # "idle" => val[s] \in Messages

\* Type invariant: the shared words, the elements and the locals of every
\* thread keep their shape, and every index names an element of the buffer
\* (the code reads the buffer with get_unchecked).
TypeOK ==
  /\ write_meta \in Meta
  /\ read_meta \in Meta
  /\ lap \in [Slots -> Nat]
  /\ msg \in [Slots -> Messages \cup {NoMsg}]
  /\ pc \in [Threads -> {"idle"} \cup SenderPCs \cup ReceiverPCs \cup CloserPCs]
  /\ meta \in [Threads -> Meta]
  /\ elem_lap \in [Threads -> Nat]
  /\ val \in [Threads -> Messages \cup {NoMsg}]
  /\ SendersCarry
  /\ todo \subseteq Messages
  /\ got \in [Receivers -> Seq(Messages \cup {NoMsg})]

\* The threads between the compare-exchange that claimed an element and the
\* store that hands it on: they access its UnsafeCell without a lock.
InElement(t) == pc[t] \in {"s_write", "s_publish", "r_read", "r_release"}

\* No two threads are inside the same element at once, so the non-atomic
\* accesses of ElemArr::write and ElemArr::read never race.
ElementExclusive ==
  \A t, u \in Threads :
    InElement(t) /\ InElement(u) /\ meta[t].idx = meta[u].idx => t = u

\* Who holds message m, and in which capacity.
SendersCarrying(m) ==
  {s \in Senders : val[s] = m /\ pc[s] \notin {"s_publish", "s_ok"}}
ReceiversCarrying(m) ==
  {r \in Receivers : \/ pc[r] = "r_read" /\ msg[meta[r].idx] = m
                     \/ pc[r] \in {"r_release", "r_ok"} /\ val[r] = m}
WrittenIn(m) ==
  {i \in Slots :
     /\ msg[i] = m
     /\ \/ \E s \in Senders : pc[s] = "s_publish" /\ meta[s].idx = i
        \/ /\ lap[i] % 2 = 1
           /\ ~ \E r \in Receivers : InElement(r) /\ meta[r].idx = i}
ReturnedBy(m) ==
  {rk \in UNION {{r} \X DOMAIN got[r] : r \in Receivers} : got[rk[1]][rk[2]] = m}

\* Every message is in one place: not yet sent, carried by a thread, written
\* and not yet claimed by a receiver, or returned by a receive.  None is lost,
\* doubled, or both returned to its sender in an error and delivered.
MessagesConserved ==
  \A m \in Messages :
    (IF m \in todo THEN 1 ELSE 0) + Cardinality(SendersCarrying(m))
      + Cardinality(ReceiversCarrying(m)) + Cardinality(WrittenIn(m))
      + Cardinality(ReturnedBy(m)) = 1

\* Once the closed bit is set write_meta never changes again: no sender claims
\* an element after that, however stale the meta it had loaded.
NoClaimAfterClose == [][is_close => write_meta' = write_meta]_vars

(* Why elements are exclusive: the inductive invariant.                    *)

\* The lap at which element i is next claimed for writing, and for reading.
NextWrite(i) == IF i < write_meta.idx THEN write_meta.lap + 2 ELSE write_meta.lap
NextRead(i) == IF i < read_meta.idx THEN read_meta.lap + 2 ELSE read_meta.lap

\* An element is free, being written, full or being read; its lap and the two
\* claims that come next tell which.
ElementPhase(i) ==
  /\ NextRead(i) \in lap[i] .. lap[i] + 2
  /\ ~is_close =>
       \/ NextWrite(i) = lap[i] /\ NextRead(i) = lap[i] + 1
       \/ NextWrite(i) = lap[i] + 2 /\ NextRead(i) = lap[i] + 1
       \/ NextWrite(i) = lap[i] + 1 /\ NextRead(i) \in {lap[i], lap[i] + 2}

\* What a thread about to compare-exchange knows about its element.
MayClaim(t) ==
  /\ elem_lap[t] = meta[t].lap
  /\ lap[meta[t].idx] >= meta[t].lap

WriterPhase(s) ==
  /\ elem_lap[s] = lap[meta[s].idx]
  /\ NextRead(meta[s].idx) = lap[meta[s].idx] + 1
  /\ ~is_close => NextWrite(meta[s].idx) = lap[meta[s].idx] + 2

ReaderPhase(r) ==
  /\ elem_lap[r] = lap[meta[r].idx]
  /\ NextRead(meta[r].idx) = lap[meta[r].idx] + 2
  /\ ~is_close => NextWrite(meta[r].idx) = lap[meta[r].idx] + 1

\* What each thread that is about to claim, or has claimed, can rely on.
ThreadPhase(t) ==
  /\ pc[t] = "s_cas" => MayClaim(t) /\ meta[t].lap < MPMC_MASK_32
  /\ pc[t] = "r_cas" => MayClaim(t)
  /\ pc[t] \in {"s_write", "s_publish"} => WriterPhase(t)
  /\ pc[t] \in {"r_read", "r_release"} => ReaderPhase(t)

\* Inductive strengthening of ElementExclusive: which phase every element is
\* in, and what a thread inside it or about to claim it can rely on.
RingInv ==
  /\ TypeOK
  /\ ElementExclusive
  /\ \A i \in Slots : ElementPhase(i)
  /\ \A t \in Threads : ThreadPhase(t)

(* Why messages are conserved: the inductive invariant.                    *)

\* The elements that hold the bytes of a message, or still do.
BytesIn(m) == {i \in Slots : msg[i] = m}

Undelivered(m) == ReceiversCarrying(m) = {} /\ ReturnedBy(m) = {}

\* Every message is in one place, and until it has been claimed by a receiver its
\* bytes are in no other element.
Whereabouts(m) ==
  \/ /\ m \in todo
     /\ SendersCarrying(m) = {} /\ Undelivered(m) /\ BytesIn(m) = {}
  \/ /\ m \notin todo
     /\ \E s \in Senders : SendersCarrying(m) = {s}
     /\ Undelivered(m) /\ BytesIn(m) = {}
  \/ /\ m \notin todo
     /\ SendersCarrying(m) = {} /\ Undelivered(m)
     /\ \E i \in Slots : WrittenIn(m) = {i} /\ BytesIn(m) = {i}
  \/ /\ m \notin todo
     /\ SendersCarrying(m) = {} /\ WrittenIn(m) = {} /\ ReturnedBy(m) = {}
     /\ \E r \in Receivers : ReceiversCarrying(m) = {r}
  \/ /\ m \notin todo
     /\ SendersCarrying(m) = {} /\ WrittenIn(m) = {} /\ ReceiversCarrying(m) = {}
     /\ \E rk \in ReturnedBy(m) : ReturnedBy(m) = {rk}

\* An idle sender carries nothing.
IdleSendersEmpty == \A s \in Senders : pc[s] = "idle" => val[s] = NoMsg

\* Reads are claimed at odd laps.
ReadsOdd == read_meta.lap % 2 = 1

ConserveInv ==
  /\ RingInv /\ IdleSendersEmpty /\ ReadsOdd
  /\ \A m \in Messages : Whereabouts(m)

-----------------------------------------------------------------------------
(* The abstract channel that the ring implements                           *)

\* The number of claims made so far through a meta whose first lap is base.
Position(m, base) == ((m.lap - base) \div 2) * Capacity + m.idx

OpenMeta ==
  IF is_close THEN [write_meta EXCEPT !.lap = @ - MPMC_MASK_32] ELSE write_meta

\* The message an element holds or that the sender which claimed it will write.
SlotMsg(i) ==
  IF \E s \in Senders : pc[s] = "s_write" /\ meta[s].idx = i
  THEN val[CHOOSE s \in Senders : pc[s] = "s_write" /\ meta[s].idx = i]
  ELSE msg[i]

Pending ==
  [k \in 1 .. (Position(OpenMeta, 0) - Position(read_meta, 1)) |->
     SlotMsg((read_meta.idx + k - 1) % Capacity)]

\* What a receiver returned, with the message of the claim it has in hand.
Delivered ==
  [r \in Receivers |->
     IF pc[r] = "r_read" THEN Append(got[r], msg[meta[r].idx])
     ELSE IF pc[r] \in {"r_release", "r_ok"} THEN Append(got[r], val[r])
     ELSE got[r]]

Channel == INSTANCE FifoChannel
           WITH queue <- Pending, closed <- is_close, got <- Delivered

\* The ring implements the channel: a send takes effect when it claims, a
\* receive when it claims, a close when it sets the bit, in spite of messages
\* written and read long after the claim.
ImplementsChannel == Channel!Spec

\* try_send answers Full only when the channel holds Capacity messages or the
\* element it needs is still being read by a receiver of the previous lap;
\* try_recv answers Empty only when the channel is empty or the element at its
\* head was claimed by a sender that has not published it yet.
FailuresAreHonest ==
  [][/\ \A s \in Senders :
          pc[s] # "s_full" /\ pc'[s] = "s_full" =>
            \/ Len(Pending) = Capacity
            \/ \E r \in Receivers : InElement(r) /\ meta[r].idx = OpenMeta.idx
     /\ \A r \in Receivers :
          pc[r] # "r_empty" /\ pc'[r] = "r_empty" =>
            \/ Pending = <<>>
            \/ \E s \in Senders : InElement(s) /\ meta[s].idx = read_meta.idx]_vars

=============================================================================
