------------------------- MODULE SpscBounded_proofs -------------------------
(***************************************************************************)
(* Proofs about the SPSC queue for any messages, any capacity and any even *)
(* number of laps.  First the ring: the sender and the receiver stay out   *)
(* of each other's element, and the ring is a first-in first-out channel   *)
(* whose Full and Empty are honest, however often the laps wrap.  Then the *)
(* blocking queue: it does to the ring what SpscRing allows, and to the    *)
(* wakers what Wakers allows over any queue, so that what is proved of     *)
(* either holds of it too.                                                 *)
(***************************************************************************)
EXTENDS SpscBounded, TLAPS, SequenceTheorems

USE CapacityAssumption, LapAssumption, MessagesAssumption

\* A lap d laps after l, in the wrapped arithmetic of laps.
After(l, d) == IF l + d < LAP_MOD THEN l + d ELSE l + d - LAP_MOD

\* That is what the arithmetic of the code computes.
LEMMA LapArithmetic ==
  ASSUME NEW l \in Laps, NEW d \in 1 .. 3
  PROVE  (l + d) % LAP_MOD = After(l, d) /\ After(l, d) \in Laps
BY DEF Laps, After

\* The laps at which element i will next be claimed for writing and for reading.
NextWrite(i) == IF i < write_meta.idx THEN After(write_meta.lap, 2) ELSE write_meta.lap
NextRead(i) == IF i < read_meta.idx THEN After(read_meta.lap, 2) ELSE read_meta.lap

BeingWritten(i) == Writing /\ sent.idx = i
BeingRead(i) == Reading /\ read.idx = i

\* An element is free, being written, full, or being read.  Its lap and the claims
\* that come next tell which, and only the owner of the claim is inside.
ElementPhase(i) ==
  \/ /\ NextWrite(i) = lap[i] /\ NextRead(i) = After(lap[i], 1)
     /\ ~BeingWritten(i) /\ ~BeingRead(i)
  \/ /\ NextWrite(i) = After(lap[i], 2) /\ NextRead(i) = After(lap[i], 1)
     /\ BeingWritten(i) /\ ~BeingRead(i) /\ sent.lap = lap[i]
  \/ /\ NextWrite(i) = After(lap[i], 1) /\ NextRead(i) = lap[i]
     /\ ~BeingWritten(i) /\ ~BeingRead(i)
  \/ /\ NextWrite(i) = After(lap[i], 1) /\ NextRead(i) = After(lap[i], 2)
     /\ ~BeingWritten(i) /\ BeingRead(i) /\ read.lap = lap[i]

\* The sender has its message in hand until its call returns.
SenderCarries == spc # "idle" => sval \in Messages

\* What the successor of a meta is made of.
LEMMA AdvanceMeta ==
  ASSUME NEW m \in Meta
  PROVE  /\ Advance(m) \in Meta
         /\ Advance(m).idx = IF m.idx + 1 < Capacity THEN m.idx + 1 ELSE 0
         /\ Advance(m).lap = IF m.idx + 1 < Capacity THEN m.lap ELSE After(m.lap, 2)
<1>1. m.idx \in Slots /\ m.lap \in Laps
  BY DEF Meta
<1>2. (m.lap + 2) % LAP_MOD = After(m.lap, 2) /\ After(m.lap, 2) \in Laps
  BY <1>1, LapArithmetic
<1> QED
  BY <1>1, <1>2 DEF Advance, Meta, Slots

-----------------------------------------------------------------------------
(* Types                                                                   *)

\* The types, with what keeps them.
Types == TypeOK /\ SenderCarries

\* Every step keeps the types.
LEMMA TypeStep == Types /\ [Next]_vars => Types'
<1> SUFFICES ASSUME Types, [Next]_vars PROVE Types'
  OBVIOUS
<1> USE DEF Types, TypeOK, SenderCarries, SenderPCs, ReceiverPCs, sender, receiver
<1>1. ASSUME NEW m \in Messages, SendCall(m) PROVE Types'
  BY <1>1 DEF SendCall
<1>2. CASE SendLoadLap
  BY <1>2, AdvanceMeta DEF SendLoadLap
<1>3. CASE SendWrite
  BY <1>3 DEF SendWrite
<1>4. CASE SendPublish
  <2>1. (sent.lap + 1) % LAP_MOD \in Laps
    BY LapArithmetic DEF Meta
  <2> QED
    BY <1>4, <2>1 DEF SendPublish
<1>5. CASE SendLoadClosed \/ SendRecheck \/ SendReturn \/ SendRetry
  BY <1>5 DEF SendLoadClosed, SendRecheck, SendReturn, SendRetry
<1>6. CASE RecvLoadLap
  BY <1>6, AdvanceMeta DEF RecvLoadLap
<1>7. CASE RecvRead
  BY <1>7 DEF RecvRead, Meta
<1>8. CASE RecvRelease
  <2>1. (read.lap + 1) % LAP_MOD \in Laps
    BY LapArithmetic DEF Meta
  <2> QED
    BY <1>8, <2>1 DEF RecvRelease
<1>9. CASE RecvReturn
  <2>1. got' \in Seq(Messages \cup {NoMsg})
    BY <1>9 DEF RecvReturn
  <2> QED
    BY <1>9, <2>1 DEF RecvReturn
<1>10. CASE RecvCall \/ RecvRecheck \/ RecvRetry \/ Close
  BY <1>10 DEF RecvCall, RecvRecheck, RecvRetry, Close
<1>11. CASE UNCHANGED vars
  BY <1>11 DEF vars
<1> QED
  BY <1>1, <1>2, <1>3, <1>4, <1>5, <1>6, <1>7, <1>8, <1>9, <1>10, <1>11
     DEF Next, SenderStep, ReceiverStep

-----------------------------------------------------------------------------
(* Phases                                                                  *)

\* The inductive invariant: the types, and the phase of every element.
RingInv == Types /\ \A i \in Slots : ElementPhase(i)

\* In no phase are both inside.
LEMMA PhasesExclude == RingInv => ElementExclusive
<1> SUFFICES ASSUME RingInv, Writing, Reading PROVE sent.idx # read.idx
  BY DEF RingInv, Types, ElementExclusive
<1>1. sent.idx \in Slots /\ ElementPhase(sent.idx)
  BY DEF RingInv, Types, TypeOK, Meta
<1> QED
  BY <1>1 DEF ElementPhase, BeingWritten, BeingRead

\* A step that claims and publishes nothing keeps every phase.
LEMMA QuietStep ==
  ASSUME RingInv, Types',
         UNCHANGED <<write_meta, read_meta, lap, sent, read>>,
         Writing' <=> Writing, Reading' <=> Reading
  PROVE  RingInv'
<1>1. ASSUME NEW i \in Slots PROVE ElementPhase(i)'
  <2>1. ElementPhase(i)
    BY DEF RingInv
  <2> QED
    BY <2>1 DEF ElementPhase, NextWrite, NextRead, BeingWritten, BeingRead
<1> QED
  BY <1>1 DEF RingInv

\* The sender claims an element whose lap is that of its meta: it was free.
LEMMA SenderClaim ==
  ASSUME RingInv, Types', SendLoadLap, spc' = "s_write"
  PROVE  RingInv'
<1> DEFINE c == write_meta.idx
<1>1. /\ write_meta \in Meta /\ read_meta \in Meta /\ lap \in [Slots -> Laps]
      /\ c \in Slots /\ write_meta.lap \in Laps /\ read_meta.lap \in Laps
  BY DEF RingInv, Types, TypeOK, Meta
<1>2. /\ write_meta.lap = lap[c] /\ sent' = write_meta /\ write_meta' = Advance(write_meta)
      /\ ~Writing /\ Writing' /\ (Reading' <=> Reading)
      /\ UNCHANGED <<read_meta, lap, read>>
  BY DEF SendLoadLap, Writing, Reading, receiver
<1>3. ASSUME NEW i \in Slots
      PROVE  NextWrite(i)' = IF i = c THEN After(write_meta.lap, 2) ELSE NextWrite(i)
  BY <1>1, <1>2, AdvanceMeta DEF NextWrite, Slots
<1>4. ASSUME NEW i \in Slots PROVE ElementPhase(i)'
  <2>1. ElementPhase(i) /\ lap[i] \in Laps
    BY <1>1 DEF RingInv
  <2>2. NextRead(i)' = NextRead(i) /\ (BeingRead(i)' <=> BeingRead(i)) /\ ~BeingWritten(i)
    BY <1>2 DEF NextRead, BeingRead, BeingWritten
  <2>3. CASE i = c
    <3>1. NextWrite(i) = lap[i] /\ NextWrite(i)' = After(lap[i], 2)
      BY <1>1, <1>2, <1>3, <2>3 DEF NextWrite, Slots
    <3>2. NextRead(i) = After(lap[i], 1) /\ ~BeingRead(i)
      BY <2>1, <2>2, <3>1 DEF ElementPhase, After, Laps
    <3> QED
      BY <1>2, <2>2, <2>3, <3>1, <3>2 DEF ElementPhase, BeingWritten
  <2>4. CASE i # c
    <3>1. NextWrite(i)' = NextWrite(i) /\ ~BeingWritten(i)'
      BY <1>2, <1>3, <2>4 DEF BeingWritten
    <3> QED
      BY <1>2, <2>1, <2>2, <3>1 DEF ElementPhase
  <2> QED
    BY <2>3, <2>4
<1> QED
  BY <1>4 DEF RingInv

\* The receiver claims an element whose lap is that of its meta: it was full.
LEMMA ReceiverClaim ==
  ASSUME RingInv, Types', RecvLoadLap, rpc' = "r_read"
  PROVE  RingInv'
<1> DEFINE c == read_meta.idx
<1>1. /\ write_meta \in Meta /\ read_meta \in Meta /\ lap \in [Slots -> Laps]
      /\ c \in Slots /\ write_meta.lap \in Laps /\ read_meta.lap \in Laps
  BY DEF RingInv, Types, TypeOK, Meta
<1>2. /\ read_meta.lap = lap[c] /\ read' = read_meta /\ read_meta' = Advance(read_meta)
      /\ ~Reading /\ Reading' /\ (Writing' <=> Writing)
      /\ UNCHANGED <<write_meta, lap, sent>>
  BY DEF RecvLoadLap, Writing, Reading, sender
<1>3. ASSUME NEW i \in Slots
      PROVE  NextRead(i)' = IF i = c THEN After(read_meta.lap, 2) ELSE NextRead(i)
  BY <1>1, <1>2, AdvanceMeta DEF NextRead, Slots
<1>4. ASSUME NEW i \in Slots PROVE ElementPhase(i)'
  <2>1. ElementPhase(i) /\ lap[i] \in Laps
    BY <1>1 DEF RingInv
  <2>2. /\ NextWrite(i)' = NextWrite(i) /\ (BeingWritten(i)' <=> BeingWritten(i))
        /\ ~BeingRead(i)
    BY <1>2 DEF NextWrite, BeingRead, BeingWritten
  <2>3. CASE i = c
    <3>1. NextRead(i) = lap[i] /\ NextRead(i)' = After(lap[i], 2)
      BY <1>1, <1>2, <1>3, <2>3 DEF NextRead, Slots
    <3>2. NextWrite(i) = After(lap[i], 1) /\ ~BeingWritten(i)
      BY <2>1, <2>2, <3>1 DEF ElementPhase, After, Laps
    <3> QED
      BY <1>2, <2>2, <2>3, <3>1, <3>2 DEF ElementPhase, BeingRead
  <2>4. CASE i # c
    <3>1. NextRead(i)' = NextRead(i) /\ ~BeingRead(i)'
      BY <1>2, <1>3, <2>4 DEF BeingRead
    <3> QED
      BY <1>2, <2>1, <2>2, <3>1 DEF ElementPhase
  <2> QED
    BY <2>3, <2>4
<1> QED
  BY <1>4 DEF RingInv

\* Whoever is inside an element moves its lap on by one when it leaves: what was
\* being written is full, and what was being read is free.
LEMMA LeaveStep ==
  ASSUME RingInv, Types', SendPublish \/ RecvRelease
  PROVE  RingInv'
<1>1. /\ lap \in [Slots -> Laps] /\ sent.idx \in Slots /\ read.idx \in Slots
      /\ write_meta.lap \in Laps /\ read_meta.lap \in Laps
  BY DEF RingInv, Types, TypeOK, Meta
<1>2. UNCHANGED <<write_meta, read_meta, sent, read>>
  BY DEF SendPublish, RecvRelease, sender, receiver
<1>3. ASSUME NEW i \in Slots
      PROVE  /\ ElementPhase(i) /\ lap[i] \in Laps
             /\ NextWrite(i)' = NextWrite(i) /\ NextRead(i)' = NextRead(i)
  BY <1>1, <1>2 DEF RingInv, NextWrite, NextRead
<1>4. CASE SendPublish
  <2>1. /\ BeingWritten(sent.idx) /\ ~Writing' /\ (Reading' <=> Reading)
        /\ lap' = [lap EXCEPT ![sent.idx] = (sent.lap + 1) % LAP_MOD]
    BY <1>4 DEF SendPublish, BeingWritten, Writing, Reading, receiver
  <2>2. ASSUME NEW i \in Slots PROVE ElementPhase(i)'
    <3>1. ~BeingWritten(i)' /\ (BeingRead(i)' <=> BeingRead(i))
      BY <1>2, <2>1 DEF BeingWritten, BeingRead
    <3>2. CASE i = sent.idx
      <4>1. /\ NextWrite(i) = After(lap[i], 2) /\ NextRead(i) = After(lap[i], 1)
            /\ sent.lap = lap[i] /\ ~BeingRead(i)
        BY <1>3, <2>1, <3>2 DEF ElementPhase
      <4>2. lap'[i] = After(lap[i], 1)
        BY <1>1, <1>3, <2>1, <3>2, <4>1, LapArithmetic
      <4>3. NextWrite(i) = After(lap'[i], 1)
        BY <1>3, <4>1, <4>2 DEF After, Laps
      <4> QED
        BY <1>3, <3>1, <4>1, <4>2, <4>3 DEF ElementPhase
    <3>3. CASE i # sent.idx
      <4>1. lap'[i] = lap[i] /\ ~BeingWritten(i)
        BY <1>1, <2>1, <3>3 DEF BeingWritten
      <4> QED
        BY <1>2, <1>3, <3>1, <4>1 DEF ElementPhase
    <3> QED
      BY <3>2, <3>3
  <2> QED
    BY <2>2 DEF RingInv
<1>5. CASE RecvRelease
  <2>1. /\ BeingRead(read.idx) /\ ~Reading' /\ (Writing' <=> Writing)
        /\ lap' = [lap EXCEPT ![read.idx] = (read.lap + 1) % LAP_MOD]
    BY <1>5 DEF RecvRelease, BeingRead, Writing, Reading, sender
  <2>2. ASSUME NEW i \in Slots PROVE ElementPhase(i)'
    <3>1. ~BeingRead(i)' /\ (BeingWritten(i)' <=> BeingWritten(i))
      BY <1>2, <2>1 DEF BeingWritten, BeingRead
    <3>2. CASE i = read.idx
      <4>1. /\ NextWrite(i) = After(lap[i], 1) /\ NextRead(i) = After(lap[i], 2)
            /\ read.lap = lap[i] /\ ~BeingWritten(i)
        BY <1>3, <2>1, <3>2 DEF ElementPhase
      <4>2. lap'[i] = After(lap[i], 1)
        BY <1>1, <1>3, <2>1, <3>2, <4>1, LapArithmetic
      <4>3. NextRead(i) = After(lap'[i], 1)
        BY <1>3, <4>1, <4>2 DEF After, Laps
      <4> QED
        BY <1>3, <3>1, <4>1, <4>2, <4>3 DEF ElementPhase
    <3>3. CASE i # read.idx
      <4>1. lap'[i] = lap[i] /\ ~BeingRead(i)
        BY <1>1, <2>1, <3>3 DEF BeingRead
      <4> QED
        BY <1>2, <1>3, <3>1, <4>1 DEF ElementPhase
    <3> QED
      BY <3>2, <3>3
  <2> QED
    BY <2>2 DEF RingInv
<1> QED
  BY <1>4, <1>5

\* Every step keeps the invariant.
LEMMA RingStep == RingInv /\ [Next]_vars => RingInv'
<1> SUFFICES ASSUME RingInv, [Next]_vars PROVE RingInv'
  OBVIOUS
<1>0. Types'
  BY TypeStep DEF RingInv
<1> USE DEF Writing, Reading, sender, receiver
<1>1. ASSUME NEW m \in Messages, SendCall(m) PROVE RingInv'
  BY <1>0, <1>1, QuietStep DEF SendCall
<1>2. CASE SendLoadLap
  <2>1. CASE spc' = "s_write"
    BY <1>0, <1>2, <2>1, SenderClaim
  <2>2. CASE spc' # "s_write"
    BY <1>0, <1>2, <2>2, QuietStep DEF SendLoadLap
  <2> QED
    BY <2>1, <2>2
<1>3. CASE SendLoadClosed \/ SendRecheck \/ SendWrite \/ SendReturn \/ SendRetry
  BY <1>0, <1>3, QuietStep
     DEF SendLoadClosed, SendRecheck, SendWrite, SendReturn, SendRetry
<1>4. CASE SendPublish \/ RecvRelease
  BY <1>0, <1>4, LeaveStep
<1>5. CASE RecvLoadLap
  <2>1. CASE rpc' = "r_read"
    BY <1>0, <1>5, <2>1, ReceiverClaim
  <2>2. CASE rpc' # "r_read"
    BY <1>0, <1>5, <2>2, QuietStep DEF RecvLoadLap
  <2> QED
    BY <2>1, <2>2
<1>6. CASE RecvCall \/ RecvRecheck \/ RecvRead \/ RecvReturn \/ RecvRetry \/ Close
  BY <1>0, <1>6, QuietStep
     DEF RecvCall, RecvRecheck, RecvRead, RecvReturn, RecvRetry, Close
<1>7. CASE UNCHANGED vars
  BY <1>0, <1>7, QuietStep DEF vars
<1> QED
  BY <1>1, <1>2, <1>3, <1>4, <1>5, <1>6, <1>7 DEF Next, SenderStep, ReceiverStep

\* At first every element is free.
LEMMA RingInit == Init => RingInv
<1> SUFFICES ASSUME Init PROVE RingInv
  OBVIOUS
<1>1. Types
  <2>1. write_meta \in Meta /\ read_meta \in Meta
    BY DEF Init, Meta, Slots, Laps
  <2>2. lap \in [Slots -> Laps] /\ got \in Seq(Messages \cup {NoMsg})
    BY DEF Init, Laps
  <2> QED
    BY <2>1, <2>2 DEF Init, Types, TypeOK, SenderCarries, SenderPCs, ReceiverPCs
<1>2. ASSUME NEW i \in Slots PROVE ElementPhase(i)
  BY DEF Init, ElementPhase, NextWrite, NextRead, BeingWritten, BeingRead, Writing,
     Reading, After, Slots
<1> QED
  BY <1>1, <1>2 DEF RingInv

\* The sender and the receiver are never inside the same element: for any
\* capacity, and across every wrap of the laps.
THEOREM Exclusion == Spec => []ElementExclusive
BY RingInit, RingStep, PhasesExclude, PTL DEF Spec

-----------------------------------------------------------------------------
(* The ring as a channel                                                   *)

\* The metas are at most one lap apart, and the write meta is the one ahead.  The
\* phases do not say so once the laps are as few as four: four laps on is no lap on.
MetasClose ==
  \/ read_meta.lap = After(write_meta.lap, 1) /\ read_meta.idx <= write_meta.idx
  \/ write_meta.lap = After(read_meta.lap, 1) /\ write_meta.idx <= read_meta.idx

\* Elements are claimed for writing at even laps, and for reading at odd ones.
Parity == write_meta.lap % 2 = 0 /\ read_meta.lap % 2 = 1

ChannelInv == RingInv /\ MetasClose /\ Parity

\* The number of claims the sender is ahead, from the indices.
Count ==
  IF read_meta.lap = After(write_meta.lap, 1) THEN write_meta.idx - read_meta.idx
  ELSE Capacity + write_meta.idx - read_meta.idx

\* What the proofs below need to know of the metas.
LEMMA MetaTypes ==
  ASSUME RingInv
  PROVE  /\ Capacity \in Nat /\ Capacity > 0 /\ LAP_MOD \in Nat /\ LAP_MOD >= 4
         /\ LAP_MOD % 2 = 0
         /\ write_meta \in Meta /\ read_meta \in Meta
         /\ write_meta.idx \in 0 .. Capacity - 1 /\ read_meta.idx \in 0 .. Capacity - 1
         /\ write_meta.lap \in 0 .. LAP_MOD - 1 /\ read_meta.lap \in 0 .. LAP_MOD - 1
         /\ lap \in [Slots -> 0 .. LAP_MOD - 1]
         /\ write_meta.idx \in Slots /\ read_meta.idx \in Slots
<1>1. write_meta \in Meta /\ read_meta \in Meta /\ lap \in [Slots -> 0 .. LAP_MOD - 1]
  BY DEF RingInv, Types, TypeOK, Laps
<1>2. /\ write_meta.idx \in Slots /\ read_meta.idx \in Slots
      /\ write_meta.lap \in 0 .. LAP_MOD - 1 /\ read_meta.lap \in 0 .. LAP_MOD - 1
  BY <1>1 DEF Meta, Laps
<1>3. /\ Capacity \in Nat /\ Capacity > 0 /\ LAP_MOD \in Nat /\ LAP_MOD >= 4
      /\ LAP_MOD % 2 = 0
  OBVIOUS
<1>4. write_meta.idx \in 0 .. Capacity - 1 /\ read_meta.idx \in 0 .. Capacity - 1
  BY <1>2 DEF Slots
<1> QED
  BY <1>1, <1>2, <1>3, <1>4

\* The element a claim for writing finds free is not pending, and the channel not full.
LEMMA WriteReady ==
  ASSUME ChannelInv, ~Writing, write_meta.lap = lap[write_meta.idx]
  PROVE  /\ NextRead(write_meta.idx) = After(write_meta.lap, 1)
         /\ Count \in 0 .. Capacity - 1
<1>1. ElementPhase(write_meta.idx) /\ NextWrite(write_meta.idx) = write_meta.lap
  BY MetaTypes DEF ChannelInv, RingInv, NextWrite
<1>2. NextRead(write_meta.idx) = After(write_meta.lap, 1)
  BY <1>1, MetaTypes DEF ChannelInv, ElementPhase, BeingWritten, After
<1> QED
  BY <1>2, MetaTypes DEF ChannelInv, MetasClose, NextRead, Count, After

\* The element a claim for reading finds full is the head of a channel that is not empty.
LEMMA ReadReady ==
  ASSUME ChannelInv, ~Reading, read_meta.lap = lap[read_meta.idx]
  PROVE  /\ ~BeingWritten(read_meta.idx)
         /\ NextWrite(read_meta.idx) = After(read_meta.lap, 1)
         /\ Count \in 1 .. Capacity
<1>1. ElementPhase(read_meta.idx) /\ NextRead(read_meta.idx) = read_meta.lap
  BY MetaTypes DEF ChannelInv, RingInv, NextRead
<1>2. ~BeingWritten(read_meta.idx) /\ NextWrite(read_meta.idx) = After(read_meta.lap, 1)
  BY <1>1, MetaTypes DEF ChannelInv, ElementPhase, BeingRead, After
<1> QED
  BY <1>2, MetaTypes DEF ChannelInv, MetasClose, NextWrite, Count, After

\* Claims keep the metas close and their laps even and odd.
LEMMA ChannelInvStep == ChannelInv /\ [Next]_vars => ChannelInv'
<1> SUFFICES ASSUME ChannelInv, [Next]_vars PROVE ChannelInv'
  OBVIOUS
<1>1. RingInv'
  BY RingStep DEF ChannelInv
<1>2. CASE SendLoadLap /\ spc' = "s_write"
  <2>1. /\ ~Writing /\ write_meta.lap = lap[write_meta.idx]
        /\ write_meta' = Advance(write_meta) /\ read_meta' = read_meta
    BY <1>2 DEF SendLoadLap, Writing, receiver
  <2>2. NextRead(write_meta.idx) = After(write_meta.lap, 1) /\ Count \in 0 .. Capacity - 1
    BY <2>1, WriteReady
  <2>3. /\ write_meta'.idx = IF write_meta.idx + 1 < Capacity THEN write_meta.idx + 1 ELSE 0
        /\ write_meta'.lap = IF write_meta.idx + 1 < Capacity THEN write_meta.lap
                             ELSE After(write_meta.lap, 2)
    BY <2>1, MetaTypes, AdvanceMeta DEF ChannelInv
  <2>4. MetasClose'
    BY <2>1, <2>2, <2>3, MetaTypes DEF ChannelInv, MetasClose, Count, After
  <2>5. Parity'
    BY <2>1, <2>3, MetaTypes DEF ChannelInv, Parity, After
  <2> QED
    BY <1>1, <2>4, <2>5 DEF ChannelInv
<1>3. CASE RecvLoadLap /\ rpc' = "r_read"
  <2>1. /\ ~Reading /\ read_meta.lap = lap[read_meta.idx]
        /\ read_meta' = Advance(read_meta) /\ write_meta' = write_meta
    BY <1>3 DEF RecvLoadLap, Reading, sender
  <2>2. NextWrite(read_meta.idx) = After(read_meta.lap, 1) /\ Count \in 1 .. Capacity
    BY <2>1, ReadReady
  <2>3. /\ read_meta'.idx = IF read_meta.idx + 1 < Capacity THEN read_meta.idx + 1 ELSE 0
        /\ read_meta'.lap = IF read_meta.idx + 1 < Capacity THEN read_meta.lap
                            ELSE After(read_meta.lap, 2)
    BY <2>1, MetaTypes, AdvanceMeta DEF ChannelInv
  <2>4. MetasClose'
    BY <2>1, <2>2, <2>3, MetaTypes DEF ChannelInv, MetasClose, Count, After
  <2>5. Parity'
    BY <2>1, <2>3, MetaTypes DEF ChannelInv, Parity, After
  <2> QED
    BY <1>1, <2>4, <2>5 DEF ChannelInv
<1>4. CASE UNCHANGED <<write_meta, read_meta>>
  BY <1>1, <1>4 DEF ChannelInv, MetasClose, Parity
<1>5. \/ UNCHANGED <<write_meta, read_meta>>
      \/ SendLoadLap /\ spc' = "s_write"
      \/ RecvLoadLap /\ rpc' = "r_read"
  BY DEF Next, vars, SenderStep, ReceiverStep, SendCall, SendLoadClosed, SendLoadLap,
     SendRecheck, SendWrite, SendPublish, SendReturn, SendRetry, RecvCall, RecvLoadLap,
     RecvRecheck, RecvRead, RecvRelease, RecvReturn, RecvRetry, Close
<1> QED
  BY <1>2, <1>3, <1>4, <1>5

\* At first the metas are at the first element.
LEMMA ChannelInvInit == Init => ChannelInv
BY RingInit DEF Init, ChannelInv, MetasClose, Parity, After

\* The invariant of the channel, for any capacity and any even number of laps.
THEOREM ChannelInvariance == Spec => []ChannelInv
BY ChannelInvInit, ChannelInvStep, PTL DEF Spec

\* An index is taken at most once off Capacity.
LEMMA ModSmall ==
  ASSUME NEW a \in Nat, NEW n \in Nat, n > 0, a < 2 * n
  PROVE  a % n = IF a < n THEN a ELSE a - n
OBVIOUS

\* The wrapped count of claims is the number the indices tell.
LEMMA BacklogValue == ChannelInv => Backlog = Count /\ Count \in 0 .. Capacity
<1> SUFFICES ASSUME ChannelInv PROVE Backlog = Count /\ Count \in 0 .. Capacity
  OBVIOUS
<1> DEFINE wi == write_meta.idx
           wl == write_meta.lap
           ri == read_meta.idx
           rl == read_meta.lap
           h == LAP_MOD \div 2
<1>1. /\ Capacity \in Nat /\ Capacity > 0 /\ wi \in 0 .. Capacity - 1
      /\ ri \in 0 .. Capacity - 1
      /\ wl \in 0 .. LAP_MOD - 1 /\ rl \in 0 .. LAP_MOD - 1 /\ LAP_MOD \in Nat
      /\ LAP_MOD >= 4 /\ LAP_MOD % 2 = 0 /\ wl % 2 = 0 /\ rl % 2 = 1
  BY MetaTypes DEF ChannelInv, Parity
<1>2. h \in Nat /\ h >= 2 /\ LAP_MOD = 2 * h /\ wl \div 2 \in 0 .. h - 1
      /\ rl \div 2 \in 0 .. h - 1
  BY <1>1
<1>3. /\ Rounds = h * Capacity /\ Rounds \in Nat /\ Rounds >= 2 * Capacity
      /\ Rounds > 0
  <2>1. h * Capacity = (h - 2) * Capacity + 2 * Capacity /\ (h - 2) * Capacity >= 0
    BY <1>1, <1>2
  <2> QED
    BY <1>1, <1>2, <2>1 DEF Rounds
<1>4. /\ Position(write_meta) = (wl \div 2) * Capacity + wi
      /\ Position(read_meta) = (rl \div 2) * Capacity + ri
  BY DEF Position
<1> HIDE DEF wi, wl, ri, rl, h
<1>5. CASE rl = After(wl, 1) /\ ri <= wi
  <2>1. rl \div 2 = wl \div 2
    BY <1>1, <1>5 DEF After
  <2>2. Position(write_meta) + Rounds - Position(read_meta) = Rounds + (wi - ri)
    <3>1. (wl \div 2) * Capacity \in Int
      BY <1>1
    <3> QED
      BY <1>1, <1>3, <1>4, <2>1, <3>1
  <2>3. PICK a \in Nat : a = Rounds + (wi - ri) /\ a < 2 * Rounds /\ a >= Rounds
    BY <1>1, <1>3, <1>5
  <2>4. Backlog = wi - ri
    <3>1. a % Rounds = IF a < Rounds THEN a ELSE a - Rounds
      BY <1>1, <1>3, <2>3, ModSmall
    <3>2. Backlog = a % Rounds
      BY <2>2, <2>3 DEF Backlog
    <3> QED
      BY <1>1, <1>3, <2>3, <3>1, <3>2
  <2> QED
    BY <1>1, <1>5, <2>4 DEF Count, wi, wl, ri, rl
<1>6. CASE wl = After(rl, 1) /\ wi <= ri
  <2>1. rl # After(wl, 1)
    BY <1>1, <1>6 DEF After
  <2>2. \/ wl \div 2 = rl \div 2 + 1
        \/ wl \div 2 = 0 /\ rl \div 2 = h - 1
    BY <1>1, <1>2, <1>6 DEF After
  <2>3. PICK a \in Nat : /\ a = Position(write_meta) + Rounds - Position(read_meta)
                         /\ a = Capacity + wi - ri \/ a = Rounds + (Capacity + wi - ri)
    <3>1. CASE wl \div 2 = rl \div 2 + 1
      <4>1. /\ (wl \div 2) * Capacity = (rl \div 2) * Capacity + Capacity
            /\ (rl \div 2) * Capacity \in Int
        BY <1>1, <3>1
      <4> QED
        BY <1>1, <1>3, <1>4, <1>6, <4>1
    <3>2. CASE wl \div 2 = 0 /\ rl \div 2 = h - 1
      <4>1. /\ (wl \div 2) * Capacity = 0
            /\ (rl \div 2) * Capacity = Rounds - Capacity
        BY <1>1, <1>2, <1>3, <3>2
      <4> QED
        BY <1>1, <1>3, <1>4, <1>6, <4>1
    <3> QED
      BY <2>2, <3>1, <3>2
  <2>4. a < 2 * Rounds /\ (a < Rounds <=> a = Capacity + wi - ri)
    BY <1>1, <1>3, <1>6, <2>3
  <2>5. Backlog = Capacity + wi - ri
    <3>1. a % Rounds = IF a < Rounds THEN a ELSE a - Rounds
      BY <1>1, <1>3, <2>3, <2>4, ModSmall
    <3>2. Backlog = a % Rounds
      BY <2>3 DEF Backlog
    <3> QED
      BY <1>1, <1>3, <2>3, <2>4, <3>1, <3>2
  <2> QED
    BY <1>1, <1>6, <2>1, <2>5 DEF Count, wi, wl, ri, rl
<1> QED
  BY <1>5, <1>6 DEF ChannelInv, MetasClose, wi, wl, ri, rl

\* The element that holds the k-th pending message.
At(k) == (read_meta.idx + k - 1) % Capacity

\* A pending element has been claimed for writing and not yet for reading.
LEMMA PendingElement ==
  ASSUME ChannelInv, NEW k \in 1 .. Count
  PROVE  /\ At(k) \in Slots
         /\ At(k) = IF read_meta.idx + k - 1 < Capacity THEN read_meta.idx + k - 1
                    ELSE read_meta.idx + k - 1 - Capacity
         /\ NextWrite(At(k)) = After(NextRead(At(k)), 1)
<1>1. Count \in 0 .. Capacity /\ k \in Nat /\ k >= 1 /\ k <= Count
  BY BacklogValue
<1>2. At(k) = IF read_meta.idx + k - 1 < Capacity THEN read_meta.idx + k - 1
              ELSE read_meta.idx + k - 1 - Capacity
  <2>1. PICK a \in Nat : a = read_meta.idx + k - 1 /\ a < 2 * Capacity
    BY <1>1, MetaTypes DEF ChannelInv
  <2>2. a % Capacity = IF a < Capacity THEN a ELSE a - Capacity
    BY <2>1, ModSmall, CapacityAssumption
  <2>3. At(k) = a % Capacity
    BY <2>1 DEF At
  <2> QED
    BY <1>1, <2>1, <2>2, <2>3, MetaTypes DEF ChannelInv
<1>3. At(k) \in Slots
  <2>1. read_meta.idx \in 0 .. Capacity - 1 /\ Capacity \in Nat
    BY MetaTypes DEF ChannelInv
  <2> QED
    BY <1>1, <1>2, <2>1 DEF Slots
<1>4. NextWrite(At(k)) = After(NextRead(At(k)), 1)
  <2>1. PICK i \in Slots : i = At(k)
    BY <1>3
  <2>2. NextWrite(i) = After(NextRead(i), 1)
    BY <1>1, <1>2, <2>1, MetaTypes
       DEF ChannelInv, MetasClose, NextWrite, NextRead, Count, After
  <2> QED
    BY <2>1, <2>2
<1> QED
  BY <1>2, <1>3, <1>4

\* The pending messages form a sequence, one for each claim the sender is ahead.
PendingSeq ==
  /\ Count \in 0 .. Capacity
  /\ Pending \in Seq(Messages \cup {NoMsg})
  /\ Len(Pending) = Count
  /\ \A k \in 1 .. Count :
       /\ Pending[k] = SlotMsg(At(k)) /\ At(k) \in Slots
       /\ At(k) = IF read_meta.idx + k - 1 < Capacity THEN read_meta.idx + k - 1
                  ELSE read_meta.idx + k - 1 - Capacity

\* Pending lists the elements from read_meta to write_meta.
LEMMA PendingType == ChannelInv => PendingSeq
<1> SUFFICES ASSUME ChannelInv PROVE PendingSeq
  OBVIOUS
<1>1. Count \in Nat /\ Pending = [k \in 1 .. Count |-> SlotMsg(At(k))]
  BY BacklogValue, MetaTypes DEF ChannelInv, Pending, At
<1>2. \A k \in 1 .. Count : At(k) \in Slots /\ SlotMsg(At(k)) \in Messages \cup {NoMsg}
  BY PendingElement DEF ChannelInv, RingInv, Types, TypeOK, SlotMsg
<1>3. /\ Pending \in Seq(Messages \cup {NoMsg}) /\ Len(Pending) = Count
      /\ \A k \in 1 .. Count : Pending[k] = SlotMsg(At(k))
  BY <1>1, <1>2
<1> QED
  BY <1>3, BacklogValue, PendingElement DEF PendingSeq

\* The channel does not notice a step that keeps both metas and every slot.
LEMMA PendingKept ==
  ASSUME UNCHANGED <<write_meta, read_meta>>, \A i \in Slots : SlotMsg(i)' = SlotMsg(i),
         ChannelInv
  PROVE  Pending' = Pending
<1>1. Pending = [k \in 1 .. Count |-> SlotMsg(At(k))]
  BY BacklogValue DEF Pending, At
<1>2. Pending' = [k \in 1 .. Count |-> SlotMsg(At(k))']
  <2>1. Backlog' = Count
    BY BacklogValue DEF Backlog, Position
  <2> QED
    BY <2>1 DEF Pending, At
<1>3. ASSUME NEW k \in 1 .. Count PROVE SlotMsg(At(k))' = SlotMsg(At(k))
  <2>1. At(k)' = At(k)
    BY DEF At
  <2> QED
    BY <2>1, PendingElement
<1> QED
  BY <1>1, <1>2, <1>3

\* The same after a step.
LEMMA AfterAStep == ChannelInv' => PendingSeq'
BY PendingType, PTL

\* A send takes effect when it claims: the message joins the end of the channel.
LEMMA ChannelSend ==
  ASSUME ChannelInv, ChannelInv', SendLoadLap, spc' = "s_write"
  PROVE  Channel!Send(sval)
<1> DEFINE i == write_meta.idx
<1>1. /\ spc = "s_lap" /\ write_meta.lap = lap[i] /\ ~Writing
      /\ write_meta' = Advance(write_meta) /\ sent' = write_meta
      /\ UNCHANGED <<read_meta, lap, msg, sval, rpc, read, rval, got>>
  BY DEF SendLoadLap, Writing, receiver
<1>2. NextRead(i) = After(write_meta.lap, 1) /\ NextWrite(i) = write_meta.lap
      /\ Count \in 0 .. Capacity - 1
  BY <1>1, WriteReady, MetaTypes DEF ChannelInv, NextWrite
<1>3. PendingSeq /\ PendingSeq'
  BY PendingType, AfterAStep
<1>4. /\ write_meta'.idx = IF i + 1 < Capacity THEN i + 1 ELSE 0
      /\ write_meta'.lap =
           IF i + 1 < Capacity THEN write_meta.lap ELSE After(write_meta.lap, 2)
  BY <1>1, MetaTypes, AdvanceMeta DEF ChannelInv
<1>5. Count' = Count + 1
  <2>1. Count' \in 0 .. Capacity
    BY <1>3 DEF PendingSeq
  <2> QED
    BY <1>1, <1>2, <1>4, <2>1, MetaTypes DEF ChannelInv, MetasClose, Count, After
<1>6. ASSUME NEW k \in 1 .. Count PROVE Pending'[k] = Pending[k]
  <2>1. PICK j \in Slots : j = At(k) /\ NextWrite(j) = After(NextRead(j), 1)
    BY PendingElement
  <2>2. j # i
    BY <1>2, <2>1, MetaTypes DEF ChannelInv, After
  <2>3. SlotMsg(j)' = SlotMsg(j) /\ At(k)' = At(k)
    BY <1>1, <2>2 DEF SlotMsg, At
  <2>4. k \in 1 .. Count'
    BY <1>2, <1>5
  <2> QED
    BY <1>3, <2>1, <2>3, <2>4 DEF PendingSeq
<1>7. Pending'[Count + 1] = sval
  <2>1. PICK n \in Nat : n = Count + 1 /\ n \in 1 .. Count'
    BY <1>2, <1>5
  <2>2. At(n)' = i
    <3>1. At(n)' = IF read_meta.idx + n - 1 < Capacity THEN read_meta.idx + n - 1
                   ELSE read_meta.idx + n - 1 - Capacity
      BY <1>1, <1>3, <2>1 DEF PendingSeq
    <3> QED
      BY <1>2, <2>1, <3>1, MetaTypes DEF ChannelInv, MetasClose, Count
  <2>3. PICK j \in Slots : j = i
    BY MetaTypes DEF ChannelInv
  <2>4. SlotMsg(j)' = sval
    BY <1>1, <2>3 DEF SlotMsg, SendLoadLap
  <2>5. SlotMsg(At(n))' = SlotMsg(j)'
    BY <2>2, <2>3
  <2> QED
    BY <1>3, <2>1, <2>4, <2>5 DEF PendingSeq
<1>8. Pending' = Append(Pending, sval)
  <2> DEFINE S == Messages \cup {NoMsg}
             p == Append(Pending, sval)
  <2>1. sval \in S /\ Pending \in Seq(S) /\ Pending' \in Seq(S) /\ Len(Pending) = Count
        /\ Len(Pending') = Count'
    BY <1>3 DEF PendingSeq, ChannelInv, RingInv, Types, TypeOK
  <2>2. /\ p \in Seq(S) /\ Len(p) = Count + 1
        /\ \A k \in 1 .. Count : p[k] = Pending[k]
        /\ p[Count + 1] = sval
    BY <2>1, AppendProperties
  <2>3. \A k \in 1 .. Len(p) : p[k] = Pending'[k]
    BY <1>2, <1>6, <1>7, <2>2
  <2> HIDE DEF p, S
  <2>4. p = Pending'
    BY <1>5, <2>1, <2>2, <2>3, SeqEqual
  <2> QED
    BY <2>4 DEF p
<1>9. Delivered' = Delivered
  BY <1>1 DEF Delivered
<1>10. Len(Pending) < Capacity
  BY <1>2, <1>3, MetaTypes DEF ChannelInv, PendingSeq
<1> QED
  BY <1>8, <1>9, <1>10 DEF Channel!Send

\* A receive takes effect when it claims: it gets the message at the head.
LEMMA ChannelRecv ==
  ASSUME ChannelInv, ChannelInv', RecvLoadLap, rpc' = "r_read"
  PROVE  Channel!Recv("receiver")
<1> DEFINE i == read_meta.idx
           S == Messages \cup {NoMsg}
<1>1. /\ rpc = "r_lap" /\ read_meta.lap = lap[i] /\ ~Reading
      /\ read_meta' = Advance(read_meta) /\ read' = read_meta
      /\ UNCHANGED <<write_meta, lap, msg, rval, got, spc, sent, sval>>
  BY DEF RecvLoadLap, Reading, sender
<1>2. ~BeingWritten(i) /\ Count \in 1 .. Capacity
  BY <1>1, ReadReady
<1>3. PendingSeq /\ PendingSeq'
  BY PendingType, AfterAStep
<1>4. /\ read_meta'.idx = IF i + 1 < Capacity THEN i + 1 ELSE 0
      /\ read_meta'.lap = IF i + 1 < Capacity THEN read_meta.lap ELSE After(read_meta.lap, 2)
  BY <1>1, MetaTypes, AdvanceMeta DEF ChannelInv
<1>5. Count' = Count - 1
  <2>1. Count' \in 0 .. Capacity
    BY <1>3 DEF PendingSeq
  <2>2. CASE i + 1 < Capacity
    BY <1>1, <1>2, <1>4, <2>1, <2>2, MetaTypes DEF ChannelInv, MetasClose, Count, After
  <2>3. CASE ~(i + 1 < Capacity)
    <3>1. i = Capacity - 1 /\ read_meta'.idx = 0 /\ read_meta'.lap = After(read_meta.lap, 2)
      BY <1>4, <2>3, MetaTypes DEF ChannelInv
    <3>2. write_meta.lap = After(read_meta.lap, 1)
      BY <1>2, <3>1, MetaTypes DEF ChannelInv, MetasClose, Count
    <3>3. read_meta'.lap = After(write_meta.lap, 1) /\ read_meta.lap # After(write_meta.lap, 1)
      BY <3>1, <3>2, MetaTypes DEF ChannelInv, After
    <3> QED
      BY <1>1, <3>1, <3>3, MetaTypes DEF ChannelInv, Count
  <2> QED
    BY <2>2, <2>3
<1>6. Pending # <<>> /\ Head(Pending) = msg[i]
  <2>1. 1 \in 1 .. Count /\ At(1) = i
    BY <1>2, <1>3, MetaTypes DEF ChannelInv, PendingSeq
  <2>2. SlotMsg(i) = msg[i]
    BY <1>2 DEF SlotMsg, BeingWritten, Writing
  <2>3. Pending[1] = msg[i] /\ Len(Pending) > 0 /\ Pending \in Seq(S)
    BY <1>2, <1>3, <2>1, <2>2 DEF PendingSeq
  <2> QED
    BY <2>3
<1>7. ASSUME NEW k \in 1 .. (Count - 1) PROVE Pending'[k] = Pending[k + 1]
  <2>1. PICK n \in 1 .. Count : n = k + 1
    BY <1>2
  <2>2. At(k)' = At(n)
    <3>1. k \in 1 .. Count'
      BY <1>2, <1>5
    <3>2. At(k)' = IF read_meta'.idx + k - 1 < Capacity THEN read_meta'.idx + k - 1
                   ELSE read_meta'.idx + k - 1 - Capacity
      BY <1>3, <3>1 DEF PendingSeq
    <3>3. At(n) = IF read_meta.idx + n - 1 < Capacity THEN read_meta.idx + n - 1
                  ELSE read_meta.idx + n - 1 - Capacity
      BY <1>3, <2>1 DEF PendingSeq
    <3> QED
      BY <1>2, <1>4, <2>1, <3>2, <3>3, MetaTypes DEF ChannelInv
  <2>3. PICK j \in Slots : j = At(n)
    BY <1>3, <2>1 DEF PendingSeq
  <2>4. SlotMsg(j)' = SlotMsg(j)
    BY <1>1 DEF SlotMsg
  <2>5. Pending'[k] = SlotMsg(At(k))'
    <3>1. k \in 1 .. Count'
      BY <1>2, <1>5
    <3> QED
      BY <1>3, <3>1 DEF PendingSeq
  <2>6. Pending[n] = SlotMsg(At(n))
    BY <1>3 DEF PendingSeq
  <2>7. SlotMsg(At(k))' = SlotMsg(j)'
    BY <2>2, <2>3
  <2> QED
    BY <2>1, <2>3, <2>4, <2>5, <2>6, <2>7
<1>8. Pending' = Tail(Pending)
  <2> DEFINE p == Tail(Pending)
  <2>1. /\ Pending \in Seq(S) /\ Pending' \in Seq(S) /\ Len(Pending) = Count
        /\ Len(Pending') = Count'
    BY <1>3 DEF PendingSeq
  <2>2. /\ p \in Seq(S) /\ Len(p) = Count - 1
        /\ \A k \in 1 .. Len(p) : p[k] = Pending[k + 1]
    BY <1>6, <2>1, HeadTailProperties
  <2>3. \A k \in 1 .. Len(p) : p[k] = Pending'[k]
    BY <1>7, <2>2
  <2> HIDE DEF p, S
  <2>4. p = Pending'
    BY <1>5, <2>1, <2>2, <2>3, SeqEqual
  <2> QED
    BY <2>4 DEF p
<1>9. Delivered = got /\ Delivered' = Append(got, msg[i])
  BY <1>1 DEF Delivered
<1> QED
  BY <1>6, <1>8, <1>9 DEF Channel!Recv

\* Every step of the ring is one of the channel, or none.
LEMMA ChannelStep ==
  ChannelInv /\ ChannelInv' /\ [Next]_vars => [Channel!Next]_(Channel!vars)
<1> SUFFICES ASSUME ChannelInv, ChannelInv', [Next]_vars
             PROVE  [Channel!Next]_(Channel!vars)
  OBVIOUS
<1>0. Types /\ ElementExclusive
  BY PhasesExclude DEF ChannelInv, RingInv
<1>1. CASE SendLoadLap /\ spc' = "s_write"
  <2>1. Channel!Send(sval) /\ sval \in Messages
    BY <1>0, <1>1, ChannelSend DEF SendLoadLap, Types, SenderCarries
  <2> QED
    BY <2>1 DEF Channel!Next
<1>2. CASE RecvLoadLap /\ rpc' = "r_read"
  BY <1>2, ChannelRecv DEF Channel!Next
<1>3. ASSUME UNCHANGED <<write_meta, read_meta>>,
             \A i \in Slots : SlotMsg(i)' = SlotMsg(i), Delivered' = Delivered
      PROVE  UNCHANGED Channel!vars
  BY <1>3, PendingKept DEF Channel!vars
<1>4. CASE SendWrite
  <2>1. /\ spc = "s_write" /\ spc' = "s_publish" /\ msg' = [msg EXCEPT ![sent.idx] = sval]
        /\ UNCHANGED <<write_meta, read_meta, sent, rpc, read, rval, got>>
    BY <1>4 DEF SendWrite, receiver
  <2>2. \A i \in Slots : SlotMsg(i)' = SlotMsg(i)
    BY <1>0, <2>1 DEF SlotMsg, Types, TypeOK
  <2>3. rpc = "r_read" => msg'[read.idx] = msg[read.idx]
    BY <1>0, <2>1 DEF ElementExclusive, Writing, Reading, Types, TypeOK, Meta
  <2>4. Delivered' = Delivered
    BY <2>1, <2>3 DEF Delivered
  <2> QED
    BY <1>3, <2>1, <2>2, <2>4
<1>5. CASE RecvRead \/ RecvRelease \/ RecvReturn
  <2>1. UNCHANGED <<write_meta, read_meta, msg, spc, sent, sval>>
    BY <1>5 DEF RecvRead, RecvRelease, RecvReturn, sender
  <2>2. Delivered' = Delivered
    BY <1>5 DEF RecvRead, RecvRelease, RecvReturn, Delivered
  <2> QED
    BY <1>3, <2>1, <2>2 DEF SlotMsg
<1>6. ASSUME UNCHANGED <<write_meta, read_meta, msg, got>>,
             (spc # "s_write" /\ spc' # "s_write") \/ UNCHANGED <<spc, sent, sval>>,
             \/ /\ rpc \notin {"r_read", "r_release", "r_ok"}
                /\ rpc' \notin {"r_read", "r_release", "r_ok"}
             \/ UNCHANGED <<rpc, read, rval>>
      PROVE  UNCHANGED Channel!vars
  <2>1. Delivered' = Delivered
    BY <1>6 DEF Delivered
  <2>2. \A i \in Slots : SlotMsg(i)' = SlotMsg(i)
    BY <1>6 DEF SlotMsg
  <2> QED
    BY <1>3, <1>6, <2>1, <2>2
<1>7. ASSUME NEW m \in Messages, SendCall(m) PROVE UNCHANGED Channel!vars
  BY <1>6, <1>7 DEF SendCall, receiver
<1>8. CASE SendLoadLap /\ spc' # "s_write"
  BY <1>6, <1>8 DEF SendLoadLap, receiver
<1>9. CASE RecvLoadLap /\ rpc' # "r_read"
  BY <1>6, <1>9 DEF RecvLoadLap, sender
<1>10. CASE SendLoadClosed \/ SendRecheck \/ SendPublish \/ SendReturn \/ SendRetry
  BY <1>6, <1>10
     DEF SendLoadClosed, SendRecheck, SendPublish, SendReturn, SendRetry, receiver
<1>11. CASE RecvCall \/ RecvRecheck \/ RecvRetry \/ Close
  BY <1>6, <1>11 DEF RecvCall, RecvRecheck, RecvRetry, Close, sender, receiver
<1>12. CASE UNCHANGED vars
  BY <1>6, <1>12 DEF vars, sender, receiver
<1> QED
  BY <1>1, <1>2, <1>4, <1>5, <1>7, <1>8, <1>9, <1>10, <1>11, <1>12
     DEF Next, SenderStep, ReceiverStep

\* A new ring is an empty channel.
LEMMA ChannelInit == Init => Channel!Init
<1> SUFFICES ASSUME Init PROVE Channel!Init
  OBVIOUS
<1>1. PendingSeq
  BY ChannelInvInit, PendingType
<1>2. Count = 0
  BY DEF Init, Count, After
<1> QED
  BY <1>1, <1>2 DEF Init, Channel!Init, Delivered, PendingSeq

\* The ring of the SPSC queue implements the first-in first-out channel, for any
\* messages and any capacity, across every wrap of the laps and after a close.
THEOREM ChannelImplemented == Spec => ImplementsChannel
BY ChannelInit, ChannelStep, ChannelInvariance, PTL DEF Spec, ImplementsChannel, Channel!Spec

-----------------------------------------------------------------------------
(* Full and Empty                                                          *)

\* A sender that finds its element a lap behind, twice, has filled the ring, or the
\* receiver has still to leave that element.
LEMMA FullIsHonest ==
  ASSUME ChannelInv, ~Writing, write_meta.lap > lap[write_meta.idx]
  PROVE  Len(Pending) = Capacity \/ (Reading /\ read.idx = write_meta.idx)
<1> DEFINE i == write_meta.idx
<1>1. ElementPhase(i) /\ NextWrite(i) = write_meta.lap
  BY MetaTypes DEF ChannelInv, RingInv, NextWrite
<1>2. BeingRead(i) \/ NextWrite(i) = After(NextRead(i), 1)
  BY <1>1, MetaTypes DEF ChannelInv, ElementPhase, BeingWritten
<1>3. NextWrite(i) = After(NextRead(i), 1) => Count = Capacity
  BY <1>1, MetaTypes DEF ChannelInv, MetasClose, NextRead, Count, After
<1> QED
  BY <1>2, <1>3, PendingType DEF PendingSeq, BeingRead

\* A receiver that finds its element a lap behind has emptied the ring, or the sender
\* has still to leave that element.
LEMMA EmptyIsHonest ==
  ASSUME ChannelInv, ~Reading, read_meta.lap > lap[read_meta.idx]
  PROVE  Pending = <<>> \/ (Writing /\ sent.idx = read_meta.idx)
<1> DEFINE i == read_meta.idx
<1>1. ElementPhase(i) /\ NextRead(i) = read_meta.lap
  BY MetaTypes DEF ChannelInv, RingInv, NextRead
<1>2. BeingWritten(i) \/ NextRead(i) = After(NextWrite(i), 1)
  BY <1>1, MetaTypes DEF ChannelInv, ElementPhase, BeingRead
<1>3. NextRead(i) = After(NextWrite(i), 1) => Count = 0
  BY <1>1, MetaTypes DEF ChannelInv, MetasClose, NextWrite, Count, After
<1>4. Count = 0 => Pending = <<>>
  BY PendingType DEF PendingSeq
<1> QED
  BY <1>2, <1>3, <1>4 DEF BeingWritten

\* For any capacity, and across every wrap: Full only of a full channel or one whose
\* next element is still being read, Empty only of an empty one or one whose head
\* is still being written.
THEOREM FailuresHonest == Spec => FailuresAreHonest
<1>1. ChannelInv /\ [Next]_vars =>
        [/\ spc # "s_full" /\ spc' = "s_full" =>
              Len(Pending) = Capacity \/ (Reading /\ read.idx = write_meta.idx)
         /\ rpc # "r_empty" /\ rpc' = "r_empty" =>
              Pending = <<>> \/ (Writing /\ sent.idx = read_meta.idx)]_vars
  <2> SUFFICES ASSUME ChannelInv, Next
               PROVE  /\ spc # "s_full" /\ spc' = "s_full" =>
                           Len(Pending) = Capacity \/ (Reading /\ read.idx = write_meta.idx)
                      /\ rpc # "r_empty" /\ rpc' = "r_empty" =>
                           Pending = <<>> \/ (Writing /\ sent.idx = read_meta.idx)
    OBVIOUS
  <2>1. /\ spc # "s_full" /\ spc' = "s_full" =>
             ~Writing /\ write_meta.lap > lap[write_meta.idx]
        /\ rpc # "r_empty" /\ rpc' = "r_empty" =>
             ~Reading /\ read_meta.lap > lap[read_meta.idx]
    BY DEF Next, SenderStep, ReceiverStep, SendCall, SendLoadClosed, SendLoadLap,
       SendRecheck, SendWrite, SendPublish, SendReturn, SendRetry, RecvCall, RecvLoadLap,
       RecvRecheck, RecvRead, RecvRelease, RecvReturn, RecvRetry, Close, Writing, Reading,
       sender, receiver
  <2> QED
    BY <2>1, FullIsHonest, EmptyIsHonest
<1> QED
  BY <1>1, ChannelInvariance, PTL DEF Spec, FailuresAreHonest

-----------------------------------------------------------------------------
(* The blocking queue                                                      *)

\* The wakers once more, with what is proved about them.
P == INSTANCE Wakers_proofs WITH Senders <- {"sender"}, Receivers <- {"receiver"}

-----------------------------------------------------------------------------
(* Over the ring                                                           *)

\* A step of a blocking or a try call, or of a close, is a step of the ring or
\* leaves the ring alone.
LEMMA RingStepOrStutter == [BoundedNext]_bvars => [Next]_vars
<1> SUFFICES ASSUME [BoundedNext]_bvars PROVE [Next]_vars
  OBVIOUS
<1>1. ASSUME NEW m \in Messages, CallSend(m) PROVE Next
  BY <1>1 DEF CallSend, Next
<1>2. CASE SenderRuns
  BY <1>2 DEF SenderRuns, SendSelect, SendOk, SendError, SendWait, Next, SenderStep
<1>3. CASE CallRecv \/ ReceiverRuns
  BY <1>3
     DEF CallRecv, ReceiverRuns, RecvSelect, RecvOk, RecvError, RecvWait, Next,
         ReceiverStep
<1>4. ASSUME NEW c \in Closers, CallClose(c) \/ CloseWakers(c) PROVE [Next]_vars
  BY <1>4 DEF CallClose, CloseWakers, Next
<1>5. CASE SpuriousWake("sender") \/ SpuriousWake("receiver")
  BY <1>5 DEF SpuriousWake
<1>6. CASE UNCHANGED bvars
  BY <1>6 DEF bvars
<1> QED
  BY <1>1, <1>2, <1>3, <1>4, <1>5, <1>6 DEF BoundedNext

\* The blocking queue implements the lock-free one.
LEMMA RingImplemented == BoundedSpec => Spec
<1>1. BoundedInit => Init
  BY DEF BoundedInit
<1> QED
  BY <1>1, RingStepOrStutter, PTL DEF BoundedSpec, Spec

\* So the sender and the receiver are never inside the same element, whatever
\* blocks, wakes and closes, and however often the laps have wrapped.
THEOREM BlockingExclusion == BoundedSpec => []ElementExclusive
BY RingImplemented, Exclusion, PTL

\* Nor does it give a message twice, out of order or not at all, and what a call that
\* fails, or goes to sleep, has found is what it says.
THEOREM BlockingChannel == BoundedSpec => ImplementsChannel /\ FailuresAreHonest
BY RingImplemented, ChannelImplemented, FailuresHonest, PTL

-----------------------------------------------------------------------------
(* Over the wakers                                                         *)

\* W and P stand for the same wakers: they begin alike,
LEMMA SameInit == W!WakerInit <=> P!WakerInit
BY DEF W!WakerInit, P!WakerInit, W!Users, P!Users, W!Sides, P!Sides

\* take the same steps,
LEMMA SameNext == W!WakerNext <=> P!WakerNext
BY DEF W!WakerNext, P!WakerNext, W!wakers, P!wakers, W!Users, P!Users, W!Side,
       P!Side, W!Other, P!Other, W!GuardFree, P!GuardFree, W!Move, P!Move, W!Begin,
       P!Begin, W!End, P!End, W!Fail, P!Fail, W!Disconnected, P!Disconnected,
       W!RetryIsClose, P!RetryIsClose, W!RetryLap, P!RetryLap, W!Register,
       P!Register, W!Enter, P!Enter, W!RegisterPush, P!RegisterPush, W!SleepIsClose,
       P!SleepIsClose, W!SleepLap, P!SleepLap, W!Park, P!Park, W!FutexWait,
       P!FutexWait, W!SpuriousWake, P!SpuriousWake, W!Lower, P!Lower, W!IsEmpty,
       P!IsEmpty, W!Leave, P!Leave, W!Unregister, P!Unregister, W!Wait, P!Wait,
       W!Wake, P!Wake, W!LookForWaiters, P!LookForWaiters, W!Notify, P!Notify,
       W!WakeOne, P!WakeOne, W!BeginClose, P!BeginClose, W!WakeAll, P!WakeAll,
       W!CloseWaker, P!CloseWaker, W!CloseWakers, P!CloseWakers, W!Range, P!Range,
       W!RemoveAt, P!RemoveAt

\* keep the same registry,
LEMMA SameRegistry == W!RegistrySound <=> P!RegistrySound
BY DEF W!RegistrySound, P!RegistrySound, W!WakersTypeOK, P!WakersTypeOK, W!Users,
       P!Users, W!Sides, P!Sides, W!Side, P!Side, W!WaitPCs, P!WaitPCs, W!UserPCs,
       P!UserPCs, W!CloserPCs, P!CloserPCs, W!Modes, P!Modes, W!Range, P!Range,
       W!IsInjective, P!IsInjective

\* and the same flag.
LEMMA SameFlag == W!EmptyFlagExact <=> P!EmptyFlagExact
BY DEF W!EmptyFlagExact, P!EmptyFlagExact, W!Sides, P!Sides

\* A step of the queue is a step of the wakers or leaves the wakers alone.
LEMMA WakersStepOrStutter == RingInv /\ [BoundedNext]_bvars => [P!WakerNext]_(P!wvars)
<1> SUFFICES ASSUME RingInv, [BoundedNext]_bvars PROVE W!WakerNext \/ UNCHANGED wvars
  BY SameNext DEF wvars, P!wvars, P!wakers
<1>1. ASSUME NEW t \in {"sender", "receiver"}, NEW m \in {write_meta, read_meta},
             \/ W!Begin(t) \/ W!Fail(t) \/ W!Disconnected(t) \/ W!SpuriousWake(t)
             \/ W!WakeOne(t) \/ W!Wait(t, is_close, Ready(m))
      PROVE  W!WakerNext
  <2>1. t \in W!Users /\ is_close \in BOOLEAN /\ Ready(m) \in BOOLEAN
    BY DEF W!Users, is_close, Ready, RingInv, Types, TypeOK
  <2> QED
    BY <1>1, <2>1, Zenon DEF W!WakerNext
<1>2. ASSUME NEW c \in Closers, W!BeginClose(c) \/ W!CloseWakers(c) PROVE W!WakerNext
  BY <1>2 DEF W!WakerNext
<1>3. CASE (\E m \in Messages : CallSend(m)) \/ SenderRuns \/ SpuriousWake("sender")
  BY <1>1, <1>3
     DEF CallSend, SenderRuns, SendSelect, SendOk, SendError, SendWait, SpuriousWake
<1>4. CASE CallRecv \/ ReceiverRuns \/ SpuriousWake("receiver")
  BY <1>1, <1>4
     DEF CallRecv, ReceiverRuns, RecvSelect, RecvOk, RecvError, RecvWait, SpuriousWake
<1>5. CASE \E c \in Closers : CallClose(c) \/ CloseWakers(c)
  BY <1>2, <1>5 DEF CallClose, CloseWakers
<1> QED
  BY <1>3, <1>4, <1>5 DEF BoundedNext, bvars

\* Whatever the ring answers, the wakers behave as they do over any queue.
LEMMA WakersImplemented == BoundedSpec => P!WakerSpec
<1>1. BoundedInit => P!WakerInit
  BY SameInit DEF BoundedInit
<1>2. BoundedSpec => []RingInv
  BY RingImplemented, RingInit, RingStep, PTL DEF Spec
<1> QED
  BY <1>1, <1>2, WakersStepOrStutter, PTL DEF BoundedSpec, P!WakerSpec

\* No notify and no close of a bounded SPSC queue follows a pointer to a Waiter
\* whose call has returned, and the flag that is read without the lock says
\* whether anybody waits.
THEOREM WakersBlocking == BoundedSpec => [](W!RegistrySound /\ W!EmptyFlagExact)
BY WakersImplemented, P!RegistryKept, P!FlagKept, SameRegistry, SameFlag, PTL

=============================================================================
