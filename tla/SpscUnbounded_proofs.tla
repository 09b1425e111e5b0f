------------------------ MODULE SpscUnbounded_proofs ------------------------
(***************************************************************************)
(* The theorems about the unbounded SPSC queue.                            *)
(*                                                                         *)
(* Until somebody calls close, the sender and the receiver touch no node   *)
(* that was freed, and neither fails.  The receiver frees what is behind   *)
(* head; the sender works at tail or, while it fills a node it has just    *)
(* linked, in front of it.  Head gets ahead of tail only in that phase, in *)
(* which the sender no longer looks at tail.                               *)
(*                                                                         *)
(* Closed or not, the nodes are one first-in first-out channel, whose      *)
(* messages are those of the nodes from head on, one node after the other. *)
(* What the steps do to that sequence rests on what FlattenSeq does, which *)
(* is proved by an induction over the number of nodes.                     *)
(***************************************************************************)
EXTENDS SpscUnbounded, TLAPS, SequenceTheorems, FiniteSetTheorems

\* The sender has linked a node and has not yet moved tail on.
Linking == spc \in {"s_fill", "s_fill_publish", "s_fill_wake", "s_tail"}

\* What each call holds on to while it is under way.
Held ==
  /\ spc # "idle" => sval \in Messages
  /\ rpc = "r_read" => rval \in Messages
  /\ Linking => fresh # Null
  /\ rpc = "r_free" => old \in 1 .. head - 1

\* Nodes are numbered in the order of the list, and only the receiver leaves
\* nodes: those it has freed are behind head.
Chained ==
  /\ head <= nodes /\ tail <= nodes /\ fresh <= nodes
  /\ \A c \in Closers : cnode[c] <= nodes
  /\ \A n \in Nodes : next[n] # Null => n < next[n] /\ next[n] <= nodes
  /\ freed \subseteq 1 .. head - 1

\* A node is empty until the sender has filled it.
StartsEmpty ==
  /\ \A n \in Nodes : n > nodes => queue[n] = <<>>
  /\ spc = "s_fill" => queue[fresh] = <<>>

\* Without a close the list ends at tail, or at the node that is being filled.
\* An exchange that fails for no reason leaves a null tail, and a sender that
\* gets no further than that.
Untroubled ==
  closes = 0 =>
    /\ \A c \in Closers : cpc[c] = "idle"
    /\ tail # Null =>
         /\ ~misused
         /\ nodes = IF Linking THEN tail + 1 ELSE tail
         /\ Linking => fresh = nodes
    /\ tail = Null => spc \in {"idle", "s_try", "s_refused"}

ListInv == TypeOK /\ Held /\ Chained /\ StartsEmpty /\ Untroubled

-----------------------------------------------------------------------------
(* The shape of the list                                                   *)

\* What the two ends of a node's queue do to it.
LEMMA QueueEnds ==
  ASSUME NEW s \in Seq(Messages)
  PROVE  /\ Len(s) \in Nat
         /\ \A m \in Messages :
              /\ Append(s, m) \in Seq(Messages) /\ Append(s, m) # <<>>
              /\ Len(Append(s, m)) = Len(s) + 1
         /\ Len(s) > 0 => /\ s # <<>>
                          /\ Head(s) \in Messages
                          /\ Tail(s) \in Seq(Messages) /\ Len(Tail(s)) = Len(s) - 1
  OBVIOUS

\* Nodes and their successors are numbers.
LEMMA Numbered ==
  TypeOK => /\ head \in Nat /\ tail \in Nat /\ fresh \in Nat /\ nodes \in Nat
            /\ \A n \in Nodes : next[n] \in Nat
            /\ \A c \in Closers : cnode[c] \in Nat
<1> SUFFICES ASSUME TypeOK
             PROVE  /\ head \in Nat /\ tail \in Nat /\ fresh \in Nat /\ nodes \in Nat
                    /\ \A n \in Nodes : next[n] \in Nat
                    /\ \A c \in Closers : cnode[c] \in Nat
  OBVIOUS
<1>1. Nodes \cup {Null} \subseteq Nat
  BY BoundAssumption DEF Nodes, Null
<1>2. ASSUME NEW c \in Closers PROVE cnode[c] \in Nat
  BY <1>1 DEF TypeOK
<1> QED
  BY <1>1, <1>2 DEF TypeOK

\* Every step of the sender keeps the invariant.
LEMMA SenderKeeps == ListInv /\ SenderRuns => ListInv'
<1> SUFFICES ASSUME ListInv, Alive(SenderNodes), SenderStep, misused' = misused
             PROVE  ListInv'
  BY DEF SenderRuns
<1> USE BoundAssumption, CapAssumption
<1> USE DEF ListInv, TypeOK, Held, Chained, StartsEmpty, Untroubled, Linking,
            list, sender, receiver, closer, Alive, SenderNodes, Null
<1>0. /\ Nodes \subseteq Nat /\ MaxNodes \in Nat
      /\ \A n \in Nat : n \in Nodes <=> 1 <= n /\ n <= MaxNodes
  BY DEF Nodes
<1>1. CASE SendLoadClosed
  BY <1>0, <1>1 DEF SendLoadClosed, SenderPCs
<1>2. CASE SendSelect
  <2>1. CASE spc' = "s_publish"
    <3>1. tail \in Nodes /\ sval \in Messages /\ queue[tail] \in Seq(Messages)
      BY <1>2 DEF SendSelect
    <3>2. queue' = [queue EXCEPT ![tail] = Append(@, sval)] /\ Occupied(tail) < NodeCap
      BY <1>2, <2>1 DEF SendSelect
    <3>3. Len(queue[tail]) + 1 <= NodeCap
      BY <3>1, <3>2, QueueEnds DEF Occupied
    <3>4. queue' \in [Nodes -> Seq(Messages)] /\ \A n \in Nodes : Len(queue'[n]) <= NodeCap
      BY <3>1, <3>2, <3>3, QueueEnds
    <3>5. \A n \in Nodes : n > nodes => queue'[n] = <<>>
      BY <1>0, <3>1, <3>2
    <3> QED
      BY <1>0, <1>2, <2>1, <3>4, <3>5 DEF SendSelect, SenderPCs
  <2>2. CASE spc' = "s_close"
    BY <1>0, <1>2, <2>2 DEF SendSelect, SenderPCs
  <2> QED
    BY <1>2, <2>1, <2>2 DEF SendSelect
<1>3. CASE SendPublish
  BY <1>0, <1>3 DEF SendPublish, SenderPCs
<1>4. CASE SendWake
  BY <1>0, <1>4 DEF SendWake, WakeReader, SenderPCs, ReceiverPCs
<1>5. CASE SendClose
  BY <1>0, <1>5 DEF SendClose, SenderPCs
<1>6. CASE SendLink
  <2>1. tail \in Nodes /\ spc = "s_link"
    BY <1>6 DEF SendLink
  <2>2. CASE next[tail] = Null /\ nodes < MaxNodes /\ nodes' = nodes + 1
             /\ fresh' = nodes + 1 /\ next' = [next EXCEPT ![tail] = nodes + 1]
             /\ spc' = "s_fill" /\ tail' = tail
    <3>1. nodes + 1 \in Nodes /\ queue[nodes + 1] = <<>>
      BY <1>0, <2>2
    <3>2. ASSUME NEW n \in Nodes, next'[n] # Null
          PROVE  n < next'[n] /\ next'[n] <= nodes'
      <4>1. nodes \in Nat /\ n \in Nat /\ tail <= nodes /\ nodes' = nodes + 1
        BY <1>0, <2>2
      <4>2. CASE n = tail
        BY <4>1, <4>2, <2>2
      <4>3. CASE n # tail
        <5>1. next'[n] = next[n] /\ next[n] \in Nat /\ n < next[n] /\ next[n] <= nodes
          BY <1>0, <2>1, <2>2, <3>2, <4>3
        <5> QED
          BY <4>1, <5>1
      <4> QED
        BY <4>2, <4>3
    <3>3. Held' /\ StartsEmpty'
      BY <1>0, <1>6, <2>1, <2>2, <3>1 DEF SendLink
    <3>4. Chained'
      <4>1. nodes \in Nat /\ nodes' = nodes + 1 /\ head \in Nat /\ tail \in Nat
        BY <1>0, <2>2, <2>1
      <4>2. /\ head' <= nodes' /\ tail' <= nodes' /\ fresh' <= nodes'
            /\ freed' \subseteq 1 .. head' - 1
        BY <1>6, <2>2, <4>1 DEF SendLink
      <4>3. ASSUME NEW c \in Closers PROVE cnode'[c] <= nodes'
        <5>1. cnode[c] \in Nat /\ cnode[c] <= nodes
          BY Numbered
        <5>2. cnode'[c] = cnode[c]
          BY <1>6 DEF SendLink
        <5> QED
          BY <4>1, <5>1, <5>2
      <4> QED
        BY <3>2, <4>2, <4>3
    <3>5. Untroubled'
      BY <1>0, <1>6, <2>1, <2>2 DEF SendLink
    <3> QED
      BY <1>0, <1>6, <2>1, <2>2, <3>1, <3>3, <3>4, <3>5 DEF SendLink, SenderPCs
  <2>3. CASE tail' = next[tail] /\ spc' = "s_refused"
             /\ nodes' = nodes /\ fresh' = fresh /\ next' = next
    <3>1. tail' \in Nodes \cup {Null} /\ tail' <= nodes
      BY <1>0, <2>1, <2>3
    <3>2. closes = 0 => tail' = Null
      BY <1>0, <2>1, <2>3
    <3> QED
      BY <1>0, <1>6, <2>1, <2>3, <3>1, <3>2 DEF SendLink, SenderPCs
  <2> QED
    BY <1>6, <2>2, <2>3 DEF SendLink
<1>7. CASE SendFill
  <2>1. fresh \in Nodes /\ sval \in Messages /\ queue[fresh] = <<>> /\ spc = "s_fill"
    BY <1>7 DEF SendFill
  <2>2. Append(queue[fresh], sval) \in Seq(Messages) /\ Len(Append(queue[fresh], sval)) = 1
    BY <2>1
  <2>3. queue' \in [Nodes -> Seq(Messages)] /\ \A n \in Nodes : Len(queue'[n]) <= NodeCap
    BY <1>7, <2>1, <2>2 DEF SendFill
  <2>4. \A n \in Nodes : n > nodes => queue'[n] = <<>>
    BY <1>0, <1>7, <2>1 DEF SendFill
  <2> QED
    BY <1>0, <1>7, <2>1, <2>3, <2>4 DEF SendFill, SenderPCs
<1>8. CASE SendFillPublish
  BY <1>0, <1>8 DEF SendFillPublish, SenderPCs
<1>9. CASE SendFillWake
  BY <1>0, <1>9 DEF SendFillWake, WakeReader, SenderPCs, ReceiverPCs
<1>10. CASE SendTail
  BY <1>0, <1>10 DEF SendTail, SenderPCs
<1>11. CASE SendRefused
  BY <1>0, <1>11 DEF SendRefused, SenderPCs
<1> QED
  BY <1>1, <1>2, <1>3, <1>4, <1>5, <1>6, <1>7, <1>8, <1>9, <1>10, <1>11 DEF SenderStep

\* The receiver goes on to another point of recv and leaves everything else as it is.
LEMMA ReceiverMoves ==
  /\ ListInv
  /\ rpc' \in ReceiverPCs \ {"r_read", "r_free"} /\ second' \in BOOLEAN
  /\ UNCHANGED <<list, queue, qclosed, rval, old, got, sender, closer, misused>>
  => ListInv'
<1> SUFFICES ASSUME ListInv,
                    rpc' \in ReceiverPCs \ {"r_read", "r_free"}, second' \in BOOLEAN,
                    UNCHANGED <<list, queue, qclosed, rval, old, got, sender, closer,
                                misused>>
             PROVE  ListInv'
  OBVIOUS
<1> USE DEF ListInv, list, sender, closer
<1>1. TypeOK'
  BY DEF TypeOK
<1>2. Held'
  BY DEF Held, Linking
<1>3. Chained'
  BY DEF Chained
<1>4. StartsEmpty'
  BY DEF StartsEmpty
<1>5. Untroubled'
  BY DEF Untroubled, Linking
<1> QED
  BY <1>1, <1>2, <1>3, <1>4, <1>5

\* Every step of the receiver keeps the invariant.
LEMMA ReceiverKeeps == ListInv /\ ReceiverRuns => ListInv'
<1> SUFFICES ASSUME ListInv, Alive(ReceiverNodes), ReceiverStep, misused' = misused
             PROVE  ListInv'
  BY DEF ReceiverRuns
<1> USE BoundAssumption, CapAssumption
<1> USE DEF list, sender, receiver, closer
<1>0. /\ Nodes \subseteq Nat /\ MaxNodes \in Nat
      /\ \A n \in Nat : n \in Nodes <=> 1 <= n /\ n <= MaxNodes
  BY DEF Nodes
<1>1. CASE RecvSelect
  <2>1. CASE ~Receivable(head)
    BY <1>1, <2>1, ReceiverMoves DEF RecvSelect, ReceiverPCs, ListInv, TypeOK
  <2>2. CASE Receivable(head)
    <3>1. Len(queue[head]) > 0
      BY <2>2, QueueEnds DEF Receivable, ListInv, TypeOK
    <3>2. /\ queue[head] # <<>> /\ Head(queue[head]) \in Messages
          /\ Tail(queue[head]) \in Seq(Messages)
          /\ Len(Tail(queue[head])) = Len(queue[head]) - 1 /\ Len(queue[head]) \in Nat
      BY <3>1, QueueEnds DEF ListInv, TypeOK
    <3>3. queue' = [queue EXCEPT ![head] = Tail(@)] /\ rval' = Head(queue[head])
          /\ rpc' = "r_read"
      BY <1>1, <2>2 DEF RecvSelect
    <3>4. queue' \in [Nodes -> Seq(Messages)] /\ \A n \in Nodes : Len(queue'[n]) <= NodeCap
      BY <3>2, <3>3 DEF ListInv, TypeOK
    <3>5. \A n \in Nodes : queue[n] = <<>> => queue'[n] = <<>>
      BY <3>2, <3>3 DEF ListInv, TypeOK
    <3>6. TypeOK'
      BY <1>1, <3>2, <3>3, <3>4 DEF RecvSelect, ReceiverPCs, ListInv, TypeOK
    <3>7. Held' /\ StartsEmpty'
      <4>1. fresh \in Nodes \/ fresh = Null
        BY DEF ListInv, TypeOK
      <4>2. Held'
        BY <1>1, <3>2, <3>3 DEF RecvSelect, ListInv, Held, Linking
      <4>3. StartsEmpty'
        BY <1>1, <3>3, <3>5, <4>1 DEF RecvSelect, ListInv, StartsEmpty, Held, Linking
      <4> QED
        BY <4>2, <4>3
    <3>8. Chained' /\ Untroubled'
      BY <1>1 DEF RecvSelect, ListInv, Chained, Untroubled, Linking
    <3> QED
      BY <3>6, <3>7, <3>8 DEF ListInv
  <2> QED
    BY <2>1, <2>2
<1>2. CASE RecvLook
  BY <1>2, ReceiverMoves DEF RecvLook, ReceiverPCs, ListInv, TypeOK
<1>3. CASE RecvPark
  BY <1>3, ReceiverMoves DEF RecvPark, ReceiverPCs, ListInv, TypeOK
<1>4. CASE RecvReleased
  BY <1>4, ReceiverMoves DEF RecvReleased, ReceiverPCs, ListInv, TypeOK
<1>5. CASE RecvRelease
  <2>1. Append(got, rval) \in Seq(Messages)
    BY <1>5, QueueEnds DEF RecvRelease, ListInv, TypeOK, Held
  <2>2. TypeOK'
    BY <1>5, <2>1 DEF RecvRelease, ReceiverPCs, ListInv, TypeOK
  <2>3. Held' /\ StartsEmpty'
    BY <1>5 DEF RecvRelease, ListInv, Held, StartsEmpty, Linking
  <2>4. Chained' /\ Untroubled'
    BY <1>5 DEF RecvRelease, ListInv, Chained, Untroubled, Linking
  <2> QED
    BY <2>2, <2>3, <2>4 DEF ListInv
<1>6. CASE RecvErr
  BY <1>6, ReceiverMoves DEF RecvErr, ReceiverPCs
<1>7. CASE RecvNext
  <2>1. head' \in Nodes /\ head < head' /\ head' <= nodes /\ head \in Nodes /\ old' = head
    BY <1>7 DEF RecvNext, ListInv, TypeOK, Chained, Null
  <2>2. freed \subseteq 1 .. head - 1
    BY DEF ListInv, Chained
  <2>3. freed' \subseteq 1 .. head' - 1 /\ old' \in 1 .. head' - 1
    BY <1>0, <1>7, <2>1, <2>2 DEF RecvNext
  <2>4. TypeOK'
    BY <1>7, <2>1 DEF RecvNext, ReceiverPCs, ListInv, TypeOK
  <2>5. Held' /\ StartsEmpty'
    BY <1>7, <2>3 DEF RecvNext, ListInv, Held, StartsEmpty, Linking
  <2>6. Chained'
    BY <1>7, <2>1, <2>3 DEF RecvNext, ListInv, Chained
  <2>7. Untroubled'
    BY <1>7 DEF RecvNext, ListInv, Untroubled, Linking
  <2> QED
    BY <2>4, <2>5, <2>6, <2>7 DEF ListInv
<1>8. CASE RecvFree
  <2>1. old \in Nodes /\ old \in 1 .. head - 1
    BY <1>0, <1>8 DEF RecvFree, ListInv, TypeOK, Held, Chained
  <2>2. TypeOK'
    BY <1>8, <2>1 DEF RecvFree, ReceiverPCs, ListInv, TypeOK
  <2>3. Held' /\ StartsEmpty'
    BY <1>8 DEF RecvFree, ListInv, Held, StartsEmpty, Linking
  <2>4. Chained'
    BY <1>8, <2>1 DEF RecvFree, ListInv, Chained
  <2>5. Untroubled'
    BY <1>8 DEF RecvFree, ListInv, Untroubled, Linking
  <2> QED
    BY <2>2, <2>3, <2>4, <2>5 DEF ListInv
<1> QED
  BY <1>1, <1>2, <1>3, <1>4, <1>5, <1>6, <1>7, <1>8 DEF ReceiverStep

\* Every step of a closer keeps the invariant.
LEMMA CloserKeeps ==
  ASSUME NEW c \in Closers
  PROVE  ListInv /\ CloserRuns(c) => ListInv'
<1> SUFFICES ASSUME ListInv, Alive(CloserNodes(c)), CloserStep(c), misused' = misused
             PROVE  ListInv'
  BY DEF CloserRuns
<1> USE BoundAssumption
<1> USE DEF ListInv, TypeOK, Held, Chained, StartsEmpty, Untroubled, Linking,
            list, sender, receiver, closer, Null, CloserAt
<1>0. /\ Nodes \subseteq Nat /\ MaxNodes \in Nat
      /\ \A n \in Nat : n \in Nodes <=> 1 <= n /\ n <= MaxNodes
  BY DEF Nodes
<1>1. closes # 0 /\ closes' = closes
  BY DEF CloserStep, CloseLoadTail, CloseLink, CloseFlag, CloseLoadHead, CloseNode,
         CloseLoadNext, CloseNextNode
<1>2. CASE CloseLoadTail(c)
  BY <1>1, <1>2 DEF CloseLoadTail, CloserPCs
<1>3. CASE CloseLink(c)
  <2>1. cnode[c] \in Nodes
    BY <1>3 DEF CloseLink, Alive, CloserNodes
  <2>2. CASE nodes' = nodes /\ next' = next /\ qclosed' = qclosed
             /\ CloserAt(c, "c_link", "c_tail", Null)
    <3>1. ASSUME NEW d \in Closers PROVE cnode'[d] <= nodes'
      BY <2>2, Numbered
    <3> QED
      BY <1>1, <1>3, <2>2, <3>1 DEF CloseLink, CloserPCs
  <2>3. CASE next[cnode[c]] = Null /\ nodes < MaxNodes /\ nodes' = nodes + 1
             /\ next' = [next EXCEPT ![cnode[c]] = nodes + 1]
             /\ qclosed' = [qclosed EXCEPT ![nodes + 1] = TRUE]
             /\ CloserAt(c, "c_link", "c_flag", Null)
    <3>1. nodes \in Nat /\ nodes + 1 \in Nodes /\ nodes' = nodes + 1
      BY <1>0, <2>3
    <3>2. ASSUME NEW n \in Nodes, next'[n] # Null
          PROVE  n < next'[n] /\ next'[n] <= nodes'
      <4>1. CASE n = cnode[c]
        BY <1>0, <2>1, <2>3, <3>1, <4>1
      <4>2. CASE n # cnode[c]
        <5>1. next'[n] = next[n] /\ next[n] \in Nat /\ n < next[n] /\ next[n] <= nodes
          BY <1>0, <2>1, <2>3, <3>2, <4>2
        <5> QED
          BY <3>1, <5>1
      <4> QED
        BY <4>1, <4>2
    <3>3. ASSUME NEW d \in Closers PROVE cnode'[d] <= nodes'
      <4>1. cnode[d] \in Nat /\ cnode[d] <= nodes
        BY Numbered
      <4>2. cnode'[d] \in {cnode[d], 0}
        BY <2>3
      <4> QED
        BY <3>1, <4>1, <4>2
    <3>4. head' <= nodes' /\ tail' <= nodes' /\ fresh' <= nodes'
      <4>1. head \in Nat /\ tail \in Nat /\ fresh \in Nat
        BY <1>0
      <4> QED
        BY <1>3, <3>1, <4>1 DEF CloseLink
    <3>5. TypeOK'
      BY <1>3, <2>1, <2>3, <3>1 DEF CloseLink, CloserPCs
    <3>6. Chained'
      BY <1>3, <3>2, <3>3, <3>4 DEF CloseLink
    <3>7. Held'
      BY <1>3 DEF CloseLink
    <3>8. StartsEmpty'
      BY <1>0, <1>3, <3>1 DEF CloseLink
    <3> QED
      BY <1>1, <3>5, <3>6, <3>7, <3>8
  <2> QED
    BY <1>3, <2>2, <2>3 DEF CloseLink
<1>4. CASE CloseFlag(c)
  BY <1>0, <1>1, <1>4 DEF CloseFlag, CloserPCs
<1>5. CASE CloseLoadHead(c)
  BY <1>1, <1>5 DEF CloseLoadHead, CloserPCs
<1>6. CASE CloseNode(c)
  <2>1. cpc' = [cpc EXCEPT ![c] = "c_next"] /\ cnode' = [cnode EXCEPT ![c] = @]
        /\ qclosed' = [qclosed EXCEPT ![cnode[c]] = TRUE]
    BY <1>6 DEF CloseNode
  <2>2. TypeOK'
    <3>1. qclosed' \in [Nodes -> BOOLEAN] /\ cpc' \in [Closers -> CloserPCs] /\ cnode' = cnode
      BY <2>1 DEF CloserPCs
    <3> QED
      BY <1>6, <3>1 DEF CloseNode
  <2>3. Held' /\ StartsEmpty'
    BY <1>6 DEF CloseNode
  <2>4. Chained'
    BY <1>6, <2>1 DEF CloseNode
  <2> QED
    BY <1>1, <2>2, <2>3, <2>4
<1>7. CASE CloseLoadNext(c)
  <2>1. cnode[c] \in Nodes
    BY <1>7 DEF CloseLoadNext, Alive, CloserNodes
  <2>2. next[cnode[c]] \in Nodes \cup {Null} /\ next[cnode[c]] <= nodes
    BY <2>1, Numbered
  <2>3. ASSUME NEW d \in Closers PROVE cnode'[d] <= nodes'
    BY <1>7, <2>2 DEF CloseLoadNext
  <2> QED
    BY <1>1, <1>7, <2>2, <2>3 DEF CloseLoadNext, CloserPCs
<1>8. CASE CloseNextNode(c)
  <2>1. ASSUME NEW d \in Closers PROVE cnode'[d] <= nodes'
    BY <1>8, Numbered DEF CloseNextNode
  <2>2. cnode[c] \in Nodes
    BY <1>8 DEF CloseNextNode, Alive, CloserNodes
  <2> QED
    BY <1>1, <1>8, <2>1, <2>2 DEF CloseNextNode, CloserPCs
<1> QED
  BY <1>2, <1>3, <1>4, <1>5, <1>6, <1>7, <1>8 DEF CloserStep

\* Every call keeps the invariant.
LEMMA CallsKeep == ListInv /\ Calls => ListInv'
<1> SUFFICES ASSUME ListInv, Calls PROVE ListInv'
  OBVIOUS
<1> USE BoundAssumption
<1> USE DEF ListInv, TypeOK, Held, Chained, StartsEmpty, Untroubled, Linking,
            list, sender, receiver, closer, Null
<1>0. /\ Nodes \subseteq Nat /\ MaxNodes \in Nat
      /\ \A n \in Nat : n \in Nodes <=> 1 <= n /\ n <= MaxNodes
  BY DEF Nodes
<1>1. ASSUME NEW m \in Messages, SendCall(m), misused' = misused PROVE ListInv'
  BY <1>1 DEF SendCall, SenderPCs
<1>2. ASSUME RecvCall, misused' = misused PROVE ListInv'
  BY <1>2 DEF RecvCall, ReceiverPCs
<1>3. ASSUME NEW c \in Closers, CloseCall(c), misused' = misused PROVE ListInv'
  <2>1. closes' # 0 /\ closes' \in 0 .. MaxCloses
    BY <1>3 DEF CloseCall
  <2> QED
    BY <1>0, <1>3, <2>1 DEF CloseCall, CloserAt, CloserPCs
<1> QED
  BY <1>1, <1>2, <1>3 DEF Calls

\* A thread that touches memory that is not there has had a close before it,
\* or a null tail.
LEMMA MisuseKeeps ==
  /\ ListInv /\ Misuse(SenderNodes) => ListInv'
  /\ \A c \in Closers : ListInv /\ Misuse(CloserNodes(c)) => ListInv'
<1> USE BoundAssumption
<1> USE DEF ListInv, TypeOK, Held, Chained, StartsEmpty, Untroubled, Linking,
            list, sender, receiver, closer, Null, Misuse, Alive
<1>0. Nodes \subseteq Nat
  BY DEF Nodes
<1>1. ASSUME ListInv, Misuse(SenderNodes) PROVE ListInv'
  <2>1. closes = 0 /\ tail # Null => SenderNodes \cap (freed \cup {Null}) = {}
    BY <1>0, <1>1 DEF SenderNodes
  <2> QED
    BY <1>1, <2>1
<1>2. ASSUME NEW c \in Closers, ListInv, Misuse(CloserNodes(c)) PROVE ListInv'
  <2>1. closes = 0 => CloserNodes(c) = {}
    BY <1>2 DEF CloserNodes
  <2> QED
    BY <1>2, <2>1
<1> QED
  BY <1>1, <1>2

\* At first there is one node, and it is empty.
LEMMA ListInit == Init => ListInv
<1> SUFFICES ASSUME Init PROVE ListInv
  OBVIOUS
<1> USE CapAssumption, BoundAssumption DEF Init, Nodes, Null
<1>1. <<>> \in Seq(Messages) /\ Len(<<>>) = 0
  OBVIOUS
<1>2. TypeOK
  <2>1. /\ queue \in [Nodes -> Seq(Messages)] /\ \A n \in Nodes : Len(queue[n]) <= NodeCap
        /\ got \in Seq(Messages)
    BY <1>1
  <2>2. head \in Nodes /\ tail \in Nodes /\ nodes \in Nodes /\ closes \in 0 .. MaxCloses
    OBVIOUS
  <2>3. /\ next \in [Nodes -> Nodes \cup {Null}] /\ qclosed \in [Nodes -> BOOLEAN]
        /\ cpc \in [Closers -> CloserPCs] /\ cnode \in [Closers -> Nodes \cup {Null}]
    BY DEF CloserPCs
  <2> QED
    BY <2>1, <2>2, <2>3 DEF TypeOK, NoMsg, SenderPCs, ReceiverPCs
<1>3. Held /\ Chained /\ StartsEmpty /\ Untroubled
  BY DEF Held, Chained, StartsEmpty, Untroubled, Linking
<1> QED
  BY <1>2, <1>3 DEF ListInv

\* Every step keeps the invariant.
LEMMA ListStep == ListInv /\ [Next]_vars => ListInv'
<1> SUFFICES ASSUME ListInv, [Next]_vars PROVE ListInv'
  OBVIOUS
<1>1. CASE Next
  BY <1>1, SenderKeeps, ReceiverKeeps, CloserKeeps, CallsKeep, MisuseKeeps DEF Next
<1>2. CASE UNCHANGED vars
  BY <1>2 DEF vars, list, sender, receiver, closer, ListInv, TypeOK, Held, Chained,
              StartsEmpty, Untroubled, Linking
<1> QED
  BY <1>1, <1>2

-----------------------------------------------------------------------------
(* No access to freed nodes                                                *)

\* The list keeps its shape: nodes are linked in order, empty at first, and freed
\* only behind head.
THEOREM ListInvariance == Spec => []ListInv
BY ListInit, ListStep, PTL DEF Spec

\* Before any close no thread touches a node that the receiver has freed, unless
\* an exchange of the sender has failed for no reason and made null the tail.
THEOREM NodesAlive == Spec => []SafeUntilClose
<1>1. ListInv => SafeUntilClose
  BY DEF ListInv, Untroubled, TypeOK, SafeUntilClose
<1> QED
  BY <1>1, ListInvariance, PTL

\* Whatever close does, the receiver itself never looks at a node it has freed.
THEOREM ReceiverIsSafe == Spec => [](ReceiverNodes \cap (freed \cup {Null}) = {})
<1>1. ListInv => ReceiverNodes \cap (freed \cup {Null}) = {}
  BY DEF ListInv, Chained, TypeOK, ReceiverNodes, Nodes, Null
<1> QED
  BY <1>1, ListInvariance, PTL

-----------------------------------------------------------------------------
(* Failures                                                                *)

\* The receiver has taken no message from the node yet: the node is in front of
\* head, or the receiver has just come to it.
Unread(n) == n > head \/ (n = head /\ rpc # "r_read" /\ (rpc = "r_free" \/ second))

\* Without a close only the sender closes queues, those of nodes it is leaving.
LeavesClosed ==
  closes = 0 =>
    /\ ~closed
    /\ \A n \in Nodes : n > nodes => ~qclosed[n]
    /\ Linking => ~qclosed[fresh]
    /\ tail # Null => /\ spc # "s_refused"
                      /\ qclosed[tail] => spc = "s_link" \/ Linking

\* Without a close a queue that is closed, or about to be, has been full: a node
\* the receiver has not read yet still holds a message, so that the recv of a
\* second node cannot fail.
ClosedWhenFull ==
  closes = 0 =>
    /\ \A n \in Nodes :
         Unread(n) /\ (qclosed[n] \/ (spc = "s_close" /\ n = tail)) => queue[n] # <<>>
    /\ rpc = "r_last" => qclosed[head]
    /\ rpc = "r_err" => ~second

ErrorInv == ListInv /\ LeavesClosed /\ ClosedWhenFull

\* The sender refuses nothing and closes only a queue that it found full.
LEMMA SenderErrors == ErrorInv /\ SenderRuns => LeavesClosed' /\ ClosedWhenFull'
<1> SUFFICES ASSUME ErrorInv, SenderStep, closes = 0, tail # Null \/ spc = "s_refused"
             PROVE  LeavesClosed' /\ ClosedWhenFull'
  <2>1. SenderStep => closes' = closes
    BY DEF SenderStep, SendLoadClosed, SendSelect, SendPublish, SendWake, SendClose, SendLink,
       SendFill, SendFillPublish, SendFillWake, SendTail, SendRefused, closer
  <2>2. ErrorInv /\ closes = 0 /\ tail = Null /\ SenderRuns => spc = "s_refused"
    <3>1. closes = 0 /\ tail = Null /\ ErrorInv => spc \in {"idle", "s_try", "s_refused"}
      BY DEF ErrorInv, ListInv, Untroubled
    <3>2. spc = "s_try" /\ tail = Null => ~Alive(SenderNodes)
      BY DEF SenderNodes, Alive
    <3>3. spc = "idle" => ~SenderStep
      BY DEF SenderStep, SendLoadClosed, SendSelect, SendPublish, SendWake, SendClose,
         SendLink,
         SendFill, SendFillPublish, SendFillWake, SendTail, SendRefused
    <3> QED
      BY <3>1, <3>2, <3>3 DEF SenderRuns
  <2> QED
    BY <2>1, <2>2 DEF SenderRuns, LeavesClosed, ClosedWhenFull
<1> USE BoundAssumption, CapAssumption
<1> USE DEF list, sender, receiver, closer, Null
<1>0. /\ TypeOK /\ Held /\ Chained /\ Untroubled /\ LeavesClosed /\ ClosedWhenFull
      /\ Nodes \subseteq Nat /\ Null \notin Nodes
  BY DEF ErrorInv, ListInv, Nodes
<1>1. ASSUME UNCHANGED <<list, qclosed, queue, receiver, closer, fresh>>,
             spc' \notin {"s_refused", "s_close"} /\ (Linking' => Linking),
             qclosed[tail] /\ tail # Null => spc' = "s_link" \/ Linking'
      PROVE  LeavesClosed' /\ ClosedWhenFull'
  BY <1>0, <1>1 DEF LeavesClosed, ClosedWhenFull, Unread
<1>2. CASE SendLoadClosed
  BY <1>0, <1>1, <1>2 DEF SendLoadClosed, LeavesClosed, Linking
<1>3. CASE SendSelect
  <2>1. /\ tail \in Nodes /\ sval \in Messages /\ ~qclosed[tail]
        /\ queue[tail] \in Seq(Messages) /\ queue \in [Nodes -> Seq(Messages)]
    BY <1>0, <1>3 DEF SendSelect, TypeOK, Held, LeavesClosed, Linking
  <2>2. Append(queue[tail], sval) # <<>>
    BY <2>1, QueueEnds
  <2>3. CASE spc' = "s_publish"
    <3>1. queue' = [queue EXCEPT ![tail] = Append(@, sval)]
      BY <1>3, <2>3 DEF SendSelect
    <3>2. \A n \in Nodes : queue[n] # <<>> => queue'[n] # <<>>
      BY <2>1, <2>2, <3>1
    <3>3. UNCHANGED <<list, qclosed, receiver, closer, fresh>> /\ spc = "s_select"
      BY <1>3 DEF SendSelect
    <3>4. LeavesClosed'
      BY <1>0, <2>1, <2>3, <3>3 DEF LeavesClosed, Linking
    <3> QED
      BY <1>0, <2>3, <3>2, <3>3, <3>4 DEF ClosedWhenFull, Unread
  <2>4. CASE spc' = "s_close"
    <3>1. Occupied(tail) = NodeCap
      BY <1>3, <2>4 DEF SendSelect
    <3>2. Unread(tail) => queue[tail] # <<>>
      <4>1. Unread(tail) => ~(rpc = "r_read" /\ head = tail)
        BY <1>0, <2>1 DEF Unread, TypeOK
      <4>2. Unread(tail) => Len(queue[tail]) = NodeCap
        BY <2>1, <3>1, <4>1 DEF Occupied
      <4> QED
        BY <2>1, <4>2
    <3>3. UNCHANGED <<list, queue, qclosed, receiver, closer, fresh>> /\ spc = "s_select"
      BY <1>3, <2>4 DEF SendSelect
    <3>4. LeavesClosed'
      BY <1>0, <2>1, <2>4, <3>3 DEF LeavesClosed, Linking
    <3> QED
      BY <1>0, <2>4, <3>2, <3>3, <3>4 DEF ClosedWhenFull, Unread
  <2> QED
    BY <1>3, <2>3, <2>4 DEF SendSelect
<1>4. CASE SendPublish
  BY <1>0, <1>1, <1>4 DEF SendPublish, LeavesClosed, Linking
<1>5. ASSUME SendWake \/ SendFillWake PROVE LeavesClosed' /\ ClosedWhenFull'
  <2>1. /\ UNCHANGED <<list, queue, qclosed, fresh, closer, second>>
        /\ rpc' # rpc => rpc = "r_sleep" /\ rpc' = "r_recv"
        /\ spc' # "s_refused" /\ spc' # "s_close" /\ spc # "s_link"
        /\ (Linking <=> Linking')
    BY <1>5 DEF SendWake, SendFillWake, WakeReader, Linking
  <2> QED
    BY <1>0, <2>1 DEF LeavesClosed, ClosedWhenFull, Unread
<1>6. CASE SendClose
  <2>1. /\ tail \in Nodes /\ spc = "s_close" /\ spc' = "s_link"
        /\ qclosed' = [qclosed EXCEPT ![tail] = TRUE] /\ qclosed \in [Nodes -> BOOLEAN]
        /\ UNCHANGED <<list, queue, fresh, receiver, closer>>
    BY <1>0, <1>6 DEF SendClose, TypeOK
  <2>2. tail <= nodes /\ nodes = tail
    BY <1>0, <2>1 DEF Chained, Untroubled, Linking
  <2>3. LeavesClosed'
    BY <1>0, <2>1, <2>2 DEF LeavesClosed, Linking
  <2>4. ClosedWhenFull'
    BY <1>0, <2>1 DEF ClosedWhenFull, Unread, TypeOK
  <2> QED
    BY <2>3, <2>4
<1>7. CASE SendLink
  <2>1. tail \in Nodes /\ spc = "s_link" /\ nodes = tail /\ next[tail] = Null
    <3>1. tail \in Nodes /\ spc = "s_link"
      BY <1>0, <1>7 DEF SendLink, TypeOK
    <3>2. nodes = tail
      BY <1>0, <3>1 DEF Untroubled, Linking
    <3>3. next[tail] # Null => tail < next[tail] /\ next[tail] <= tail
      BY <1>0, <3>1, <3>2 DEF Chained
    <3>4. next[tail] \in Nat /\ tail \in Nat
      BY <1>0, <3>1, Numbered
    <3> QED
      BY <3>1, <3>2, <3>3, <3>4
  <2>2. CASE /\ nodes < MaxNodes /\ nodes' = nodes + 1 /\ fresh' = nodes + 1
             /\ spc' = "s_fill" /\ tail' = tail
    <3>1. nodes + 1 \in Nodes /\ ~qclosed[nodes + 1]
      BY <1>0, <2>1, <2>2 DEF LeavesClosed, Nodes
    <3>2. UNCHANGED <<head, closed, queue, qclosed, receiver, closer>>
      BY <1>7 DEF SendLink
    <3>3. LeavesClosed'
      BY <1>0, <2>1, <2>2, <3>1, <3>2 DEF LeavesClosed, Linking
    <3> QED
      BY <1>0, <2>2, <3>2, <3>3 DEF ClosedWhenFull, Unread
  <2>3. CASE tail' = Null /\ spc' = "s_refused" /\ nodes' = nodes
    <3>1. UNCHANGED <<head, closed, queue, qclosed, receiver, closer>>
      BY <1>7 DEF SendLink
    <3> QED
      BY <1>0, <2>3, <3>1 DEF LeavesClosed, ClosedWhenFull, Unread, Linking
  <2> QED
    BY <1>7, <2>1, <2>2, <2>3 DEF SendLink
<1>8. CASE SendFill
  <2>1. /\ fresh \in Nodes /\ sval \in Messages /\ ~qclosed[fresh] /\ spc = "s_fill"
        /\ queue[fresh] \in Seq(Messages) /\ queue \in [Nodes -> Seq(Messages)]
    BY <1>0, <1>8 DEF SendFill, TypeOK, Held, LeavesClosed, Linking
  <2>2. Append(queue[fresh], sval) # <<>>
    BY <2>1, QueueEnds
  <2>3. /\ queue' = [queue EXCEPT ![fresh] = Append(@, sval)] /\ spc' = "s_fill_publish"
        /\ UNCHANGED <<list, qclosed, fresh, receiver, closer>>
    BY <1>8, <2>1 DEF SendFill
  <2>4. \A n \in Nodes : queue[n] # <<>> => queue'[n] # <<>>
    BY <2>1, <2>2, <2>3
  <2> QED
    BY <1>0, <2>1, <2>3, <2>4 DEF LeavesClosed, ClosedWhenFull, Unread, Linking
<1>9. CASE SendFillPublish
  BY <1>0, <1>1, <1>9 DEF SendFillPublish, LeavesClosed, Linking
<1>10. CASE SendTail
  <2>1. /\ ~qclosed[fresh] /\ fresh \in Nodes /\ tail' = fresh /\ fresh' = Null
        /\ spc' = "idle" /\ UNCHANGED <<head, closed, nodes, queue, qclosed, receiver, closer>>
    BY <1>0, <1>10 DEF SendTail, LeavesClosed, Linking, Held, TypeOK
  <2> QED
    BY <1>0, <2>1 DEF LeavesClosed, ClosedWhenFull, Unread, Linking
<1>11. CASE SendRefused
  <2>1. /\ tail = Null /\ spc' = "idle"
        /\ UNCHANGED <<list, queue, qclosed, fresh, receiver, closer>>
    BY <1>0, <1>11 DEF SendRefused, LeavesClosed
  <2> QED
    BY <1>0, <2>1 DEF LeavesClosed, ClosedWhenFull, Unread, Linking
<1> QED
  BY <1>2, <1>3, <1>4, <1>5, <1>6, <1>7, <1>8, <1>9, <1>10, <1>11 DEF SenderStep

\* The receiver leaves the flags alone, and does not miss what a node holds.
LEMMA ReceiverErrors == ErrorInv /\ ReceiverRuns => LeavesClosed' /\ ClosedWhenFull'
<1> SUFFICES ASSUME ErrorInv, ReceiverStep, closes = 0
             PROVE  LeavesClosed' /\ ClosedWhenFull'
  <2>1. ReceiverStep => closes' = closes
    BY DEF ReceiverStep, RecvSelect, RecvLook, RecvPark, RecvReleased, RecvRelease, RecvErr,
       RecvNext, RecvFree, closer
  <2> QED
    BY <2>1 DEF ReceiverRuns, LeavesClosed, ClosedWhenFull
<1> USE DEF list, sender, receiver, closer, Null
<1>0. /\ TypeOK /\ Held /\ Chained /\ Untroubled /\ LeavesClosed /\ ClosedWhenFull
      /\ Nodes \subseteq Nat /\ Null \notin Nodes
  BY DEF ErrorInv, ListInv, Nodes
<1>1. LeavesClosed'
  <2>1. UNCHANGED <<tail, closed, nodes, qclosed, sender, closes>>
    BY DEF ReceiverStep, RecvSelect, RecvLook, RecvPark, RecvReleased, RecvRelease, RecvErr,
       RecvNext, RecvFree
  <2> QED
    BY <1>0, <2>1 DEF LeavesClosed, Linking
<1>2. CASE RecvSelect
  <2>1. CASE Receivable(head)
    <3>1. /\ rpc' = "r_read" /\ queue' = [queue EXCEPT ![head] = Tail(@)]
          /\ UNCHANGED <<list, qclosed, second, sender, closer>>
      BY <1>2, <2>1 DEF RecvSelect
    <3>2. \A n \in Nodes : Unread(n)' => Unread(n) /\ queue'[n] = queue[n]
      BY <1>0, <3>1 DEF Unread, TypeOK
    <3> QED
      BY <1>0, <1>1, <3>1, <3>2 DEF ClosedWhenFull
  <2>2. CASE ~Receivable(head)
    <3>1. /\ UNCHANGED <<list, queue, qclosed, second, sender, closer>>
          /\ rpc' \in {"r_err", "r_look"} /\ (rpc' = "r_err" => rpc = "r_last")
          /\ rpc # "r_read"
      BY <1>2, <2>2 DEF RecvSelect
    <3>2. rpc = "r_last" => ~second
      <4> SUFFICES ASSUME rpc = "r_last", second PROVE FALSE
        OBVIOUS
      <4>1. head \in Nodes /\ Unread(head) /\ qclosed[head] /\ queue[head] \in Seq(Messages)
        BY <1>0 DEF ClosedWhenFull, Unread, TypeOK
      <4>2. queue[head] # <<>>
        BY <1>0, <4>1 DEF ClosedWhenFull
      <4>3. Len(queue[head]) \in Nat /\ Len(queue[head]) # 0
        BY <4>1, <4>2
      <4>4. Unpublished(head)
        BY <2>2, <4>3 DEF Receivable
      <4> QED
        BY <1>0, <4>1, <4>4 DEF Unpublished, LeavesClosed, Linking
    <3>3. \A n \in Nodes : Unread(n)' => Unread(n)
      BY <3>1 DEF Unread
    <3> QED
      BY <1>0, <1>1, <3>1, <3>2, <3>3 DEF ClosedWhenFull
  <2> QED
    BY <2>1, <2>2
<1>3. ASSUME RecvLook \/ RecvPark \/ RecvReleased PROVE LeavesClosed' /\ ClosedWhenFull'
  <2>1. /\ UNCHANGED <<list, queue, qclosed, second, sender, closer>>
        /\ rpc \notin {"r_read", "r_free"} /\ rpc' \notin {"r_err", "r_free"}
        /\ rpc' = "r_last" => qclosed[head]
    BY <1>3 DEF RecvLook, RecvPark, RecvReleased
  <2> QED
    BY <1>0, <1>1, <2>1 DEF ClosedWhenFull, Unread
<1>4. ASSUME RecvRelease \/ RecvErr PROVE LeavesClosed' /\ ClosedWhenFull'
  <2>1. /\ UNCHANGED <<list, queue, qclosed, sender, closer>>
        /\ rpc' \in {"idle", "r_next"} /\ second' = FALSE
    BY <1>4 DEF RecvRelease, RecvErr
  <2> QED
    BY <1>0, <1>1, <2>1 DEF ClosedWhenFull, Unread
<1>5. CASE RecvNext
  <2>1. /\ head' > head /\ rpc' = "r_free" /\ head' \in Nodes
        /\ UNCHANGED <<tail, queue, qclosed, sender, closer>>
    BY <1>0, <1>5 DEF RecvNext, TypeOK, Chained
  <2>2. \A n \in Nodes : Unread(n)' => Unread(n)
    BY <1>0, <2>1 DEF Unread, TypeOK
  <2> QED
    BY <1>0, <1>1, <2>1, <2>2 DEF ClosedWhenFull
<1>6. CASE RecvFree
  <2>1. /\ rpc = "r_free" /\ rpc' = "r_recv"
        /\ UNCHANGED <<head, tail, queue, qclosed, sender, closer>>
    BY <1>6 DEF RecvFree
  <2> QED
    BY <1>0, <1>1, <2>1 DEF ClosedWhenFull, Unread
<1> QED
  BY <1>2, <1>3, <1>4, <1>5, <1>6 DEF ReceiverStep

\* Every step keeps the invariant: a close, once called, makes it say nothing.
LEMMA ErrorStep == ErrorInv /\ [Next]_vars => ErrorInv'
<1> SUFFICES ASSUME ErrorInv, [Next]_vars PROVE LeavesClosed' /\ ClosedWhenFull'
  BY ListStep DEF ErrorInv
<1> USE DEF list, sender, receiver, closer
<1>1. ASSUME UNCHANGED <<head, tail, closed, nodes, queue, qclosed, fresh, second, closes>>,
             spc' # spc => spc' = "s_try" /\ spc = "idle",
             rpc' # rpc => rpc' = "r_recv" /\ rpc = "idle"
      PROVE  LeavesClosed' /\ ClosedWhenFull'
  BY <1>1 DEF ErrorInv, LeavesClosed, ClosedWhenFull, Unread, Linking
<1>2. CASE Calls
  <2>1. ASSUME NEW m \in Messages, SendCall(m) PROVE LeavesClosed' /\ ClosedWhenFull'
    BY <1>1, <2>1 DEF SendCall
  <2>2. CASE RecvCall
    BY <1>1, <2>2 DEF RecvCall
  <2>3. ASSUME NEW c \in Closers, CloseCall(c) PROVE LeavesClosed' /\ ClosedWhenFull'
    <3>1. closes' # 0
      BY <2>3, BoundAssumption DEF CloseCall, ErrorInv, ListInv, TypeOK
    <3> QED
      BY <3>1 DEF LeavesClosed, ClosedWhenFull
  <2> QED
    BY <1>2, <2>1, <2>2, <2>3 DEF Calls
<1>3. ASSUME NEW c \in Closers, CloserRuns(c) PROVE LeavesClosed' /\ ClosedWhenFull'
  <2>1. cpc[c] # "idle" /\ closes' = closes
    BY <1>3 DEF CloserRuns, CloserStep, CloseLoadTail, CloseLink, CloseFlag, CloseLoadHead,
       CloseNode, CloseLoadNext, CloseNextNode, CloserAt
  <2>2. closes' # 0
    BY <2>1 DEF ErrorInv, ListInv, Untroubled
  <2> QED
    BY <2>2 DEF LeavesClosed, ClosedWhenFull
<1>4. ASSUME NEW used, Misuse(used) PROVE LeavesClosed' /\ ClosedWhenFull'
  BY <1>1, <1>4 DEF Misuse
<1>5. CASE UNCHANGED vars
  BY <1>1, <1>5 DEF vars
<1> QED
  BY <1>2, <1>3, <1>4, <1>5, SenderErrors, ReceiverErrors DEF Next

\* Neither side of the list fails before somebody closes, for any capacity of the
\* nodes and any number of messages: the queues that the sender closes as it grows
\* the list are no errors to anybody.
THEOREM NoSpuriousErrors == Spec => ErrorsOnlyByClose
<1> DEFINE Honest == \/ spc = "s_refused" /\ spc' = "idle" /\ tail # Null
                     \/ rpc = "r_err" /\ rpc' = "idle"
                     => closes > 0
<1>1. Init => ErrorInv
  <2>1. Init => ListInv
    BY ListInit
  <2>2. Init => LeavesClosed /\ ClosedWhenFull
    BY BoundAssumption DEF Init, LeavesClosed, ClosedWhenFull, Linking, Nodes
  <2> QED
    BY <2>1, <2>2 DEF ErrorInv
<1>2. ErrorInv /\ [Next]_vars => Honest
  <2> SUFFICES ASSUME ErrorInv, [Next]_vars, closes = 0
               PROVE  /\ ~(spc = "s_refused" /\ tail # Null)
                      /\ ~(rpc = "r_err" /\ rpc' = "idle")
    BY BoundAssumption DEF ErrorInv, ListInv, TypeOK
  <2>1. ~(spc = "s_refused" /\ tail # Null) /\ ~closed /\ (rpc = "r_err" => ~second)
    BY DEF ErrorInv, LeavesClosed, ClosedWhenFull
  <2>2. ASSUME rpc = "r_err", rpc' = "idle" PROVE second \/ closed
    <3>1. rpc' # rpc
      BY <2>2
    <3>2. ~SenderRuns /\ ~Calls
      BY <2>2 DEF SenderRuns, SenderStep, SendLoadClosed, SendSelect, SendPublish, SendWake,
         SendClose, SendLink, SendFill, SendFillPublish, SendFillWake, SendTail, SendRefused,
         WakeReader, Calls, SendCall, RecvCall, CloseCall, receiver
    <3>3. ASSUME NEW c \in Closers PROVE ~CloserRuns(c)
      BY <3>1 DEF CloserRuns, CloserStep, CloseLoadTail, CloseLink, CloseFlag, CloseLoadHead,
         CloseNode, CloseLoadNext, CloseNextNode, receiver
    <3>4. ASSUME NEW used PROVE ~Misuse(used)
      BY <3>1 DEF Misuse, receiver
    <3>5. ReceiverStep
      BY <3>1, <3>2, <3>3, <3>4 DEF Next, vars, receiver, ReceiverRuns
    <3>6. RecvErr
      BY <2>2, <3>5
         DEF ReceiverStep, RecvSelect, RecvLook, RecvPark, RecvReleased, RecvRelease,
         RecvNext, RecvFree
    <3> QED
      BY <2>2, <3>6 DEF RecvErr
  <2> QED
    BY <2>1, <2>2
<1>3. ErrorInv /\ [Next]_vars => ErrorInv'
  BY ErrorStep
<1>4. ASSUME ErrorInv, [Next]_vars PROVE [Honest]_vars
  BY <1>2, <1>4
<1> QED
  BY <1>1, <1>2, <1>3, PTL DEF Spec, ErrorsOnlyByClose

-----------------------------------------------------------------------------
(* Sequences of sequences                                                  *)

\* Induction over the natural numbers, for a set of them.
LEMMA SetInduction ==
  ASSUME NEW S \in SUBSET Nat, 0 \in S, \A n \in S : n + 1 \in S
  PROVE  S = Nat
<1> SUFFICES ASSUME Nat \ S # {} PROVE FALSE
  OBVIOUS
<1> DEFINE F == {0 .. n : n \in Nat \ S}
           R == StrictSubsetOrdering(Nat)
<1>1. F \subseteq FiniteSubsetsOf(Nat) /\ F # {}
  <2>1. ASSUME NEW n \in Nat \ S PROVE 0 .. n \in FiniteSubsetsOf(Nat)
    <3>1. IsFiniteSet(0 .. n)
      BY FS_Interval
    <3>2. 0 .. n \in SUBSET Nat
      OBVIOUS
    <3> QED
      BY <3>1, <3>2 DEF FiniteSubsetsOf
  <2> QED
    BY <2>1
<1>2. IsWellFoundedOn(R, FiniteSubsetsOf(Nat))
  BY FS_StrictSubsetOrderingWellFounded
<1> HIDE DEF R
<1>3. PICK x \in F : \A y \in F : <<y, x>> \notin R
  <2> HIDE DEF F
  <2> QED
    BY <1>1, <1>2, WFMin
<1>4. PICK n \in Nat \ S : x = 0 .. n
  BY <1>3
<1>5. n # 0 /\ n - 1 \in Nat \ S
  BY <1>4
<1>6. 0 .. n - 1 \in F /\ 0 .. n - 1 \subseteq x /\ 0 .. n - 1 # x /\ x \subseteq Nat
  <2>1. n \in x /\ n \notin 0 .. n - 1
    BY <1>4
  <2> QED
    BY <1>4, <1>5, <2>1
<1>7. <<0 .. n - 1, x>> \in R
  BY <1>6 DEF R, StrictSubsetOrdering
<1> QED
  BY <1>3, <1>6, <1>7

\* Concatenation, a message more, and one less, under names that the provers do not expand.
Cat(a, b) == a \o b
Ext(a, m) == Append(a, m)
Rest(a) == Tail(a)

\* Its type,
LEMMA CatType == ASSUME NEW M, NEW a \in Seq(M), NEW b \in Seq(M) PROVE Cat(a, b) \in Seq(M)
BY ConcatProperties DEF Cat

\* its unit,
LEMMA CatEmpty ==
  ASSUME NEW M, NEW a \in Seq(M) PROVE Cat(a, <<>>) = a /\ Cat(<<>>, a) = a
BY ConcatEmptySeq DEF Cat

\* what it ends with,
LEMMA CatAppend ==
  ASSUME NEW M, NEW a \in Seq(M), NEW b \in Seq(M), NEW m \in M
  PROVE  Ext(a, m) \in Seq(M) /\ Ext(Cat(a, b), m) = Cat(a, Ext(b, m))
<1>1. a \o b \in Seq(M) /\ <<m>> \in Seq(M)
  BY ConcatProperties
<1>2. Append(a \o b, m) = (a \o b) \o <<m>> /\ Append(b, m) = b \o <<m>>
  BY <1>1, AppendIsConcat
<1>3. (a \o b) \o <<m>> = a \o (b \o <<m>>)
  BY <1>1, ConcatAssociative
<1>4. Append(a, m) \in Seq(M)
  BY AppendProperties
<1> QED
  BY <1>2, <1>3, <1>4 DEF Cat, Ext

\* and what it begins with.
LEMMA CatTail ==
  ASSUME NEW M, NEW a \in Seq(M), NEW b \in Seq(M), a # <<>>
  PROVE  /\ Cat(a, b) # <<>> /\ Head(Cat(a, b)) = Head(a)
         /\ Rest(a) \in Seq(M) /\ Rest(Cat(a, b)) = Cat(Rest(a), b)
<1>1. Len(a) > 0 /\ a \o b \in Seq(M) /\ Len(a \o b) = Len(a) + Len(b)
      /\ Len(a) \in Nat /\ Len(b) \in Nat
  BY ConcatProperties
<1>2. a \o b # <<>> /\ Head(a \o b) = Head(a) /\ Tail(a) \in Seq(M)
      /\ Tail(a \o b) \in Seq(M) /\ Tail(a) \o b \in Seq(M)
  BY <1>1, ConcatProperties
<1>3. Len(Tail(a \o b)) = Len(Tail(a) \o b)
  BY <1>1, <1>2, ConcatProperties
<1>4. \A i \in 1 .. Len(Tail(a \o b)) : Tail(a \o b)[i] = (Tail(a) \o b)[i]
  BY <1>1, <1>2, ConcatProperties
<1>5. Tail(a \o b) = Tail(a) \o b
  BY <1>2, <1>3, <1>4, SeqEqual
<1> QED
  BY <1>2, <1>5 DEF Cat, Rest

\* Numbers that follow each other (a name that keeps the provers from computing).
Follows(k, i) == k = i + 1

\* f holds the concatenations of the first members of s, for every prefix of s.
Joined(f, s, M) ==
  /\ f \in [1 .. Len(s) -> Seq(M)]
  /\ Len(s) > 0 => f[1] = s[1]
  /\ \A i, k \in 1 .. Len(s) : Follows(k, i) => f[k] = Cat(f[i], s[k])

\* They exist,
LEMMA JoinedExists ==
  ASSUME NEW M, NEW s \in Seq(Seq(M))
  PROVE  \E f : Joined(f, s, M)
<1> DEFINE P(n) == \E f \in [1 .. n -> Seq(M)] :
                     /\ n > 0 => f[1] = s[1]
                     /\ \A i, k \in 1 .. n : Follows(k, i) => f[k] = Cat(f[i], s[k])
           S == {n \in Nat : n <= Len(s) => P(n)}
<1>0. Len(s) \in Nat
  OBVIOUS
<1>1. P(0)
  <2> DEFINE none == [i \in 1 .. 0 |-> <<>>]
  <2>1. none \in [1 .. 0 -> Seq(M)]
    OBVIOUS
  <2>2. \A i, k \in 1 .. 0 : Follows(k, i) => none[k] = Cat(none[i], s[k])
    OBVIOUS
  <2>3. 0 > 0 => none[1] = s[1]
    OBVIOUS
  <2> HIDE DEF none
  <2> WITNESS none \in [1 .. 0 -> Seq(M)]
  <2> QED
    BY <2>2, <2>3
<1>2. ASSUME NEW n \in Nat, P(n), n + 1 <= Len(s) PROVE P(n + 1)
  <2>1. s[n + 1] \in Seq(M) /\ s[1] \in Seq(M)
    BY <1>0, <1>2
  <2>2. PICK f \in [1 .. n -> Seq(M)] :
          /\ n > 0 => f[1] = s[1]
          /\ \A i, k \in 1 .. n : Follows(k, i) => f[k] = Cat(f[i], s[k])
    BY <1>2
  <2> DEFINE last == IF n = 0 THEN s[1] ELSE Cat(f[n], s[n + 1])
             g == [k \in 1 .. n + 1 |-> IF k <= n THEN f[k] ELSE last]
  <2>3. last \in Seq(M)
    BY <2>1, CatType
  <2> HIDE DEF last
  <2>4. g \in [1 .. n + 1 -> Seq(M)]
    BY <2>3
  <2>5. g[1] = s[1]
    BY <2>2 DEF last
  <2>6. ASSUME NEW i \in 1 .. n + 1, NEW k \in 1 .. n + 1, Follows(k, i)
        PROVE  g[k] = Cat(g[i], s[k])
    <3>0. i \in 1 .. n /\ g[i] = f[i]
      BY <2>6 DEF Follows
    <3>1. CASE k <= n
      <4>1. k \in 1 .. n /\ g[k] = f[k]
        BY <3>1
      <4> QED
        BY <2>2, <2>6, <3>0, <4>1
    <3>2. CASE k = n + 1
      <4>1. i = n /\ n # 0 /\ g[k] = last
        BY <2>6, <3>0, <3>2 DEF Follows
      <4> QED
        BY <3>0, <3>2, <4>1 DEF last
    <3>3. k <= n \/ k = n + 1
      OBVIOUS
    <3> QED
      BY <3>1, <3>2, <3>3
  <2> HIDE DEF g
  <2> QED
    BY <2>4, <2>5, <2>6
<1> HIDE DEF P
<1>3. S = Nat
  <2>1. S \in SUBSET Nat /\ 0 \in S
    BY <1>1
  <2>2. ASSUME NEW n \in S PROVE n + 1 \in S
    BY <1>0, <1>2
  <2> HIDE DEF S
  <2> QED
    BY <2>1, <2>2, SetInduction
<1>4. P(Len(s))
  BY <1>0, <1>3
<1> QED
  BY <1>4 DEF Joined, P

\* What they are, for a length with a name.
LEMMA JoinedFacts ==
  ASSUME NEW M, NEW s \in Seq(Seq(M)), NEW f, Joined(f, s, M), NEW n \in Nat, n = Len(s)
  PROVE  /\ \A k \in 1 .. n : f[k] \in Seq(M) /\ s[k] \in Seq(M)
         /\ n > 0 => f[1] = s[1]
         /\ \A i, k \in 1 .. n : Follows(k, i) => f[k] = Cat(f[i], s[k])
<1>1. \A k \in 1 .. n : f[k] \in Seq(M) /\ s[k] \in Seq(M)
  <2>1. f \in [1 .. n -> Seq(M)]
    BY DEF Joined
  <2>2. \A k \in 1 .. n : s[k] \in Seq(M)
    OBVIOUS
  <2> QED
    BY <2>1, <2>2
<1>2. n > 0 => f[1] = s[1]
  BY DEF Joined
<1>3. \A i, k \in 1 .. n : Follows(k, i) => f[k] = Cat(f[i], s[k])
  BY DEF Joined
<1> QED
  BY <1>1, <1>2, <1>3

\* FlattenSeq computes the last of them.
LEMMA FlattenIsLast ==
  ASSUME NEW M, NEW s \in Seq(Seq(M)), NEW f, Joined(f, s, M),
         NEW n \in Nat, n = Len(s), n > 0
  PROVE  FlattenSeq(s) = f[n]
<1> DEFINE D(g) == [k \in 1 .. Len(s) |-> IF k = 1 THEN s[k] ELSE Cat(g[k - 1], s[k])]
           h == CHOOSE g : g = D(g)
<1>1. /\ \A k \in 1 .. n : f[k] \in Seq(M) /\ s[k] \in Seq(M)
      /\ f[1] = s[1]
      /\ \A i, k \in 1 .. n : Follows(k, i) => f[k] = Cat(f[i], s[k])
  BY JoinedFacts
<1>2. f = D(f)
  <2>1. f \in [1 .. n -> Seq(M)] /\ D(f) = [k \in 1 .. n |-> D(f)[k]]
    BY DEF Joined
  <2>2. ASSUME NEW k \in 1 .. n PROVE f[k] = D(f)[k]
    <3>1. CASE k = 1
      BY <1>1, <3>1
    <3>2. CASE k # 1
      <4>1. PICK i \in 1 .. n : i = k - 1 /\ Follows(k, i)
        BY <3>2 DEF Follows
      <4>2. f[k] = Cat(f[i], s[k])
        BY <1>1, <4>1
      <4>3. D(f)[k] = Cat(f[i], s[k])
        BY <3>2, <4>1
      <4> QED
        BY <4>2, <4>3
    <3> QED
      BY <3>1, <3>2
  <2> QED
    BY <2>1, <2>2
<1>3. h = D(h)
  <2> HIDE DEF D
  <2> QED
    BY <1>2
<1>4. h[1] = s[1]
  <2> HIDE DEF h
  <2>1. 1 \in 1 .. Len(s)
    OBVIOUS
  <2> QED
    BY <1>3, <2>1
<1>5. ASSUME NEW i \in 1 .. n, NEW k \in 1 .. n, Follows(k, i)
      PROVE  h[k] = Cat(h[i], s[k])
  <2> HIDE DEF h
  <2>1. k # 1 /\ k - 1 = i /\ k \in 1 .. Len(s)
    BY <1>5 DEF Follows
  <2> QED
    BY <1>3, <2>1
<1>6. FlattenSeq(s) = h[n]
  BY DEF FlattenSeq, h, D, Cat
<1> HIDE DEF h, D
<1> DEFINE S == {k \in Nat : k \in 1 .. n => h[k] = f[k]}
<1>7. S = Nat
  <2>1. 0 \in S
    OBVIOUS
  <2>2. ASSUME NEW i \in S PROVE i + 1 \in S
    <3> SUFFICES ASSUME i + 1 \in 1 .. n PROVE h[i + 1] = f[i + 1]
      BY <2>2
    <3>1. CASE i = 0
      BY <1>1, <1>4, <3>1
    <3>2. CASE i # 0
      <4>1. PICK k \in 1 .. n : k = i + 1 /\ i \in 1 .. n /\ Follows(k, i)
        BY <3>2 DEF Follows
      <4>2. h[i] = f[i]
        BY <4>1
      <4>3. h[k] = Cat(h[i], s[k])
        BY <1>5, <4>1
      <4>4. f[k] = Cat(f[i], s[k])
        BY <1>1, <4>1
      <4> QED
        BY <4>1, <4>2, <4>3, <4>4
    <3> QED
      BY <3>1, <3>2
  <2>3. S \in SUBSET Nat
    OBVIOUS
  <2> HIDE DEF S
  <2> QED
    BY <2>1, <2>2, <2>3, SetInduction
<1>8. h[n] = f[n]
  BY <1>7
<1> QED
  BY <1>6, <1>8

\* It is a sequence of members.
LEMMA FlattenType ==
  ASSUME NEW M, NEW s \in Seq(Seq(M)), Len(s) > 0
  PROVE  FlattenSeq(s) \in Seq(M)
<1>0. PICK n \in Nat : n = Len(s) /\ n > 0 /\ n \in 1 .. n
  OBVIOUS
<1>1. PICK f : Joined(f, s, M)
  BY JoinedExists
<1>2. FlattenSeq(s) = f[n]
  BY <1>0, <1>1, FlattenIsLast
<1>3. f[n] \in Seq(M)
  BY <1>0, <1>1, JoinedFacts
<1> QED
  BY <1>2, <1>3

\* A member is added to the last sequence that is not empty, or behind it.
Appended(t, s, j, m) ==
  /\ j \in 1 .. Len(s) /\ Len(t) = Len(s)
  /\ t[j] = Ext(s[j], m)
  /\ \A k \in 1 .. Len(s) : k # j => t[k] = s[k]
  /\ \A k \in 1 .. Len(s) : k > j => s[k] = <<>>

\* It comes last.
LEMMA FlattenAppend ==
  ASSUME NEW M, NEW s \in Seq(Seq(M)), NEW t \in Seq(Seq(M)), NEW m \in M, NEW j,
         Appended(t, s, j, m)
  PROVE  FlattenSeq(t) = Ext(FlattenSeq(s), m)
<1>0. PICK n \in Nat : n = Len(s) /\ n > 0 /\ n = Len(t) /\ j \in 1 .. n
  BY DEF Appended
<1>1. PICK f : Joined(f, s, M)
  BY JoinedExists
<1>2. /\ \A k \in 1 .. n : f[k] \in Seq(M) /\ s[k] \in Seq(M)
      /\ f[1] = s[1]
      /\ \A i, k \in 1 .. n : Follows(k, i) => f[k] = Cat(f[i], s[k])
  <2>1. \A k \in 1 .. n : f[k] \in Seq(M) /\ s[k] \in Seq(M)
    BY <1>0, <1>1, JoinedFacts
  <2>2. f[1] = s[1]
    BY <1>0, <1>1 DEF Joined
  <2>3. \A i, k \in 1 .. n : Follows(k, i) => f[k] = Cat(f[i], s[k])
    BY <1>0, <1>1 DEF Joined
  <2> QED
    BY <2>1, <2>2, <2>3
<1>3. ASSUME NEW k \in 1 .. n
      PROVE  /\ k < j => t[k] = s[k]
             /\ k = j => t[k] = Ext(s[k], m)
             /\ k > j => t[k] = s[k] /\ s[k] = <<>>
             /\ Ext(f[k], m) \in Seq(M)
  <2>1. k < j => t[k] = s[k]
    BY <1>0 DEF Appended
  <2>2. k = j => t[k] = Ext(s[k], m)
    BY DEF Appended
  <2>3. k > j => t[k] = s[k] /\ s[k] = <<>>
    BY <1>0 DEF Appended
  <2>4. Ext(f[k], m) \in Seq(M)
    BY <1>2, CatAppend
  <2> QED
    BY <2>1, <2>2, <2>3, <2>4
<1> DEFINE g == [k \in 1 .. n |-> IF k < j THEN f[k] ELSE Ext(f[k], m)]
<1>4. \A k \in 1 .. n : g[k] = IF k < j THEN f[k] ELSE Ext(f[k], m)
  OBVIOUS
<1>5. g \in [1 .. n -> Seq(M)]
  <2>1. \A k \in 1 .. n : f[k] \in Seq(M) /\ Ext(f[k], m) \in Seq(M)
    BY <1>2, <1>3
  <2> QED
    BY <2>1
<1> HIDE DEF g
<1>6. g[1] = t[1]
  <2>1. 1 \in 1 .. n
    BY <1>0
  <2>2. CASE 1 < j
    BY <1>2, <1>3, <1>4, <2>1, <2>2
  <2>3. CASE 1 = j
    <3>1. g[1] = Ext(f[1], m)
      BY <1>0, <1>4, <2>1, <2>3
    <3>2. t[1] = Ext(s[1], m)
      BY <1>3, <2>1, <2>3
    <3> QED
      BY <1>2, <3>1, <3>2
  <2> QED
    BY <1>0, <2>2, <2>3
<1>7. ASSUME NEW i \in 1 .. n, NEW k \in 1 .. n, Follows(k, i)
      PROVE  g[k] = Cat(g[i], t[k])
  <2>1. f[k] = Cat(f[i], s[k]) /\ f[i] \in Seq(M) /\ s[k] \in Seq(M) /\ f[k] \in Seq(M)
    BY <1>2, <1>7
  <2>2. CASE k < j
    <3>1. i < j
      BY <1>0, <1>7, <2>2 DEF Follows
    <3>2. g[k] = f[k] /\ g[i] = f[i] /\ t[k] = s[k]
      BY <1>3, <1>4, <2>2, <3>1
    <3> QED
      BY <2>1, <3>2
  <2>3. CASE k = j
    <3>1. i < j /\ ~(k < j)
      BY <1>0, <1>7, <2>3 DEF Follows
    <3>2. g[k] = Ext(f[k], m) /\ g[i] = f[i]
      BY <1>4, <3>1
    <3>3. t[k] = Ext(s[k], m)
      BY <1>3, <2>3
    <3>4. Ext(Cat(f[i], s[k]), m) = Cat(f[i], Ext(s[k], m))
      <4>1. PICK a \in Seq(M), b \in Seq(M) : a = f[i] /\ b = s[k]
        BY <2>1
      <4>2. Ext(Cat(a, b), m) = Cat(a, Ext(b, m))
        BY CatAppend
      <4> QED
        BY <4>1, <4>2
    <3> QED
      BY <2>1, <3>2, <3>3, <3>4
  <2>4. CASE k > j
    <3>1. ~(i < j) /\ ~(k < j)
      BY <1>0, <1>7, <2>4 DEF Follows
    <3>2. g[k] = Ext(f[k], m) /\ g[i] = Ext(f[i], m)
      BY <1>4, <3>1
    <3>3. t[k] = <<>> /\ s[k] = <<>>
      BY <1>3, <2>4
    <3>4. f[k] = f[i]
      BY <2>1, <3>3, CatEmpty
    <3>5. Cat(Ext(f[i], m), <<>>) = Ext(f[i], m)
      BY <1>3, CatEmpty
    <3> QED
      BY <3>2, <3>3, <3>4, <3>5
  <2>5. k < j \/ k = j \/ k > j
    BY <1>0
  <2> QED
    BY <2>2, <2>3, <2>4, <2>5
<1>8. Joined(g, t, M)
  BY <1>0, <1>5, <1>6, <1>7 DEF Joined
<1>9. FlattenSeq(t) = g[n]
  BY <1>0, <1>8, FlattenIsLast
<1>10. FlattenSeq(s) = f[n]
  BY <1>0, <1>1, FlattenIsLast
<1>11. g[n] = Ext(f[n], m)
  <2>1. n \in 1 .. n /\ ~(n < j)
    BY <1>0
  <2> QED
    BY <1>4, <2>1
<1> QED
  BY <1>9, <1>10, <1>11

\* The first sequence has lost its first member.
Shortened(t, s) ==
  /\ Len(s) > 0 /\ Len(t) = Len(s)
  /\ s[1] # <<>> /\ t[1] = Rest(s[1])
  /\ \A k \in 1 .. Len(s) : k # 1 => t[k] = s[k]

\* It came first.
LEMMA FlattenTail ==
  ASSUME NEW M, NEW s \in Seq(Seq(M)), NEW t \in Seq(Seq(M)), Shortened(t, s)
  PROVE  /\ FlattenSeq(s) # <<>> /\ Head(FlattenSeq(s)) = Head(s[1])
         /\ FlattenSeq(t) = Rest(FlattenSeq(s))
<1>0. PICK n \in Nat : n = Len(s) /\ n > 0 /\ n = Len(t) /\ 1 \in 1 .. n /\ n \in 1 .. n
  BY DEF Shortened
<1>1. PICK f : Joined(f, s, M)
  BY JoinedExists
<1>2. /\ \A k \in 1 .. n : f[k] \in Seq(M) /\ s[k] \in Seq(M)
      /\ f[1] = s[1]
      /\ \A i, k \in 1 .. n : Follows(k, i) => f[k] = Cat(f[i], s[k])
  <2>1. \A k \in 1 .. n : f[k] \in Seq(M) /\ s[k] \in Seq(M)
    BY <1>0, <1>1, JoinedFacts
  <2>2. f[1] = s[1]
    BY <1>0, <1>1 DEF Joined
  <2>3. \A i, k \in 1 .. n : Follows(k, i) => f[k] = Cat(f[i], s[k])
    BY <1>0, <1>1 DEF Joined
  <2> QED
    BY <2>1, <2>2, <2>3
<1> DEFINE Starts(k) == f[k] # <<>> /\ Head(f[k]) = Head(s[1])
           S == {k \in Nat : k \in 1 .. n => Starts(k)}
<1>3. Starts(1)
  BY <1>2 DEF Shortened
<1>4. ASSUME NEW i \in 1 .. n, NEW k \in 1 .. n, Follows(k, i), Starts(i)
      PROVE  Starts(k)
  <2>1. f[k] = Cat(f[i], s[k]) /\ f[i] \in Seq(M) /\ s[k] \in Seq(M)
    BY <1>2, <1>4
  <2>2. Cat(f[i], s[k]) # <<>> /\ Head(Cat(f[i], s[k])) = Head(f[i])
    <3>1. PICK a \in Seq(M), b \in Seq(M) : a = f[i] /\ b = s[k] /\ a # <<>>
      BY <1>4, <2>1
    <3>2. a # <<>>
      BY <3>1
    <3>3. Cat(a, b) # <<>> /\ Head(Cat(a, b)) = Head(a)
      BY ONLY a \in Seq(M), b \in Seq(M), <3>2, CatTail
    <3> QED
      BY <3>1, <3>3
  <2> QED
    BY <1>4, <2>1, <2>2
<1> HIDE DEF Starts
<1>5. S = Nat
  <2>1. 0 \in S
    OBVIOUS
  <2>2. ASSUME NEW i \in S PROVE i + 1 \in S
    <3> SUFFICES ASSUME i + 1 \in 1 .. n PROVE Starts(i + 1)
      BY <2>2
    <3>1. i = 0 \/ i \in 1 .. n
      BY <1>0
    <3>2. Follows(i + 1, i)
      BY DEF Follows
    <3> QED
      BY <1>3, <1>4, <3>1, <3>2
  <2>3. S \in SUBSET Nat
    OBVIOUS
  <2> HIDE DEF S
  <2> QED
    BY <2>1, <2>2, <2>3, SetInduction
<1>6. \A k \in 1 .. n : Starts(k)
  BY <1>5
<1> DEFINE g == [k \in 1 .. n |-> Rest(f[k])]
<1>7. ASSUME NEW k \in 1 .. n PROVE Rest(f[k]) \in Seq(M)
  <2>1. f[k] \in Seq(M) /\ f[k] # <<>>
    BY <1>2, <1>6 DEF Starts
  <2> QED
    BY <2>1, CatTail
<1>8. \A k \in 1 .. n : g[k] = Rest(f[k])
  OBVIOUS
<1>9. g \in [1 .. n -> Seq(M)]
  BY <1>7
<1> HIDE DEF g
<1>10. g[1] = t[1]
  <2>1. t[1] = Rest(s[1])
    BY DEF Shortened
  <2>2. g[1] = Rest(f[1])
    BY <1>0, <1>8
  <2> QED
    BY <1>2, <2>1, <2>2
<1>11. ASSUME NEW i \in 1 .. n, NEW k \in 1 .. n, Follows(k, i)
      PROVE  g[k] = Cat(g[i], t[k])
  <2>1. f[k] = Cat(f[i], s[k]) /\ f[i] \in Seq(M) /\ s[k] \in Seq(M)
    BY <1>2, <1>11
  <2>2. t[k] = s[k]
    <3>1. k # 1 /\ k \in 1 .. Len(s)
      BY <1>0, <1>11 DEF Follows
    <3> QED
      BY <3>1 DEF Shortened
  <2>3. f[i] # <<>>
    BY <1>6 DEF Starts
  <2>4. Rest(Cat(f[i], s[k])) = Cat(Rest(f[i]), s[k])
    <3>1. PICK a \in Seq(M), b \in Seq(M) : a = f[i] /\ b = s[k] /\ a # <<>>
      BY <2>1, <2>3
    <3>2. Rest(Cat(a, b)) = Cat(Rest(a), b)
      BY <3>1, CatTail
    <3> QED
      BY <3>1, <3>2
  <2>5. g[k] = Rest(f[k]) /\ g[i] = Rest(f[i])
    BY <1>8
  <2> QED
    BY <2>1, <2>2, <2>4, <2>5
<1>12. Joined(g, t, M)
  BY <1>0, <1>9, <1>10, <1>11 DEF Joined
<1>13. FlattenSeq(t) = g[n]
  BY <1>0, <1>12, FlattenIsLast
<1>14. FlattenSeq(s) = f[n]
  BY <1>0, <1>1, FlattenIsLast
<1>15. g[n] = Rest(f[n]) /\ Starts(n)
  BY <1>0, <1>6, <1>8
<1> QED
  BY <1>13, <1>14, <1>15 DEF Starts

\* There is an empty sequence more at the end.
Grown(t, s) ==
  /\ Len(s) > 0 /\ Len(t) = Len(s) + 1 /\ t[Len(t)] = <<>>
  /\ \A k \in 1 .. Len(s) : t[k] = s[k]

\* It adds nothing,
LEMMA FlattenGrow ==
  ASSUME NEW M, NEW s \in Seq(Seq(M)), NEW t \in Seq(Seq(M)), Grown(t, s)
  PROVE  FlattenSeq(t) = FlattenSeq(s)
<1>0. PICK n \in Nat : n = Len(s) /\ n > 0 /\ n + 1 = Len(t) /\ n \in 1 .. n
  BY DEF Grown
<1>1. PICK f : Joined(f, s, M)
  BY JoinedExists
<1>2. /\ \A k \in 1 .. n : f[k] \in Seq(M)
      /\ f[1] = s[1]
      /\ \A i, k \in 1 .. n : Follows(k, i) => f[k] = Cat(f[i], s[k])
  <2>1. \A k \in 1 .. n : f[k] \in Seq(M)
    BY <1>0, <1>1, JoinedFacts
  <2>2. f[1] = s[1]
    BY <1>0, <1>1 DEF Joined
  <2>3. \A i, k \in 1 .. n : Follows(k, i) => f[k] = Cat(f[i], s[k])
    BY <1>0, <1>1 DEF Joined
  <2> QED
    BY <2>1, <2>2, <2>3
<1>3. t[n + 1] = <<>> /\ \A k \in 1 .. n : t[k] = s[k]
  BY <1>0 DEF Grown
<1> DEFINE g == [k \in 1 .. n + 1 |-> IF k <= n THEN f[k] ELSE f[n]]
<1>4. \A k \in 1 .. n + 1 : g[k] = IF k <= n THEN f[k] ELSE f[n]
  OBVIOUS
<1>5. g \in [1 .. n + 1 -> Seq(M)]
  BY <1>0, <1>2
<1> HIDE DEF g
<1>6. g[1] = t[1]
  BY <1>0, <1>2, <1>3, <1>4
<1>7. ASSUME NEW i \in 1 .. n + 1, NEW k \in 1 .. n + 1, Follows(k, i)
      PROVE  g[k] = Cat(g[i], t[k])
  <2>1. i \in 1 .. n /\ g[i] = f[i]
    BY <1>4, <1>7 DEF Follows
  <2>2. CASE k <= n
    <3>1. k \in 1 .. n /\ g[k] = f[k] /\ t[k] = s[k]
      BY <1>3, <1>4, <2>2
    <3>2. f[k] = Cat(f[i], s[k])
      BY <1>2, <1>7, <2>1, <3>1
    <3> QED
      BY <2>1, <3>1, <3>2
  <2>3. CASE k = n + 1
    <3>1. i = n /\ g[k] = f[n]
      BY <1>4, <1>7, <2>1, <2>3 DEF Follows
    <3>2. t[k] = <<>> /\ f[n] \in Seq(M)
      BY <1>0, <1>2, <1>3, <2>3
    <3> QED
      BY <2>1, <3>1, <3>2, CatEmpty
  <2>4. k <= n \/ k = n + 1
    BY <1>0
  <2> QED
    BY <2>2, <2>3, <2>4
<1>8. Joined(g, t, M)
  BY <1>0, <1>5, <1>6, <1>7 DEF Joined
<1>9. FlattenSeq(t) = g[n + 1]
  BY <1>0, <1>8, FlattenIsLast
<1>10. FlattenSeq(s) = f[n]
  BY <1>0, <1>1, FlattenIsLast
<1>11. g[n + 1] = f[n]
  <2>1. n + 1 \in 1 .. n + 1 /\ ~(n + 1 <= n)
    BY <1>0
  <2> QED
    BY <1>4, <2>1
<1> QED
  BY <1>9, <1>10, <1>11

\* There is an empty sequence less at the beginning.
Skipped(t, s) ==
  /\ Len(t) > 0 /\ Len(s) = Len(t) + 1 /\ s[1] = <<>>
  /\ \A k \in 1 .. Len(t) : t[k] = s[k + 1]

\* That takes nothing away.
LEMMA FlattenSkip ==
  ASSUME NEW M, NEW s \in Seq(Seq(M)), NEW t \in Seq(Seq(M)), Skipped(t, s)
  PROVE  FlattenSeq(t) = FlattenSeq(s)
<1>0. PICK n \in Nat : n = Len(t) /\ n > 0 /\ n + 1 = Len(s) /\ n \in 1 .. n
  BY DEF Skipped
<1>1. PICK f : Joined(f, s, M)
  BY JoinedExists
<1>2. /\ \A k \in 1 .. n + 1 : f[k] \in Seq(M) /\ s[k] \in Seq(M)
      /\ f[1] = s[1]
      /\ \A i, k \in 1 .. n + 1 : Follows(k, i) => f[k] = Cat(f[i], s[k])
  <2>1. \A k \in 1 .. n + 1 : f[k] \in Seq(M) /\ s[k] \in Seq(M)
    BY <1>0, <1>1, JoinedFacts
  <2>2. f[1] = s[1]
    BY <1>0, <1>1 DEF Joined
  <2>3. \A i, k \in 1 .. n + 1 : Follows(k, i) => f[k] = Cat(f[i], s[k])
    BY <1>0, <1>1 DEF Joined
  <2> QED
    BY <2>1, <2>2, <2>3
<1>3. s[1] = <<>> /\ \A k \in 1 .. n : t[k] = s[k + 1]
  BY <1>0 DEF Skipped
<1> DEFINE g == [k \in 1 .. n |-> f[k + 1]]
<1>4. \A k \in 1 .. n : g[k] = f[k + 1] /\ k + 1 \in 1 .. n + 1
  OBVIOUS
<1>5. g \in [1 .. n -> Seq(M)]
  BY <1>2
<1> HIDE DEF g
<1>6. g[1] = t[1]
  <2>1. 1 \in 1 .. n + 1 /\ 2 \in 1 .. n + 1 /\ Follows(2, 1) /\ 1 \in 1 .. n
    BY <1>0 DEF Follows
  <2>2. f[2] = Cat(f[1], s[2]) /\ s[2] \in Seq(M)
    BY <1>2, <2>1
  <2>3. f[2] = s[2]
    BY <1>2, <1>3, <2>2, CatEmpty
  <2> QED
    BY <1>3, <1>4, <2>1, <2>3
<1>7. ASSUME NEW i \in 1 .. n, NEW k \in 1 .. n, Follows(k, i)
      PROVE  g[k] = Cat(g[i], t[k])
  <2>1. PICK l \in 1 .. n + 1 : l = k + 1 /\ k \in 1 .. n + 1 /\ Follows(l, k)
    BY <1>0 DEF Follows
  <2>2. f[l] = Cat(f[k], s[l])
    BY <1>2, <2>1
  <2>3. g[k] = f[l] /\ g[i] = f[k]
    BY <1>4, <1>7, <2>1 DEF Follows
  <2>4. t[k] = s[l]
    BY <1>3, <2>1
  <2> QED
    BY <2>2, <2>3, <2>4
<1>8. Joined(g, t, M)
  BY <1>0, <1>5, <1>6, <1>7 DEF Joined
<1>9. FlattenSeq(t) = g[n]
  BY <1>0, <1>8, FlattenIsLast
<1>10. FlattenSeq(s) = f[n + 1]
  BY <1>0, <1>1, FlattenIsLast
<1>11. g[n] = f[n + 1]
  BY <1>0, <1>4
<1> QED
  BY <1>9, <1>10, <1>11

-----------------------------------------------------------------------------
(* The chain of nodes                                                      *)

\* The sender may still come to put its message into the queue of the node, or
\* has just put it there.
Filling(n) ==
  \/ n = tail /\ spc \in {"s_select", "s_publish", "s_wake", "s_close"}
  \/ n = fresh /\ Linking

\* Nobody puts another message into the queue of the node.
Over(n) == qclosed[n] /\ ~(n = tail /\ spc = "s_select")

\* The list is a chain of all nodes that were linked.
Consecutive == \A n \in Nodes : next[n] = IF n < nodes THEN n + 1 ELSE Null

\* Closers close queues only once the flag of the list is up.
Closing ==
  /\ \A c \in Closers : cpc[c] \in {"c_head", "c_close", "c_next", "c_close_next"} => closed
  /\ \A n \in Nodes : n > nodes => ~qclosed[n]
  /\ ~closed => \A n \in Nodes : qclosed[n] => ~Filling(n)

\* The receiver leaves a node that is closed, empty and stays so.
LeftEmpty ==
  /\ rpc = "r_last" => qclosed[head]
  /\ rpc = "r_err" => qclosed[head] /\ (~closed => queue[head] = <<>>)
  /\ rpc = "r_next" => Over(head) /\ queue[head] = <<>>
  /\ \A n \in Nodes : n < head => Over(n)

\* Nodes in front of the one the sender is in are empty.
FrontEmpty ==
  /\ Linking => \A n \in Nodes : n > fresh => queue[n] = <<>>
  /\ ~Linking /\ tail # Null => \A n \in Nodes : n > tail => queue[n] = <<>>

ChainInv == ListInv /\ Consecutive /\ Closing /\ LeftEmpty /\ FrontEmpty

\* What every proof below needs to know of nodes.
LEMMA NodeFacts ==
  ListInv => /\ TypeOK /\ Held /\ Chained /\ StartsEmpty
             /\ Nodes \subseteq Nat /\ Null \notin Nodes /\ MaxNodes \in Nat
             /\ \A n \in Nat : n \in Nodes <=> 1 <= n /\ n <= MaxNodes
             /\ head \in Nodes /\ nodes \in Nodes
             /\ tail \in Nodes \cup {Null} /\ fresh \in Nodes \cup {Null}
             /\ tail \in Nat /\ fresh \in Nat /\ head \in Nat /\ nodes \in Nat
             /\ head <= nodes /\ tail <= nodes /\ fresh <= nodes
<1>1. Nodes \subseteq Nat /\ Null \notin Nodes /\ MaxNodes \in Nat
      /\ \A n \in Nat : n \in Nodes <=> 1 <= n /\ n <= MaxNodes
  BY BoundAssumption DEF Nodes, Null
<1>2. ListInv => /\ TypeOK /\ Held /\ Chained /\ StartsEmpty
                 /\ head \in Nodes /\ nodes \in Nodes
                 /\ tail \in Nodes \cup {Null} /\ fresh \in Nodes \cup {Null}
                 /\ head <= nodes /\ tail <= nodes /\ fresh <= nodes
  BY DEF ListInv, TypeOK, Chained
<1> QED
  BY <1>1, <1>2, Numbered

\* The sender closes a queue that it has left, or one that is no longer in use.
LEMMA SenderChain == ChainInv /\ SenderRuns =>
                       Consecutive' /\ Closing' /\ LeftEmpty' /\ FrontEmpty'
<1> SUFFICES ASSUME ChainInv, Alive(SenderNodes), SenderStep
             PROVE  Consecutive' /\ Closing' /\ LeftEmpty' /\ FrontEmpty'
  BY DEF SenderRuns
<1> USE DEF list, sender, receiver, closer
<1>0. /\ ListInv /\ Consecutive /\ Closing /\ LeftEmpty /\ FrontEmpty
      /\ TypeOK /\ Held /\ Chained /\ StartsEmpty
      /\ Nodes \subseteq Nat /\ Null \notin Nodes /\ MaxNodes \in Nat
      /\ \A n \in Nat : n \in Nodes <=> 1 <= n /\ n <= MaxNodes
      /\ head \in Nodes /\ nodes \in Nodes
      /\ tail \in Nodes \cup {Null} /\ fresh \in Nodes \cup {Null}
      /\ tail \in Nat /\ fresh \in Nat /\ head \in Nat /\ nodes \in Nat
      /\ head <= nodes /\ tail <= nodes /\ fresh <= nodes
  BY NodeFacts DEF ChainInv
<1>1. ASSUME UNCHANGED <<list, queue, qclosed, fresh, cpc>>,
             spc' # "s_select", Linking' <=> Linking,
             \A n \in Nodes : Filling(n)' => Filling(n),
             rpc' = rpc \/ rpc' = "r_recv"
      PROVE  Consecutive' /\ Closing' /\ LeftEmpty' /\ FrontEmpty'
  BY <1>0, <1>1 DEF Consecutive, Closing, LeftEmpty, FrontEmpty, Over
<1>2. CASE SendLoadClosed
  <2>1. /\ UNCHANGED <<list, queue, qclosed, fresh, receiver, closer>>
        /\ tail \in Nodes /\ spc = "s_try"
        /\ spc' = IF qclosed[tail] THEN "s_refused" ELSE "s_select"
    BY <1>0, <1>2 DEF SendLoadClosed, Alive, SenderNodes
  <2>2. ~Linking /\ ~Linking'
    BY <2>1 DEF Linking
  <2>3. Closing'
    BY <1>0, <2>1, <2>2 DEF Closing, Filling
  <2>4. LeftEmpty'
    BY <1>0, <2>1, <2>2 DEF LeftEmpty, Over
  <2> QED
    BY <1>0, <2>1, <2>2, <2>3, <2>4 DEF Consecutive, FrontEmpty
<1>3. CASE SendSelect
  <2>1. /\ UNCHANGED <<list, qclosed, fresh, receiver, closer>>
        /\ tail \in Nodes /\ spc = "s_select"
        /\ spc' \in {"s_publish", "s_close"}
        /\ queue' = [queue EXCEPT ![tail] = Append(@, sval)] \/ queue' = queue
    BY <1>0, <1>3 DEF SendSelect, Alive, SenderNodes
  <2>2. ~Linking /\ ~Linking'
    BY <2>1 DEF Linking
  <2>3. \A n \in Nodes : n # tail => queue'[n] = queue[n]
    BY <1>0, <2>1 DEF TypeOK
  <2>4. Closing'
    BY <1>0, <2>1, <2>2 DEF Closing, Filling
  <2>5. LeftEmpty'
    <3>1. rpc = "r_err" /\ ~closed => head # tail
      BY <1>0, <2>1 DEF LeftEmpty, Closing, Filling
    <3>2. rpc = "r_next" => head # tail
      BY <1>0, <2>1 DEF LeftEmpty, Over
    <3> QED
      BY <1>0, <2>1, <2>3, <3>1, <3>2 DEF LeftEmpty, Over
  <2>6. FrontEmpty'
    BY <1>0, <2>1, <2>2, <2>3 DEF FrontEmpty
  <2> QED
    BY <1>0, <2>1, <2>4, <2>5, <2>6 DEF Consecutive
<1>4. CASE SendPublish
  BY <1>1, <1>4 DEF SendPublish, Filling, Linking
<1>5. CASE SendWake
  BY <1>1, <1>5 DEF SendWake, WakeReader, Filling, Linking
<1>6. CASE SendClose
  <2>1. /\ UNCHANGED <<list, queue, fresh, receiver, closer>>
        /\ tail \in Nodes /\ spc = "s_close" /\ spc' = "s_link"
        /\ qclosed' = [qclosed EXCEPT ![tail] = TRUE] /\ qclosed \in [Nodes -> BOOLEAN]
    BY <1>0, <1>6 DEF SendClose, Alive, SenderNodes, TypeOK
  <2>2. ~Linking /\ ~Linking' /\ \A n \in Nodes : ~Filling(n)'
    BY <2>1 DEF Linking, Filling
  <2>3. Closing'
    BY <1>0, <2>1, <2>2 DEF Closing
  <2>4. LeftEmpty'
    BY <1>0, <2>1 DEF LeftEmpty, Over
  <2> QED
    BY <1>0, <2>1, <2>2, <2>3, <2>4 DEF Consecutive, FrontEmpty
<1>7. CASE SendLink
  <2>1. /\ UNCHANGED <<head, closed, queue, qclosed, receiver, closer>>
        /\ tail \in Nodes /\ spc = "s_link" /\ ~Linking
    BY <1>0, <1>7 DEF SendLink, Alive, SenderNodes, Linking
  <2>2. CASE /\ next[tail] = Null /\ nodes < MaxNodes /\ nodes' = nodes + 1
             /\ fresh' = nodes + 1 /\ next' = [next EXCEPT ![tail] = nodes + 1]
             /\ spc' = "s_fill" /\ tail' = tail
    <3>1. tail = nodes /\ nodes + 1 \in Nodes /\ ~qclosed[nodes + 1] /\ Linking'
      BY <1>0, <2>1, <2>2 DEF Consecutive, Closing, Linking
    <3>2. Consecutive'
      BY <1>0, <2>2, <3>1 DEF Consecutive, TypeOK
    <3>3. Closing'
      BY <1>0, <2>1, <2>2, <3>1 DEF Closing, Filling
    <3>4. LeftEmpty'
      BY <1>0, <2>1, <2>2 DEF LeftEmpty, Over
    <3>5. FrontEmpty'
      BY <1>0, <2>1, <2>2, <3>1 DEF FrontEmpty, StartsEmpty
    <3> QED
      BY <3>2, <3>3, <3>4, <3>5
  <2>3. CASE /\ tail' = next[tail] /\ spc' = "s_refused"
             /\ nodes' = nodes /\ fresh' = fresh /\ next' = next
    <3>1. tail' = Null \/ tail' > tail
      BY <1>0, <2>1, <2>3 DEF Consecutive
    <3>2. ~Linking' /\ \A n \in Nodes : ~Filling(n)'
      BY <2>3 DEF Linking, Filling
    <3>3. FrontEmpty'
      BY <1>0, <2>1, <2>3, <3>1, <3>2 DEF FrontEmpty, TypeOK
    <3>4. LeftEmpty'
      BY <1>0, <2>1, <2>3 DEF LeftEmpty, Over
    <3> QED
      BY <1>0, <2>1, <2>3, <3>2, <3>3, <3>4 DEF Consecutive, Closing
  <2> QED
    BY <1>7, <2>2, <2>3 DEF SendLink
<1>8. CASE SendFill
  <2>1. /\ UNCHANGED <<list, qclosed, fresh, receiver, closer>>
        /\ fresh \in Nodes /\ spc = "s_fill" /\ spc' \in {"s_tail", "s_fill_publish"}
        /\ queue' = IF qclosed[fresh] THEN queue
                    ELSE [queue EXCEPT ![fresh] = Append(@, sval)]
    BY <1>0, <1>8 DEF SendFill, Alive, SenderNodes
  <2>2. Linking /\ Linking' /\ \A n \in Nodes : Filling(n)' => Filling(n)
    BY <2>1 DEF Linking, Filling
  <2>3. \A n \in Nodes : n # fresh \/ qclosed[n] => queue'[n] = queue[n]
    BY <1>0, <2>1 DEF TypeOK
  <2>4. LeftEmpty'
    BY <1>0, <2>1, <2>3 DEF LeftEmpty, Over
  <2>5. FrontEmpty'
    BY <1>0, <2>1, <2>2, <2>3 DEF FrontEmpty
  <2> QED
    BY <1>0, <2>1, <2>2, <2>4, <2>5 DEF Consecutive, Closing
<1>9. CASE SendFillPublish
  BY <1>1, <1>9 DEF SendFillPublish, Filling, Linking
<1>10. CASE SendFillWake
  BY <1>1, <1>10 DEF SendFillWake, WakeReader, Filling, Linking
<1>11. CASE SendTail
  <2>1. /\ UNCHANGED <<head, closed, next, nodes, queue, qclosed, receiver, closer>>
        /\ spc = "s_tail" /\ spc' = "idle" /\ tail' = fresh
    BY <1>11 DEF SendTail
  <2>2. Linking /\ ~Linking' /\ \A n \in Nodes : ~Filling(n)'
    BY <2>1 DEF Linking, Filling
  <2> QED
    BY <1>0, <2>1, <2>2 DEF Consecutive, Closing, LeftEmpty, Over, FrontEmpty
<1>12. CASE SendRefused
  BY <1>1, <1>12 DEF SendRefused, Filling, Linking
<1> QED
  BY <1>2, <1>3, <1>4, <1>5, <1>6, <1>7, <1>8, <1>9, <1>10, <1>11, <1>12 DEF SenderStep

\* The receiver moves on from a queue that is closed, empty, and not being filled.
LEMMA ReceiverChain == ChainInv /\ ReceiverRuns =>
                         Consecutive' /\ Closing' /\ LeftEmpty' /\ FrontEmpty'
<1> SUFFICES ASSUME ChainInv, ReceiverStep
             PROVE  Consecutive' /\ Closing' /\ LeftEmpty' /\ FrontEmpty'
  BY DEF ReceiverRuns
<1> USE DEF list, sender, receiver, closer
<1>0. /\ ListInv /\ Consecutive /\ Closing /\ LeftEmpty /\ FrontEmpty
      /\ TypeOK /\ Held /\ Chained /\ StartsEmpty
      /\ Nodes \subseteq Nat /\ Null \notin Nodes /\ MaxNodes \in Nat
      /\ \A n \in Nat : n \in Nodes <=> 1 <= n /\ n <= MaxNodes
      /\ head \in Nodes /\ nodes \in Nodes
      /\ tail \in Nodes \cup {Null} /\ fresh \in Nodes \cup {Null}
      /\ tail \in Nat /\ fresh \in Nat /\ head \in Nat /\ nodes \in Nat
      /\ head <= nodes /\ tail <= nodes /\ fresh <= nodes
  BY NodeFacts DEF ChainInv
<1>1. /\ UNCHANGED <<tail, closed, next, nodes, qclosed, sender, closer>>
      /\ (Linking' <=> Linking) /\ \A n \in Nodes : Filling(n)' <=> Filling(n)
  BY DEF ReceiverStep, RecvSelect, RecvLook, RecvPark, RecvReleased, RecvRelease, RecvErr,
     RecvNext, RecvFree, Linking, Filling
<1>2. Consecutive' /\ Closing'
  BY <1>0, <1>1 DEF Consecutive, Closing
<1>3. ASSUME UNCHANGED <<head, queue>>,
             rpc' = "r_last" => qclosed[head],
             rpc' = "r_err" => qclosed[head] /\ (~closed => queue[head] = <<>>),
             rpc' = "r_next" => Over(head) /\ queue[head] = <<>>
      PROVE  LeftEmpty' /\ FrontEmpty'
  BY <1>0, <1>1, <1>3 DEF LeftEmpty, FrontEmpty, Over
<1>4. CASE RecvSelect
  <2>1. /\ head' = head /\ rpc \in {"r_recv", "r_last"}
        /\ queue[head] \in Seq(Messages) /\ Len(queue[head]) \in Nat
    BY <1>0, <1>4 DEF RecvSelect, TypeOK
  <2>2. CASE Receivable(head)
    <3>1. rpc' = "r_read" /\ queue' = [queue EXCEPT ![head] = Tail(@)]
      BY <1>4, <2>2 DEF RecvSelect
    <3>2. queue[head] # <<>>
      BY <2>1, <2>2 DEF Receivable
    <3>3. LeftEmpty'
      BY <1>0, <1>1, <2>1, <3>1 DEF LeftEmpty, Over
    <3>4. \A n \in Nodes : queue[n] = <<>> => queue'[n] = <<>>
      BY <1>0, <3>1, <3>2 DEF TypeOK
    <3> QED
      BY <1>0, <1>1, <1>2, <3>3, <3>4 DEF FrontEmpty
  <2>3. CASE ~Receivable(head)
    <3>1. /\ UNCHANGED <<head, queue>>
          /\ rpc' = IF rpc = "r_last" THEN "r_err" ELSE "r_look"
      BY <1>4, <2>1, <2>3 DEF RecvSelect
    <3>2. rpc = "r_last" /\ ~closed => queue[head] = <<>>
      <4> SUFFICES ASSUME rpc = "r_last", ~closed PROVE queue[head] = <<>>
        OBVIOUS
      <4>1. qclosed[head] /\ ~Filling(head)
        BY <1>0 DEF LeftEmpty, Closing
      <4>2. ~Unpublished(head)
        BY <4>1 DEF Filling, Unpublished, Linking
      <4> QED
        BY <2>1, <2>3, <4>2 DEF Receivable
    <3> QED
      BY <1>0, <1>2, <1>3, <3>1, <3>2 DEF LeftEmpty
  <2> QED
    BY <1>2, <2>2, <2>3
<1>5. CASE RecvLook
  BY <1>2, <1>3, <1>5 DEF RecvLook
<1>6. CASE RecvPark
  BY <1>2, <1>3, <1>6 DEF RecvPark
<1>7. CASE RecvReleased
  BY <1>2, <1>3, <1>7 DEF RecvReleased
<1>8. CASE RecvRelease
  BY <1>2, <1>3, <1>8 DEF RecvRelease
<1>9. CASE RecvErr
  <2>1. /\ UNCHANGED <<head, queue>> /\ rpc = "r_err" /\ rpc' \in {"idle", "r_next"}
        /\ rpc' = "r_next" => ~closed
    BY <1>9 DEF RecvErr
  <2>2. ~closed => Over(head) /\ queue[head] = <<>>
    BY <1>0, <2>1 DEF LeftEmpty, Closing, Filling, Over
  <2> QED
    BY <1>2, <1>3, <2>1, <2>2
<1>10. CASE RecvNext
  <2>1. /\ head' = next[head] /\ head' # Null /\ rpc = "r_next" /\ rpc' = "r_free"
        /\ queue' = queue
    BY <1>10 DEF RecvNext
  <2>2. head' = head + 1
    BY <1>0, <2>1 DEF Consecutive
  <2>3. \A n \in Nodes : n < head' => Over(n)
    <3>1. Over(head) /\ \A n \in Nodes : n < head => Over(n)
      BY <1>0, <2>1 DEF LeftEmpty
    <3>2. \A n \in Nodes : n < head' => n < head \/ n = head
      BY <1>0, <2>2
    <3> QED
      BY <3>1, <3>2
  <2> QED
    BY <1>0, <1>1, <1>2, <2>1, <2>3 DEF LeftEmpty, FrontEmpty, Over
<1>11. CASE RecvFree
  BY <1>2, <1>3, <1>11 DEF RecvFree
<1> QED
  BY <1>4, <1>5, <1>6, <1>7, <1>8, <1>9, <1>10, <1>11 DEF ReceiverStep

\* A close adds a node that is closed, and closes others with the flag up.
LEMMA CloserChain ==
  ASSUME NEW c \in Closers
  PROVE  ChainInv /\ CloserRuns(c) => Consecutive' /\ Closing' /\ LeftEmpty' /\ FrontEmpty'
<1> SUFFICES ASSUME ChainInv, Alive(CloserNodes(c)), CloserStep(c)
             PROVE  Consecutive' /\ Closing' /\ LeftEmpty' /\ FrontEmpty'
  BY DEF CloserRuns
<1> USE DEF list, sender, receiver, closer, CloserAt
<1>0. /\ ListInv /\ Consecutive /\ Closing /\ LeftEmpty /\ FrontEmpty
      /\ TypeOK /\ Held /\ Chained /\ StartsEmpty
      /\ Nodes \subseteq Nat /\ Null \notin Nodes /\ MaxNodes \in Nat
      /\ \A n \in Nat : n \in Nodes <=> 1 <= n /\ n <= MaxNodes
      /\ head \in Nodes /\ nodes \in Nodes
      /\ tail \in Nodes \cup {Null} /\ fresh \in Nodes \cup {Null}
      /\ tail \in Nat /\ fresh \in Nat /\ head \in Nat /\ nodes \in Nat
      /\ head <= nodes /\ tail <= nodes /\ fresh <= nodes
      /\ cpc \in [Closers -> CloserPCs] /\ qclosed \in [Nodes -> BOOLEAN]
  BY NodeFacts DEF ChainInv, TypeOK
<1>1. /\ UNCHANGED <<head, tail, queue, sender, receiver>>
      /\ (Linking' <=> Linking) /\ \A n \in Nodes : Filling(n)' <=> Filling(n)
  BY DEF CloserStep, CloseLoadTail, CloseLink, CloseFlag, CloseLoadHead, CloseNode,
     CloseLoadNext, CloseNextNode, Linking, Filling
<1>2. FrontEmpty'
  BY <1>0, <1>1 DEF FrontEmpty
<1>3. ASSUME UNCHANGED <<next, nodes, qclosed>>, closed' = closed \/ closed',
             \A d \in Closers : d # c => cpc'[d] = cpc[d],
             cpc'[c] \in {"c_head", "c_close", "c_next", "c_close_next"} => closed'
      PROVE  Consecutive' /\ Closing' /\ LeftEmpty'
  <2>1. Consecutive' /\ LeftEmpty'
    <3>1. Consecutive'
      BY <1>0, <1>3 DEF Consecutive
    <3>2. \A n \in Nodes : Over(n)' <=> Over(n)
      BY <1>1, <1>3 DEF Over
    <3>3. closed => closed'
      BY <1>3
    <3>4. LeftEmpty'
      BY <1>0, <1>1, <1>3, <3>2, <3>3 DEF LeftEmpty
    <3> QED
      BY <3>1, <3>4
  <2>2. ~closed' => ~closed
    BY <1>3
  <2>3. Closing'
    BY <1>0, <1>1, <1>3, <2>2 DEF Closing
  <2> QED
    BY <2>1, <2>3
<1>4. ASSUME NEW x \in Nodes, x <= nodes, closed, UNCHANGED <<next, nodes, closed>>,
             qclosed' = [qclosed EXCEPT ![x] = TRUE]
      PROVE  Consecutive' /\ Closing' /\ LeftEmpty'
  BY <1>0, <1>1, <1>4 DEF Consecutive, Closing, LeftEmpty, Over
<1>5. CASE CloseLoadTail(c)
  BY <1>0, <1>2, <1>3, <1>5 DEF CloseLoadTail
<1>6. CASE CloseLink(c)
  <2>1. cnode[c] \in Nodes /\ cnode[c] <= nodes /\ closed' = closed
        /\ cpc'[c] \in {"c_flag", "c_tail"} /\ \A d \in Closers : d # c => cpc'[d] = cpc[d]
    BY <1>0, <1>6 DEF CloseLink, Alive, CloserNodes, TypeOK, Chained
  <2>2. CASE UNCHANGED <<next, nodes, qclosed>>
    BY <1>2, <1>3, <2>1, <2>2
  <2>3. CASE next[cnode[c]] = Null /\ nodes < MaxNodes /\ nodes' = nodes + 1
             /\ next' = [next EXCEPT ![cnode[c]] = nodes + 1]
             /\ qclosed' = [qclosed EXCEPT ![nodes + 1] = TRUE]
    <3>1. cnode[c] = nodes /\ nodes + 1 \in Nodes
      <4>1. PICK x \in Nodes : x = cnode[c] /\ x \in Nat
        BY <1>0, <2>1
      <4>2. ~(x < nodes)
        BY <1>0, <2>3, <4>1 DEF Consecutive, Null
      <4>3. x = nodes
        BY <1>0, <2>1, <4>1, <4>2
      <4>4. nodes + 1 \in Nodes
        BY <1>0, <2>3
      <4> QED
        BY <4>1, <4>3, <4>4
    <3>2. Consecutive'
      BY <1>0, <2>3, <3>1 DEF Consecutive, TypeOK
    <3>3. ~Filling(nodes + 1)
      BY <1>0 DEF Filling
    <3>4. Closing'
      BY <1>0, <1>1, <2>1, <2>3, <3>1, <3>3 DEF Closing
    <3>5. LeftEmpty'
      BY <1>0, <1>1, <2>1, <2>3 DEF LeftEmpty, Over
    <3> QED
      BY <1>2, <3>2, <3>4, <3>5
  <2> QED
    BY <1>6, <2>2, <2>3 DEF CloseLink
<1>7. CASE CloseFlag(c)
  BY <1>0, <1>2, <1>3, <1>7 DEF CloseFlag
<1>8. CASE CloseLoadHead(c)
  <2>1. closed
    BY <1>0, <1>8 DEF CloseLoadHead, Closing
  <2> QED
    BY <1>0, <1>2, <1>3, <1>8, <2>1 DEF CloseLoadHead
<1>9. CASE CloseNode(c)
  <2>1. closed /\ cnode[c] \in Nodes /\ cnode[c] <= nodes
    BY <1>0, <1>9 DEF CloseNode, Closing, Alive, CloserNodes, TypeOK, Chained
  <2> QED
    BY <1>2, <1>4, <1>9, <2>1 DEF CloseNode
<1>10. CASE CloseLoadNext(c)
  <2>1. closed
    BY <1>0, <1>10 DEF CloseLoadNext, Closing
  <2> QED
    BY <1>0, <1>2, <1>3, <1>10, <2>1 DEF CloseLoadNext
<1>11. CASE CloseNextNode(c)
  <2>1. closed /\ cnode[c] \in Nodes /\ cnode[c] <= nodes
    BY <1>0, <1>11 DEF CloseNextNode, Closing, Alive, CloserNodes, TypeOK, Chained
  <2> QED
    BY <1>2, <1>4, <1>11, <2>1 DEF CloseNextNode
<1> QED
  BY <1>5, <1>6, <1>7, <1>8, <1>9, <1>10, <1>11 DEF CloserStep

\* Every step keeps the invariant.
LEMMA ChainStep == ChainInv /\ [Next]_vars => ChainInv'
<1> SUFFICES ASSUME ChainInv, [Next]_vars
             PROVE  Consecutive' /\ Closing' /\ LeftEmpty' /\ FrontEmpty'
  BY ListStep DEF ChainInv
<1> USE DEF list, sender, receiver, closer
<1>1. ASSUME UNCHANGED <<list, queue, qclosed, fresh>>,
             spc' # spc => spc = "idle" /\ spc' = "s_try",
             rpc' # rpc => rpc = "idle" /\ rpc' = "r_recv",
             \A c \in Closers : cpc'[c] # cpc[c] => cpc'[c] = "c_tail"
      PROVE  Consecutive' /\ Closing' /\ LeftEmpty' /\ FrontEmpty'
  <2>1. (Linking' <=> Linking) /\ \A n \in Nodes : Filling(n)' <=> Filling(n)
    BY <1>1 DEF Linking, Filling
  <2> QED
    BY <1>1, <2>1 DEF ChainInv, Consecutive, Closing, LeftEmpty, FrontEmpty, Over
<1>2. CASE Calls
  <2>1. ASSUME NEW m \in Messages, SendCall(m)
        PROVE  Consecutive' /\ Closing' /\ LeftEmpty' /\ FrontEmpty'
    BY <1>1, <2>1 DEF SendCall
  <2>2. CASE RecvCall
    BY <1>1, <2>2 DEF RecvCall
  <2>3. ASSUME NEW c \in Closers, CloseCall(c)
        PROVE  Consecutive' /\ Closing' /\ LeftEmpty' /\ FrontEmpty'
    <3>1. \A d \in Closers : cpc'[d] # cpc[d] => cpc'[d] = "c_tail"
      BY <2>3 DEF CloseCall, CloserAt, ChainInv, ListInv, TypeOK
    <3> QED
      BY <1>1, <2>3, <3>1 DEF CloseCall
  <2> QED
    BY <1>2, <2>1, <2>2, <2>3 DEF Calls
<1>3. ASSUME NEW used, Misuse(used)
      PROVE  Consecutive' /\ Closing' /\ LeftEmpty' /\ FrontEmpty'
  BY <1>1, <1>3 DEF Misuse
<1>4. CASE UNCHANGED vars
  BY <1>1, <1>4 DEF vars
<1> QED
  BY <1>2, <1>3, <1>4, SenderChain, ReceiverChain, CloserChain DEF Next

-----------------------------------------------------------------------------
(* The messages of the nodes                                               *)

\* The queues of the nodes from h to n.
Shares(h, n, q) == [k \in 1 .. n - h + 1 |-> q[h + k - 1]]

\* They are sequences of messages, at least one of them.
LEMMA SharesType ==
  ASSUME NEW h \in Nodes, NEW n \in Nodes, h <= n, NEW q \in [Nodes -> Seq(Messages)]
  PROVE  /\ Shares(h, n, q) \in Seq(Seq(Messages))
         /\ Len(Shares(h, n, q)) = n - h + 1 /\ n - h + 1 \in Nat \ {0}
         /\ \A k \in 1 .. n - h + 1 :
              Shares(h, n, q)[k] = q[h + k - 1] /\ h + k - 1 \in Nodes
<1>1. h \in Nat /\ n \in Nat /\ n - h + 1 \in Nat \ {0}
  BY BoundAssumption DEF Nodes
<1>2. \A k \in 1 .. n - h + 1 : h + k - 1 \in Nodes
  BY BoundAssumption DEF Nodes
<1>3. \A k \in 1 .. n - h + 1 : q[h + k - 1] \in Seq(Messages)
  BY <1>2
<1> DEFINE l == n - h + 1
<1> HIDE DEF l
<1>4. [k \in 1 .. l |-> q[h + k - 1]] \in Seq(Seq(Messages))
  <2>1. l \in Nat /\ \A k \in 1 .. l : q[h + k - 1] \in Seq(Messages)
    BY <1>1, <1>3 DEF l
  <2> QED
    BY <2>1
<1>5. Len([k \in 1 .. l |-> q[h + k - 1]]) = l
  BY <1>1 DEF l
<1> QED
  BY <1>1, <1>2, <1>4, <1>5 DEF Shares, l

\* A message more in the queue of one node, or one less, and queues that are empty
\* behind it.
Put(q, x, m) == [q EXCEPT ![x] = Append(@, m)]
Take(q, x) == [q EXCEPT ![x] = Tail(@)]
EmptyBehind(q, x) == \A y \in Nodes : y > x => q[y] = <<>>

\* A message appended to a queue behind which the others are empty,
LEMMA SharesAppend ==
  ASSUME NEW h \in Nodes, NEW n \in Nodes, h <= n, NEW q \in [Nodes -> Seq(Messages)],
         NEW x \in Nodes, h <= x, x <= n, NEW m \in Messages,
         EmptyBehind(q, x), NEW r, r = Put(q, x, m)
  PROVE  FlattenSeq(Shares(h, n, r)) = Append(FlattenSeq(Shares(h, n, q)), m)
<1> DEFINE j == x - h + 1
<1>0. h \in Nat /\ n \in Nat /\ x \in Nat /\ j \in 1 .. n - h + 1 /\ h + j - 1 = x
  BY BoundAssumption DEF Nodes
<1>1. /\ r \in [Nodes -> Seq(Messages)] /\ r[x] = Append(q[x], m)
      /\ \A y \in Nodes : y # x => r[y] = q[y]
      /\ \A y \in Nodes : y > x => q[y] = <<>>
  BY QueueEnds DEF Put, EmptyBehind
<1>2. Appended(Shares(h, n, r), Shares(h, n, q), j, m)
  <2>1. Len(Shares(h, n, r)) = n - h + 1 /\ Len(Shares(h, n, q)) = n - h + 1
    BY <1>1, SharesType
  <2>2. Shares(h, n, r)[j] = r[x] /\ Shares(h, n, q)[j] = q[x]
    BY <1>0 DEF Shares
  <2>3. ASSUME NEW k \in 1 .. n - h + 1
        PROVE  /\ k # j => Shares(h, n, r)[k] = Shares(h, n, q)[k]
               /\ k > j => Shares(h, n, q)[k] = <<>>
    <3>1. PICK y \in Nodes : y = h + k - 1 /\ y \in Nat
      <4>1. h + k - 1 \in Nodes /\ h + k - 1 \in Nat
        BY <1>0, BoundAssumption DEF Nodes
      <4> QED
        BY <4>1
    <3>2. Shares(h, n, r)[k] = r[y] /\ Shares(h, n, q)[k] = q[y]
      BY <1>0, <3>1 DEF Shares
    <3>3. (k # j => y # x) /\ (k > j => y > x)
      BY <1>0, <3>1
    <3> QED
      BY <1>1, <3>2, <3>3
  <2> QED
    BY <1>0, <1>1, <2>1, <2>2, <2>3 DEF Appended, Ext
<1>3. Shares(h, n, r) \in Seq(Seq(Messages)) /\ Shares(h, n, q) \in Seq(Seq(Messages))
  BY <1>1, SharesType
<1> HIDE DEF j
<1>4. FlattenSeq(Shares(h, n, r)) = Ext(FlattenSeq(Shares(h, n, q)), m)
  BY <1>2, <1>3, FlattenAppend
<1> QED
  BY <1>4 DEF Ext

\* one taken from the first queue,
LEMMA SharesTail ==
  ASSUME NEW h \in Nodes, NEW n \in Nodes, h <= n, NEW q \in [Nodes -> Seq(Messages)],
         q[h] # <<>>, NEW r, r = Take(q, h)
  PROVE  /\ FlattenSeq(Shares(h, n, q)) # <<>>
         /\ Head(FlattenSeq(Shares(h, n, q))) = Head(q[h])
         /\ FlattenSeq(Shares(h, n, r)) = Tail(FlattenSeq(Shares(h, n, q)))
<1>0. h \in Nat /\ n \in Nat /\ 1 \in 1 .. n - h + 1 /\ h + 1 - 1 = h
  BY BoundAssumption DEF Nodes
<1>1. /\ r \in [Nodes -> Seq(Messages)] /\ r[h] = Tail(q[h])
      /\ \A y \in Nodes : y # h => r[y] = q[y]
  <2>1. Tail(q[h]) \in Seq(Messages)
    BY QueueEnds
  <2> QED
    BY <2>1 DEF Take
<1>2. Shares(h, n, r)[1] = r[h] /\ Shares(h, n, q)[1] = q[h]
  BY <1>0 DEF Shares
<1>3. Shortened(Shares(h, n, r), Shares(h, n, q))
  <2>1. Len(Shares(h, n, r)) = n - h + 1 /\ Len(Shares(h, n, q)) = n - h + 1
        /\ n - h + 1 > 0
    <3>1. Len(Shares(h, n, r)) = n - h + 1
      BY <1>1, SharesType
    <3>2. Len(Shares(h, n, q)) = n - h + 1 /\ n - h + 1 > 0
      BY <1>0, SharesType
    <3> QED
      BY <3>1, <3>2
  <2>2. ASSUME NEW k \in 1 .. n - h + 1, k # 1
        PROVE  Shares(h, n, r)[k] = Shares(h, n, q)[k]
    <3>1. PICK y \in Nodes : y = h + k - 1 /\ y \in Nat
      <4>1. h + k - 1 \in Nodes /\ h + k - 1 \in Nat
        BY <1>0, BoundAssumption DEF Nodes
      <4> QED
        BY <4>1
    <3>2. Shares(h, n, r)[k] = r[y] /\ Shares(h, n, q)[k] = q[y]
      BY <1>0, <3>1 DEF Shares
    <3>3. y # h
      BY <1>0, <2>2, <3>1
    <3> QED
      BY <1>1, <3>2, <3>3
  <2> QED
    BY <1>1, <1>2, <2>1, <2>2 DEF Shortened, Rest
<1>4. Shares(h, n, r) \in Seq(Seq(Messages)) /\ Shares(h, n, q) \in Seq(Seq(Messages))
  BY <1>1, SharesType
<1>5. /\ FlattenSeq(Shares(h, n, q)) # <<>>
      /\ Head(FlattenSeq(Shares(h, n, q))) = Head(Shares(h, n, q)[1])
      /\ FlattenSeq(Shares(h, n, r)) = Rest(FlattenSeq(Shares(h, n, q)))
  BY <1>3, <1>4, FlattenTail
<1> QED
  BY <1>2, <1>5 DEF Rest

\* an empty node at the end,
LEMMA SharesGrow ==
  ASSUME NEW h \in Nodes, NEW n \in Nodes, h <= n, NEW q \in [Nodes -> Seq(Messages)],
         n + 1 \in Nodes, q[n + 1] = <<>>
  PROVE  FlattenSeq(Shares(h, n + 1, q)) = FlattenSeq(Shares(h, n, q))
<1>0. h \in Nat /\ n \in Nat /\ h <= n + 1 /\ n + 1 - h + 1 = n - h + 1 + 1
      /\ n - h + 1 + 1 \in 1 .. n + 1 - h + 1 /\ h + (n - h + 1 + 1) - 1 = n + 1
      /\ 1 .. n - h + 1 \subseteq 1 .. n + 1 - h + 1
  BY BoundAssumption DEF Nodes
<1>1. Grown(Shares(h, n + 1, q), Shares(h, n, q))
  <2>1. /\ Len(Shares(h, n + 1, q)) = n - h + 1 + 1 /\ Len(Shares(h, n, q)) = n - h + 1
        /\ n - h + 1 > 0
    BY <1>0, SharesType
  <2>2. Shares(h, n + 1, q)[n - h + 1 + 1] = <<>>
    <3>1. PICK y \in Nat : y = n + 1
      BY <1>0
    <3>2. Shares(h, n + 1, q)[n - h + 1 + 1] = q[y]
      BY <1>0, <3>1 DEF Shares
    <3> QED
      BY <3>1, <3>2
  <2>3. ASSUME NEW k \in 1 .. n - h + 1
        PROVE  Shares(h, n + 1, q)[k] = Shares(h, n, q)[k]
    <3>1. PICK y \in Nat : y = h + k - 1 /\ k \in 1 .. n + 1 - h + 1 /\ n + 1 \in Nat
      BY <1>0
    <3>2. Shares(h, n + 1, q)[k] = q[y]
      BY <1>0, <3>1 DEF Shares
    <3>3. Shares(h, n, q)[k] = q[y]
      BY <1>0, <3>1 DEF Shares
    <3> QED
      BY <3>2, <3>3
  <2> QED
    BY <2>1, <2>2, <2>3 DEF Grown
<1>2. /\ Shares(h, n + 1, q) \in Seq(Seq(Messages))
      /\ Shares(h, n, q) \in Seq(Seq(Messages))
  BY <1>0, SharesType
<1> QED
  BY <1>1, <1>2, FlattenGrow

\* and one at the beginning.
LEMMA SharesSkip ==
  ASSUME NEW h \in Nodes, NEW n \in Nodes, h < n, NEW q \in [Nodes -> Seq(Messages)],
         q[h] = <<>>
  PROVE  FlattenSeq(Shares(h + 1, n, q)) = FlattenSeq(Shares(h, n, q))
<1>0. h \in Nat /\ n \in Nat /\ h + 1 \in Nodes /\ h + 1 <= n /\ h <= n
      /\ n - h + 1 = n - (h + 1) + 1 + 1 /\ 1 \in 1 .. n - h + 1 /\ h + 1 - 1 = h
  BY BoundAssumption DEF Nodes
<1>1. Skipped(Shares(h + 1, n, q), Shares(h, n, q))
  <2>1. /\ Len(Shares(h + 1, n, q)) = n - (h + 1) + 1 /\ n - (h + 1) + 1 > 0
        /\ Len(Shares(h, n, q)) = n - (h + 1) + 1 + 1
    <3>1. Len(Shares(h + 1, n, q)) = n - (h + 1) + 1 /\ Len(Shares(h, n, q)) = n - h + 1
      BY <1>0, SharesType
    <3> QED
      BY <1>0, <3>1
  <2>2. Shares(h, n, q)[1] = <<>>
    <3>1. Shares(h, n, q)[1] = q[h]
      BY <1>0 DEF Shares
    <3> QED
      BY <3>1
  <2>3. ASSUME NEW k \in 1 .. n - (h + 1) + 1
        PROVE  Shares(h + 1, n, q)[k] = Shares(h, n, q)[k + 1]
    <3>1. PICK y \in Nat, l \in 1 .. n - h + 1 :
            l = k + 1 /\ y = h + 1 + k - 1 /\ y = h + l - 1
      BY <1>0
    <3>2. Shares(h + 1, n, q)[k] = q[y]
      BY <1>0, <3>1 DEF Shares
    <3>3. Shares(h, n, q)[l] = q[y]
      BY <1>0, <3>1 DEF Shares
    <3> QED
      BY <3>1, <3>2, <3>3
  <2> QED
    BY <2>1, <2>2, <2>3 DEF Skipped
<1>2. /\ Shares(h + 1, n, q) \in Seq(Seq(Messages))
      /\ Shares(h, n, q) \in Seq(Seq(Messages))
  BY <1>0, SharesType
<1> QED
  BY <1>1, <1>2, FlattenSkip

-----------------------------------------------------------------------------
(* The channel                                                             *)

\* The sender has a message that is not in the list.
InHand == spc \in {"s_try", "s_select", "s_close", "s_link", "s_fill", "s_refused"}

\* The messages that are not yet in the list.
Unsent == Cardinality(todo) + IF InHand THEN 1 ELSE 0

\* There are never more messages than there are to send.
Room == Unsent + Len(Pending) <= MaxMessages

\* What a step can do to the channel: nothing, accept a message, or hand one over.
Stays == Pending' = Pending /\ Delivered' = Delivered /\ Unsent' <= Unsent
Gains(m) == /\ Pending' = Append(Pending, m) /\ Delivered' = Delivered
            /\ Unsent' + 1 <= Unsent
Loses == /\ Pending # <<>>
         /\ Pending' = Tail(Pending)
         /\ Delivered' = Append(Delivered, Head(Pending))
         /\ Unsent' <= Unsent

\* Counting the messages.
LEMMA UnsentFacts ==
  /\ TypeOK => Cardinality(todo) \in Nat /\ Unsent \in Nat /\ IsFiniteSet(todo)
  /\ IsFiniteSet(Messages) /\ Cardinality(Messages) = MaxMessages
<1>1. IsFiniteSet(Messages) /\ Cardinality(Messages) = MaxMessages
  <2>1. Messages = 1 .. MaxMessages /\ MaxMessages \in Nat /\ 1 \in Nat
    BY BoundAssumption DEF Messages
  <2>2. /\ IsFiniteSet(1 .. MaxMessages)
        /\ Cardinality(1 .. MaxMessages) = IF 1 > MaxMessages THEN 0 ELSE MaxMessages - 1 + 1
    BY <2>1, FS_Interval
  <2> QED
    BY <2>1, <2>2
<1>2. TypeOK => IsFiniteSet(todo) /\ Cardinality(todo) \in Nat
  BY <1>1, FS_Subset, FS_CardinalityType DEF TypeOK
<1> QED
  BY <1>1, <1>2 DEF Unsent

\* The pending messages are those of the nodes from head on.
LEMMA PendingIsShares ==
  /\ Pending = FlattenSeq(Shares(head, nodes, queue))
  /\ Pending' = FlattenSeq(Shares(head', nodes', queue'))
BY DEF Pending, Shares

\* They are a sequence of messages.
LEMMA PendingType == ListInv => Pending \in Seq(Messages)
<1> SUFFICES ASSUME ListInv PROVE Pending \in Seq(Messages)
  OBVIOUS
<1>1. head \in Nodes /\ nodes \in Nodes /\ head <= nodes /\ queue \in [Nodes -> Seq(Messages)]
  BY NodeFacts DEF TypeOK
<1>2. Shares(head, nodes, queue) \in Seq(Seq(Messages)) /\ Len(Shares(head, nodes, queue)) > 0
  BY <1>1, SharesType
<1> QED
  BY <1>2, FlattenType, PendingIsShares

\* A step that touches neither end of the list nor a queue.
LEMMA Quiet ==
  /\ UNCHANGED <<head, nodes, queue>> => Pending' = Pending
  /\ UNCHANGED <<todo, spc>> => Unsent' = Unsent
  /\ UNCHANGED <<got, rval, rpc>> => Delivered' = Delivered
BY DEF Pending, Unsent, InHand, Delivered

\* A send puts its message behind all others, into the new node if it has linked one.
LEMMA SenderChannel ==
  ASSUME ChainInv, SenderRuns
  PROVE  Stays \/ \E m \in Messages : Gains(m)
<1> USE DEF list, sender, receiver, closer
<1>0. /\ ListInv /\ Consecutive /\ Closing /\ LeftEmpty /\ FrontEmpty
      /\ TypeOK /\ Held /\ Chained /\ StartsEmpty
      /\ Nodes \subseteq Nat /\ Null \notin Nodes /\ MaxNodes \in Nat
      /\ \A n \in Nat : n \in Nodes <=> 1 <= n /\ n <= MaxNodes
      /\ head \in Nodes /\ nodes \in Nodes
      /\ tail \in Nodes \cup {Null} /\ fresh \in Nodes \cup {Null}
      /\ tail \in Nat /\ fresh \in Nat /\ head \in Nat /\ nodes \in Nat
      /\ head <= nodes /\ tail <= nodes /\ fresh <= nodes
      /\ queue \in [Nodes -> Seq(Messages)]
      /\ Cardinality(todo) \in Nat /\ IsFiniteSet(todo)
      /\ Alive(SenderNodes) /\ SenderStep
  BY NodeFacts, UnsentFacts DEF ChainInv, TypeOK, SenderRuns
<1>1. Delivered' = Delivered
  BY DEF SenderRuns, SenderStep, SendLoadClosed, SendSelect, SendPublish, SendWake, SendClose,
     SendLink, SendFill, SendFillPublish, SendFillWake, SendTail, SendRefused, WakeReader,
     Delivered
<1>2. ASSUME UNCHANGED <<head, nodes, queue, todo>>, InHand' => InHand
      PROVE  Stays
  BY <1>0, <1>1, <1>2, Quiet DEF Stays, Unsent
<1>3. ASSUME NEW n \in Nodes, head <= n, n <= nodes, UNCHANGED <<head, nodes, todo>>,
             queue' = [queue EXCEPT ![n] = Append(@, sval)], InHand, ~InHand',
             \A k \in Nodes : k > n => queue[k] = <<>>
      PROVE  \E m \in Messages : Gains(m)
  <2>1. sval \in Messages
    BY <1>0, <1>3 DEF Held, InHand
  <2>2. Pending' = Append(Pending, sval)
    <3>1. queue' = Put(queue, n, sval) /\ EmptyBehind(queue, n)
      BY <1>3 DEF Put, EmptyBehind
    <3>2. FlattenSeq(Shares(head, nodes, queue'))
          = Append(FlattenSeq(Shares(head, nodes, queue)), sval)
      <4>1. head \in Nodes /\ nodes \in Nodes /\ head <= nodes
            /\ queue \in [Nodes -> Seq(Messages)] /\ head <= n /\ n <= nodes
        BY <1>0, <1>3
      <4> QED
        BY <2>1, <3>1, <4>1, SharesAppend
    <3> QED
      BY <1>3, <3>1, <3>2, PendingIsShares
  <2>3. Unsent' + 1 <= Unsent
    BY <1>0, <1>3 DEF Unsent
  <2> QED
    BY <1>1, <2>1, <2>2, <2>3 DEF Gains
<1>4. CASE SendLoadClosed
  BY <1>2, <1>4 DEF SendLoadClosed, InHand
<1>5. CASE SendSelect
  <2>1. /\ spc = "s_select" /\ tail \in Nodes /\ UNCHANGED <<head, nodes, todo>>
        /\ \/ spc' = "s_close" /\ queue' = queue
           \/ spc' = "s_publish" /\ queue' = [queue EXCEPT ![tail] = Append(@, sval)]
    BY <1>0, <1>5 DEF SendSelect, Alive, SenderNodes
  <2>2. head <= tail
    BY <1>0, <2>1 DEF LeftEmpty, Over
  <2>3. \A k \in Nodes : k > tail => queue[k] = <<>>
    BY <1>0, <2>1 DEF FrontEmpty, Linking
  <2> QED
    BY <1>0, <1>2, <1>3, <2>1, <2>2, <2>3 DEF InHand
<1>6. CASE SendPublish
  BY <1>2, <1>6 DEF SendPublish, InHand
<1>7. CASE SendWake
  BY <1>2, <1>7 DEF SendWake, InHand
<1>8. CASE SendClose
  BY <1>2, <1>8 DEF SendClose, InHand
<1>9. CASE SendLink
  <2>1. CASE nodes' = nodes
    BY <1>2, <1>9, <2>1 DEF SendLink, InHand
  <2>2. CASE nodes' = nodes + 1 /\ nodes < MaxNodes
    <3>1. nodes + 1 \in Nodes /\ queue[nodes + 1] = <<>> /\ UNCHANGED <<head, queue, todo>>
          /\ InHand
      BY <1>0, <1>9, <2>2 DEF StartsEmpty, SendLink, InHand
    <3>2. Pending' = Pending
      BY <1>0, <2>2, <3>1, PendingIsShares, SharesGrow
    <3>3. Unsent' <= Unsent
      BY <1>0, <3>1 DEF Unsent
    <3> QED
      BY <1>1, <3>2, <3>3 DEF Stays
  <2> QED
    BY <1>9, <2>1, <2>2 DEF SendLink
<1>10. CASE SendFill
  <2>1. /\ spc = "s_fill" /\ fresh \in Nodes /\ UNCHANGED <<head, nodes, todo>>
        /\ \/ spc' = "s_tail" /\ queue' = queue
           \/ /\ spc' = "s_fill_publish" /\ ~qclosed[fresh]
              /\ queue' = [queue EXCEPT ![fresh] = Append(@, sval)]
    BY <1>0, <1>10 DEF SendFill, Alive, SenderNodes
  <2>2. ~qclosed[fresh] => head <= fresh
    BY <1>0, <2>1 DEF LeftEmpty, Over
  <2>3. \A k \in Nodes : k > fresh => queue[k] = <<>>
    BY <1>0, <2>1 DEF FrontEmpty, Linking
  <2> QED
    BY <1>0, <1>2, <1>3, <2>1, <2>2, <2>3 DEF InHand
<1>11. CASE SendFillPublish
  BY <1>2, <1>11 DEF SendFillPublish, InHand
<1>12. CASE SendFillWake
  BY <1>2, <1>12 DEF SendFillWake, InHand
<1>13. CASE SendTail
  BY <1>2, <1>13 DEF SendTail, InHand
<1>14. CASE SendRefused
  <2>1. /\ InHand /\ ~InHand' /\ UNCHANGED <<head, nodes, queue>>
        /\ todo' = todo \cup {sval}
    BY <1>14 DEF SendRefused, InHand
  <2>2. Cardinality(todo') \in Nat /\ Cardinality(todo') <= Cardinality(todo) + 1
    <3>1. Cardinality(todo \cup {sval})
            = IF sval \in todo THEN Cardinality(todo) ELSE Cardinality(todo) + 1
      BY <1>0, FS_AddElement
    <3> QED
      BY <1>0, <2>1, <3>1
  <2>3. Unsent' <= Unsent
    BY <1>0, <2>1, <2>2 DEF Unsent
  <2> QED
    BY <1>1, <2>1, <2>3, Quiet DEF Stays
<1> QED
  BY <1>0, <1>4, <1>5, <1>6, <1>7, <1>8, <1>9, <1>10, <1>11, <1>12, <1>13, <1>14
  DEF SenderStep

\* A receive takes the oldest message, and moves on only from a node that is empty.
LEMMA ReceiverChannel ==
  ASSUME ChainInv, ReceiverRuns
  PROVE  Stays \/ Loses
<1> USE DEF list, sender, receiver, closer
<1>0. /\ ListInv /\ Consecutive /\ Closing /\ LeftEmpty /\ FrontEmpty
      /\ TypeOK /\ Held /\ Chained /\ StartsEmpty
      /\ Nodes \subseteq Nat /\ Null \notin Nodes
      /\ head \in Nodes /\ nodes \in Nodes /\ head \in Nat /\ nodes \in Nat
      /\ head <= nodes
      /\ queue \in [Nodes -> Seq(Messages)]
      /\ Unsent \in Nat /\ ReceiverStep
  BY NodeFacts, UnsentFacts DEF ChainInv, TypeOK, ReceiverRuns
<1>1. Unsent' = Unsent
  BY Quiet
     DEF ReceiverStep, RecvSelect, RecvLook, RecvPark, RecvReleased, RecvRelease, RecvErr,
     RecvNext, RecvFree, ReceiverRuns
<1>2. ASSUME UNCHANGED <<head, nodes, queue>>, Delivered' = Delivered
      PROVE  Stays
  BY <1>0, <1>1, <1>2, Quiet DEF Stays
<1>3. CASE RecvSelect
  <2>1. CASE Receivable(head)
    <3>1. /\ rpc \in {"r_recv", "r_last"} /\ rpc' = "r_read"
          /\ rval' = Head(queue[head]) /\ queue' = [queue EXCEPT ![head] = Tail(@)]
          /\ UNCHANGED <<head, nodes, got>>
      BY <1>3, <2>1 DEF RecvSelect
    <3>2. queue[head] # <<>>
      <4>1. queue[head] \in Seq(Messages) /\ Len(queue[head]) > 0
        BY <1>0, <2>1 DEF Receivable
      <4> QED
        BY <4>1
    <3>3. /\ Pending # <<>> /\ Head(Pending) = Head(queue[head])
          /\ Pending' = Tail(Pending)
      <4>1. queue' = Take(queue, head)
        BY <3>1 DEF Take
      <4>2. /\ FlattenSeq(Shares(head, nodes, queue)) # <<>>
            /\ Head(FlattenSeq(Shares(head, nodes, queue))) = Head(queue[head])
            /\ FlattenSeq(Shares(head, nodes, queue'))
                 = Tail(FlattenSeq(Shares(head, nodes, queue)))
        BY <1>0, <3>2, <4>1, SharesTail
      <4> QED
        BY <3>1, <4>2, PendingIsShares
    <3>4. Delivered = got /\ Delivered' = Append(got, rval')
      BY <3>1 DEF Delivered
    <3> QED
      BY <1>0, <1>1, <3>1, <3>3, <3>4 DEF Loses
  <2>2. CASE ~Receivable(head)
    <3>1. /\ rpc \in {"r_recv", "r_last"} /\ rpc' \in {"r_err", "r_look"}
          /\ UNCHANGED <<head, nodes, queue, got>>
      BY <1>3, <2>2 DEF RecvSelect
    <3> QED
      BY <1>2, <3>1 DEF Delivered
  <2> QED
    BY <2>1, <2>2
<1>4. CASE RecvLook
  BY <1>2, <1>4 DEF RecvLook, Delivered
<1>5. CASE RecvPark
  BY <1>2, <1>5 DEF RecvPark, Delivered
<1>6. CASE RecvReleased
  BY <1>2, <1>6 DEF RecvReleased, Delivered
<1>7. CASE RecvRelease
  BY <1>2, <1>7 DEF RecvRelease, Delivered
<1>8. CASE RecvErr
  BY <1>2, <1>8 DEF RecvErr, Delivered
<1>9. CASE RecvNext
  <2>1. /\ rpc = "r_next" /\ rpc' = "r_free" /\ next[head] # Null /\ head' = next[head]
        /\ UNCHANGED <<nodes, queue, got>>
    BY <1>9 DEF RecvNext
  <2>2. head' = head + 1 /\ head < nodes /\ queue[head] = <<>>
    BY <1>0, <2>1 DEF Consecutive, LeftEmpty
  <2>3. Pending' = Pending
    BY <1>0, <2>1, <2>2, PendingIsShares, SharesSkip
  <2>4. Delivered' = Delivered
    BY <2>1 DEF Delivered
  <2> QED
    BY <1>0, <1>1, <2>3, <2>4 DEF Stays
<1>10. CASE RecvFree
  BY <1>2, <1>10 DEF RecvFree, Delivered
<1> QED
  BY <1>0, <1>3, <1>4, <1>5, <1>6, <1>7, <1>8, <1>9, <1>10 DEF ReceiverStep

\* A close adds an empty node, or nothing.
LEMMA CloserChannel ==
  ASSUME NEW c \in Closers, ChainInv, CloserRuns(c)
  PROVE  Stays
<1> USE DEF list, sender, receiver, closer
<1>0. /\ StartsEmpty /\ head \in Nodes /\ nodes \in Nodes /\ head \in Nat /\ nodes \in Nat
      /\ head <= nodes /\ MaxNodes \in Nat
      /\ \A n \in Nat : n \in Nodes <=> 1 <= n /\ n <= MaxNodes
      /\ queue \in [Nodes -> Seq(Messages)] /\ Unsent \in Nat
  BY NodeFacts, UnsentFacts DEF ChainInv, TypeOK
<1>1. /\ UNCHANGED <<head, queue, sender, receiver>>
      /\ nodes' = nodes \/ (nodes' = nodes + 1 /\ nodes < MaxNodes)
  BY DEF CloserRuns, CloserStep, CloseLoadTail, CloseLink, CloseFlag, CloseLoadHead, CloseNode,
     CloseLoadNext, CloseNextNode
<1>2. Delivered' = Delivered /\ Unsent' = Unsent
  BY <1>1, Quiet
<1>3. CASE nodes' = nodes
  BY <1>0, <1>1, <1>2, <1>3, Quiet DEF Stays
<1>4. CASE nodes' = nodes + 1 /\ nodes < MaxNodes
  <2>1. nodes + 1 \in Nodes /\ queue[nodes + 1] = <<>>
    BY <1>0, <1>4 DEF StartsEmpty
  <2>2. Pending' = Pending
    BY <1>0, <1>1, <1>4, <2>1, PendingIsShares, SharesGrow
  <2> QED
    BY <1>0, <1>2, <2>2 DEF Stays
<1> QED
  BY <1>1, <1>3, <1>4

\* A call takes a message in hand, and touches nothing in the list.
LEMMA CallsChannel ==
  ASSUME ChainInv, Calls
  PROVE  Stays
<1> USE DEF list, sender, receiver, closer
<1>0. IsFiniteSet(todo) /\ Cardinality(todo) \in Nat /\ Unsent \in Nat
  BY UnsentFacts DEF ChainInv, ListInv
<1>1. ASSUME NEW m \in Messages, SendCall(m) PROVE Stays
  <2>1. /\ ~InHand /\ InHand' /\ m \in todo /\ todo' = todo \ {m}
        /\ UNCHANGED <<head, nodes, queue, got, rval, rpc>>
    BY <1>1 DEF SendCall, InHand
  <2>2. Cardinality(todo') = Cardinality(todo) - 1
    BY <1>0, <2>1, FS_RemoveElement
  <2>3. Unsent' <= Unsent
    BY <1>0, <2>1, <2>2 DEF Unsent
  <2> QED
    BY <2>1, <2>3, Quiet DEF Stays
<1>2. CASE RecvCall
  <2>1. Delivered' = Delivered /\ UNCHANGED <<head, nodes, queue, todo, spc>>
    BY <1>2 DEF RecvCall, Delivered
  <2> QED
    BY <1>0, <2>1, Quiet DEF Stays
<1>3. ASSUME NEW c \in Closers, CloseCall(c) PROVE Stays
  <2>1. UNCHANGED <<head, nodes, queue, todo, spc, got, rval, rpc>>
    BY <1>3 DEF CloseCall
  <2> QED
    BY <1>0, <2>1, Quiet DEF Stays
<1> QED
  BY <1>1, <1>2, <1>3 DEF Calls

\* Every step does one of the three.
LEMMA EveryStep ==
  ChainInv /\ [Next]_vars => Stays \/ (\E m \in Messages : Gains(m)) \/ Loses
<1> SUFFICES ASSUME ChainInv, [Next]_vars
             PROVE  Stays \/ (\E m \in Messages : Gains(m)) \/ Loses
  OBVIOUS
<1>1. ASSUME UNCHANGED <<list, queue, sender, receiver>> PROVE Stays
  <2>1. Unsent \in Nat
    BY UnsentFacts DEF ChainInv, ListInv
  <2> QED
    BY <1>1, <2>1, Quiet DEF Stays, list, sender, receiver
<1>2. ASSUME NEW used, Misuse(used) PROVE Stays
  BY <1>1, <1>2 DEF Misuse
<1>3. CASE UNCHANGED vars
  BY <1>1, <1>3 DEF vars
<1>4. ASSUME NEW c \in Closers, CloserRuns(c) PROVE Stays
  BY <1>4, CloserChannel
<1>5. ASSUME SenderRuns PROVE Stays \/ \E m \in Messages : Gains(m)
  BY <1>5, SenderChannel
<1>6. ASSUME ReceiverRuns PROVE Stays \/ Loses
  BY <1>6, ReceiverChannel
<1>7. ASSUME Calls PROVE Stays
  BY <1>7, CallsChannel
<1> QED
  BY <1>2, <1>3, <1>4, <1>5, <1>6, <1>7 DEF Next

\* A message that was not in the list finds room there.
LEMMA Budget ==
  ASSUME NEW u \in Nat, NEW v \in Nat, NEW l \in Nat, NEW b \in Nat,
         v + 1 <= u, u + l <= b
  PROVE  l < b /\ v + (l + 1) <= b
OBVIOUS

\* The budget of the messages is kept.
LEMMA RoomKept == ChainInv /\ ChainInv' /\ Room /\ [Next]_vars => Room'
<1> SUFFICES ASSUME ChainInv, ChainInv', Room, [Next]_vars PROVE Room'
  OBVIOUS
<1>1. Pending \in Seq(Messages) /\ Unsent \in Nat /\ MaxMessages \in Nat
  BY PendingType, UnsentFacts, BoundAssumption DEF ChainInv, ListInv
<1>2. Unsent' \in Nat
  <2>1. todo' \subseteq Messages
    BY DEF ChainInv, ListInv, TypeOK
  <2>2. Cardinality(todo') \in Nat
    BY <2>1, UnsentFacts, FS_Subset, FS_CardinalityType
  <2> QED
    BY <2>2 DEF Unsent
<1>3. CASE Stays
  BY <1>1, <1>2, <1>3 DEF Room, Stays
<1>4. ASSUME NEW m \in Messages, Gains(m) PROVE Room'
  <2>1. Len(Pending') = Len(Pending) + 1
    BY <1>1, <1>4, QueueEnds DEF Gains
  <2>2. Unsent' + 1 <= Unsent
    BY <1>4 DEF Gains
  <2>3. Len(Pending) \in Nat
    BY <1>1
  <2>4. Unsent + Len(Pending) <= MaxMessages
    BY DEF Room
  <2>5. Unsent' + Len(Pending') <= MaxMessages
    <3>1. Unsent' + (Len(Pending) + 1) <= MaxMessages
      BY <1>1, <1>2, <2>2, <2>3, <2>4, Budget
    <3> QED
      BY <2>1, <3>1
  <2> QED
    BY <2>5 DEF Room
<1>5. CASE Loses
  <2>1. Len(Pending') = Len(Pending) - 1
    BY <1>1, <1>5, QueueEnds DEF Loses
  <2> QED
    BY <1>1, <1>2, <1>5, <2>1 DEF Room, Loses
<1> QED
  BY <1>3, <1>4, <1>5, EveryStep

\* At first the channel is empty.
LEMMA ChannelInit == Init => ChainInv /\ Room /\ Channel!Init
<1> SUFFICES ASSUME Init PROVE ChainInv /\ Room /\ Channel!Init
  OBVIOUS
<1>1. ListInv
  BY ListInit
<1>2. Consecutive /\ Closing /\ LeftEmpty /\ FrontEmpty
  BY <1>1, NodeFacts
     DEF Init, Consecutive, Closing, LeftEmpty, FrontEmpty, Linking, Null, Nodes
<1>3. Pending = <<>>
  <2>1. PICK s \in Seq(Seq(Messages)) :
          s = Shares(head, nodes, queue) /\ Len(s) = 1 /\ s[1] = <<>>
    <3>1. head \in Nodes /\ nodes \in Nodes /\ head <= nodes
          /\ queue \in [Nodes -> Seq(Messages)] /\ nodes - head + 1 = 1
      BY <1>1, NodeFacts DEF TypeOK, Init
    <3>2. /\ Shares(head, nodes, queue) \in Seq(Seq(Messages))
          /\ Len(Shares(head, nodes, queue)) = 1
      BY <3>1, SharesType
    <3>3. Shares(head, nodes, queue)[1] = <<>>
      BY BoundAssumption DEF Shares, Init, Nodes
    <3> QED
      BY <3>2, <3>3
  <2>2. PICK n \in Nat : n = Len(s) /\ n > 0
    BY <2>1
  <2>3. PICK f : Joined(f, s, Messages)
    BY JoinedExists
  <2>4. FlattenSeq(s) = f[n]
    BY <2>2, <2>3, FlattenIsLast
  <2>5. n = 1 /\ f[1] = s[1]
    BY <2>1, <2>2, <2>3 DEF Joined
  <2> QED
    BY <2>1, <2>4, <2>5, PendingIsShares
<1>4. Unsent = MaxMessages
  BY UnsentFacts, BoundAssumption DEF Unsent, InHand, Init
<1>5. Room
  BY <1>3, <1>4, BoundAssumption DEF Room
<1>6. Channel!Init
  BY <1>3 DEF Channel!Init, Init, Delivered
<1> QED
  BY <1>1, <1>2, <1>5, <1>6 DEF ChainInv

\* Every step is one of the channel.
LEMMA ChannelStep == ChainInv /\ Room /\ [Next]_vars => [Channel!Next]_(Channel!vars)
<1> SUFFICES ASSUME ChainInv, Room, [Next]_vars PROVE [Channel!Next]_(Channel!vars)
  OBVIOUS
<1>1. Pending \in Seq(Messages) /\ Unsent \in Nat /\ Cardinality(Messages) = MaxMessages
  BY PendingType, UnsentFacts DEF ChainInv, ListInv
<1>2. Unsent' \in Nat
  <2>1. todo' \subseteq Messages
    BY ChainStep DEF ChainInv, ListInv, TypeOK
  <2>2. Cardinality(todo') \in Nat
    BY <2>1, UnsentFacts, FS_Subset, FS_CardinalityType
  <2> QED
    BY <2>2 DEF Unsent
<1>3. CASE Stays
  BY <1>3 DEF Stays, Channel!vars
<1>4. ASSUME NEW m \in Messages, Gains(m) PROVE Channel!Send(m)
  <2>1. Len(Pending) < Cardinality(Messages)
    <3>1. Unsent' + 1 <= Unsent /\ Len(Pending) \in Nat
      BY <1>1, <1>4 DEF Gains
    <3>2. Unsent + Len(Pending) <= MaxMessages /\ MaxMessages \in Nat
      BY BoundAssumption DEF Room
    <3>3. Len(Pending) < MaxMessages
      BY <1>1, <1>2, <3>1, <3>2, Budget
    <3> QED
      BY <1>1, <3>3
  <2> QED
    BY <1>4, <2>1 DEF Gains, Channel!Send
<1>5. ASSUME Loses PROVE Channel!Recv("receiver")
  BY <1>5 DEF Loses, Channel!Recv
<1> QED
  BY <1>3, <1>4, <1>5, EveryStep DEF Channel!Next

\* The list of nodes is one first-in first-out channel, for any capacity of the
\* nodes and any number of nodes, messages, closers and closes: messages come out in
\* the order in which they went in, and none is left in a node that is left.
THEOREM ChannelImplemented == Spec => ImplementsChannel
<1>1. Init => ChainInv /\ Room
  BY ChannelInit
<1>2. Init => Channel!Init
  BY ChannelInit
<1>3. ChainInv /\ Room /\ [Next]_vars => ChainInv' /\ Room'
  BY ChainStep, RoomKept
<1>4. ChainInv /\ Room /\ [Next]_vars => [Channel!Next]_(Channel!vars)
  BY ChannelStep
<1> QED
  BY <1>1, <1>2, <1>3, <1>4, PTL DEF Spec, ImplementsChannel, Channel!Spec
=============================================================================
