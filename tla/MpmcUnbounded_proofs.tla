------------------------ MODULE MpmcUnbounded_proofs ------------------------
(***************************************************************************)
(* What holds of the unbounded MPMC queue for any number of threads,       *)
(* messages, calls of close and for any size of the nodes.  The argument   *)
(* is about the end of the list: what next of the tail holds tells who is  *)
(* at work there.  A null admits one exchange, of a sender or of a close;  *)
(* the temporary node or a new node belongs to the one sender that linked  *)
(* it; the node of a close stays.                                          *)
(*                                                                         *)
(* Until it breaks, the list is one first-in first-out channel.  Its       *)
(* messages are those of the nodes from head on: a queue that still        *)
(* accepts messages is that of the last node, a receiver that finds a      *)
(* message is at head, and what head has left is empty.  What the steps do *)
(* to that sequence rests on lemmas about FlattenSeq, which are proved by  *)
(* an induction over the number of nodes.                                  *)
(***************************************************************************)
EXTENDS MpmcUnbounded, TLAPS, SequenceTheorems, FiniteSetTheorems

\* The points of the three kinds of calls.
SenderPCs == {"s_load", "s_try", "s_publish", "s_wake", "s_disconnected", "s_link",
              "s_close", "s_free", "s_store", "s_tail"}
ReceiverPCs == {"r_load", "r_recv", "r_look", "r_park", "r_sleep", "r_last", "r_read",
                "r_err", "r_next", "r_cap", "r_move", "r_free"}
CloserPCs == {"c_tail", "c_link", "c_flag", "c_head", "c_close", "c_next", "c_close_next"}

\* Every thread is somewhere in a call of its own kind.
Roles ==
  /\ pc \in [Threads -> {"idle"} \cup SenderPCs \cup ReceiverPCs \cup CloserPCs]
  /\ \A t \in Threads : /\ pc[t] \in SenderPCs => t \in Senders
                        /\ pc[t] \in ReceiverPCs => t \in Receivers
                        /\ pc[t] \in CloserPCs => t \in Closers

\* What the stack frames hold: a call loads what it works on before it does.
Frames ==
  /\ head <= nodes
  /\ \A t \in Threads :
       /\ node[t] <= nodes
       /\ pc[t] \in (SenderPCs \ {"s_load"}) \cup (ReceiverPCs \ {"r_load"}) \cup
                    {"c_link", "c_next"} => node[t] # Null
       /\ pc[t] \in {"s_try", "s_link", "c_link"} => node[t] <= tail
       /\ pc[t] \in SenderPCs \cup {"r_read"} => val[t] \in Messages
       /\ pc[t] \in {"r_cap", "r_move", "c_close_next"} => follow[t] # Null
       /\ pc[t] \in {"r_cap", "r_move"} /\ follow[t] \in Nodes =>
            nodes > 1 /\ follow[t] <= nodes
       /\ pc[t] = "r_move" => follow[t] \in Nodes
       /\ pc[t] = "r_free" => nodes > 1

\* The senders that carry a message which no queue has accepted, and the sign that
\* some message was accepted.
Carrying == {s \in Senders : pc[s] \in SenderPCs \ {"s_publish", "s_wake", "s_tail"}}

Accepted ==
  \/ \E n \in Nodes : queue[n] # <<>>
  \/ \E r \in Receivers : pc[r] = "r_read" \/ got[r] # <<>>

\* Every node but the first has taken a message, and the first has, too, when
\* somebody finds it full.
Budget ==
  /\ IsFiniteSet(Carrying)
  /\ Cardinality(todo) + Cardinality(Carrying) + nodes <= MaxMessages + 1
  /\ Accepted => Cardinality(todo) + Cardinality(Carrying) + nodes <= MaxMessages
  /\ \A s \in Senders : pc[s] \in {"s_link", "s_close", "s_free", "s_store"} => Accepted

\* The senders at work behind the tail.
Holders == {s \in Senders : pc[s] \in {"s_close", "s_free", "s_store"}}
Growing == {s \in Senders : pc[s] \in {"s_close", "s_free", "s_store", "s_tail"}}

\* The list ends at tail, or one node further.  At most one sender is at work there:
\* first it holds the temporary node, then it has linked the node that becomes the
\* tail.
Shape ==
  /\ \A n \in Nodes : /\ n < tail => next[n] = n + 1
                      /\ n > tail => next[n] = Null
  /\ \A s, u \in Growing : s = u
  /\ \A s \in Holders : node[s] = tail /\ next[tail] = Temp(tail) /\ nodes = tail
  /\ \A s \in Growing \ Holders :
       node[s] = nodes /\ next[tail] = nodes /\ nodes = tail + 1
  /\ Growing = {} => nodes = tail /\ next[tail] \in {Null, End}

\* The closers that have not linked their node yet.
Retrying == {c \in Closers : pc[c] \in {"c_tail", "c_link"}}

\* One close at most has got through, and then its node is behind the tail for good.
CloseCount ==
  /\ IsFiniteSet(Retrying)
  /\ closes = Cardinality(Retrying) + IF next[tail] = End THEN 1 ELSE 0
  /\ \A c \in Closers : pc[c] \in CloserPCs \ {"c_tail", "c_link"} => next[tail] = End
  /\ \A c \in Closers : pc[c] \in {"c_head", "c_close", "c_next", "c_close_next"} => closed
  /\ closed => next[tail] = End

\* A node has a successor with a queue, or soon will have.
LinkedOn(n) ==
  \/ next[n] \in Nodes
  \/ \E s \in Senders : pc[s] \in {"s_free", "s_store"} /\ node[s] = n

\* Only close closes the queue of a node that stays the last.
MovesOn ==
  /\ ~closed =>
       /\ \A n \in Nodes : qclosed[n] => LinkedOn(n)
       /\ \A r \in Receivers : pc[r] \in {"r_last", "r_err"} => LinkedOn(node[r])
  /\ \A r \in Receivers : pc[r] \in {"r_next", "r_cap"} => LinkedOn(node[r])

\* Receivers at work on an element.
Readers == {r \in Receivers : pc[r] = "r_read"}

\* The first node alone, before a sender finds it full.
Small == nodes = 1 /\ next[1] # Temp(1)

Calm ==
  Small => /\ ~broken /\ freed = {}
           /\ \A c \in Closers : pc[c] = "c_close" => node[c] # Null

UnboundedInv ==
  /\ TypeOK /\ Roles /\ IsFiniteSet(Readers) /\ Frames /\ Budget
  /\ Shape /\ CloseCount /\ MovesOn /\ Calm

\* What a thread does whose nodes are alive.
Acts(t) ==
  \/ t \in Senders /\ ((\E m \in Messages : SendCall(t, m)) \/ SenderStep(t))
  \/ t \in Receivers /\ (RecvCall(t) \/ ReceiverStep(t))
  \/ t \in Closers /\ (CloseCall(t) \/ CloserStep(t))

-----------------------------------------------------------------------------
(* Lemmas                                                                  *)

\* What next can hold: a node, the temporary node behind one, the node of a close.
LEMMA Numbers ==
  /\ Nodes \subseteq Nat /\ Links \subseteq Nat /\ Nodes \subseteq Links /\ 1 \in Nodes
  /\ Null = 0 /\ Null \notin Nodes /\ Null \in Links
  /\ End \in Links /\ End \notin Nodes /\ End # Null /\ Temp(1) # Null
  /\ \A n \in Nodes : Temp(n) \in Links /\ Temp(n) \notin Nodes \cup {Null, End}
  /\ \A n \in Nat : n \in Nodes <=> 1 <= n /\ n <= MaxMessages
  BY BoundAssumption DEF Nodes, Links, Null, End, Temp

\* Nodes in local variables are numbers.
LEMMA Loaded ==
  ASSUME TypeOK
  PROVE  /\ head \in Nat /\ tail \in Nat /\ nodes \in Nat
         /\ \A t \in Threads : node[t] \in Nat /\ follow[t] \in Nat
         /\ \A n \in Nodes : next[n] \in Nat
<1>1. \A t \in Threads : node[t] \in Nodes \cup {Null} /\ follow[t] \in Links
  BY DEF TypeOK
<1> QED
  BY <1>1, Numbers DEF TypeOK

\* There are finitely many messages to send.
LEMMA TodoFinite == ASSUME TypeOK PROVE IsFiniteSet(todo)
<1>1. IsFiniteSet(Messages)
  BY FS_Interval, BoundAssumption DEF Messages
<1> QED
  BY <1>1, FS_Subset DEF TypeOK

\* Finitely many receivers are at work on elements of a node.
LEMMA ReadingFinite == ASSUME UnboundedInv, NEW n PROVE IsFiniteSet(Reading(n))
<1>1. Reading(n) \subseteq Readers
  BY DEF Reading, Readers
<1> QED
  BY <1>1, FS_Subset DEF UnboundedInv

\* A thread that accesses its node has one.
LEMMA AtNode ==
  ASSUME UnboundedInv, NEW t \in Threads, Alive(t)
  PROVE  /\ pc[t] \in {"s_try", "s_publish", "s_wake", "s_link", "s_close", "s_free",
                       "s_store", "r_recv", "r_look", "r_park", "r_sleep", "r_last",
                       "r_read", "r_next", "c_link", "c_close", "c_next"} =>
              node[t] \in Nodes
         /\ pc[t] \in {"s_disconnected", "s_tail", "r_err", "r_cap", "r_move", "r_free"} =>
              node[t] \in Nodes
<1>1. node[t] \in Nodes \cup {Null}
  BY DEF UnboundedInv, TypeOK
<1>2. pc[t] \in {"s_try", "s_publish", "s_wake", "s_link", "s_close", "s_free", "s_store",
                 "r_recv", "r_look", "r_park", "r_sleep", "r_last", "r_read", "r_next",
                 "c_link", "c_close", "c_next"} => node[t] # Null
  BY DEF Alive, Accesses
<1>3. pc[t] \in {"s_disconnected", "s_tail", "r_err", "r_cap", "r_move", "r_free"} =>
        node[t] # Null
  BY DEF UnboundedInv, Frames, SenderPCs, ReceiverPCs
<1> QED
  BY <1>1, <1>2, <1>3

\* A step of one thread leaves the frames of the others alone, and wakes receivers at
\* most.
LEMMA OthersStay ==
  ASSUME UnboundedInv, ~broken, NEW t \in Threads, Alive(t), Acts(t)
  PROVE  \A u \in Threads \ {t} :
           /\ pc'[u] = pc[u] \/ (pc[u] = "r_sleep" /\ pc'[u] = "r_recv")
           /\ node'[u] = node[u] /\ follow'[u] = follow[u] /\ val'[u] = val[u]
<1>a. /\ pc \in [Threads -> {"idle"} \cup SenderPCs \cup ReceiverPCs \cup CloserPCs]
      /\ node \in [Threads -> Nodes \cup {Null}] /\ follow \in [Threads -> Links]
      /\ val \in [Threads -> Messages \cup {NoMsg}]
  BY DEF UnboundedInv, TypeOK, Roles
<1>1. CASE t \in Senders /\ \E m \in Messages : SendCall(t, m)
  BY <1>1, <1>a DEF SendCall, Move, Load
<1>2. CASE t \in Senders /\ SendLoadTail(t)
  BY <1>2, <1>a DEF SendLoadTail, Move, Load
<1>3. CASE t \in Senders /\ SendTry(t)
  BY <1>3, <1>a DEF SendTry, Move
<1>4. CASE t \in Senders /\ SendPublish(t)
  BY <1>4, <1>a DEF SendPublish, Move
<1>5. CASE t \in Senders /\ SendWake(t)
  BY <1>5, <1>a DEF SendWake, PopFrame
<1>6. CASE t \in Senders /\ SendDisconnected(t)
  BY <1>6, <1>a DEF SendDisconnected, Move, PopFrame
<1>7. CASE t \in Senders /\ SendLink(t)
  BY <1>7, <1>a DEF SendLink, Move
<1>8. CASE t \in Senders /\ SendClose(t)
  BY <1>8, <1>a DEF SendClose, Move
<1>9. CASE t \in Senders /\ SendFreeTemp(t)
  BY <1>9, <1>a DEF SendFreeTemp, Move
<1>10. CASE t \in Senders /\ SendStoreNext(t)
  BY <1>10, <1>a DEF SendStoreNext, Move, Load
<1>11. CASE t \in Senders /\ SendStoreTail(t)
  BY <1>11, <1>a DEF SendStoreTail, Move, PopFrame
<1>12. CASE t \in Receivers /\ RecvCall(t)
  BY <1>12, <1>a DEF RecvCall, Move, Load
<1>13. CASE t \in Receivers /\ RecvLoadHead(t)
  BY <1>13, <1>a DEF RecvLoadHead, Move, Load
<1>14. CASE t \in Receivers /\ RecvSelect(t)
  BY <1>14, <1>a DEF RecvSelect
<1>15. CASE t \in Receivers /\ RecvLook(t)
  BY <1>15, <1>a DEF RecvLook, Move
<1>16. CASE t \in Receivers /\ RecvPark(t)
  BY <1>16, <1>a DEF RecvPark, Move
<1>17. CASE t \in Receivers /\ RecvReleased(t)
  BY <1>17, <1>a DEF RecvReleased, Move
<1>18. CASE t \in Receivers /\ RecvRelease(t)
  BY <1>18, <1>a DEF RecvRelease, Move, PopFrame
<1>19. CASE t \in Receivers /\ RecvErr(t)
  BY <1>19, <1>a DEF RecvErr, Move, PopFrame
<1>20. CASE t \in Receivers /\ RecvLoadNext(t)
  BY <1>20, <1>a DEF RecvLoadNext, Move
<1>21. CASE t \in Receivers /\ RecvLoadCap(t)
  BY <1>21, <1>a DEF RecvLoadCap, Move
<1>22. CASE t \in Receivers /\ RecvMoveHead(t)
  BY <1>22, <1>a DEF RecvMoveHead, Move
<1>23. CASE t \in Receivers /\ RecvFree(t)
  BY <1>23, <1>a DEF RecvFree, Move, PopFrame
<1>24. CASE t \in Closers /\ CloseCall(t)
  BY <1>24, <1>a DEF CloseCall, Move, Load
<1>25. CASE t \in Closers /\ CloseLoadTail(t)
  BY <1>25, <1>a DEF CloseLoadTail, Move, Load
<1>26. CASE t \in Closers /\ CloseLink(t)
  BY <1>26, <1>a DEF CloseLink, Move
<1>27. CASE t \in Closers /\ CloseFlag(t)
  BY <1>27, <1>a DEF CloseFlag, Move
<1>28. CASE t \in Closers /\ CloseLoadHead(t)
  BY <1>28, <1>a DEF CloseLoadHead, Move, Load
<1>29. CASE t \in Closers /\ CloseNode(t)
  BY <1>29, <1>a DEF CloseNode, Move
<1>30. CASE t \in Closers /\ CloseLoadNext(t)
  BY <1>30, <1>a DEF CloseLoadNext, Move, Load
<1>31. CASE t \in Closers /\ CloseNextNode(t)
  BY <1>31, <1>a DEF CloseNextNode, Move, PopFrame
<1> QED
  BY <1>1, <1>2, <1>3, <1>4, <1>5, <1>6, <1>7, <1>8, <1>9, <1>10, <1>11, <1>12, <1>13,
     <1>14, <1>15, <1>16, <1>17, <1>18, <1>19, <1>20, <1>21, <1>22, <1>23, <1>24, <1>25,
     <1>26, <1>27, <1>28, <1>29, <1>30, <1>31
     DEF Acts, SenderStep, ReceiverStep, CloserStep

\* Every thread stays within the calls of its kind.
LEMMA RolesStep ==
  ASSUME UnboundedInv, ~broken, NEW t \in Threads, Alive(t), Acts(t)
  PROVE  Roles'
<1> USE DEF UnboundedInv, Roles, SenderPCs, ReceiverPCs, CloserPCs
<1>1. CASE t \in Senders /\ \E m \in Messages : SendCall(t, m)
  BY <1>1 DEF SendCall, Move, Load, Threads
<1>2. CASE t \in Senders /\ SendLoadTail(t)
  BY <1>2 DEF SendLoadTail, Move, Load, Threads
<1>3. CASE t \in Senders /\ SendTry(t)
  BY <1>3 DEF SendTry, Move, Threads
<1>4. CASE t \in Senders /\ SendPublish(t)
  BY <1>4 DEF SendPublish, Move, Threads
<1>5. CASE t \in Senders /\ SendWake(t)
  BY <1>5 DEF SendWake, PopFrame, Threads
<1>6. CASE t \in Senders /\ SendDisconnected(t)
  BY <1>6 DEF SendDisconnected, Move, PopFrame, Threads
<1>7. CASE t \in Senders /\ SendLink(t)
  BY <1>7 DEF SendLink, Move, Threads
<1>8. CASE t \in Senders /\ SendClose(t)
  BY <1>8 DEF SendClose, Move, Threads
<1>9. CASE t \in Senders /\ SendFreeTemp(t)
  BY <1>9 DEF SendFreeTemp, Move, Threads
<1>10. CASE t \in Senders /\ SendStoreNext(t)
  BY <1>10 DEF SendStoreNext, Move, Load, Threads
<1>11. CASE t \in Senders /\ SendStoreTail(t)
  BY <1>11 DEF SendStoreTail, Move, PopFrame, Threads
<1>12. CASE t \in Receivers /\ RecvCall(t)
  BY <1>12 DEF RecvCall, Move, Load, Threads
<1>13. CASE t \in Receivers /\ RecvLoadHead(t)
  BY <1>13 DEF RecvLoadHead, Move, Load, Threads
<1>14. CASE t \in Receivers /\ RecvSelect(t)
  BY <1>14 DEF RecvSelect, Threads
<1>15. CASE t \in Receivers /\ RecvLook(t)
  BY <1>15 DEF RecvLook, Move, Threads
<1>16. CASE t \in Receivers /\ RecvPark(t)
  BY <1>16 DEF RecvPark, Move, Threads
<1>17. CASE t \in Receivers /\ RecvReleased(t)
  BY <1>17 DEF RecvReleased, Move, Threads
<1>18. CASE t \in Receivers /\ RecvRelease(t)
  BY <1>18 DEF RecvRelease, Move, PopFrame, Threads
<1>19. CASE t \in Receivers /\ RecvErr(t)
  BY <1>19 DEF RecvErr, Move, PopFrame, Threads
<1>20. CASE t \in Receivers /\ RecvLoadNext(t)
  BY <1>20 DEF RecvLoadNext, Move, Threads
<1>21. CASE t \in Receivers /\ RecvLoadCap(t)
  BY <1>21 DEF RecvLoadCap, Move, Threads
<1>22. CASE t \in Receivers /\ RecvMoveHead(t)
  BY <1>22 DEF RecvMoveHead, Move, Threads
<1>23. CASE t \in Receivers /\ RecvFree(t)
  BY <1>23 DEF RecvFree, Move, PopFrame, Threads
<1>24. CASE t \in Closers /\ CloseCall(t)
  BY <1>24 DEF CloseCall, Move, Load, Threads
<1>25. CASE t \in Closers /\ CloseLoadTail(t)
  BY <1>25 DEF CloseLoadTail, Move, Load, Threads
<1>26. CASE t \in Closers /\ CloseLink(t)
  BY <1>26 DEF CloseLink, Move, Threads
<1>27. CASE t \in Closers /\ CloseFlag(t)
  BY <1>27 DEF CloseFlag, Move, Threads
<1>28. CASE t \in Closers /\ CloseLoadHead(t)
  BY <1>28 DEF CloseLoadHead, Move, Load, Threads
<1>29. CASE t \in Closers /\ CloseNode(t)
  BY <1>29 DEF CloseNode, Move, Threads
<1>30. CASE t \in Closers /\ CloseLoadNext(t)
  BY <1>30 DEF CloseLoadNext, Move, Load, Threads
<1>31. CASE t \in Closers /\ CloseNextNode(t)
  BY <1>31 DEF CloseNextNode, Move, PopFrame, Threads
<1> QED
  BY <1>1, <1>2, <1>3, <1>4, <1>5, <1>6, <1>7, <1>8, <1>9, <1>10, <1>11, <1>12, <1>13,
     <1>14, <1>15, <1>16, <1>17, <1>18, <1>19, <1>20, <1>21, <1>22, <1>23, <1>24, <1>25,
     <1>26, <1>27, <1>28, <1>29, <1>30, <1>31
     DEF Acts, SenderStep, ReceiverStep, CloserStep

\* Receivers at work on elements are finitely many.
LEMMA ReadersStep ==
  ASSUME UnboundedInv, ~broken, NEW t \in Threads, Alive(t), Acts(t)
  PROVE  IsFiniteSet(Readers)'
<1>1. Readers' \subseteq Readers \cup {t}
  BY OthersStay DEF Readers, Threads
<1>2. IsFiniteSet(Readers \cup {t})
  BY FS_AddElement DEF UnboundedInv
<1> QED
  BY <1>1, <1>2, FS_Subset

\* A sender whose message no queue has accepted can still link a node for it.
LEMMA RoomLeft ==
  ASSUME UnboundedInv, NEW s \in Senders, pc[s] \in {"s_link", "s_close", "s_free", "s_store"}
  PROVE  nodes + 1 \in Nodes
<1>1. s \in Carrying
  BY DEF Carrying, SenderPCs
<1>2. Carrying # {} /\ Cardinality(Carrying) \in Nat
  BY <1>1, FS_CardinalityType DEF UnboundedInv, Budget
<1>3. Cardinality(Carrying) >= 1
  BY <1>2, FS_EmptySet DEF UnboundedInv, Budget
<1>4. Cardinality(todo) \in Nat
  BY TodoFinite, FS_CardinalityType DEF UnboundedInv
<1>5. Cardinality(todo) + Cardinality(Carrying) + nodes <= MaxMessages
  BY DEF UnboundedInv, Budget
<1>6. nodes \in Nat /\ nodes >= 1 /\ MaxMessages \in Nat
  BY Numbers, Loaded, BoundAssumption DEF UnboundedInv, TypeOK
<1> QED
  BY <1>2, <1>3, <1>4, <1>5, <1>6, Numbers

\* The list grows at its end, and head stays on it.
LEMMA GrowStep ==
  ASSUME UnboundedInv, ~broken, NEW t \in Threads, Alive(t), Acts(t)
  PROVE  /\ nodes' \in Nodes /\ tail' \in Nodes /\ head' \in Nodes
         /\ nodes <= nodes' /\ tail <= tail' /\ head' <= nodes'
<1> USE DEF list
<1>a. /\ nodes \in Nodes /\ tail \in Nodes /\ head \in Nodes /\ head <= nodes
      /\ nodes \in Nat /\ tail \in Nat /\ head \in Nat
  BY Loaded DEF UnboundedInv, TypeOK, Frames
<1>b. t \in Senders /\ pc[t] = "s_store" => nodes + 1 \in Nodes
  BY RoomLeft
<1>c. t \in Senders /\ pc[t] = "s_tail" =>
        node[t] \in Nodes /\ node[t] \in Nat /\ node[t] = tail + 1
  BY AtNode, Loaded DEF UnboundedInv, Shape, Growing, Holders
<1>d. pc[t] = "r_move" => follow[t] \in Nodes /\ follow[t] <= nodes
  BY DEF UnboundedInv, Frames
<1>1. CASE t \in Senders /\ \E m \in Messages : SendCall(t, m)
  BY <1>1, <1>a DEF SendCall, Move, Load
<1>2. CASE t \in Senders /\ SendLoadTail(t)
  BY <1>2, <1>a DEF SendLoadTail, Move, Load
<1>3. CASE t \in Senders /\ SendTry(t)
  BY <1>3, <1>a DEF SendTry, Move
<1>4. CASE t \in Senders /\ SendPublish(t)
  BY <1>4, <1>a DEF SendPublish, Move
<1>5. CASE t \in Senders /\ SendWake(t)
  BY <1>5, <1>a DEF SendWake, PopFrame
<1>6. CASE t \in Senders /\ SendDisconnected(t)
  BY <1>6, <1>a DEF SendDisconnected, Move, PopFrame
<1>7. CASE t \in Senders /\ SendLink(t)
  BY <1>7, <1>a DEF SendLink, Move
<1>8. CASE t \in Senders /\ SendClose(t)
  BY <1>8, <1>a DEF SendClose, Move
<1>9. CASE t \in Senders /\ SendFreeTemp(t)
  BY <1>9, <1>a DEF SendFreeTemp, Move
<1>10. CASE t \in Senders /\ SendStoreNext(t)
  BY <1>10, <1>a, <1>b DEF SendStoreNext, Move, Load
<1>11. CASE t \in Senders /\ SendStoreTail(t)
  BY <1>11, <1>a, <1>c DEF SendStoreTail, Move, PopFrame
<1>12. CASE t \in Receivers /\ RecvCall(t)
  BY <1>12, <1>a DEF RecvCall, Move, Load
<1>13. CASE t \in Receivers /\ RecvLoadHead(t)
  BY <1>13, <1>a DEF RecvLoadHead, Move, Load
<1>14. CASE t \in Receivers /\ RecvSelect(t)
  BY <1>14, <1>a DEF RecvSelect
<1>15. CASE t \in Receivers /\ RecvLook(t)
  BY <1>15, <1>a DEF RecvLook, Move
<1>16. CASE t \in Receivers /\ RecvPark(t)
  BY <1>16, <1>a DEF RecvPark, Move
<1>17. CASE t \in Receivers /\ RecvReleased(t)
  BY <1>17, <1>a DEF RecvReleased, Move
<1>18. CASE t \in Receivers /\ RecvRelease(t)
  BY <1>18, <1>a DEF RecvRelease, Move, PopFrame
<1>19. CASE t \in Receivers /\ RecvErr(t)
  BY <1>19, <1>a DEF RecvErr, Move, PopFrame
<1>20. CASE t \in Receivers /\ RecvLoadNext(t)
  BY <1>20, <1>a DEF RecvLoadNext, Move
<1>21. CASE t \in Receivers /\ RecvLoadCap(t)
  BY <1>21, <1>a DEF RecvLoadCap, Move
<1>22. CASE t \in Receivers /\ RecvMoveHead(t)
  BY <1>22, <1>a, <1>d DEF RecvMoveHead, Move
<1>23. CASE t \in Receivers /\ RecvFree(t)
  BY <1>23, <1>a DEF RecvFree, Move, PopFrame
<1>24. CASE t \in Closers /\ CloseCall(t)
  BY <1>24, <1>a DEF CloseCall, Move, Load
<1>25. CASE t \in Closers /\ CloseLoadTail(t)
  BY <1>25, <1>a DEF CloseLoadTail, Move, Load
<1>26. CASE t \in Closers /\ CloseLink(t)
  BY <1>26, <1>a DEF CloseLink, Move
<1>27. CASE t \in Closers /\ CloseFlag(t)
  BY <1>27, <1>a DEF CloseFlag, Move
<1>28. CASE t \in Closers /\ CloseLoadHead(t)
  BY <1>28, <1>a DEF CloseLoadHead, Move, Load
<1>29. CASE t \in Closers /\ CloseNode(t)
  BY <1>29, <1>a DEF CloseNode, Move
<1>30. CASE t \in Closers /\ CloseLoadNext(t)
  BY <1>30, <1>a DEF CloseLoadNext, Move, Load
<1>31. CASE t \in Closers /\ CloseNextNode(t)
  BY <1>31, <1>a DEF CloseNextNode, Move, PopFrame
<1> QED
  BY <1>1, <1>2, <1>3, <1>4, <1>5, <1>6, <1>7, <1>8, <1>9, <1>10, <1>11, <1>12, <1>13,
     <1>14, <1>15, <1>16, <1>17, <1>18, <1>19, <1>20, <1>21, <1>22, <1>23, <1>24, <1>25,
     <1>26, <1>27, <1>28, <1>29, <1>30, <1>31
     DEF Acts, SenderStep, ReceiverStep, CloserStep

\* Every step keeps the types.
LEMMA TypeStep ==
  ASSUME UnboundedInv, ~broken, NEW t \in Threads, Alive(t), Acts(t)
  PROVE  TypeOK'
<1> USE DEF UnboundedInv, TypeOK, list, queues, ends
<1>b. pc[t] \in {"s_try", "s_link", "s_free", "s_store", "r_recv", "r_last", "r_next",
                 "r_free", "c_link", "c_next"} => node[t] \in Nodes
  BY AtNode
<1>c. /\ Null \in Nodes \cup {Null} /\ Null \in Links /\ End \in Links /\ Nodes \subseteq Links
      /\ \A n \in Nodes : Temp(n) \in Links
  BY Numbers
<1>1. CASE t \in Senders /\ \E m \in Messages : SendCall(t, m)
  <2>1. node' \in [Threads -> Nodes \cup {Null}] /\ val' \in [Threads -> Messages \cup {NoMsg}]
        /\ todo' \subseteq Messages
    BY <1>1 DEF SendCall, Load
  <2> QED
    BY <1>1, <2>1, GrowStep DEF SendCall
<1>2. CASE t \in Senders /\ SendLoadTail(t)
  <2>1. node' \in [Threads -> Nodes \cup {Null}]
    BY <1>2 DEF SendLoadTail, Load
  <2> QED
    BY <1>2, <2>1, GrowStep DEF SendLoadTail
<1>3. CASE t \in Senders /\ SendTry(t)
  <2>1. ASSUME Len(queue[node[t]]) + Cardinality(Reading(node[t])) < NodeCap,
               queue' = [queue EXCEPT ![node[t]] = Append(@, val[t])]
        PROVE  /\ queue' \in [Nodes -> Seq(Messages)]
               /\ \A n \in Nodes : Len(queue'[n]) <= NodeCap
    <3>1. node[t] \in Nodes /\ val[t] \in Messages /\ queue[node[t]] \in Seq(Messages)
      BY <1>3, <1>b DEF SendTry, Move, Frames, SenderPCs
    <3>2. Cardinality(Reading(node[t])) \in Nat
      BY ReadingFinite, FS_CardinalityType
    <3>3. /\ Append(queue[node[t]], val[t]) \in Seq(Messages)
          /\ Len(Append(queue[node[t]], val[t])) <= NodeCap
      BY <2>1, <3>1, <3>2, CapAssumption
    <3> QED
      BY <2>1, <3>1, <3>3
  <2> QED
    BY <1>3, <2>1, GrowStep DEF SendTry
<1>4. CASE t \in Senders /\ SendPublish(t)
  BY <1>4, GrowStep DEF SendPublish
<1>5. CASE t \in Senders /\ SendWake(t)
  <2>1. /\ node' \in [Threads -> Nodes \cup {Null}] /\ follow' \in [Threads -> Links]
        /\ val' \in [Threads -> Messages \cup {NoMsg}]
    BY <1>5, <1>c DEF SendWake, PopFrame
  <2> QED
    BY <1>5, <2>1, GrowStep DEF SendWake
<1>6. CASE t \in Senders /\ SendDisconnected(t)
  <2>1. t \in Threads /\ pc[t] = "s_disconnected" /\ val[t] \in Messages
    BY <1>6 DEF SendDisconnected, Move, Frames, SenderPCs
  <2>2. todo' \subseteq Messages
    BY <1>6, <2>1 DEF SendDisconnected
  <2>3. /\ node' \in [Threads -> Nodes \cup {Null}] /\ follow' \in [Threads -> Links]
        /\ val' \in [Threads -> Messages \cup {NoMsg}]
    BY <1>6, <1>c DEF SendDisconnected, PopFrame
  <2> QED
    BY <1>6, <2>2, <2>3, GrowStep DEF SendDisconnected
<1>7. CASE t \in Senders /\ SendLink(t)
  <2>1. Temp(node[t]) \in Links
    BY <1>7, <1>b, <1>c DEF SendLink, Move
  <2>2. next' = next \/ next' = [next EXCEPT ![node[t]] = Temp(node[t])]
    BY <1>7 DEF SendLink
  <2>3. next' \in [Nodes -> Links]
    BY <2>1, <2>2
  <2> QED
    BY <1>7, <2>3, GrowStep DEF SendLink
<1>8. CASE t \in Senders /\ SendClose(t)
  <2>1. qclosed' \in [Nodes -> BOOLEAN]
    BY <1>8 DEF SendClose
  <2> QED
    BY <1>8, <2>1, GrowStep DEF SendClose
<1>9. CASE t \in Senders /\ SendFreeTemp(t)
  <2>1. freed' \subseteq Links
    BY <1>9, <1>b, <1>c DEF SendFreeTemp, Move
  <2> QED
    BY <1>9, <2>1, GrowStep DEF SendFreeTemp
<1>10. CASE t \in Senders /\ SendStoreNext(t)
  <2>1. node[t] \in Nodes /\ val[t] \in Messages /\ nodes + 1 \in Nodes
    BY <1>10, <1>b, RoomLeft DEF SendStoreNext, Move, Frames, SenderPCs
  <2>2. <<val[t]>> \in Seq(Messages) /\ Len(<<val[t]>>) <= NodeCap
    BY <2>1, CapAssumption
  <2>3. queue' \in [Nodes -> Seq(Messages)] /\ \A n \in Nodes : Len(queue'[n]) <= NodeCap
    BY <1>10, <2>1, <2>2 DEF SendStoreNext
  <2>4. next' \in [Nodes -> Links] /\ node' \in [Threads -> Nodes \cup {Null}]
    BY <1>10, <2>1, <1>c DEF SendStoreNext, Load
  <2> QED
    BY <1>10, <2>3, <2>4, GrowStep DEF SendStoreNext
<1>11. CASE t \in Senders /\ SendStoreTail(t)
  <2>1. /\ node' \in [Threads -> Nodes \cup {Null}] /\ follow' \in [Threads -> Links]
        /\ val' \in [Threads -> Messages \cup {NoMsg}]
    BY <1>11, <1>c DEF SendStoreTail, PopFrame
  <2> QED
    BY <1>11, <2>1, GrowStep DEF SendStoreTail
<1>12. CASE t \in Receivers /\ RecvCall(t)
  <2>1. node' \in [Threads -> Nodes \cup {Null}]
    BY <1>12 DEF RecvCall, Load
  <2> QED
    BY <1>12, <2>1, GrowStep DEF RecvCall
<1>13. CASE t \in Receivers /\ RecvLoadHead(t)
  <2>1. node' \in [Threads -> Nodes \cup {Null}]
    BY <1>13 DEF RecvLoadHead, Load
  <2> QED
    BY <1>13, <2>1, GrowStep DEF RecvLoadHead
<1>14. CASE t \in Receivers /\ RecvSelect(t)
  <2>1. ASSUME queue[node[t]] # <<>>, queue' = [queue EXCEPT ![node[t]] = Tail(@)],
               val' = [val EXCEPT ![t] = Head(queue[node[t]])]
        PROVE  /\ queue' \in [Nodes -> Seq(Messages)]
               /\ \A n \in Nodes : Len(queue'[n]) <= NodeCap
               /\ val' \in [Threads -> Messages \cup {NoMsg}]
    <3>1. node[t] \in Nodes /\ queue[node[t]] \in Seq(Messages)
      BY <1>14, <1>b DEF RecvSelect
    <3>2. /\ Head(queue[node[t]]) \in Messages /\ Tail(queue[node[t]]) \in Seq(Messages)
          /\ Len(Tail(queue[node[t]])) <= Len(queue[node[t]])
      BY <2>1, <3>1
    <3> QED
      BY <2>1, <3>1, <3>2, CapAssumption
  <2> QED
    BY <1>14, <2>1, GrowStep DEF RecvSelect, Receivable
<1>15. CASE t \in Receivers /\ RecvLook(t)
  BY <1>15, GrowStep DEF RecvLook
<1>16. CASE t \in Receivers /\ RecvPark(t)
  BY <1>16, GrowStep DEF RecvPark
<1>17. CASE t \in Receivers /\ RecvReleased(t)
  BY <1>17, GrowStep DEF RecvReleased
<1>18. CASE t \in Receivers /\ RecvRelease(t)
  <2>1. val[t] \in Messages /\ got[t] \in Seq(Messages)
    BY <1>18 DEF RecvRelease, Move, Frames
  <2>2. got' \in [Receivers -> Seq(Messages)]
    BY <1>18, <2>1 DEF RecvRelease
  <2>3. /\ node' \in [Threads -> Nodes \cup {Null}] /\ follow' \in [Threads -> Links]
        /\ val' \in [Threads -> Messages \cup {NoMsg}]
    BY <1>18, <1>c DEF RecvRelease, PopFrame
  <2> QED
    BY <1>18, <2>2, <2>3, GrowStep DEF RecvRelease
<1>19. CASE t \in Receivers /\ RecvErr(t)
  <2>1. /\ node' \in [Threads -> Nodes \cup {Null}] /\ follow' \in [Threads -> Links]
        /\ val' \in [Threads -> Messages \cup {NoMsg}]
    BY <1>19, <1>c DEF RecvErr, PopFrame
  <2> QED
    BY <1>19, <2>1, GrowStep DEF RecvErr
<1>20. CASE t \in Receivers /\ RecvLoadNext(t)
  <2>1. follow' \in [Threads -> Links]
    BY <1>20, <1>b DEF RecvLoadNext, Move
  <2> QED
    BY <1>20, <2>1, GrowStep DEF RecvLoadNext
<1>21. CASE t \in Receivers /\ RecvLoadCap(t)
  BY <1>21, GrowStep DEF RecvLoadCap
<1>22. CASE t \in Receivers /\ RecvMoveHead(t)
  <2>1. broken' \in BOOLEAN
    BY <1>22 DEF RecvMoveHead
  <2> QED
    BY <1>22, <2>1, GrowStep DEF RecvMoveHead
<1>23. CASE t \in Receivers /\ RecvFree(t)
  <2>1. /\ node' \in [Threads -> Nodes \cup {Null}] /\ follow' \in [Threads -> Links]
        /\ val' \in [Threads -> Messages \cup {NoMsg}]
        /\ freed' \subseteq Links
    BY <1>23, <1>c, <1>b DEF RecvFree, Move, PopFrame
  <2> QED
    BY <1>23, <2>1, GrowStep DEF RecvFree
<1>24. CASE t \in Closers /\ CloseCall(t)
  <2>1. node' \in [Threads -> Nodes \cup {Null}] /\ closes' \in 0 .. MaxCloses
    BY <1>24, BoundAssumption DEF CloseCall, Load
  <2> QED
    BY <1>24, <2>1, GrowStep DEF CloseCall
<1>25. CASE t \in Closers /\ CloseLoadTail(t)
  <2>1. node' \in [Threads -> Nodes \cup {Null}]
    BY <1>25 DEF CloseLoadTail, Load
  <2> QED
    BY <1>25, <2>1, GrowStep DEF CloseLoadTail
<1>26. CASE t \in Closers /\ CloseLink(t)
  <2>1. End \in Links
    BY <1>26, <1>b, <1>c DEF CloseLink, Move
  <2>2. next' = next \/ next' = [next EXCEPT ![node[t]] = End]
    BY <1>26 DEF CloseLink
  <2>3. next' \in [Nodes -> Links]
    BY <2>1, <2>2
  <2> QED
    BY <1>26, <2>3, GrowStep DEF CloseLink
<1>27. CASE t \in Closers /\ CloseFlag(t)
  BY <1>27, GrowStep DEF CloseFlag
<1>28. CASE t \in Closers /\ CloseLoadHead(t)
  <2>1. node' \in [Threads -> Nodes \cup {Null}]
    BY <1>28 DEF CloseLoadHead, Load
  <2> QED
    BY <1>28, <2>1, GrowStep DEF CloseLoadHead
<1>29. CASE t \in Closers /\ CloseNode(t)
  <2>1. qclosed' \in [Nodes -> BOOLEAN]
    BY <1>29 DEF CloseNode
  <2> QED
    BY <1>29, <2>1, GrowStep DEF CloseNode
<1>30. CASE t \in Closers /\ CloseLoadNext(t)
  <2>1. node' \in [Threads -> Nodes \cup {Null}] /\ follow' \in [Threads -> Links]
    BY <1>30, <1>b, <1>c DEF CloseLoadNext, Move, Load
  <2> QED
    BY <1>30, <2>1, GrowStep DEF CloseLoadNext
<1>31. CASE t \in Closers /\ CloseNextNode(t)
  <2>1. /\ node' \in [Threads -> Nodes \cup {Null}] /\ follow' \in [Threads -> Links]
        /\ val' \in [Threads -> Messages \cup {NoMsg}]
        /\ qclosed' \in [Nodes -> BOOLEAN]
    BY <1>31, <1>c DEF CloseNextNode, PopFrame
  <2> QED
    BY <1>31, <2>1, GrowStep DEF CloseNextNode
<1> QED
  BY <1>1, <1>2, <1>3, <1>4, <1>5, <1>6, <1>7, <1>8, <1>9, <1>10, <1>11, <1>12, <1>13,
     <1>14, <1>15, <1>16, <1>17, <1>18, <1>19, <1>20, <1>21, <1>22, <1>23, <1>24, <1>25,
     <1>26, <1>27, <1>28, <1>29, <1>30, <1>31
     DEF Acts, SenderStep, ReceiverStep, CloserStep

\* The end of the list: the tail, and at most one node behind it.
LEMMA Ends ==
  ASSUME UnboundedInv
  PROVE  /\ tail <= nodes /\ nodes <= tail + 1
         /\ \A n \in Nodes : next[n] \in Nodes => next[n] = n + 1 /\ next[n] <= nodes
         /\ \A n \in Nodes : n <= tail /\ next[n] = Null => n = tail /\ Growing = {}
<1>1. /\ tail \in Nat /\ nodes \in Nat /\ tail \in Nodes /\ Nodes \subseteq Nat
      /\ Null = 0 /\ Null \notin Nodes
  BY Loaded, Numbers DEF UnboundedInv, TypeOK
<1>2. tail <= nodes /\ nodes <= tail + 1
  <2>1. CASE Growing = {}
    BY <1>1, <2>1 DEF UnboundedInv, Shape
  <2>2. CASE \E s \in Growing : s \in Holders
    BY <1>1, <2>2 DEF UnboundedInv, Shape
  <2>3. CASE \E s \in Growing : s \notin Holders
    BY <1>1, <2>3 DEF UnboundedInv, Shape
  <2> QED
    BY <2>1, <2>2, <2>3
<1>3. next[tail] \in Nodes => next[tail] = nodes /\ nodes = tail + 1
  <2>1. CASE Growing = {}
    BY <1>1, <2>1, Numbers DEF UnboundedInv, Shape
  <2>2. CASE \E s \in Growing : s \in Holders
    BY <1>1, <2>2, Numbers DEF UnboundedInv, Shape
  <2>3. CASE \E s \in Growing : s \notin Holders
    BY <1>1, <2>3 DEF UnboundedInv, Shape
  <2> QED
    BY <2>1, <2>2, <2>3
<1>4. next[tail] = Null => Growing = {}
  <2>1. ASSUME NEW s \in Growing, next[tail] = Null PROVE FALSE
    BY <1>1, <2>1, Numbers DEF UnboundedInv, Shape
  <2> QED
    BY <2>1
<1>5. ASSUME NEW n \in Nodes, next[n] \in Nodes PROVE next[n] = n + 1 /\ next[n] <= nodes
  BY <1>1, <1>2, <1>3, <1>5 DEF UnboundedInv, Shape
<1>6. ASSUME NEW n \in Nodes, n <= tail, next[n] = Null PROVE n = tail /\ Growing = {}
  BY <1>1, <1>4, <1>6 DEF UnboundedInv, Shape
<1> QED
  BY <1>2, <1>5, <1>6

\* Calls go on with what they have loaded.
LEMMA FramesStep ==
  ASSUME UnboundedInv, ~broken, NEW t \in Threads, Alive(t), Acts(t)
  PROVE  Frames'
<1> USE DEF UnboundedInv, Frames, list
<1>a. /\ pc \in [Threads -> {"idle"} \cup SenderPCs \cup ReceiverPCs \cup CloserPCs]
      /\ node \in [Threads -> Nodes \cup {Null}] /\ follow \in [Threads -> Links]
      /\ val \in [Threads -> Messages \cup {NoMsg}]
  BY DEF TypeOK, Roles
<1>b. /\ \A u \in Threads \ {t} :
           /\ pc'[u] = pc[u] \/ (pc[u] = "r_sleep" /\ pc'[u] = "r_recv")
           /\ node'[u] = node[u] /\ follow'[u] = follow[u] /\ val'[u] = val[u]
      /\ nodes <= nodes' /\ tail <= tail' /\ head' <= nodes' /\ nodes' \in Nat /\ tail' \in Nat
      /\ tail' \in Nodes /\ head' \in Nodes
  BY OthersStay, GrowStep, Numbers
<1>c. /\ Null = 0 /\ Null \notin Nodes /\ head \in Nat /\ tail \in Nat /\ nodes \in Nat
      /\ \A u \in Threads : node[u] \in Nat /\ follow[u] \in Nat
      /\ tail \in Nodes /\ head \in Nodes /\ tail <= nodes
  BY Loaded, Numbers, Ends DEF TypeOK
<1>d. t \in Senders /\ pc[t] = "s_store" => nodes + 1 \in Nodes
  BY RoomLeft
<1>e. pc[t] = "r_next" /\ next[node[t]] \in Nodes => nodes > 1 /\ next[node[t]] <= nodes
  <2>1. pc[t] = "r_next" => node[t] \in Nodes /\ node[t] \in Nat /\ node[t] >= 1
    BY AtNode, Numbers
  <2> QED
    BY <1>c, <2>1, Ends
<1>f. pc[t] \in {"r_recv", "r_last"} /\ queue[node[t]] # <<>> =>
        Head(queue[node[t]]) \in Messages
  BY AtNode DEF TypeOK
<1>1. CASE t \in Senders /\ \E m \in Messages : SendCall(t, m)
  BY <1>1, <1>a, <1>b, <1>c DEF SendCall, Move, Load, SenderPCs, ReceiverPCs
<1>2. CASE t \in Senders /\ SendLoadTail(t)
  BY <1>2, <1>a, <1>b, <1>c DEF SendLoadTail, Move, Load, SenderPCs, ReceiverPCs
<1>3. CASE t \in Senders /\ SendTry(t)
  BY <1>3, <1>a, <1>b, <1>c DEF SendTry, Move, SenderPCs, ReceiverPCs
<1>4. CASE t \in Senders /\ SendPublish(t)
  BY <1>4, <1>a, <1>b, <1>c DEF SendPublish, Move, SenderPCs, ReceiverPCs
<1>5. CASE t \in Senders /\ SendWake(t)
  BY <1>5, <1>a, <1>b, <1>c DEF SendWake, PopFrame, SenderPCs, ReceiverPCs
<1>6. CASE t \in Senders /\ SendDisconnected(t)
  BY <1>6, <1>a, <1>b, <1>c DEF SendDisconnected, Move, PopFrame, SenderPCs, ReceiverPCs
<1>7. CASE t \in Senders /\ SendLink(t)
  BY <1>7, <1>a, <1>b, <1>c DEF SendLink, Move, SenderPCs, ReceiverPCs
<1>8. CASE t \in Senders /\ SendClose(t)
  BY <1>8, <1>a, <1>b, <1>c DEF SendClose, Move, SenderPCs, ReceiverPCs
<1>9. CASE t \in Senders /\ SendFreeTemp(t)
  BY <1>9, <1>a, <1>b, <1>c DEF SendFreeTemp, Move, SenderPCs, ReceiverPCs
<1>10. CASE t \in Senders /\ SendStoreNext(t)
  BY <1>10, <1>a, <1>b, <1>c, <1>d DEF SendStoreNext, Move, Load, SenderPCs, ReceiverPCs
<1>11. CASE t \in Senders /\ SendStoreTail(t)
  BY <1>11, <1>a, <1>b, <1>c DEF SendStoreTail, Move, PopFrame, SenderPCs, ReceiverPCs
<1>12. CASE t \in Receivers /\ RecvCall(t)
  BY <1>12, <1>a, <1>b, <1>c DEF RecvCall, Move, Load, SenderPCs, ReceiverPCs
<1>13. CASE t \in Receivers /\ RecvLoadHead(t)
  BY <1>13, <1>a, <1>b, <1>c DEF RecvLoadHead, Move, Load, SenderPCs, ReceiverPCs
<1>14. CASE t \in Receivers /\ RecvSelect(t)
  BY <1>14, <1>a, <1>b, <1>c, <1>f DEF RecvSelect, SenderPCs, ReceiverPCs, Receivable
<1>15. CASE t \in Receivers /\ RecvLook(t)
  BY <1>15, <1>a, <1>b, <1>c DEF RecvLook, Move, SenderPCs, ReceiverPCs
<1>16. CASE t \in Receivers /\ RecvPark(t)
  BY <1>16, <1>a, <1>b, <1>c DEF RecvPark, Move, SenderPCs, ReceiverPCs
<1>17. CASE t \in Receivers /\ RecvReleased(t)
  BY <1>17, <1>a, <1>b, <1>c DEF RecvReleased, Move, SenderPCs, ReceiverPCs
<1>18. CASE t \in Receivers /\ RecvRelease(t)
  BY <1>18, <1>a, <1>b, <1>c DEF RecvRelease, Move, PopFrame, SenderPCs, ReceiverPCs
<1>19. CASE t \in Receivers /\ RecvErr(t)
  BY <1>19, <1>a, <1>b, <1>c DEF RecvErr, Move, PopFrame, SenderPCs, ReceiverPCs
<1>20. CASE t \in Receivers /\ RecvLoadNext(t)
  BY <1>20, <1>a, <1>b, <1>c, <1>e DEF RecvLoadNext, Move, SenderPCs, ReceiverPCs
<1>21. CASE t \in Receivers /\ RecvLoadCap(t)
  BY <1>21, <1>a, <1>b, <1>c DEF RecvLoadCap, Move, SenderPCs, ReceiverPCs, HasSubQueueSize
<1>22. CASE t \in Receivers /\ RecvMoveHead(t)
  BY <1>22, <1>a, <1>b, <1>c DEF RecvMoveHead, Move, SenderPCs, ReceiverPCs
<1>23. CASE t \in Receivers /\ RecvFree(t)
  BY <1>23, <1>a, <1>b, <1>c DEF RecvFree, Move, PopFrame, SenderPCs, ReceiverPCs
<1>24. CASE t \in Closers /\ CloseCall(t)
  BY <1>24, <1>a, <1>b, <1>c DEF CloseCall, Move, Load, SenderPCs, ReceiverPCs
<1>25. CASE t \in Closers /\ CloseLoadTail(t)
  BY <1>25, <1>a, <1>b, <1>c DEF CloseLoadTail, Move, Load, SenderPCs, ReceiverPCs
<1>26. CASE t \in Closers /\ CloseLink(t)
  BY <1>26, <1>a, <1>b, <1>c DEF CloseLink, Move, SenderPCs, ReceiverPCs
<1>27. CASE t \in Closers /\ CloseFlag(t)
  BY <1>27, <1>a, <1>b, <1>c DEF CloseFlag, Move, SenderPCs, ReceiverPCs
<1>28. CASE t \in Closers /\ CloseLoadHead(t)
  BY <1>28, <1>a, <1>b, <1>c DEF CloseLoadHead, Move, Load, SenderPCs, ReceiverPCs
<1>29. CASE t \in Closers /\ CloseNode(t)
  BY <1>29, <1>a, <1>b, <1>c, AtNode DEF CloseNode, Move, SenderPCs, ReceiverPCs
<1>30. CASE t \in Closers /\ CloseLoadNext(t)
  BY <1>30, <1>a, <1>b, <1>c DEF CloseLoadNext, Move, Load, SenderPCs, ReceiverPCs
<1>31. CASE t \in Closers /\ CloseNextNode(t)
  BY <1>31, <1>a, <1>b, <1>c DEF CloseNextNode, Move, PopFrame, SenderPCs, ReceiverPCs
<1> QED
  BY <1>1, <1>2, <1>3, <1>4, <1>5, <1>6, <1>7, <1>8, <1>9, <1>10, <1>11, <1>12, <1>13,
     <1>14, <1>15, <1>16, <1>17, <1>18, <1>19, <1>20, <1>21, <1>22, <1>23, <1>24, <1>25,
     <1>26, <1>27, <1>28, <1>29, <1>30, <1>31
     DEF Acts, SenderStep, ReceiverStep, CloserStep

\* How the senders that carry a message change when one of them moves.
LEMMA CarryingMoves ==
  ASSUME UnboundedInv, ~broken, NEW t \in Threads, Alive(t), Acts(t)
  PROVE  /\ (t \in Carrying <=> t \in Carrying') => Carrying' = Carrying
         /\ t \notin Carrying /\ t \in Carrying' =>
              IsFiniteSet(Carrying') /\ Cardinality(Carrying') = Cardinality(Carrying) + 1
         /\ t \in Carrying /\ t \notin Carrying' =>
              IsFiniteSet(Carrying') /\ Cardinality(Carrying') = Cardinality(Carrying) - 1
<1>1. \A u \in Threads : u # t => (u \in Carrying <=> u \in Carrying')
  BY OthersStay DEF Carrying, SenderPCs
<1>2. Carrying \subseteq Threads /\ Carrying' \subseteq Threads /\ IsFiniteSet(Carrying)
  BY DEF Carrying, Threads, UnboundedInv, Budget
<1>3. ASSUME t \in Carrying <=> t \in Carrying' PROVE Carrying' = Carrying
  BY <1>1, <1>2, <1>3
<1>4. ASSUME t \notin Carrying, t \in Carrying'
      PROVE  IsFiniteSet(Carrying') /\ Cardinality(Carrying') = Cardinality(Carrying) + 1
  <2>1. Carrying' = Carrying \cup {t}
    BY <1>1, <1>2, <1>4
  <2> QED
    BY <1>2, <1>4, <2>1, FS_AddElement
<1>5. ASSUME t \in Carrying, t \notin Carrying'
      PROVE  IsFiniteSet(Carrying') /\ Cardinality(Carrying') = Cardinality(Carrying) - 1
  <2>1. Carrying' = Carrying \ {t}
    BY <1>1, <1>2, <1>5
  <2> QED
    BY <1>2, <1>5, <2>1, FS_RemoveElement
<1> QED
  BY <1>3, <1>4, <1>5

\* A message that was accepted stays so.
LEMMA AcceptedSame ==
  ASSUME UNCHANGED <<queue, got>>,
         \A r \in Receivers : pc'[r] = "r_read" <=> pc[r] = "r_read"
  PROVE  Accepted' <=> Accepted
  BY DEF Accepted

\* Nodes are linked with messages, one each.
LEMMA BudgetStep ==
  ASSUME UnboundedInv, ~broken, NEW t \in Threads, Alive(t), Acts(t)
  PROVE  Budget'
<1> USE DEF UnboundedInv, Budget
<1>a. pc \in [Threads -> {"idle"} \cup SenderPCs \cup ReceiverPCs \cup CloserPCs]
  BY DEF Roles
<1>c. /\ IsFiniteSet(todo) /\ Cardinality(todo) \in Nat /\ Cardinality(Carrying) \in Nat
      /\ nodes \in Nat /\ MaxMessages \in Nat
  BY TodoFinite, FS_CardinalityType, Loaded, BoundAssumption
<1>d. \A u \in Threads \ {t} : pc'[u] = pc[u] \/ (pc[u] = "r_sleep" /\ pc'[u] = "r_recv")
  BY OthersStay
<1>b. ASSUME UNCHANGED <<queue, got, todo, nodes>>,
             t \in Senders => (pc[t] \in SenderPCs \ {"s_publish", "s_wake", "s_tail"} <=>
                               pc'[t] \in SenderPCs \ {"s_publish", "s_wake", "s_tail"}),
             pc[t] # "r_read" /\ pc'[t] # "r_read",
             pc'[t] \in {"s_link", "s_close", "s_free", "s_store"} => Accepted
      PROVE  Budget'
  <2>1. Carrying' = Carrying
    BY <1>b, CarryingMoves DEF Carrying
  <2>2. Accepted' <=> Accepted
    BY <1>b, <1>d, AcceptedSame DEF Threads
  <2>3. \A s \in Senders : pc'[s] \in {"s_link", "s_close", "s_free", "s_store"} => Accepted
    BY <1>b, <1>d DEF Threads
  <2> QED
    BY <1>b, <1>c, <2>1, <2>2, <2>3
<1> USE DEF SenderPCs
<1>1. CASE t \in Senders /\ \E m \in Messages : SendCall(t, m)
  <2>1. PICK m \in todo : todo' = todo \ {m}
    BY <1>1 DEF SendCall
  <2>2. Cardinality(todo') = Cardinality(todo) - 1 /\ Cardinality(todo') \in Nat
    BY <1>c, <2>1, FS_RemoveElement, FS_CardinalityType
  <2>3. pc[t] = "idle" /\ pc'[t] = "s_try" /\ UNCHANGED <<queue, got, nodes>>
    BY <1>1, <1>a DEF SendCall, Move, list, queues
  <2>4. t \notin Carrying /\ t \in Carrying' /\ (Accepted' <=> Accepted)
    BY <1>1, <2>3, <1>d, AcceptedSame DEF Carrying, Threads
  <2>5. IsFiniteSet(Carrying') /\ Cardinality(Carrying') = Cardinality(Carrying) + 1
    BY <2>4, CarryingMoves
  <2>6. \A s \in Senders : pc'[s] \in {"s_link", "s_close", "s_free", "s_store"} => Accepted
    BY <1>d, <2>3 DEF Threads
  <2> QED
    BY <1>c, <2>2, <2>3, <2>4, <2>5, <2>6
<1>2. CASE t \in Senders /\ SendLoadTail(t)
  <2>1. /\ pc[t] = "s_load" /\ pc'[t] \in {"s_try"}
        /\ UNCHANGED <<queue, got, todo, nodes>>
    BY <1>2, <1>a DEF SendLoadTail, Move, Load, list, queues, ends
  <2> QED
    BY <1>2, <1>b, <2>1
<1>3. CASE t \in Senders /\ SendTry(t)
  <2>1. /\ pc[t] = "s_try" /\ t \in Carrying /\ node[t] \in Nodes
        /\ UNCHANGED <<got, todo, nodes>>
    BY <1>3, AtNode DEF SendTry, Carrying, SenderPCs, list, ends
  <2>2. CASE queue' = queue /\ pc'[t] = "s_disconnected"
    BY <1>b, <2>1, <2>2
  <2>3. CASE queue' = queue /\ pc'[t] = "s_link"
             /\ (Len(queue[node[t]]) = NodeCap \/ Reading(node[t]) # {})
    <3>1. Accepted
      <4>1. CASE Len(queue[node[t]]) = NodeCap
        <5>1. queue[node[t]] # <<>>
          BY <4>1, CapAssumption
        <5> QED
          BY <2>1, <5>1 DEF Accepted
      <4>2. CASE Reading(node[t]) # {}
        BY <4>2 DEF Accepted, Reading
      <4> QED
        BY <2>3, <4>1, <4>2
    <3> QED
      BY <1>b, <2>1, <2>3, <3>1
  <2>4. CASE pc'[t] = "s_publish" /\ queue' = [queue EXCEPT ![node[t]] = Append(@, val[t])]
    <3>1. /\ val[t] \in Messages /\ queue[node[t]] \in Seq(Messages)
          /\ queue \in [Nodes -> Seq(Messages)]
      BY <2>1 DEF TypeOK, Frames, SenderPCs
    <3>2. queue'[node[t]] # <<>>
      <4>1. Append(queue[node[t]], val[t]) # <<>>
        BY <3>1
      <4> QED
        BY <2>1, <2>4, <3>1, <4>1
    <3>3. Accepted'
      BY <2>1, <3>2 DEF Accepted
    <3>4. t \notin Carrying'
      BY <2>4 DEF Carrying
    <3>5. IsFiniteSet(Carrying') /\ Cardinality(Carrying') = Cardinality(Carrying) - 1
      BY <2>1, <3>4, CarryingMoves
    <3> QED
      BY <1>c, <2>1, <3>3, <3>5
  <2> QED
    BY <1>3, <1>a, <2>2, <2>3, <2>4 DEF SendTry, Move
<1>4. CASE t \in Senders /\ SendPublish(t)
  <2>1. /\ pc[t] = "s_publish" /\ pc'[t] \in {"s_wake"}
        /\ UNCHANGED <<queue, got, todo, nodes>>
    BY <1>4, <1>a DEF SendPublish, Move, list, queues, ends
  <2> QED
    BY <1>4, <1>b, <2>1
<1>5. CASE t \in Senders /\ SendWake(t)
  <2>1. pc[t] = "s_wake" /\ pc'[t] = "idle" /\ UNCHANGED <<queue, got, todo, nodes>>
    BY <1>5, <1>a DEF SendWake, list, queues, ends
  <2> QED
    BY <1>b, <2>1
<1>6. CASE t \in Senders /\ SendDisconnected(t)
  <2>1. pc[t] = "s_disconnected" /\ t \in Carrying /\ UNCHANGED <<queue, got, nodes>>
    BY <1>6 DEF SendDisconnected, Move, Carrying, SenderPCs, list, queues
  <2>2. CASE pc'[t] = "s_load" /\ todo' = todo
    BY <1>b, <2>1, <2>2
  <2>3. CASE pc'[t] = "idle" /\ todo' = todo \cup {val[t]}
    <3>1. Cardinality(todo') \in Nat /\ Cardinality(todo') <= Cardinality(todo) + 1
      <4>1. Cardinality(todo \cup {val[t]}) \in {Cardinality(todo), Cardinality(todo) + 1}
        BY <1>c, FS_AddElement
      <4> QED
        BY <1>c, <2>3, <4>1
    <3>2. t \notin Carrying' /\ (Accepted' <=> Accepted)
      BY <2>1, <2>3, <1>d, AcceptedSame DEF Carrying, Threads
    <3>3. IsFiniteSet(Carrying') /\ Cardinality(Carrying') = Cardinality(Carrying) - 1
      BY <2>1, <3>2, CarryingMoves
    <3>4. \A s \in Senders : pc'[s] \in {"s_link", "s_close", "s_free", "s_store"} => Accepted
      BY <1>d, <2>3 DEF Threads
    <3> QED
      BY <1>c, <2>1, <3>1, <3>2, <3>3, <3>4
  <2> QED
    BY <1>6, <1>a, <2>2, <2>3 DEF SendDisconnected, Move
<1>7. CASE t \in Senders /\ SendLink(t)
  <2>1. /\ pc[t] = "s_link" /\ pc'[t] \in {"s_close", "s_load"}
        /\ UNCHANGED <<queue, got, todo, nodes>>
    BY <1>7, <1>a DEF SendLink, Move, list, queues, ends
  <2> QED
    BY <1>7, <1>b, <2>1
<1>8. CASE t \in Senders /\ SendClose(t)
  <2>1. /\ pc[t] = "s_close" /\ pc'[t] \in {"s_free"}
        /\ UNCHANGED <<queue, got, todo, nodes>>
    BY <1>8, <1>a DEF SendClose, Move, list, queues, ends
  <2> QED
    BY <1>8, <1>b, <2>1
<1>9. CASE t \in Senders /\ SendFreeTemp(t)
  <2>1. /\ pc[t] = "s_free" /\ pc'[t] \in {"s_store"}
        /\ UNCHANGED <<queue, got, todo, nodes>>
    BY <1>9, <1>a DEF SendFreeTemp, Move, list, queues, ends
  <2> QED
    BY <1>9, <1>b, <2>1
<1>10. CASE t \in Senders /\ SendStoreNext(t)
  <2>1. pc[t] = "s_store" /\ pc'[t] = "s_tail" /\ t \in Carrying /\ Accepted
        /\ UNCHANGED <<got, todo>> /\ nodes' = nodes + 1 /\ nodes + 1 \in Nodes
        /\ queue' = [queue EXCEPT ![nodes + 1] = <<val[t]>>]
    BY <1>10, <1>a, RoomLeft DEF SendStoreNext, Move, Carrying, SenderPCs, ends
  <2>2. Accepted' /\ t \notin Carrying'
    <3>1. queue'[nodes + 1] # <<>>
      BY <2>1 DEF TypeOK
    <3> QED
      BY <2>1, <3>1 DEF Accepted, Carrying
  <2>3. IsFiniteSet(Carrying') /\ Cardinality(Carrying') = Cardinality(Carrying) - 1
    BY <2>1, <2>2, CarryingMoves
  <2> QED
    BY <1>c, <2>1, <2>2, <2>3
<1>11. CASE t \in Senders /\ SendStoreTail(t)
  <2>1. /\ pc[t] = "s_tail" /\ pc'[t] \in {"idle"}
        /\ UNCHANGED <<queue, got, todo, nodes>>
    BY <1>11, <1>a DEF SendStoreTail, Move, PopFrame, list, queues, ends
  <2> QED
    BY <1>11, <1>b, <2>1
<1>12. CASE t \in Receivers /\ RecvCall(t)
  <2>1. /\ pc[t] = "idle" /\ pc'[t] \in {"r_recv"}
        /\ UNCHANGED <<queue, got, todo, nodes>>
    BY <1>12, <1>a DEF RecvCall, Move, Load, list, queues, ends
  <2> QED
    BY <1>12, <1>b, <2>1
<1>13. CASE t \in Receivers /\ RecvLoadHead(t)
  <2>1. /\ pc[t] = "r_load" /\ pc'[t] \in {"r_recv"}
        /\ UNCHANGED <<queue, got, todo, nodes>>
    BY <1>13, <1>a DEF RecvLoadHead, Move, Load, list, queues, ends
  <2> QED
    BY <1>13, <1>b, <2>1
<1>14. CASE t \in Receivers /\ RecvSelect(t)
  <2>1. /\ pc[t] \in {"r_recv", "r_last"} /\ node[t] \in Nodes
        /\ UNCHANGED <<got, todo, nodes>>
    BY <1>14, AtNode DEF RecvSelect, list, ends
  <2>2. CASE queue' = queue /\ pc'[t] \in {"r_err", "r_look"}
    BY <1>b, <2>1, <2>2
  <2>3. CASE queue[node[t]] # <<>> /\ pc'[t] = "r_read"
    <3>1. Accepted /\ Accepted'
      BY <1>14, <2>1, <2>3 DEF Accepted
    <3>2. Carrying' = Carrying
      BY <2>1, <2>3, CarryingMoves DEF Carrying, SenderPCs
    <3> QED
      BY <1>c, <2>1, <3>1, <3>2
  <2> QED
    BY <1>14, <1>a, <2>2, <2>3 DEF RecvSelect, Receivable
<1>15. CASE t \in Receivers /\ RecvLook(t)
  <2>1. /\ pc[t] = "r_look" /\ pc'[t] \in {"r_last", "r_recv", "r_park"}
        /\ UNCHANGED <<queue, got, todo, nodes>>
    BY <1>15, <1>a DEF RecvLook, Move, list, queues, ends
  <2> QED
    BY <1>15, <1>b, <2>1
<1>16. CASE t \in Receivers /\ RecvPark(t)
  <2>1. /\ pc[t] = "r_park" /\ pc'[t] \in {"r_sleep"}
        /\ UNCHANGED <<queue, got, todo, nodes>>
    BY <1>16, <1>a DEF RecvPark, Move, list, queues, ends
  <2> QED
    BY <1>16, <1>b, <2>1
<1>17. CASE t \in Receivers /\ RecvReleased(t)
  <2>1. /\ pc[t] = "r_sleep" /\ pc'[t] \in {"r_last"}
        /\ UNCHANGED <<queue, got, todo, nodes>>
    BY <1>17, <1>a DEF RecvReleased, Move, list, queues, ends
  <2> QED
    BY <1>17, <1>b, <2>1
<1>18. CASE t \in Receivers /\ RecvRelease(t)
  <2>1. /\ pc[t] = "r_read" /\ pc'[t] = "idle" /\ UNCHANGED <<todo, nodes>>
        /\ got' = [got EXCEPT ![t] = Append(@, val[t])]
    BY <1>18, <1>a DEF RecvRelease, Move, list
  <2>2. got'[t] # <<>>
    <3>1. /\ val[t] \in Messages /\ got \in [Receivers -> Seq(Messages)]
          /\ got[t] \in Seq(Messages)
      BY <1>18, <2>1 DEF TypeOK, Frames
    <3> QED
      BY <1>18, <2>1, <3>1
  <2>3. Accepted /\ Accepted'
    BY <1>18, <2>1, <2>2 DEF Accepted
  <2>4. Carrying' = Carrying
    BY <2>1, CarryingMoves DEF Carrying, SenderPCs
  <2> QED
    BY <1>c, <2>1, <2>3, <2>4
<1>19. CASE t \in Receivers /\ RecvErr(t)
  <2>1. /\ pc[t] = "r_err" /\ pc'[t] \in {"idle", "r_next"}
        /\ UNCHANGED <<queue, got, todo, nodes>>
    BY <1>19, <1>a DEF RecvErr, Move, PopFrame, list, queues, ends
  <2> QED
    BY <1>19, <1>b, <2>1
<1>20. CASE t \in Receivers /\ RecvLoadNext(t)
  <2>1. /\ pc[t] = "r_next" /\ pc'[t] \in {"r_cap"}
        /\ UNCHANGED <<queue, got, todo, nodes>>
    BY <1>20, <1>a DEF RecvLoadNext, Move, list, queues, ends
  <2> QED
    BY <1>20, <1>b, <2>1
<1>21. CASE t \in Receivers /\ RecvLoadCap(t)
  <2>1. /\ pc[t] = "r_cap" /\ pc'[t] \in {"r_move", "r_next"}
        /\ UNCHANGED <<queue, got, todo, nodes>>
    BY <1>21, <1>a DEF RecvLoadCap, Move, HasSubQueueSize, list, queues, ends
  <2> QED
    BY <1>21, <1>b, <2>1
<1>22. CASE t \in Receivers /\ RecvMoveHead(t)
  <2>1. /\ pc[t] = "r_move" /\ pc'[t] \in {"r_free", "r_load"}
        /\ UNCHANGED <<queue, got, todo, nodes>>
    BY <1>22, <1>a DEF RecvMoveHead, Move, list, queues, ends
  <2> QED
    BY <1>22, <1>b, <2>1
<1>23. CASE t \in Receivers /\ RecvFree(t)
  <2>1. /\ pc[t] = "r_free" /\ pc'[t] \in {"r_load"}
        /\ UNCHANGED <<queue, got, todo, nodes>>
    BY <1>23, <1>a DEF RecvFree, Move, PopFrame, list, queues, ends
  <2> QED
    BY <1>23, <1>b, <2>1
<1>24. CASE t \in Closers /\ CloseCall(t)
  <2>1. /\ pc[t] = "idle" /\ pc'[t] \in {"c_link"}
        /\ UNCHANGED <<queue, got, todo, nodes>>
    BY <1>24, <1>a DEF CloseCall, Move, Load, list, queues, ends
  <2> QED
    BY <1>24, <1>b, <2>1
<1>25. CASE t \in Closers /\ CloseLoadTail(t)
  <2>1. /\ pc[t] = "c_tail" /\ pc'[t] \in {"c_link"}
        /\ UNCHANGED <<queue, got, todo, nodes>>
    BY <1>25, <1>a DEF CloseLoadTail, Move, Load, list, queues, ends
  <2> QED
    BY <1>25, <1>b, <2>1
<1>26. CASE t \in Closers /\ CloseLink(t)
  <2>1. /\ pc[t] = "c_link" /\ pc'[t] \in {"c_flag", "c_tail"}
        /\ UNCHANGED <<queue, got, todo, nodes>>
    BY <1>26, <1>a DEF CloseLink, Move, list, queues, ends
  <2> QED
    BY <1>26, <1>b, <2>1
<1>27. CASE t \in Closers /\ CloseFlag(t)
  <2>1. /\ pc[t] = "c_flag" /\ pc'[t] \in {"c_head"}
        /\ UNCHANGED <<queue, got, todo, nodes>>
    BY <1>27, <1>a DEF CloseFlag, Move, list, queues, ends
  <2> QED
    BY <1>27, <1>b, <2>1
<1>28. CASE t \in Closers /\ CloseLoadHead(t)
  <2>1. /\ pc[t] = "c_head" /\ pc'[t] \in {"c_close"}
        /\ UNCHANGED <<queue, got, todo, nodes>>
    BY <1>28, <1>a DEF CloseLoadHead, Move, Load, list, queues, ends
  <2> QED
    BY <1>28, <1>b, <2>1
<1>29. CASE t \in Closers /\ CloseNode(t)
  <2>1. /\ pc[t] = "c_close" /\ pc'[t] \in {"c_next"}
        /\ UNCHANGED <<queue, got, todo, nodes>>
    BY <1>29, <1>a DEF CloseNode, Move, list, queues, ends
  <2> QED
    BY <1>29, <1>b, <2>1
<1>30. CASE t \in Closers /\ CloseLoadNext(t)
  <2>1. /\ pc[t] = "c_next" /\ pc'[t] \in {"c_close", "c_close_next"}
        /\ UNCHANGED <<queue, got, todo, nodes>>
    BY <1>30, <1>a DEF CloseLoadNext, Move, Load, list, queues, ends
  <2> QED
    BY <1>30, <1>b, <2>1
<1>31. CASE t \in Closers /\ CloseNextNode(t)
  <2>1. /\ pc[t] = "c_close_next" /\ pc'[t] \in {"idle"}
        /\ UNCHANGED <<queue, got, todo, nodes>>
    BY <1>31, <1>a DEF CloseNextNode, Move, PopFrame, list, queues, ends
  <2> QED
    BY <1>31, <1>b, <2>1
<1> QED
  BY <1>1, <1>2, <1>3, <1>4, <1>5, <1>6, <1>7, <1>8, <1>9, <1>10, <1>11, <1>12, <1>13,
     <1>14, <1>15, <1>16, <1>17, <1>18, <1>19, <1>20, <1>21, <1>22, <1>23, <1>24, <1>25,
     <1>26, <1>27, <1>28, <1>29, <1>30, <1>31
     DEF Acts, SenderStep, ReceiverStep, CloserStep

\* A step that leaves the end of the list and who works there alone.
LEMMA ShapeSame ==
  ASSUME UnboundedInv, ~broken, NEW t \in Threads, Alive(t), Acts(t),
         UNCHANGED <<next, tail, nodes>>,
         t \in Senders =>
           /\ pc[t] \in {"s_close", "s_free", "s_store"} <=>
                pc'[t] \in {"s_close", "s_free", "s_store"}
           /\ pc[t] = "s_tail" <=> pc'[t] = "s_tail"
           /\ pc[t] \in {"s_close", "s_free", "s_store", "s_tail"} => node'[t] = node[t]
  PROVE  Shape'
<1>1. Holders' = Holders /\ Growing' = Growing
  BY OthersStay DEF Holders, Growing, Threads
<1>2. \A s \in Growing : node'[s] = node[s]
  BY OthersStay DEF Growing, Threads
<1>3. Holders \subseteq Growing
  BY DEF Holders, Growing
<1> QED
  BY <1>1, <1>2, <1>3 DEF UnboundedInv, Shape

\* One exchange at a time gets through at the end of the list.
LEMMA ShapeStep ==
  ASSUME UnboundedInv, ~broken, NEW t \in Threads, Alive(t), Acts(t)
  PROVE  Shape'
<1> USE DEF UnboundedInv, list
<1>a. pc \in [Threads -> {"idle"} \cup SenderPCs \cup ReceiverPCs \cup CloserPCs]
      /\ node \in [Threads -> Nodes \cup {Null}]
  BY DEF Roles, TypeOK
<1>c. /\ tail \in Nat /\ nodes \in Nat /\ tail \in Nodes /\ next \in [Nodes -> Links]
      /\ Nodes \subseteq Nat
  BY Loaded, Numbers DEF TypeOK
<1>d. \A u \in Threads \ {t} :
        /\ pc'[u] = pc[u] \/ (pc[u] = "r_sleep" /\ pc'[u] = "r_recv")
        /\ node'[u] = node[u]
  BY OthersStay
<1>e. tail' \in Nodes
  BY GrowStep
<1>1. CASE t \in Senders /\ \E m \in Messages : SendCall(t, m)
  BY <1>1, <1>a, ShapeSame DEF SendCall, Move, Load
<1>2. CASE t \in Senders /\ SendLoadTail(t)
  BY <1>2, <1>a, ShapeSame DEF SendLoadTail, Move, Load
<1>3. CASE t \in Senders /\ SendTry(t)
  BY <1>3, <1>a, ShapeSame DEF SendTry, Move
<1>4. CASE t \in Senders /\ SendPublish(t)
  BY <1>4, <1>a, ShapeSame DEF SendPublish, Move
<1>5. CASE t \in Senders /\ SendWake(t)
  <2>1. pc[t] = "s_wake" /\ pc'[t] = "idle" /\ UNCHANGED <<next, tail, nodes>>
    BY <1>5, <1>a DEF SendWake
  <2> QED
    BY <2>1, ShapeSame
<1>6. CASE t \in Senders /\ SendDisconnected(t)
  BY <1>6, <1>a, ShapeSame DEF SendDisconnected, Move, PopFrame
<1>7. CASE t \in Senders /\ SendLink(t)
  <2>1. /\ pc[t] = "s_link" /\ node[t] \in Nodes /\ node[t] <= tail
        /\ UNCHANGED <<tail, nodes, node>>
    BY <1>7, AtNode DEF SendLink, Move, Frames
  <2>2. CASE pc'[t] = "s_load" /\ next' = next
    BY <2>1, <2>2, ShapeSame
  <2>3. CASE /\ pc'[t] = "s_close" /\ next[node[t]] = Null
             /\ next' = [next EXCEPT ![node[t]] = Temp(node[t])]
    <3>1. node[t] = tail /\ Growing = {} /\ nodes = tail
      BY <2>1, <2>3, Ends DEF Shape
    <3>2. /\ \A n \in Nodes : n # tail => next'[n] = next[n]
          /\ next'[tail] = Temp(tail)
      BY <1>c, <2>1, <2>3, <3>1
    <3>3. Growing' = {t} /\ Holders' = {t}
      BY <1>7, <1>d, <2>3, <3>1 DEF Growing, Holders, Threads
    <3> QED
      BY <1>c, <2>1, <3>1, <3>2, <3>3 DEF Shape
  <2> QED
    BY <1>7, <1>a, <2>2, <2>3 DEF SendLink, Move
<1>8. CASE t \in Senders /\ SendClose(t)
  BY <1>8, <1>a, ShapeSame DEF SendClose, Move
<1>9. CASE t \in Senders /\ SendFreeTemp(t)
  BY <1>9, <1>a, ShapeSame DEF SendFreeTemp, Move
<1>10. CASE t \in Senders /\ SendStoreNext(t)
  <2>1. /\ pc[t] = "s_store" /\ pc'[t] = "s_tail" /\ nodes' = nodes + 1 /\ nodes + 1 \in Nodes
        /\ next' = [next EXCEPT ![node[t]] = nodes + 1] /\ node'[t] = nodes + 1 /\ tail' = tail
    BY <1>10, <1>a, RoomLeft DEF SendStoreNext, Move, Load
  <2>2. t \in Holders /\ Growing = {t} /\ node[t] = tail /\ nodes = tail
    BY <1>10, <2>1 DEF Holders, Growing, Shape
  <2>3. Growing' = {t} /\ Holders' = {}
    BY <1>10, <1>d, <2>1, <2>2 DEF Growing, Holders, Threads
  <2>4. next'[tail] = nodes + 1 /\ \A n \in Nodes : n # tail => next'[n] = next[n]
    BY <1>c, <2>1, <2>2
  <2> QED
    BY <1>c, <2>1, <2>2, <2>3, <2>4 DEF Shape
<1>11. CASE t \in Senders /\ SendStoreTail(t)
  <2>1. /\ pc[t] = "s_tail" /\ pc'[t] = "idle" /\ UNCHANGED <<next, nodes>> /\ tail' = node[t]
    BY <1>11, <1>a DEF SendStoreTail, Move, PopFrame
  <2>2. t \in Growing \ Holders
    BY <1>11, <2>1 DEF Growing, Holders
  <2>3. Growing = {t} /\ tail' = nodes /\ nodes = tail + 1 /\ next[tail] = tail + 1
    BY <2>1, <2>2 DEF Growing, Shape
  <2>4. Growing' = {} /\ Holders' = {}
    BY <1>d, <2>1, <2>3 DEF Growing, Holders, Threads
  <2> QED
    BY <1>c, <1>e, <2>1, <2>3, <2>4 DEF Shape
<1>12. CASE t \in Receivers /\ RecvCall(t)
  BY <1>12, <1>a, ShapeSame DEF RecvCall, Move, Load
<1>13. CASE t \in Receivers /\ RecvLoadHead(t)
  BY <1>13, <1>a, ShapeSame DEF RecvLoadHead, Move, Load
<1>14. CASE t \in Receivers /\ RecvSelect(t)
  BY <1>14, <1>a, ShapeSame DEF RecvSelect
<1>15. CASE t \in Receivers /\ RecvLook(t)
  BY <1>15, <1>a, ShapeSame DEF RecvLook, Move
<1>16. CASE t \in Receivers /\ RecvPark(t)
  BY <1>16, <1>a, ShapeSame DEF RecvPark, Move
<1>17. CASE t \in Receivers /\ RecvReleased(t)
  BY <1>17, <1>a, ShapeSame DEF RecvReleased, Move
<1>18. CASE t \in Receivers /\ RecvRelease(t)
  BY <1>18, <1>a, ShapeSame DEF RecvRelease, Move, PopFrame
<1>19. CASE t \in Receivers /\ RecvErr(t)
  BY <1>19, <1>a, ShapeSame DEF RecvErr, Move, PopFrame
<1>20. CASE t \in Receivers /\ RecvLoadNext(t)
  BY <1>20, <1>a, ShapeSame DEF RecvLoadNext, Move
<1>21. CASE t \in Receivers /\ RecvLoadCap(t)
  BY <1>21, <1>a, ShapeSame DEF RecvLoadCap, Move
<1>22. CASE t \in Receivers /\ RecvMoveHead(t)
  BY <1>22, <1>a, ShapeSame DEF RecvMoveHead, Move
<1>23. CASE t \in Receivers /\ RecvFree(t)
  BY <1>23, <1>a, ShapeSame DEF RecvFree, Move, PopFrame
<1>24. CASE t \in Closers /\ CloseCall(t)
  BY <1>24, <1>a, ShapeSame DEF CloseCall, Move, Load
<1>25. CASE t \in Closers /\ CloseLoadTail(t)
  BY <1>25, <1>a, ShapeSame DEF CloseLoadTail, Move, Load
<1>26. CASE t \in Closers /\ CloseLink(t)
  <2>1. /\ pc[t] = "c_link" /\ node[t] \in Nodes /\ node[t] <= tail
        /\ UNCHANGED <<tail, nodes, node>>
    BY <1>26, AtNode DEF CloseLink, Move, Frames
  <2>2. CASE pc'[t] = "c_tail" /\ next' = next
    BY <2>1, <2>2, ShapeSame
  <2>3. CASE /\ pc'[t] = "c_flag" /\ next[node[t]] = Null
             /\ next' = [next EXCEPT ![node[t]] = End]
    <3>1. node[t] = tail /\ Growing = {} /\ nodes = tail
      BY <2>1, <2>3, Ends DEF Shape
    <3>2. /\ \A n \in Nodes : n # tail => next'[n] = next[n]
          /\ next'[tail] = End
      BY <1>c, <2>1, <2>3, <3>1
    <3>3. Growing' = {} /\ Holders' = {}
      BY <1>26, <1>d, <2>3, <3>1 DEF Growing, Holders, Threads
    <3> QED
      BY <1>c, <2>1, <3>1, <3>2, <3>3 DEF Shape
  <2> QED
    BY <1>26, <1>a, <2>2, <2>3 DEF CloseLink, Move
<1>27. CASE t \in Closers /\ CloseFlag(t)
  BY <1>27, <1>a, ShapeSame DEF CloseFlag, Move
<1>28. CASE t \in Closers /\ CloseLoadHead(t)
  BY <1>28, <1>a, ShapeSame DEF CloseLoadHead, Move, Load
<1>29. CASE t \in Closers /\ CloseNode(t)
  BY <1>29, <1>a, ShapeSame DEF CloseNode, Move
<1>30. CASE t \in Closers /\ CloseLoadNext(t)
  BY <1>30, <1>a, ShapeSame DEF CloseLoadNext, Move, Load
<1>31. CASE t \in Closers /\ CloseNextNode(t)
  BY <1>31, <1>a, ShapeSame DEF CloseNextNode, Move, PopFrame
<1> QED
  BY <1>1, <1>2, <1>3, <1>4, <1>5, <1>6, <1>7, <1>8, <1>9, <1>10, <1>11, <1>12, <1>13,
     <1>14, <1>15, <1>16, <1>17, <1>18, <1>19, <1>20, <1>21, <1>22, <1>23, <1>24, <1>25,
     <1>26, <1>27, <1>28, <1>29, <1>30, <1>31
     DEF Acts, SenderStep, ReceiverStep, CloserStep

\* How the closers that retry change when one of them moves.
LEMMA RetryingMoves ==
  ASSUME UnboundedInv, ~broken, NEW t \in Threads, Alive(t), Acts(t)
  PROVE  /\ (t \in Retrying <=> t \in Retrying') => Retrying' = Retrying
         /\ t \notin Retrying /\ t \in Retrying' =>
              IsFiniteSet(Retrying') /\ Cardinality(Retrying') = Cardinality(Retrying) + 1
         /\ t \in Retrying /\ t \notin Retrying' =>
              IsFiniteSet(Retrying') /\ Cardinality(Retrying') = Cardinality(Retrying) - 1
<1>1. \A u \in Threads : u # t => (u \in Retrying <=> u \in Retrying')
  BY OthersStay DEF Retrying
<1>2. Retrying \subseteq Threads /\ Retrying' \subseteq Threads /\ IsFiniteSet(Retrying)
  BY DEF Retrying, Threads, UnboundedInv, CloseCount
<1>3. ASSUME t \in Retrying <=> t \in Retrying' PROVE Retrying' = Retrying
  BY <1>1, <1>2, <1>3
<1>4. ASSUME t \notin Retrying, t \in Retrying'
      PROVE  IsFiniteSet(Retrying') /\ Cardinality(Retrying') = Cardinality(Retrying) + 1
  <2>1. Retrying' = Retrying \cup {t}
    BY <1>1, <1>2, <1>4
  <2> QED
    BY <1>2, <1>4, <2>1, FS_AddElement
<1>5. ASSUME t \in Retrying, t \notin Retrying'
      PROVE  IsFiniteSet(Retrying') /\ Cardinality(Retrying') = Cardinality(Retrying) - 1
  <2>1. Retrying' = Retrying \ {t}
    BY <1>1, <1>2, <1>5
  <2> QED
    BY <1>2, <1>5, <2>1, FS_RemoveElement
<1> QED
  BY <1>3, <1>4, <1>5

\* The node of a close stays behind the tail, and nobody else puts one there.
LEMMA EndStays ==
  ASSUME UnboundedInv, ~broken, NEW t \in Threads, Alive(t), Acts(t)
  PROVE  /\ next[tail] = End => next'[tail'] = End
         /\ next'[tail'] = End => \/ next[tail] = End
                                  \/ t \in Closers /\ pc[t] = "c_link" /\ pc'[t] = "c_flag"
                                     /\ next[tail] = Null
<1> USE DEF list
<1>a. /\ next \in [Nodes -> Links] /\ tail \in Nodes /\ nodes \in Nodes
      /\ pc \in [Threads -> {"idle"} \cup SenderPCs \cup ReceiverPCs \cup CloserPCs]
      /\ tail \in Nat /\ nodes \in Nat
  BY Loaded DEF UnboundedInv, TypeOK, Roles
<1>b. /\ End \notin Nodes /\ Null \notin Nodes /\ End # Null
      /\ \A n \in Nodes : Temp(n) # End /\ Temp(n) # Null
  BY Numbers
<1>1. CASE t \in Senders /\ \E m \in Messages : SendCall(t, m)
  BY <1>1 DEF SendCall
<1>2. CASE t \in Senders /\ SendLoadTail(t)
  BY <1>2 DEF SendLoadTail
<1>3. CASE t \in Senders /\ SendTry(t)
  BY <1>3 DEF SendTry
<1>4. CASE t \in Senders /\ SendPublish(t)
  BY <1>4 DEF SendPublish
<1>5. CASE t \in Senders /\ SendWake(t)
  BY <1>5 DEF SendWake
<1>6. CASE t \in Senders /\ SendDisconnected(t)
  BY <1>6 DEF SendDisconnected
<1>7. CASE t \in Senders /\ SendLink(t)
  <2>1. /\ node[t] \in Nodes /\ tail' = tail
        /\ next[node[t]] = Null /\ node[t] <= tail => node[t] = tail
    BY <1>7, AtNode, Ends DEF SendLink, Move
  <2>2. node[t] <= tail
    BY <1>7 DEF SendLink, Move, UnboundedInv, Frames
  <2> QED
    BY <1>7, <1>a, <1>b, <2>1, <2>2 DEF SendLink, Move
<1>8. CASE t \in Senders /\ SendClose(t)
  BY <1>8 DEF SendClose
<1>9. CASE t \in Senders /\ SendFreeTemp(t)
  BY <1>9 DEF SendFreeTemp
<1>10. CASE t \in Senders /\ SendStoreNext(t)
  <2>1. t \in Holders /\ nodes + 1 \in Nodes
    BY <1>10, RoomLeft DEF SendStoreNext, Move, Load, Holders
  <2>2. node[t] = tail /\ next[tail] = Temp(tail) /\ tail' = tail
    BY <1>10, <2>1 DEF SendStoreNext, Move, Load, UnboundedInv, Shape
  <2> QED
    BY <1>10, <1>a, <1>b, <2>1, <2>2 DEF SendStoreNext, Move, Load
<1>11. CASE t \in Senders /\ SendStoreTail(t)
  <2>1. t \in Growing \ Holders
    BY <1>11 DEF SendStoreTail, Move, PopFrame, Growing, Holders
  <2>2. tail' = nodes /\ nodes = tail + 1 /\ next[tail] = nodes /\ next' = next
    BY <1>11, <2>1 DEF SendStoreTail, Move, PopFrame, UnboundedInv, Shape
  <2>3. next[nodes] = Null
    BY <1>a, <2>2 DEF UnboundedInv, Shape
  <2> QED
    BY <1>a, <1>b, <2>2, <2>3
<1>12. CASE t \in Receivers /\ RecvCall(t)
  BY <1>12 DEF RecvCall
<1>13. CASE t \in Receivers /\ RecvLoadHead(t)
  BY <1>13 DEF RecvLoadHead
<1>14. CASE t \in Receivers /\ RecvSelect(t)
  BY <1>14 DEF RecvSelect
<1>15. CASE t \in Receivers /\ RecvLook(t)
  BY <1>15 DEF RecvLook
<1>16. CASE t \in Receivers /\ RecvPark(t)
  BY <1>16 DEF RecvPark
<1>17. CASE t \in Receivers /\ RecvReleased(t)
  BY <1>17 DEF RecvReleased
<1>18. CASE t \in Receivers /\ RecvRelease(t)
  BY <1>18 DEF RecvRelease
<1>19. CASE t \in Receivers /\ RecvErr(t)
  BY <1>19 DEF RecvErr
<1>20. CASE t \in Receivers /\ RecvLoadNext(t)
  BY <1>20 DEF RecvLoadNext
<1>21. CASE t \in Receivers /\ RecvLoadCap(t)
  BY <1>21 DEF RecvLoadCap
<1>22. CASE t \in Receivers /\ RecvMoveHead(t)
  BY <1>22 DEF RecvMoveHead
<1>23. CASE t \in Receivers /\ RecvFree(t)
  BY <1>23 DEF RecvFree
<1>24. CASE t \in Closers /\ CloseCall(t)
  BY <1>24 DEF CloseCall
<1>25. CASE t \in Closers /\ CloseLoadTail(t)
  BY <1>25 DEF CloseLoadTail
<1>26. CASE t \in Closers /\ CloseLink(t)
  <2>1. /\ node[t] \in Nodes /\ tail' = tail
        /\ next[node[t]] = Null /\ node[t] <= tail => node[t] = tail
    BY <1>26, AtNode, Ends DEF CloseLink, Move
  <2>2. node[t] <= tail
    BY <1>26 DEF CloseLink, Move, UnboundedInv, Frames
  <2> QED
    BY <1>26, <1>a, <1>b, <2>1, <2>2 DEF CloseLink, Move
<1>27. CASE t \in Closers /\ CloseFlag(t)
  BY <1>27 DEF CloseFlag
<1>28. CASE t \in Closers /\ CloseLoadHead(t)
  BY <1>28 DEF CloseLoadHead
<1>29. CASE t \in Closers /\ CloseNode(t)
  BY <1>29 DEF CloseNode
<1>30. CASE t \in Closers /\ CloseLoadNext(t)
  BY <1>30 DEF CloseLoadNext
<1>31. CASE t \in Closers /\ CloseNextNode(t)
  BY <1>31 DEF CloseNextNode
<1> QED
  BY <1>1, <1>2, <1>3, <1>4, <1>5, <1>6, <1>7, <1>8, <1>9, <1>10, <1>11, <1>12, <1>13,
     <1>14, <1>15, <1>16, <1>17, <1>18, <1>19, <1>20, <1>21, <1>22, <1>23, <1>24, <1>25,
     <1>26, <1>27, <1>28, <1>29, <1>30, <1>31
     DEF Acts, SenderStep, ReceiverStep, CloserStep

\* The calls of close that have got through are counted by the node behind the tail.
LEMMA CountStep ==
  ASSUME UnboundedInv, ~broken, NEW t \in Threads, Alive(t), Acts(t)
  PROVE  CloseCount'
<1> USE DEF UnboundedInv, CloseCount
<1>a. pc \in [Threads -> {"idle"} \cup SenderPCs \cup ReceiverPCs \cup CloserPCs]
  BY DEF Roles
<1>b. /\ closes \in Nat /\ Cardinality(Retrying) \in Nat
      /\ next \in [Nodes -> Links] /\ tail \in Nodes
  BY BoundAssumption, FS_CardinalityType DEF TypeOK
<1>c. End # Null
  BY Numbers
<1>d. \A u \in Threads \ {t} : pc'[u] = pc[u] \/ (pc[u] = "r_sleep" /\ pc'[u] = "r_recv")
  BY OthersStay
<1>e. next[tail] = End => next'[tail'] = End
  BY EndStays
<1>q. ASSUME UNCHANGED <<closes, closed>>, pc'[t] # "c_flag",
             t \in Closers =>
               /\ pc[t] \in {"c_tail", "c_link"} <=> pc'[t] \in {"c_tail", "c_link"}
               /\ pc'[t] \in CloserPCs \ {"c_tail", "c_link"} =>
                    pc[t] \in CloserPCs \ {"c_tail", "c_link"}
               /\ pc'[t] \in {"c_head", "c_close", "c_next", "c_close_next"} =>
                    pc[t] \in {"c_head", "c_close", "c_next", "c_close_next"}
      PROVE  CloseCount'
  <2>1. Retrying' = Retrying
    BY <1>q, RetryingMoves DEF Retrying
  <2>2. next'[tail'] = End <=> next[tail] = End
    BY <1>q, EndStays
  <2> QED
    BY <1>b, <1>d, <1>q, <2>1, <2>2 DEF CloserPCs, Threads
<1>1. CASE t \in Senders /\ \E m \in Messages : SendCall(t, m)
  <2>1. pc[t] \notin CloserPCs /\ pc'[t] \notin CloserPCs /\ UNCHANGED <<closes, closed>>
    BY <1>1, <1>a DEF SendCall, Move, Load, CloserPCs, list, ends
  <2> QED
    BY <1>q, <2>1 DEF CloserPCs
<1>2. CASE t \in Senders /\ SendLoadTail(t)
  <2>1. pc[t] \notin CloserPCs /\ pc'[t] \notin CloserPCs /\ UNCHANGED <<closes, closed>>
    BY <1>2, <1>a DEF SendLoadTail, Move, Load, CloserPCs, list, ends
  <2> QED
    BY <1>q, <2>1 DEF CloserPCs
<1>3. CASE t \in Senders /\ SendTry(t)
  <2>1. pc[t] \notin CloserPCs /\ pc'[t] \notin CloserPCs /\ UNCHANGED <<closes, closed>>
    BY <1>3, <1>a DEF SendTry, Move, CloserPCs, list, ends
  <2> QED
    BY <1>q, <2>1 DEF CloserPCs
<1>4. CASE t \in Senders /\ SendPublish(t)
  <2>1. pc[t] \notin CloserPCs /\ pc'[t] \notin CloserPCs /\ UNCHANGED <<closes, closed>>
    BY <1>4, <1>a DEF SendPublish, Move, CloserPCs, list, ends
  <2> QED
    BY <1>q, <2>1 DEF CloserPCs
<1>5. CASE t \in Senders /\ SendWake(t)
  <2>1. pc[t] \notin CloserPCs /\ pc'[t] \notin CloserPCs /\ UNCHANGED <<closes, closed>>
    BY <1>5, <1>a DEF SendWake, PopFrame, CloserPCs, list, ends
  <2> QED
    BY <1>q, <2>1 DEF CloserPCs
<1>6. CASE t \in Senders /\ SendDisconnected(t)
  <2>1. pc[t] \notin CloserPCs /\ pc'[t] \notin CloserPCs /\ UNCHANGED <<closes, closed>>
    BY <1>6, <1>a DEF SendDisconnected, Move, PopFrame, CloserPCs, list, ends
  <2> QED
    BY <1>q, <2>1 DEF CloserPCs
<1>7. CASE t \in Senders /\ SendLink(t)
  <2>1. pc[t] \notin CloserPCs /\ pc'[t] \notin CloserPCs /\ UNCHANGED <<closes, closed>>
    BY <1>7, <1>a DEF SendLink, Move, CloserPCs, list, ends
  <2> QED
    BY <1>q, <2>1 DEF CloserPCs
<1>8. CASE t \in Senders /\ SendClose(t)
  <2>1. pc[t] \notin CloserPCs /\ pc'[t] \notin CloserPCs /\ UNCHANGED <<closes, closed>>
    BY <1>8, <1>a DEF SendClose, Move, CloserPCs, list, ends
  <2> QED
    BY <1>q, <2>1 DEF CloserPCs
<1>9. CASE t \in Senders /\ SendFreeTemp(t)
  <2>1. pc[t] \notin CloserPCs /\ pc'[t] \notin CloserPCs /\ UNCHANGED <<closes, closed>>
    BY <1>9, <1>a DEF SendFreeTemp, Move, CloserPCs, list, ends
  <2> QED
    BY <1>q, <2>1 DEF CloserPCs
<1>10. CASE t \in Senders /\ SendStoreNext(t)
  <2>1. pc[t] \notin CloserPCs /\ pc'[t] \notin CloserPCs /\ UNCHANGED <<closes, closed>>
    BY <1>10, <1>a DEF SendStoreNext, Move, Load, CloserPCs, list, ends
  <2> QED
    BY <1>q, <2>1 DEF CloserPCs
<1>11. CASE t \in Senders /\ SendStoreTail(t)
  <2>1. pc[t] \notin CloserPCs /\ pc'[t] \notin CloserPCs /\ UNCHANGED <<closes, closed>>
    BY <1>11, <1>a DEF SendStoreTail, Move, PopFrame, CloserPCs, list, ends
  <2> QED
    BY <1>q, <2>1 DEF CloserPCs
<1>12. CASE t \in Receivers /\ RecvCall(t)
  <2>1. pc[t] \notin CloserPCs /\ pc'[t] \notin CloserPCs /\ UNCHANGED <<closes, closed>>
    BY <1>12, <1>a DEF RecvCall, Move, Load, CloserPCs, list, ends
  <2> QED
    BY <1>q, <2>1 DEF CloserPCs
<1>13. CASE t \in Receivers /\ RecvLoadHead(t)
  <2>1. pc[t] \notin CloserPCs /\ pc'[t] \notin CloserPCs /\ UNCHANGED <<closes, closed>>
    BY <1>13, <1>a DEF RecvLoadHead, Move, Load, CloserPCs, list, ends
  <2> QED
    BY <1>q, <2>1 DEF CloserPCs
<1>14. CASE t \in Receivers /\ RecvSelect(t)
  <2>1. pc[t] \notin CloserPCs /\ pc'[t] \notin CloserPCs /\ UNCHANGED <<closes, closed>>
    BY <1>14, <1>a DEF RecvSelect, CloserPCs, list, ends
  <2> QED
    BY <1>q, <2>1 DEF CloserPCs
<1>15. CASE t \in Receivers /\ RecvLook(t)
  <2>1. pc[t] \notin CloserPCs /\ pc'[t] \notin CloserPCs /\ UNCHANGED <<closes, closed>>
    BY <1>15, <1>a DEF RecvLook, Move, CloserPCs, list, ends
  <2> QED
    BY <1>q, <2>1 DEF CloserPCs
<1>16. CASE t \in Receivers /\ RecvPark(t)
  <2>1. pc[t] \notin CloserPCs /\ pc'[t] \notin CloserPCs /\ UNCHANGED <<closes, closed>>
    BY <1>16, <1>a DEF RecvPark, Move, CloserPCs, list, ends
  <2> QED
    BY <1>q, <2>1 DEF CloserPCs
<1>17. CASE t \in Receivers /\ RecvReleased(t)
  <2>1. pc[t] \notin CloserPCs /\ pc'[t] \notin CloserPCs /\ UNCHANGED <<closes, closed>>
    BY <1>17, <1>a DEF RecvReleased, Move, CloserPCs, list, ends
  <2> QED
    BY <1>q, <2>1 DEF CloserPCs
<1>18. CASE t \in Receivers /\ RecvRelease(t)
  <2>1. pc[t] \notin CloserPCs /\ pc'[t] \notin CloserPCs /\ UNCHANGED <<closes, closed>>
    BY <1>18, <1>a DEF RecvRelease, Move, PopFrame, CloserPCs, list, ends
  <2> QED
    BY <1>q, <2>1 DEF CloserPCs
<1>19. CASE t \in Receivers /\ RecvErr(t)
  <2>1. pc[t] \notin CloserPCs /\ pc'[t] \notin CloserPCs /\ UNCHANGED <<closes, closed>>
    BY <1>19, <1>a DEF RecvErr, Move, PopFrame, CloserPCs, list, ends
  <2> QED
    BY <1>q, <2>1 DEF CloserPCs
<1>20. CASE t \in Receivers /\ RecvLoadNext(t)
  <2>1. pc[t] \notin CloserPCs /\ pc'[t] \notin CloserPCs /\ UNCHANGED <<closes, closed>>
    BY <1>20, <1>a DEF RecvLoadNext, Move, CloserPCs, list, ends
  <2> QED
    BY <1>q, <2>1 DEF CloserPCs
<1>21. CASE t \in Receivers /\ RecvLoadCap(t)
  <2>1. pc[t] \notin CloserPCs /\ pc'[t] \notin CloserPCs /\ UNCHANGED <<closes, closed>>
    BY <1>21, <1>a DEF RecvLoadCap, Move, HasSubQueueSize, CloserPCs, list, ends
  <2> QED
    BY <1>q, <2>1 DEF CloserPCs
<1>22. CASE t \in Receivers /\ RecvMoveHead(t)
  <2>1. pc[t] \notin CloserPCs /\ pc'[t] \notin CloserPCs /\ UNCHANGED <<closes, closed>>
    BY <1>22, <1>a DEF RecvMoveHead, Move, CloserPCs, list, ends
  <2> QED
    BY <1>q, <2>1 DEF CloserPCs
<1>23. CASE t \in Receivers /\ RecvFree(t)
  <2>1. pc[t] \notin CloserPCs /\ pc'[t] \notin CloserPCs /\ UNCHANGED <<closes, closed>>
    BY <1>23, <1>a DEF RecvFree, Move, PopFrame, CloserPCs, list, ends
  <2> QED
    BY <1>q, <2>1 DEF CloserPCs
<1>24. CASE t \in Closers /\ CloseCall(t)
  <2>1. /\ pc[t] = "idle" /\ pc'[t] = "c_link" /\ closes' = closes + 1
        /\ UNCHANGED <<next, tail, closed>>
    BY <1>24, <1>a DEF CloseCall, Move, Load, list
  <2>2. IsFiniteSet(Retrying') /\ Cardinality(Retrying') = Cardinality(Retrying) + 1
    BY <1>24, <2>1, RetryingMoves DEF Retrying
  <2> QED
    BY <1>b, <1>d, <2>1, <2>2 DEF CloserPCs, Threads
<1>25. CASE t \in Closers /\ CloseLoadTail(t)
  <2>1. pc[t] = "c_tail" /\ pc'[t] \in {"c_link"} /\ UNCHANGED <<closes, closed>>
    BY <1>25, <1>a DEF CloseLoadTail, Move, Load, list, ends
  <2> QED
    BY <1>25, <1>q, <2>1 DEF CloserPCs
<1>26. CASE t \in Closers /\ CloseLink(t)
  <2>1. /\ pc[t] = "c_link" /\ t \in Retrying /\ UNCHANGED <<closes, closed, tail>>
        /\ node[t] \in Nodes /\ node[t] <= tail
    BY <1>26, AtNode DEF CloseLink, Move, ends, Retrying, Frames
  <2>2. CASE pc'[t] = "c_tail" /\ next' = next
    BY <1>q, <2>1, <2>2 DEF CloserPCs
  <2>3. CASE /\ pc'[t] = "c_flag" /\ next[node[t]] = Null
             /\ next' = [next EXCEPT ![node[t]] = End]
    <3>1. node[t] = tail /\ next[tail] # End /\ next'[tail] = End
      BY <1>b, <1>c, <2>1, <2>3, Ends, Numbers
    <3>2. t \notin Retrying'
      BY <2>3 DEF Retrying
    <3>3. IsFiniteSet(Retrying') /\ Cardinality(Retrying') = Cardinality(Retrying) - 1
      BY <2>1, <3>2, RetryingMoves
    <3> QED
      BY <1>b, <1>d, <2>1, <2>3, <3>1, <3>3 DEF CloserPCs, Threads
  <2> QED
    BY <1>26, <1>a, <2>2, <2>3 DEF CloseLink, Move
<1>27. CASE t \in Closers /\ CloseFlag(t)
  <2>1. /\ pc[t] = "c_flag" /\ pc'[t] = "c_head" /\ closed' /\ UNCHANGED <<next, tail, closes>>
    BY <1>27, <1>a DEF CloseFlag, Move, ends
  <2>2. Retrying' = Retrying
    BY <2>1, RetryingMoves DEF Retrying
  <2> QED
    BY <1>27, <1>b, <1>d, <2>1, <2>2 DEF CloserPCs, Threads
<1>28. CASE t \in Closers /\ CloseLoadHead(t)
  <2>1. pc[t] = "c_head" /\ pc'[t] \in {"c_close"} /\ UNCHANGED <<closes, closed>>
    BY <1>28, <1>a DEF CloseLoadHead, Move, Load, list, ends
  <2> QED
    BY <1>28, <1>q, <2>1 DEF CloserPCs
<1>29. CASE t \in Closers /\ CloseNode(t)
  <2>1. pc[t] = "c_close" /\ pc'[t] \in {"c_next"} /\ UNCHANGED <<closes, closed>>
    BY <1>29, <1>a DEF CloseNode, Move, list, ends
  <2> QED
    BY <1>29, <1>q, <2>1 DEF CloserPCs
<1>30. CASE t \in Closers /\ CloseLoadNext(t)
  <2>1. /\ pc[t] = "c_next" /\ pc'[t] \in {"c_close", "c_close_next"}
        /\ UNCHANGED <<closes, closed>>
    BY <1>30, <1>a DEF CloseLoadNext, Move, Load, list, ends
  <2> QED
    BY <1>30, <1>q, <2>1 DEF CloserPCs
<1>31. CASE t \in Closers /\ CloseNextNode(t)
  <2>1. pc[t] = "c_close_next" /\ pc'[t] \in {"idle"} /\ UNCHANGED <<closes, closed>>
    BY <1>31, <1>a DEF CloseNextNode, Move, PopFrame, list, ends
  <2> QED
    BY <1>31, <1>q, <2>1 DEF CloserPCs
<1> QED
  BY <1>1, <1>2, <1>3, <1>4, <1>5, <1>6, <1>7, <1>8, <1>9, <1>10, <1>11, <1>12, <1>13,
     <1>14, <1>15, <1>16, <1>17, <1>18, <1>19, <1>20, <1>21, <1>22, <1>23, <1>24, <1>25,
     <1>26, <1>27, <1>28, <1>29, <1>30, <1>31
     DEF Acts, SenderStep, ReceiverStep, CloserStep

\* A node with a successor keeps one, and so does one that is about to have one.
LEMMA LinkedStays ==
  ASSUME UnboundedInv, ~broken, NEW t \in Threads, Alive(t), Acts(t), NEW n \in Nodes,
         LinkedOn(n)
  PROVE  LinkedOn(n)'
<1> USE DEF list
<1>a. /\ next \in [Nodes -> Links] /\ node \in [Threads -> Nodes \cup {Null}]
      /\ pc \in [Threads -> {"idle"} \cup SenderPCs \cup ReceiverPCs \cup CloserPCs]
  BY DEF UnboundedInv, TypeOK, Roles
<1>b. Null \notin Nodes
  BY Numbers
<1>c. \A u \in Threads \ {t} :
        /\ pc'[u] = pc[u] \/ (pc[u] = "r_sleep" /\ pc'[u] = "r_recv")
        /\ node'[u] = node[u]
  BY OthersStay
<1>1. CASE t \in Senders /\ \E m \in Messages : SendCall(t, m)
  <2>1. /\ next' = next
        /\ \A s \in Senders : pc[s] \in {"s_free", "s_store"} =>
             pc'[s] \in {"s_free", "s_store"} /\ node'[s] = node[s]
    BY <1>1, <1>a, <1>c DEF SendCall, Move, Load, Threads
  <2> QED
    BY <2>1 DEF LinkedOn
<1>2. CASE t \in Senders /\ SendLoadTail(t)
  <2>1. /\ next' = next
        /\ \A s \in Senders : pc[s] \in {"s_free", "s_store"} =>
             pc'[s] \in {"s_free", "s_store"} /\ node'[s] = node[s]
    BY <1>2, <1>a, <1>c DEF SendLoadTail, Move, Load, Threads
  <2> QED
    BY <2>1 DEF LinkedOn
<1>3. CASE t \in Senders /\ SendTry(t)
  <2>1. /\ next' = next
        /\ \A s \in Senders : pc[s] \in {"s_free", "s_store"} =>
             pc'[s] \in {"s_free", "s_store"} /\ node'[s] = node[s]
    BY <1>3, <1>a, <1>c DEF SendTry, Move, Threads
  <2> QED
    BY <2>1 DEF LinkedOn
<1>4. CASE t \in Senders /\ SendPublish(t)
  <2>1. /\ next' = next
        /\ \A s \in Senders : pc[s] \in {"s_free", "s_store"} =>
             pc'[s] \in {"s_free", "s_store"} /\ node'[s] = node[s]
    BY <1>4, <1>a, <1>c DEF SendPublish, Move, Threads
  <2> QED
    BY <2>1 DEF LinkedOn
<1>5. CASE t \in Senders /\ SendWake(t)
  <2>1. /\ next' = next
        /\ \A s \in Senders : pc[s] \in {"s_free", "s_store"} =>
             pc'[s] \in {"s_free", "s_store"} /\ node'[s] = node[s]
    BY <1>5, <1>a, <1>c DEF SendWake, PopFrame, Threads
  <2> QED
    BY <2>1 DEF LinkedOn
<1>6. CASE t \in Senders /\ SendDisconnected(t)
  <2>1. /\ next' = next
        /\ \A s \in Senders : pc[s] \in {"s_free", "s_store"} =>
             pc'[s] \in {"s_free", "s_store"} /\ node'[s] = node[s]
    BY <1>6, <1>a, <1>c DEF SendDisconnected, Move, PopFrame, Threads
  <2> QED
    BY <2>1 DEF LinkedOn
<1>7. CASE t \in Senders /\ SendLink(t)
  <2>1. next[n] \in Nodes => next'[n] = next[n]
    BY <1>7, <1>a, <1>b DEF SendLink, Move
  <2>2. \A s \in Senders : pc[s] \in {"s_free", "s_store"} =>
          pc'[s] = pc[s] /\ node'[s] = node[s]
    BY <1>7, <1>a, <1>c DEF SendLink, Move, Threads
  <2> QED
    BY <2>1, <2>2 DEF LinkedOn
<1>8. CASE t \in Senders /\ SendClose(t)
  <2>1. /\ next' = next
        /\ \A s \in Senders : pc[s] \in {"s_free", "s_store"} =>
             pc'[s] \in {"s_free", "s_store"} /\ node'[s] = node[s]
    BY <1>8, <1>a, <1>c DEF SendClose, Move, Threads
  <2> QED
    BY <2>1 DEF LinkedOn
<1>9. CASE t \in Senders /\ SendFreeTemp(t)
  <2>1. /\ next' = next
        /\ \A s \in Senders : pc[s] \in {"s_free", "s_store"} =>
             pc'[s] \in {"s_free", "s_store"} /\ node'[s] = node[s]
    BY <1>9, <1>a, <1>c DEF SendFreeTemp, Move, Threads
  <2> QED
    BY <2>1 DEF LinkedOn
<1>10. CASE t \in Senders /\ SendStoreNext(t)
  <2>1. nodes + 1 \in Nodes /\ node[t] \in Nodes
    BY <1>10, RoomLeft, AtNode DEF SendStoreNext, Move, Load
  <2>2. n = node[t] => next'[n] \in Nodes
    BY <1>10, <1>a, <2>1 DEF SendStoreNext, Move, Load
  <2>3. n # node[t] => next'[n] = next[n]
    BY <1>10, <1>a, <2>1 DEF SendStoreNext, Move, Load
  <2>4. \A s \in Senders : s # t => (pc[s] \in {"s_free", "s_store"} =>
          pc'[s] = pc[s] /\ node'[s] = node[s])
    BY <1>c DEF Threads
  <2> QED
    BY <2>2, <2>3, <2>4 DEF LinkedOn
<1>11. CASE t \in Senders /\ SendStoreTail(t)
  <2>1. /\ next' = next
        /\ \A s \in Senders : pc[s] \in {"s_free", "s_store"} =>
             pc'[s] \in {"s_free", "s_store"} /\ node'[s] = node[s]
    BY <1>11, <1>a, <1>c DEF SendStoreTail, Move, PopFrame, Threads
  <2> QED
    BY <2>1 DEF LinkedOn
<1>12. CASE t \in Receivers /\ RecvCall(t)
  <2>1. /\ next' = next
        /\ \A s \in Senders : pc[s] \in {"s_free", "s_store"} =>
             pc'[s] \in {"s_free", "s_store"} /\ node'[s] = node[s]
    BY <1>12, <1>a, <1>c DEF RecvCall, Move, Load, Threads
  <2> QED
    BY <2>1 DEF LinkedOn
<1>13. CASE t \in Receivers /\ RecvLoadHead(t)
  <2>1. /\ next' = next
        /\ \A s \in Senders : pc[s] \in {"s_free", "s_store"} =>
             pc'[s] \in {"s_free", "s_store"} /\ node'[s] = node[s]
    BY <1>13, <1>a, <1>c DEF RecvLoadHead, Move, Load, Threads
  <2> QED
    BY <2>1 DEF LinkedOn
<1>14. CASE t \in Receivers /\ RecvSelect(t)
  <2>1. /\ next' = next
        /\ \A s \in Senders : pc[s] \in {"s_free", "s_store"} =>
             pc'[s] \in {"s_free", "s_store"} /\ node'[s] = node[s]
    BY <1>14, <1>a, <1>c DEF RecvSelect, Threads
  <2> QED
    BY <2>1 DEF LinkedOn
<1>15. CASE t \in Receivers /\ RecvLook(t)
  <2>1. /\ next' = next
        /\ \A s \in Senders : pc[s] \in {"s_free", "s_store"} =>
             pc'[s] \in {"s_free", "s_store"} /\ node'[s] = node[s]
    BY <1>15, <1>a, <1>c DEF RecvLook, Move, Threads
  <2> QED
    BY <2>1 DEF LinkedOn
<1>16. CASE t \in Receivers /\ RecvPark(t)
  <2>1. /\ next' = next
        /\ \A s \in Senders : pc[s] \in {"s_free", "s_store"} =>
             pc'[s] \in {"s_free", "s_store"} /\ node'[s] = node[s]
    BY <1>16, <1>a, <1>c DEF RecvPark, Move, Threads
  <2> QED
    BY <2>1 DEF LinkedOn
<1>17. CASE t \in Receivers /\ RecvReleased(t)
  <2>1. /\ next' = next
        /\ \A s \in Senders : pc[s] \in {"s_free", "s_store"} =>
             pc'[s] \in {"s_free", "s_store"} /\ node'[s] = node[s]
    BY <1>17, <1>a, <1>c DEF RecvReleased, Move, Threads
  <2> QED
    BY <2>1 DEF LinkedOn
<1>18. CASE t \in Receivers /\ RecvRelease(t)
  <2>1. /\ next' = next
        /\ \A s \in Senders : pc[s] \in {"s_free", "s_store"} =>
             pc'[s] \in {"s_free", "s_store"} /\ node'[s] = node[s]
    BY <1>18, <1>a, <1>c DEF RecvRelease, Move, PopFrame, Threads
  <2> QED
    BY <2>1 DEF LinkedOn
<1>19. CASE t \in Receivers /\ RecvErr(t)
  <2>1. /\ next' = next
        /\ \A s \in Senders : pc[s] \in {"s_free", "s_store"} =>
             pc'[s] \in {"s_free", "s_store"} /\ node'[s] = node[s]
    BY <1>19, <1>a, <1>c DEF RecvErr, Move, PopFrame, Threads
  <2> QED
    BY <2>1 DEF LinkedOn
<1>20. CASE t \in Receivers /\ RecvLoadNext(t)
  <2>1. /\ next' = next
        /\ \A s \in Senders : pc[s] \in {"s_free", "s_store"} =>
             pc'[s] \in {"s_free", "s_store"} /\ node'[s] = node[s]
    BY <1>20, <1>a, <1>c DEF RecvLoadNext, Move, Threads
  <2> QED
    BY <2>1 DEF LinkedOn
<1>21. CASE t \in Receivers /\ RecvLoadCap(t)
  <2>1. /\ next' = next
        /\ \A s \in Senders : pc[s] \in {"s_free", "s_store"} =>
             pc'[s] \in {"s_free", "s_store"} /\ node'[s] = node[s]
    BY <1>21, <1>a, <1>c DEF RecvLoadCap, Move, Threads
  <2> QED
    BY <2>1 DEF LinkedOn
<1>22. CASE t \in Receivers /\ RecvMoveHead(t)
  <2>1. /\ next' = next
        /\ \A s \in Senders : pc[s] \in {"s_free", "s_store"} =>
             pc'[s] \in {"s_free", "s_store"} /\ node'[s] = node[s]
    BY <1>22, <1>a, <1>c DEF RecvMoveHead, Move, Threads
  <2> QED
    BY <2>1 DEF LinkedOn
<1>23. CASE t \in Receivers /\ RecvFree(t)
  <2>1. /\ next' = next
        /\ \A s \in Senders : pc[s] \in {"s_free", "s_store"} =>
             pc'[s] \in {"s_free", "s_store"} /\ node'[s] = node[s]
    BY <1>23, <1>a, <1>c DEF RecvFree, Move, PopFrame, Threads
  <2> QED
    BY <2>1 DEF LinkedOn
<1>24. CASE t \in Closers /\ CloseCall(t)
  <2>1. /\ next' = next
        /\ \A s \in Senders : pc[s] \in {"s_free", "s_store"} =>
             pc'[s] \in {"s_free", "s_store"} /\ node'[s] = node[s]
    BY <1>24, <1>a, <1>c DEF CloseCall, Move, Load, Threads
  <2> QED
    BY <2>1 DEF LinkedOn
<1>25. CASE t \in Closers /\ CloseLoadTail(t)
  <2>1. /\ next' = next
        /\ \A s \in Senders : pc[s] \in {"s_free", "s_store"} =>
             pc'[s] \in {"s_free", "s_store"} /\ node'[s] = node[s]
    BY <1>25, <1>a, <1>c DEF CloseLoadTail, Move, Load, Threads
  <2> QED
    BY <2>1 DEF LinkedOn
<1>26. CASE t \in Closers /\ CloseLink(t)
  <2>1. next[n] \in Nodes => next'[n] = next[n]
    BY <1>26, <1>a, <1>b DEF CloseLink, Move
  <2>2. \A s \in Senders : pc[s] \in {"s_free", "s_store"} =>
          pc'[s] = pc[s] /\ node'[s] = node[s]
    BY <1>26, <1>a, <1>c DEF CloseLink, Move, Threads
  <2> QED
    BY <2>1, <2>2 DEF LinkedOn
<1>27. CASE t \in Closers /\ CloseFlag(t)
  <2>1. /\ next' = next
        /\ \A s \in Senders : pc[s] \in {"s_free", "s_store"} =>
             pc'[s] \in {"s_free", "s_store"} /\ node'[s] = node[s]
    BY <1>27, <1>a, <1>c DEF CloseFlag, Move, Threads
  <2> QED
    BY <2>1 DEF LinkedOn
<1>28. CASE t \in Closers /\ CloseLoadHead(t)
  <2>1. /\ next' = next
        /\ \A s \in Senders : pc[s] \in {"s_free", "s_store"} =>
             pc'[s] \in {"s_free", "s_store"} /\ node'[s] = node[s]
    BY <1>28, <1>a, <1>c DEF CloseLoadHead, Move, Load, Threads
  <2> QED
    BY <2>1 DEF LinkedOn
<1>29. CASE t \in Closers /\ CloseNode(t)
  <2>1. /\ next' = next
        /\ \A s \in Senders : pc[s] \in {"s_free", "s_store"} =>
             pc'[s] \in {"s_free", "s_store"} /\ node'[s] = node[s]
    BY <1>29, <1>a, <1>c DEF CloseNode, Move, Threads
  <2> QED
    BY <2>1 DEF LinkedOn
<1>30. CASE t \in Closers /\ CloseLoadNext(t)
  <2>1. /\ next' = next
        /\ \A s \in Senders : pc[s] \in {"s_free", "s_store"} =>
             pc'[s] \in {"s_free", "s_store"} /\ node'[s] = node[s]
    BY <1>30, <1>a, <1>c DEF CloseLoadNext, Move, Load, Threads
  <2> QED
    BY <2>1 DEF LinkedOn
<1>31. CASE t \in Closers /\ CloseNextNode(t)
  <2>1. /\ next' = next
        /\ \A s \in Senders : pc[s] \in {"s_free", "s_store"} =>
             pc'[s] \in {"s_free", "s_store"} /\ node'[s] = node[s]
    BY <1>31, <1>a, <1>c DEF CloseNextNode, Move, PopFrame, Threads
  <2> QED
    BY <2>1 DEF LinkedOn
<1> QED
  BY <1>1, <1>2, <1>3, <1>4, <1>5, <1>6, <1>7, <1>8, <1>9, <1>10, <1>11, <1>12, <1>13,
     <1>14, <1>15, <1>16, <1>17, <1>18, <1>19, <1>20, <1>21, <1>22, <1>23, <1>24, <1>25,
     <1>26, <1>27, <1>28, <1>29, <1>30, <1>31
     DEF Acts, SenderStep, ReceiverStep, CloserStep

\* A node is closed when it has a successor, or is about to have one.
LEMMA MovesStep ==
  ASSUME UnboundedInv, ~broken, NEW t \in Threads, Alive(t), Acts(t)
  PROVE  MovesOn'
<1> USE DEF UnboundedInv, MovesOn
<1>a. pc \in [Threads -> {"idle"} \cup SenderPCs \cup ReceiverPCs \cup CloserPCs]
      /\ qclosed \in [Nodes -> BOOLEAN]
  BY DEF Roles, TypeOK
<1>d. \A u \in Threads \ {t} :
        /\ pc'[u] = pc[u] \/ (pc[u] = "r_sleep" /\ pc'[u] = "r_recv")
        /\ node'[u] = node[u]
  BY OthersStay
<1>e. \A n \in Nodes : LinkedOn(n) => LinkedOn(n)'
  BY LinkedStays
<1>n. \A u \in Threads :
        pc[u] \in {"r_look", "r_sleep", "r_last", "r_err", "r_next", "r_cap"} =>
          node[u] \in Nodes
  BY DEF Frames, ReceiverPCs, TypeOK
<1>q. ASSUME UNCHANGED <<qclosed, closed>>,
             t \in Receivers =>
               /\ pc'[t] \in {"r_last", "r_err"} =>
                    /\ node'[t] = node[t] /\ node[t] \in Nodes
                    /\ pc[t] \in {"r_last", "r_err"} \/ qclosed[node[t]]
               /\ pc'[t] \in {"r_next", "r_cap"} =>
                    /\ node'[t] = node[t] /\ node[t] \in Nodes
                    /\ pc[t] \in {"r_next", "r_cap"} \/ (pc[t] = "r_err" /\ ~closed)
      PROVE  MovesOn'
  <2>1. ASSUME ~closed' PROVE \A n \in Nodes : qclosed'[n] => LinkedOn(n)'
    BY <1>e, <1>q, <2>1
  <2>2. ASSUME ~closed', NEW r \in Receivers, pc'[r] \in {"r_last", "r_err"}
        PROVE  LinkedOn(node[r])'
    BY <1>d, <1>e, <1>n, <1>q, <2>2 DEF Threads
  <2>3. ASSUME NEW r \in Receivers, pc'[r] \in {"r_next", "r_cap"} PROVE LinkedOn(node[r])'
    BY <1>d, <1>e, <1>n, <1>q, <2>3 DEF Threads
  <2> QED
    BY <2>1, <2>2, <2>3
<1>1. CASE t \in Senders /\ \E m \in Messages : SendCall(t, m)
  <2>1. pc[t] = "idle" /\ pc'[t] \in {"s_try"} /\ UNCHANGED <<qclosed, closed>>
    BY <1>1, <1>a DEF SendCall, Move, Load, list, queues
  <2> QED
    BY <1>q, <2>1
<1>2. CASE t \in Senders /\ SendLoadTail(t)
  <2>1. pc[t] = "s_load" /\ pc'[t] \in {"s_try"} /\ UNCHANGED <<qclosed, closed>>
    BY <1>2, <1>a DEF SendLoadTail, Move, Load, list, queues
  <2> QED
    BY <1>q, <2>1
<1>3. CASE t \in Senders /\ SendTry(t)
  <2>1. pc[t] = "s_try" /\ pc'[t] \in SenderPCs \cup {"idle"} /\ UNCHANGED <<qclosed, closed>>
    BY <1>3, <1>a DEF SendTry, Move, SenderPCs, list, queues
  <2> QED
    BY <1>q, <2>1 DEF SenderPCs
<1>4. CASE t \in Senders /\ SendPublish(t)
  <2>1. pc[t] = "s_publish" /\ pc'[t] \in {"s_wake"} /\ UNCHANGED <<qclosed, closed>>
    BY <1>4, <1>a DEF SendPublish, Move, list, queues
  <2> QED
    BY <1>q, <2>1
<1>5. CASE t \in Senders /\ SendWake(t)
  <2>1. pc[t] = "s_wake" /\ pc'[t] = "idle" /\ UNCHANGED <<qclosed, closed>>
    BY <1>5, <1>a DEF SendWake, list, queues
  <2> QED
    BY <1>q, <2>1
<1>6. CASE t \in Senders /\ SendDisconnected(t)
  <2>1. /\ pc[t] = "s_disconnected" /\ pc'[t] \in SenderPCs \cup {"idle"}
        /\ UNCHANGED <<qclosed, closed>>
    BY <1>6, <1>a DEF SendDisconnected, Move, PopFrame, SenderPCs, list, queues
  <2> QED
    BY <1>q, <2>1 DEF SenderPCs
<1>7. CASE t \in Senders /\ SendLink(t)
  <2>1. pc[t] = "s_link" /\ pc'[t] \in {"s_close", "s_load"} /\ UNCHANGED <<qclosed, closed>>
    BY <1>7, <1>a DEF SendLink, Move, list, queues
  <2> QED
    BY <1>q, <2>1
<1>8. CASE t \in Senders /\ SendClose(t)
  <2>1. /\ pc[t] = "s_close" /\ pc'[t] = "s_free" /\ node' = node /\ next' = next
        /\ qclosed' = [qclosed EXCEPT ![node[t]] = TRUE] /\ closed' = closed
    BY <1>8, <1>a DEF SendClose, Move, list
  <2>2. LinkedOn(node[t])'
    BY <1>8, <2>1 DEF LinkedOn
  <2>3. \A n \in Nodes : qclosed'[n] => qclosed[n] \/ n = node[t]
    BY <1>a, <2>1
  <2>4. ~closed' => \A n \in Nodes : qclosed'[n] => LinkedOn(n)'
    BY <1>e, <2>1, <2>2, <2>3
  <2>5. \A r \in Receivers : pc'[r] \in {"r_last", "r_err", "r_next", "r_cap"} =>
          pc[r] = pc'[r] /\ node'[r] = node[r] /\ node[r] \in Nodes
    BY <1>d, <1>n, <2>1 DEF Threads
  <2> QED
    BY <1>e, <2>1, <2>4, <2>5
<1>9. CASE t \in Senders /\ SendFreeTemp(t)
  <2>1. pc[t] = "s_free" /\ pc'[t] \in {"s_store"} /\ UNCHANGED <<qclosed, closed>>
    BY <1>9, <1>a DEF SendFreeTemp, Move, list, queues
  <2> QED
    BY <1>q, <2>1
<1>10. CASE t \in Senders /\ SendStoreNext(t)
  <2>1. /\ pc[t] = "s_store" /\ pc'[t] \in SenderPCs \cup {"idle"}
        /\ UNCHANGED <<qclosed, closed>>
    BY <1>10, <1>a DEF SendStoreNext, Move, Load, SenderPCs, list, queues
  <2> QED
    BY <1>q, <2>1 DEF SenderPCs
<1>11. CASE t \in Senders /\ SendStoreTail(t)
  <2>1. pc[t] = "s_tail" /\ pc'[t] \in {"idle"} /\ UNCHANGED <<qclosed, closed>>
    BY <1>11, <1>a DEF SendStoreTail, Move, PopFrame, list, queues
  <2> QED
    BY <1>q, <2>1
<1>12. CASE t \in Receivers /\ RecvCall(t)
  <2>1. pc[t] = "idle" /\ pc'[t] \in {"r_recv"} /\ UNCHANGED <<qclosed, closed>>
    BY <1>12, <1>a DEF RecvCall, Move, Load, list, queues
  <2> QED
    BY <1>q, <2>1
<1>13. CASE t \in Receivers /\ RecvLoadHead(t)
  <2>1. pc[t] = "r_load" /\ pc'[t] \in {"r_recv"} /\ UNCHANGED <<qclosed, closed>>
    BY <1>13, <1>a DEF RecvLoadHead, Move, Load, list, queues
  <2> QED
    BY <1>q, <2>1
<1>14. CASE t \in Receivers /\ RecvSelect(t)
  <2>1. /\ pc[t] \in {"r_recv", "r_last"} /\ pc'[t] \in {"r_read", "r_err", "r_look"}
        /\ pc'[t] = "r_err" => pc[t] = "r_last"
        /\ UNCHANGED <<node, qclosed, closed>>
    BY <1>14, <1>a DEF RecvSelect, list
  <2> QED
    BY <1>14, <1>n, <1>q, <2>1
<1>15. CASE t \in Receivers /\ RecvLook(t)
  <2>1. /\ pc[t] = "r_look" /\ pc'[t] \in {"r_last", "r_recv", "r_park"}
        /\ pc'[t] = "r_last" => qclosed[node[t]]
        /\ UNCHANGED <<node, qclosed, closed>>
    BY <1>15, <1>a DEF RecvLook, Move, list, queues
  <2> QED
    BY <1>q, <1>n, <2>1
<1>16. CASE t \in Receivers /\ RecvPark(t)
  <2>1. pc[t] = "r_park" /\ pc'[t] \in {"r_sleep"} /\ UNCHANGED <<qclosed, closed>>
    BY <1>16, <1>a DEF RecvPark, Move, list, queues
  <2> QED
    BY <1>q, <2>1
<1>17. CASE t \in Receivers /\ RecvReleased(t)
  <2>1. /\ pc[t] = "r_sleep" /\ pc'[t] \in {"r_last", "r_recv", "r_park"}
        /\ pc'[t] = "r_last" => qclosed[node[t]]
        /\ UNCHANGED <<node, qclosed, closed>>
    BY <1>17, <1>a DEF RecvReleased, Move, list, queues
  <2> QED
    BY <1>q, <1>n, <2>1
<1>18. CASE t \in Receivers /\ RecvRelease(t)
  <2>1. pc'[t] = "idle" /\ UNCHANGED <<qclosed, closed>>
    BY <1>18, <1>a DEF RecvRelease, Move, PopFrame, list, queues
  <2> QED
    BY <1>q, <2>1
<1>19. CASE t \in Receivers /\ RecvErr(t)
  <2>1. /\ pc[t] = "r_err" /\ pc'[t] \in {"idle", "r_next"} /\ UNCHANGED <<qclosed, closed>>
        /\ pc'[t] = "r_next" => ~closed /\ node' = node
    BY <1>19, <1>a DEF RecvErr, Move, PopFrame, list, queues
  <2> QED
    BY <1>19, <1>q, <1>n, <2>1
<1>20. CASE t \in Receivers /\ RecvLoadNext(t)
  <2>1. /\ pc[t] = "r_next" /\ pc'[t] \in {"r_cap"} /\ UNCHANGED <<qclosed, closed>>
        /\ node' = node
    BY <1>20, <1>a DEF RecvLoadNext, Move, list, queues
  <2> QED
    BY <1>20, <1>n, <1>q, <2>1
<1>21. CASE t \in Receivers /\ RecvLoadCap(t)
  <2>1. /\ pc[t] = "r_cap" /\ pc'[t] \in {"r_move", "r_next"} /\ UNCHANGED <<qclosed, closed>>
        /\ node' = node
    BY <1>21, <1>a DEF RecvLoadCap, Move, HasSubQueueSize, list, queues
  <2> QED
    BY <1>21, <1>n, <1>q, <2>1
<1>22. CASE t \in Receivers /\ RecvMoveHead(t)
  <2>1. pc[t] = "r_move" /\ pc'[t] \in {"r_free", "r_load"} /\ UNCHANGED <<qclosed, closed>>
    BY <1>22, <1>a DEF RecvMoveHead, Move, list, queues
  <2> QED
    BY <1>q, <2>1
<1>23. CASE t \in Receivers /\ RecvFree(t)
  <2>1. pc[t] = "r_free" /\ pc'[t] \in {"r_load"} /\ UNCHANGED <<qclosed, closed>>
    BY <1>23, <1>a DEF RecvFree, Move, PopFrame, list, queues
  <2> QED
    BY <1>q, <2>1
<1>24. CASE t \in Closers /\ CloseCall(t)
  <2>1. pc[t] = "idle" /\ pc'[t] \in {"c_link"} /\ UNCHANGED <<qclosed, closed>>
    BY <1>24, <1>a DEF CloseCall, Move, Load, list, queues
  <2> QED
    BY <1>q, <2>1
<1>25. CASE t \in Closers /\ CloseLoadTail(t)
  <2>1. pc[t] = "c_tail" /\ pc'[t] \in {"c_link"} /\ UNCHANGED <<qclosed, closed>>
    BY <1>25, <1>a DEF CloseLoadTail, Move, Load, list, queues
  <2> QED
    BY <1>q, <2>1
<1>26. CASE t \in Closers /\ CloseLink(t)
  <2>1. pc[t] = "c_link" /\ pc'[t] \in {"c_flag", "c_tail"} /\ UNCHANGED <<qclosed, closed>>
    BY <1>26, <1>a DEF CloseLink, Move, list, queues
  <2> QED
    BY <1>q, <2>1
<1>27. CASE t \in Closers /\ CloseFlag(t)
  <2>1. pc[t] = "c_flag" /\ pc'[t] = "c_head" /\ closed'
    BY <1>27, <1>a DEF CloseFlag, Move
  <2> QED
    BY <1>e, <1>d, <1>n, <2>1 DEF Threads
<1>28. CASE t \in Closers /\ CloseLoadHead(t)
  <2>1. pc[t] = "c_head" /\ pc'[t] \in {"c_close"} /\ UNCHANGED <<qclosed, closed>>
    BY <1>28, <1>a DEF CloseLoadHead, Move, Load, list, queues
  <2> QED
    BY <1>q, <2>1
<1>29. CASE t \in Closers /\ CloseNode(t)
  <2>1. pc[t] = "c_close" /\ pc'[t] \in {"c_next", "idle"} /\ closed' = closed /\ closed
    BY <1>29, <1>a DEF CloseNode, Move, list, CloseCount
  <2> QED
    BY <1>e, <1>d, <1>n, <2>1 DEF Threads
<1>30. CASE t \in Closers /\ CloseLoadNext(t)
  <2>1. /\ pc[t] = "c_next" /\ pc'[t] \in {"c_close", "c_close_next"}
        /\ UNCHANGED <<qclosed, closed>>
    BY <1>30, <1>a DEF CloseLoadNext, Move, Load, list, queues
  <2> QED
    BY <1>q, <2>1
<1>31. CASE t \in Closers /\ CloseNextNode(t)
  <2>1. pc[t] = "c_close_next" /\ pc'[t] \in {"c_next", "idle"} /\ closed' = closed /\ closed
    BY <1>31, <1>a DEF CloseNextNode, Move, PopFrame, list, CloseCount
  <2> QED
    BY <1>e, <1>d, <1>n, <2>1 DEF Threads
<1> QED
  BY <1>1, <1>2, <1>3, <1>4, <1>5, <1>6, <1>7, <1>8, <1>9, <1>10, <1>11, <1>12, <1>13,
     <1>14, <1>15, <1>16, <1>17, <1>18, <1>19, <1>20, <1>21, <1>22, <1>23, <1>24, <1>25,
     <1>26, <1>27, <1>28, <1>29, <1>30, <1>31
     DEF Acts, SenderStep, ReceiverStep, CloserStep

\* Nothing moves the first node until a sender has found it full.
LEMMA CalmStep ==
  ASSUME UnboundedInv, ~broken, NEW t \in Threads, Alive(t), Acts(t)
  PROVE  Calm'
<1> USE DEF UnboundedInv, Calm, list
<1>a. /\ next \in [Nodes -> Links] /\ node \in [Threads -> Nodes \cup {Null}]
      /\ pc \in [Threads -> {"idle"} \cup SenderPCs \cup ReceiverPCs \cup CloserPCs]
      /\ nodes \in Nat /\ tail \in Nat /\ tail \in Nodes /\ 1 \in Nodes
      /\ Null \notin Nodes /\ End # Null /\ Temp(1) \notin {Null, End}
      /\ Nodes \subseteq Nat /\ \A n \in Nodes : n >= 1
  BY Loaded, Numbers DEF TypeOK, Roles
<1>b. /\ nodes' \in Nat /\ nodes \in Nat /\ nodes >= 1 /\ nodes <= nodes'
      /\ nodes = 1 => tail = 1
  <2>1. nodes' \in Nodes /\ nodes <= nodes'
    BY GrowStep
  <2>2. tail <= nodes /\ nodes \in Nodes
    BY Ends DEF TypeOK
  <2> QED
    BY <1>a, <2>1, <2>2
<1>c. next[1] = Temp(1) \/ Holders = {} \/ nodes # 1
  BY <1>a, <1>b DEF Shape
<1>d. \A u \in Threads \ {t} :
        /\ pc'[u] = pc[u] \/ (pc[u] = "r_sleep" /\ pc'[u] = "r_recv")
        /\ node'[u] = node[u]
  BY OthersStay
<1>r. ASSUME UNCHANGED <<freed, broken>>, next[1] = Temp(1) => next'[1] = Temp(1),
             t \in Closers /\ nodes = 1 /\ pc'[t] = "c_close" => node'[t] # Null
      PROVE  Calm'
  <2>1. Small' => Small
    BY <1>b, <1>r DEF Small
  <2>2. ASSUME Small, NEW c \in Closers, pc'[c] = "c_close" PROVE node'[c] # Null
    BY <1>d, <1>r, <2>2 DEF Small, Threads
  <2> QED
    BY <1>r, <2>1, <2>2
<1>p. ASSUME UNCHANGED <<next, freed, broken>>,
             nodes = 1 /\ pc'[t] = "c_close" => node'[t] # Null
      PROVE  Calm'
  BY <1>p, <1>r
<1>1. CASE t \in Senders /\ \E m \in Messages : SendCall(t, m)
  <2>1. pc'[t] \in {"s_try"} /\ UNCHANGED <<next, freed, broken>>
    BY <1>1, <1>a DEF SendCall, Move, Load, queues
  <2> QED
    BY <1>p, <2>1
<1>2. CASE t \in Senders /\ SendLoadTail(t)
  <2>1. pc'[t] \in {"s_try"} /\ UNCHANGED <<next, freed, broken>>
    BY <1>2, <1>a DEF SendLoadTail, Move, Load, queues
  <2> QED
    BY <1>p, <2>1
<1>3. CASE t \in Senders /\ SendTry(t)
  <2>1. pc'[t] # "c_close" /\ UNCHANGED <<next, freed, broken>>
    BY <1>3, <1>a DEF SendTry, Move
  <2> QED
    BY <1>p, <2>1
<1>4. CASE t \in Senders /\ SendPublish(t)
  <2>1. pc'[t] \in {"s_wake"} /\ UNCHANGED <<next, freed, broken>>
    BY <1>4, <1>a DEF SendPublish, Move, queues
  <2> QED
    BY <1>p, <2>1
<1>5. CASE t \in Senders /\ SendWake(t)
  <2>1. pc'[t] = "idle" /\ UNCHANGED <<next, freed, broken>>
    BY <1>5, <1>a DEF SendWake, list, queues
  <2> QED
    BY <1>p, <2>1
<1>6. CASE t \in Senders /\ SendDisconnected(t)
  <2>1. pc'[t] # "c_close" /\ UNCHANGED <<next, freed, broken>>
    BY <1>6, <1>a DEF SendDisconnected, Move, PopFrame
  <2> QED
    BY <1>p, <2>1
<1>7. CASE t \in Senders /\ SendLink(t)
  <2>1. \/ next' = next
        \/ /\ node[t] \in Nodes /\ next[node[t]] = Null
           /\ next' = [next EXCEPT ![node[t]] = Temp(node[t])]
    BY <1>7, AtNode DEF SendLink, Move
  <2>2. next[1] = Temp(1) => next'[1] = Temp(1)
    BY <1>a, <2>1
  <2> QED
    BY <1>7, <1>a, <1>r, <2>2 DEF SendLink, Move
<1>8. CASE t \in Senders /\ SendClose(t)
  <2>1. pc'[t] \in {"s_free"} /\ UNCHANGED <<next, freed, broken>>
    BY <1>8, <1>a DEF SendClose, Move, queues
  <2> QED
    BY <1>p, <2>1
<1>9. CASE t \in Senders /\ SendFreeTemp(t)
  <2>1. t \in Holders /\ next' = next
    BY <1>9 DEF SendFreeTemp, Move, Holders
  <2> QED
    BY <1>b, <1>c, <2>1 DEF Small
<1>10. CASE t \in Senders /\ SendStoreNext(t)
  <2>1. nodes' # 1
    BY <1>10, <1>b DEF SendStoreNext, Move, Load
  <2> QED
    BY <2>1 DEF Small
<1>11. CASE t \in Senders /\ SendStoreTail(t)
  <2>1. pc'[t] \in {"idle"} /\ UNCHANGED <<next, freed, broken>>
    BY <1>11, <1>a DEF SendStoreTail, Move, PopFrame, queues
  <2> QED
    BY <1>p, <2>1
<1>12. CASE t \in Receivers /\ RecvCall(t)
  <2>1. pc'[t] \in {"r_recv"} /\ UNCHANGED <<next, freed, broken>>
    BY <1>12, <1>a DEF RecvCall, Move, Load, queues
  <2> QED
    BY <1>p, <2>1
<1>13. CASE t \in Receivers /\ RecvLoadHead(t)
  <2>1. pc'[t] \in {"r_recv"} /\ UNCHANGED <<next, freed, broken>>
    BY <1>13, <1>a DEF RecvLoadHead, Move, Load, queues
  <2> QED
    BY <1>p, <2>1
<1>14. CASE t \in Receivers /\ RecvSelect(t)
  <2>1. pc'[t] # "c_close" /\ UNCHANGED <<next, freed, broken>>
    BY <1>14, <1>a DEF RecvSelect
  <2> QED
    BY <1>p, <2>1
<1>15. CASE t \in Receivers /\ RecvLook(t)
  <2>1. pc'[t] \in {"r_last", "r_recv", "r_park"} /\ UNCHANGED <<next, freed, broken>>
    BY <1>15, <1>a DEF RecvLook, Move, queues
  <2> QED
    BY <1>p, <2>1
<1>16. CASE t \in Receivers /\ RecvPark(t)
  <2>1. pc'[t] \in {"r_sleep"} /\ UNCHANGED <<next, freed, broken>>
    BY <1>16, <1>a DEF RecvPark, Move, queues
  <2> QED
    BY <1>p, <2>1
<1>17. CASE t \in Receivers /\ RecvReleased(t)
  <2>1. pc'[t] \in {"r_last"} /\ UNCHANGED <<next, freed, broken>>
    BY <1>17, <1>a DEF RecvReleased, Move, queues
  <2> QED
    BY <1>p, <2>1
<1>18. CASE t \in Receivers /\ RecvRelease(t)
  <2>1. pc'[t] # "c_close" /\ UNCHANGED <<next, freed, broken>>
    BY <1>18, <1>a DEF RecvRelease, Move, PopFrame
  <2> QED
    BY <1>p, <2>1
<1>19. CASE t \in Receivers /\ RecvErr(t)
  <2>1. pc'[t] \in {"idle", "r_next"} /\ UNCHANGED <<next, freed, broken>>
    BY <1>19, <1>a DEF RecvErr, Move, PopFrame, queues
  <2> QED
    BY <1>p, <2>1
<1>20. CASE t \in Receivers /\ RecvLoadNext(t)
  <2>1. pc'[t] \in {"r_cap"} /\ UNCHANGED <<next, freed, broken>>
    BY <1>20, <1>a DEF RecvLoadNext, Move, queues
  <2> QED
    BY <1>p, <2>1
<1>21. CASE t \in Receivers /\ RecvLoadCap(t)
  <2>1. pc'[t] \in {"r_move", "r_next"} /\ UNCHANGED <<next, freed, broken>>
    BY <1>21, <1>a DEF RecvLoadCap, Move, HasSubQueueSize, queues
  <2> QED
    BY <1>p, <2>1
<1>22. CASE t \in Receivers /\ RecvMoveHead(t)
  <2>1. nodes # 1
    BY <1>22 DEF RecvMoveHead, Move, Frames
  <2> QED
    BY <1>b, <2>1 DEF Small
<1>23. CASE t \in Receivers /\ RecvFree(t)
  <2>1. nodes # 1
    BY <1>23 DEF RecvFree, Move, PopFrame, Frames
  <2> QED
    BY <1>b, <2>1 DEF Small
<1>24. CASE t \in Closers /\ CloseCall(t)
  <2>1. pc'[t] \in {"c_link"} /\ UNCHANGED <<next, freed, broken>>
    BY <1>24, <1>a DEF CloseCall, Move, Load, queues
  <2> QED
    BY <1>p, <2>1
<1>25. CASE t \in Closers /\ CloseLoadTail(t)
  <2>1. pc'[t] \in {"c_link"} /\ UNCHANGED <<next, freed, broken>>
    BY <1>25, <1>a DEF CloseLoadTail, Move, Load, queues
  <2> QED
    BY <1>p, <2>1
<1>26. CASE t \in Closers /\ CloseLink(t)
  <2>1. \/ next' = next
        \/ /\ node[t] \in Nodes /\ next[node[t]] = Null
           /\ next' = [next EXCEPT ![node[t]] = End]
    BY <1>26, AtNode DEF CloseLink, Move
  <2>2. next[1] = Temp(1) => next'[1] = Temp(1)
    BY <1>a, <2>1
  <2> QED
    BY <1>26, <1>a, <1>r, <2>2 DEF CloseLink, Move
<1>27. CASE t \in Closers /\ CloseFlag(t)
  <2>1. pc'[t] \in {"c_head"} /\ UNCHANGED <<next, freed, broken>>
    BY <1>27, <1>a DEF CloseFlag, Move, queues
  <2> QED
    BY <1>p, <2>1
<1>28. CASE t \in Closers /\ CloseLoadHead(t)
  <2>1. /\ pc'[t] = "c_close" /\ node'[t] = head /\ head # Null
        /\ UNCHANGED <<next, freed, broken>>
    BY <1>28, <1>a DEF CloseLoadHead, Move, Load, TypeOK
  <2> QED
    BY <1>28, <1>p, <2>1
<1>29. CASE t \in Closers /\ CloseNode(t)
  <2>1. pc'[t] \in {"c_next"} /\ UNCHANGED <<next, freed, broken>>
    BY <1>29, <1>a DEF CloseNode, Move, queues
  <2> QED
    BY <1>p, <2>1
<1>30. CASE t \in Closers /\ CloseLoadNext(t)
  <2>1. pc[t] = "c_next" /\ node[t] \in Nodes /\ node[t] <= nodes /\ next[tail] = End
    BY <1>30, AtNode DEF CloseLoadNext, Move, Load, Frames, CloseCount, CloserPCs
  <2>2. UNCHANGED <<next, freed, broken>>
    BY <1>30 DEF CloseLoadNext, Move, Load
  <2>3. ASSUME nodes = 1 PROVE pc'[t] # "c_close"
    <3>1. node[t] \in Nat /\ node[t] >= 1
      BY <1>a, <2>1
    <3>2. node[t] = tail
      BY <1>b, <2>1, <2>3, <3>1
    <3> QED
      BY <1>30, <1>a, <2>1, <3>2 DEF CloseLoadNext, Move, Load
  <2> QED
    BY <1>30, <1>p, <2>2, <2>3
<1>31. CASE t \in Closers /\ CloseNextNode(t)
  <2>1. pc'[t] \in {"idle"} /\ UNCHANGED <<next, freed, broken>>
    BY <1>31, <1>a DEF CloseNextNode, Move, PopFrame, queues
  <2> QED
    BY <1>p, <2>1
<1> QED
  BY <1>1, <1>2, <1>3, <1>4, <1>5, <1>6, <1>7, <1>8, <1>9, <1>10, <1>11, <1>12, <1>13,
     <1>14, <1>15, <1>16, <1>17, <1>18, <1>19, <1>20, <1>21, <1>22, <1>23, <1>24, <1>25,
     <1>26, <1>27, <1>28, <1>29, <1>30, <1>31
     DEF Acts, SenderStep, ReceiverStep, CloserStep

-----------------------------------------------------------------------------
(* The inductive invariant                                                 *)

\* All threads that work on the first node alone are safe.
LEMMA SmallAlive ==
  ASSUME UnboundedInv, Small, NEW t \in Threads
  PROVE  Alive(t)
<1>1. freed = {}
  BY DEF UnboundedInv, Calm
<1>2. pc[t] \in {"s_try", "s_publish", "s_wake", "s_link", "s_close", "s_free", "s_store",
                 "r_recv", "r_look", "r_park", "r_sleep", "r_last", "r_read", "r_next",
                 "c_link", "c_next"} => node[t] # Null
  BY DEF UnboundedInv, Frames, SenderPCs, ReceiverPCs
<1>3. pc[t] = "c_close" => node[t] # Null
  BY DEF UnboundedInv, Calm, Roles, CloserPCs
<1>4. pc[t] \in {"r_cap", "c_close_next"} => follow[t] # Null
  BY DEF UnboundedInv, Frames
<1> QED
  BY <1>1, <1>2, <1>3, <1>4 DEF Alive, Accesses

\* The initial states satisfy the invariant.
LEMMA InitInv == Init => UnboundedInv
<1> SUFFICES ASSUME Init PROVE UnboundedInv
  OBVIOUS
<1>1. 1 \in Nodes /\ Null = 0 /\ Null \in Links /\ End # Null /\ Null \notin Nodes
  BY Numbers
<1>2. \A t \in Threads : pc[t] = "idle"
  BY DEF Init
<1>3. Carrying = {} /\ Readers = {} /\ Retrying = {} /\ Growing = {} /\ Holders = {}
  BY <1>2 DEF Carrying, Readers, Retrying, Growing, Holders, SenderPCs, Threads
<1>4. /\ IsFiniteSet(Carrying) /\ IsFiniteSet(Readers) /\ IsFiniteSet(Retrying)
      /\ Cardinality(Carrying) = 0 /\ Cardinality(Retrying) = 0
  BY <1>3, FS_EmptySet
<1>5. TypeOK
  <2>1. /\ <<>> \in Seq(Messages) /\ Len(<<>>) = 0 /\ NodeCap \in Nat /\ MaxCloses \in Nat
    BY CapAssumption, BoundAssumption
  <2>2. closes \in 0 .. MaxCloses /\ \A n \in Nodes : Len(queue[n]) <= NodeCap
    BY <2>1 DEF Init
  <2>3. /\ next \in [Nodes -> Links] /\ queue \in [Nodes -> Seq(Messages)]
        /\ got \in [Receivers -> Seq(Messages)] /\ freed \subseteq Links
    BY <1>1, <2>1 DEF Init
  <2>4. /\ node \in [Threads -> Nodes \cup {Null}] /\ follow \in [Threads -> Links]
        /\ val \in [Threads -> Messages \cup {NoMsg}] /\ todo \subseteq Messages
    BY <1>1 DEF Init
  <2> QED
    BY <1>1, <2>2, <2>3, <2>4 DEF Init, TypeOK
<1>6. Roles
  BY <1>2 DEF Init, Roles, SenderPCs, ReceiverPCs, CloserPCs
<1>7. Frames
  BY <1>1, <1>2 DEF Init, Frames, SenderPCs, ReceiverPCs
<1>8. Budget
  <2>1. Cardinality(todo) = MaxMessages /\ MaxMessages \in Nat
    BY BoundAssumption, FS_Interval DEF Init, Messages
  <2>2. ~Accepted
    BY <1>2 DEF Init, Accepted, Threads
  <2> QED
    BY <1>2, <1>4, <2>1, <2>2 DEF Init, Budget, Threads
<1>9. Shape
  BY <1>1, <1>3 DEF Init, Shape, Nodes
<1>10. CloseCount
  BY <1>1, <1>2, <1>4 DEF Init, CloseCount, CloserPCs, Threads
<1>11. MovesOn
  BY <1>2 DEF Init, MovesOn, Threads
<1>12. Calm
  BY <1>2 DEF Init, Calm, Threads
<1> QED
  BY <1>4, <1>5, <1>6, <1>7, <1>8, <1>9, <1>10, <1>11, <1>12 DEF UnboundedInv

\* Nothing but broken changes when a thread stumbles.
LEMMA StutterInv ==
  ASSUME UnboundedInv, UNCHANGED <<list, queues, pc, node, follow, val, ends>>,
         broken' = broken \/ (broken' = TRUE /\ ~Small)
  PROVE  UnboundedInv'
<1> USE DEF UnboundedInv, list, queues, ends
<1>1. TypeOK'
  BY DEF TypeOK
<1>2. Roles' /\ IsFiniteSet(Readers)'
  BY DEF Roles, Readers
<1>3. Frames'
  BY DEF Frames
<1>4. Budget'
  BY DEF Budget, Carrying, Accepted
<1>5. Shape'
  BY DEF Shape, Growing, Holders
<1>6. CloseCount'
  BY DEF CloseCount, Retrying
<1>7. MovesOn'
  BY DEF MovesOn, LinkedOn
<1>8. Calm'
  BY DEF Calm, Small
<1> QED
  BY <1>1, <1>2, <1>3, <1>4, <1>5, <1>6, <1>7, <1>8

\* Whoever makes a step is either alive or stumbles.
LEMMA StepsAct ==
  ASSUME Next
  PROVE  \/ \E t \in Threads : ~broken /\ Alive(t) /\ Acts(t)
         \/ \E t \in Threads : ~broken /\ Misuse(t)
<1>1. ASSUME NEW s \in Senders, NEW m \in Messages, SendCall(s, m)
      PROVE  Alive(s) /\ Acts(s)
  BY <1>1 DEF SendCall, Move, Alive, Accesses, Acts
<1>2. ASSUME NEW r \in Receivers, RecvCall(r) PROVE Alive(r) /\ Acts(r)
  BY <1>2 DEF RecvCall, Move, Alive, Accesses, Acts
<1>3. ASSUME NEW c \in Closers, CloseCall(c) PROVE Alive(c) /\ Acts(c)
  BY <1>3 DEF CloseCall, Move, Alive, Accesses, Acts
<1>4. ASSUME NEW t \in Threads, Runs(t)
      PROVE  ~broken /\ ((Alive(t) /\ Acts(t)) \/ Misuse(t))
  BY <1>4 DEF Runs, Acts
<1> QED
  BY <1>1, <1>2, <1>3, <1>4 DEF Next, Calls, Threads

\* Every step keeps the invariant.
LEMMA StepInv == UnboundedInv /\ [Next]_vars => UnboundedInv'
<1> SUFFICES ASSUME UnboundedInv, [Next]_vars PROVE UnboundedInv'
  OBVIOUS
<1>1. ASSUME ~broken, NEW t \in Threads, Alive(t), Acts(t) PROVE UnboundedInv'
  <2>1. TypeOK' /\ Roles' /\ IsFiniteSet(Readers)' /\ Frames'
    BY <1>1, TypeStep, RolesStep, ReadersStep, FramesStep
  <2>2. Budget' /\ Shape' /\ CloseCount' /\ MovesOn' /\ Calm'
    BY <1>1, BudgetStep, ShapeStep, CountStep, MovesStep, CalmStep
  <2> QED
    BY <2>1, <2>2 DEF UnboundedInv
<1>2. ASSUME NEW t \in Threads, Misuse(t) PROVE UnboundedInv'
  <2>1. ~Small
    BY <1>2, SmallAlive DEF Misuse
  <2> QED
    BY <1>2, <2>1, StutterInv DEF Misuse
<1>3. CASE UNCHANGED vars
  BY <1>3, StutterInv DEF vars
<1>4. CASE Next
  BY <1>1, <1>2, <1>4, StepsAct
<1> QED
  BY <1>3, <1>4

-----------------------------------------------------------------------------
(* Theorems                                                                *)

\* The inductive invariant: in which order a sender links, closes, frees and stores,
\* what closes leave behind the tail, and what the frames of calls refer to.
THEOREM UnboundedInvariance == Spec => []UnboundedInv
  BY InitInv, StepInv, PTL DEF Spec

\* The list never gets more nodes than there are messages, and no local variable
\* refers to anything but nodes of the list.
THEOREM Typing == Spec => []TypeOK
<1>1. UnboundedInv => TypeOK
  BY DEF UnboundedInv
<1> QED
  BY <1>1, UnboundedInvariance, PTL

\* Until a sender finds the first node full, no call of send, recv or close ever touches
\* freed memory, follows a null or leaves a message behind.
THEOREM NothingBreaksEarly == Spec => []SafeUntilGrowth
<1>1. UnboundedInv => SafeUntilGrowth
  <2> SUFFICES ASSUME UnboundedInv, broken, nodes <= 1 PROVE next[1] = Temp(1)
    BY Loaded DEF UnboundedInv, SafeUntilGrowth
  <2>1. nodes = 1
    BY Loaded, Numbers DEF UnboundedInv, TypeOK
  <2> QED
    BY <2>1 DEF UnboundedInv, Calm, Small
<1> QED
  BY <1>1, UnboundedInvariance, PTL

\* A second close never gets past its exchange, however many threads close and
\* whatever senders and receivers do.
THEOREM SecondCloseRetries == Spec => []OneCloseGetsThrough
<1>1. UnboundedInv => OneCloseGetsThrough
  <2> SUFFICES ASSUME UnboundedInv PROVE closes - Cardinality(Retrying) <= 1
    BY DEF OneCloseGetsThrough, Retrying
  <2>1. Cardinality(Retrying) \in Nat
    BY FS_CardinalityType DEF UnboundedInv, CloseCount
  <2> QED
    BY <2>1 DEF UnboundedInv, CloseCount
<1> QED
  BY <1>1, UnboundedInvariance, PTL

\* The temporary node behind the tail is always the business of one sender at work, and
\* a receiver that spins has a node, or a sender, to wait for.
THEOREM NobodySpinsForNothing == Spec => []SpinningEnds
<1>1. UnboundedInv => SpinningEnds
  <2> SUFFICES ASSUME UnboundedInv PROVE SpinningEnds
    OBVIOUS
  <2>1. ASSUME next[tail] \notin {Null, End}
        PROVE  \E s \in Senders :
                 \/ pc[s] \in {"s_close", "s_free", "s_store"} /\ node[s] = tail
                 \/ pc[s] = "s_tail" /\ node[s] = next[tail]
    <3>1. PICK s \in Growing : TRUE
      BY <2>1 DEF UnboundedInv, Shape
    <3>2. CASE s \in Holders
      BY <3>2 DEF UnboundedInv, Shape, Holders
    <3>3. CASE s \notin Holders
      BY <3>1, <3>3 DEF UnboundedInv, Shape, Holders, Growing
    <3> QED
      BY <3>2, <3>3
  <2>2. \A r \in Receivers : pc[r] \in {"r_next", "r_cap"} => LinkedOn(node[r])
    BY DEF UnboundedInv, MovesOn
  <2> QED
    BY <2>1, <2>2 DEF SpinningEnds, LinkedOn
<1> QED
  BY <1>1, UnboundedInvariance, PTL

\* A call of send or recv returns an error only after a close has been called: a node
\* that is closed because it was full never shows in a result.
THEOREM NoSpuriousErrors == Spec => ErrorsOnlyByClose
<1> DEFINE Errs == \/ \E s \in Senders : pc[s] = "s_disconnected" /\ pc'[s] = "idle"
                   \/ \E r \in Receivers : pc[r] = "r_err" /\ pc'[r] = "idle"
<1>1. UnboundedInv /\ closed => closes > 0
  <2> SUFFICES ASSUME UnboundedInv, closed PROVE closes > 0
    OBVIOUS
  <2>1. Cardinality(Retrying) \in Nat /\ next[tail] = End
    BY FS_CardinalityType DEF UnboundedInv, CloseCount
  <2> QED
    BY <2>1 DEF UnboundedInv, CloseCount
<1>2. ASSUME UnboundedInv, ~broken, NEW t \in Threads, Alive(t), Acts(t), Errs
      PROVE  closed
  <2>1. \A u \in Threads \ {t} : pc[u] \in {"s_disconnected", "r_err"} => pc'[u] = pc[u]
    BY <1>2, OthersStay
  <2>2. /\ pc[t] \in {"s_disconnected", "r_err"} /\ pc'[t] = "idle"
        /\ pc \in [Threads -> {"idle"} \cup SenderPCs \cup ReceiverPCs \cup CloserPCs]
    BY <1>2, <2>1 DEF Threads, UnboundedInv, Roles
  <2>3. SendDisconnected(t) \/ RecvErr(t)
    BY <1>2, <2>2 DEF Acts, SenderStep, ReceiverStep, CloserStep, SendCall, SendLoadTail,
       SendTry, SendPublish, SendWake, SendLink, SendClose, SendFreeTemp, SendStoreNext,
       SendStoreTail, RecvCall, RecvLoadHead, RecvSelect, RecvLook, RecvPark, RecvReleased,
       RecvRelease, RecvLoadNext, RecvLoadCap, RecvMoveHead, RecvFree, CloseCall,
       CloseLoadTail, CloseLink, CloseFlag, CloseLoadHead, CloseNode, CloseLoadNext,
       CloseNextNode, Move
  <2> QED
    BY <2>2, <2>3 DEF SendDisconnected, RecvErr, Move
<1>3. ASSUME UnboundedInv, Next, Errs PROVE closes > 0
  <2>1. ASSUME NEW t \in Threads, Misuse(t) PROVE FALSE
    BY <1>3, <2>1 DEF Misuse
  <2> QED
    BY <1>1, <1>2, <1>3, <2>1, StepsAct
<1>4. UnboundedInv /\ [Next]_vars => [Errs => closes > 0]_vars
  BY <1>3
<1> QED
  BY <1>4, UnboundedInvariance, PTL DEF Spec, ErrorsOnlyByClose

-----------------------------------------------------------------------------
(* Sequences of sequences                                                  *)

\* Induction over the natural numbers, for a set of them.
LEMMA SetInduction ==
  ASSUME NEW S \in SUBSET Nat, 0 \in S, \A n \in S : n + 1 \in S
  PROVE  S = Nat
<1> SUFFICES ASSUME Nat \ S # {} PROVE FALSE
  OBVIOUS
<1> DEFINE F == {0 .. n : n \in Nat \ S}
           R == StrictSubsetOrdering(Nat)
<1>1. F \subseteq FiniteSubsetsOf(Nat) /\ F # {}
  <2>1. ASSUME NEW n \in Nat \ S PROVE 0 .. n \in FiniteSubsetsOf(Nat)
    <3>1. IsFiniteSet(0 .. n)
      BY FS_Interval
    <3>2. 0 .. n \in SUBSET Nat
      OBVIOUS
    <3> QED
      BY <3>1, <3>2 DEF FiniteSubsetsOf
  <2> QED
    BY <2>1
<1>2. IsWellFoundedOn(R, FiniteSubsetsOf(Nat))
  BY FS_StrictSubsetOrderingWellFounded
<1> HIDE DEF R
<1>3. PICK x \in F : \A y \in F : <<y, x>> \notin R
  <2> HIDE DEF F
  <2> QED
    BY <1>1, <1>2, WFMin
<1>4. PICK n \in Nat \ S : x = 0 .. n
  BY <1>3
<1>5. n # 0 /\ n - 1 \in Nat \ S
  BY <1>4
<1>6. 0 .. n - 1 \in F /\ 0 .. n - 1 \subseteq x /\ 0 .. n - 1 # x /\ x \subseteq Nat
  <2>1. n \in x /\ n \notin 0 .. n - 1
    BY <1>4
  <2> QED
    BY <1>4, <1>5, <2>1
<1>7. <<0 .. n - 1, x>> \in R
  BY <1>6 DEF R, StrictSubsetOrdering
<1> QED
  BY <1>3, <1>6, <1>7

\* Concatenation, a message more, and one less, under names that the provers do not expand.
Cat(a, b) == a \o b
Ext(a, m) == Append(a, m)
Rest(a) == Tail(a)

\* Its type,
LEMMA CatType == ASSUME NEW M, NEW a \in Seq(M), NEW b \in Seq(M) PROVE Cat(a, b) \in Seq(M)
BY ConcatProperties DEF Cat

\* its unit,
LEMMA CatEmpty ==
  ASSUME NEW M, NEW a \in Seq(M) PROVE Cat(a, <<>>) = a /\ Cat(<<>>, a) = a
BY ConcatEmptySeq DEF Cat

\* what it ends with,
LEMMA CatAppend ==
  ASSUME NEW M, NEW a \in Seq(M), NEW b \in Seq(M), NEW m \in M
  PROVE  Ext(a, m) \in Seq(M) /\ Ext(Cat(a, b), m) = Cat(a, Ext(b, m))
<1>1. a \o b \in Seq(M) /\ <<m>> \in Seq(M)
  BY ConcatProperties
<1>2. Append(a \o b, m) = (a \o b) \o <<m>> /\ Append(b, m) = b \o <<m>>
  BY <1>1, AppendIsConcat
<1>3. (a \o b) \o <<m>> = a \o (b \o <<m>>)
  BY <1>1, ConcatAssociative
<1>4. Append(a, m) \in Seq(M)
  BY AppendProperties
<1> QED
  BY <1>2, <1>3, <1>4 DEF Cat, Ext

\* and what it begins with.
LEMMA CatTail ==
  ASSUME NEW M, NEW a \in Seq(M), NEW b \in Seq(M), a # <<>>
  PROVE  /\ Cat(a, b) # <<>> /\ Head(Cat(a, b)) = Head(a)
         /\ Rest(a) \in Seq(M) /\ Rest(Cat(a, b)) = Cat(Rest(a), b)
<1>1. Len(a) > 0 /\ a \o b \in Seq(M) /\ Len(a \o b) = Len(a) + Len(b)
      /\ Len(a) \in Nat /\ Len(b) \in Nat
  BY ConcatProperties
<1>2. a \o b # <<>> /\ Head(a \o b) = Head(a) /\ Tail(a) \in Seq(M)
      /\ Tail(a \o b) \in Seq(M) /\ Tail(a) \o b \in Seq(M)
  BY <1>1, ConcatProperties
<1>3. Len(Tail(a \o b)) = Len(Tail(a) \o b)
  BY <1>1, <1>2, ConcatProperties
<1>4. \A i \in 1 .. Len(Tail(a \o b)) : Tail(a \o b)[i] = (Tail(a) \o b)[i]
  BY <1>1, <1>2, ConcatProperties
<1>5. Tail(a \o b) = Tail(a) \o b
  BY <1>2, <1>3, <1>4, SeqEqual
<1> QED
  BY <1>2, <1>5 DEF Cat, Rest

\* Numbers that follow each other (a name that keeps the provers from computing).
Follows(k, i) == k = i + 1

\* f holds the concatenations of the first members of s, for every prefix of s.
Joined(f, s, M) ==
  /\ f \in [1 .. Len(s) -> Seq(M)]
  /\ Len(s) > 0 => f[1] = s[1]
  /\ \A i, k \in 1 .. Len(s) : Follows(k, i) => f[k] = Cat(f[i], s[k])

\* They exist,
LEMMA JoinedExists ==
  ASSUME NEW M, NEW s \in Seq(Seq(M))
  PROVE  \E f : Joined(f, s, M)
<1> DEFINE P(n) == \E f \in [1 .. n -> Seq(M)] :
                     /\ n > 0 => f[1] = s[1]
                     /\ \A i, k \in 1 .. n : Follows(k, i) => f[k] = Cat(f[i], s[k])
           S == {n \in Nat : n <= Len(s) => P(n)}
<1>0. Len(s) \in Nat
  OBVIOUS
<1>1. P(0)
  <2> DEFINE none == [i \in 1 .. 0 |-> <<>>]
  <2>1. none \in [1 .. 0 -> Seq(M)]
    OBVIOUS
  <2>2. \A i, k \in 1 .. 0 : Follows(k, i) => none[k] = Cat(none[i], s[k])
    OBVIOUS
  <2>3. 0 > 0 => none[1] = s[1]
    OBVIOUS
  <2> HIDE DEF none
  <2> WITNESS none \in [1 .. 0 -> Seq(M)]
  <2> QED
    BY <2>2, <2>3
<1>2. ASSUME NEW n \in Nat, P(n), n + 1 <= Len(s) PROVE P(n + 1)
  <2>1. s[n + 1] \in Seq(M) /\ s[1] \in Seq(M)
    BY <1>0, <1>2
  <2>2. PICK f \in [1 .. n -> Seq(M)] :
          /\ n > 0 => f[1] = s[1]
          /\ \A i, k \in 1 .. n : Follows(k, i) => f[k] = Cat(f[i], s[k])
    BY <1>2
  <2> DEFINE last == IF n = 0 THEN s[1] ELSE Cat(f[n], s[n + 1])
             g == [k \in 1 .. n + 1 |-> IF k <= n THEN f[k] ELSE last]
  <2>3. last \in Seq(M)
    BY <2>1, CatType
  <2> HIDE DEF last
  <2>4. g \in [1 .. n + 1 -> Seq(M)]
    BY <2>3
  <2>5. g[1] = s[1]
    BY <2>2 DEF last
  <2>6. ASSUME NEW i \in 1 .. n + 1, NEW k \in 1 .. n + 1, Follows(k, i)
        PROVE  g[k] = Cat(g[i], s[k])
    <3>0. i \in 1 .. n /\ g[i] = f[i]
      BY <2>6 DEF Follows
    <3>1. CASE k <= n
      <4>1. k \in 1 .. n /\ g[k] = f[k]
        BY <3>1
      <4> QED
        BY <2>2, <2>6, <3>0, <4>1
    <3>2. CASE k = n + 1
      <4>1. i = n /\ n # 0 /\ g[k] = last
        BY <2>6, <3>0, <3>2 DEF Follows
      <4> QED
        BY <3>0, <3>2, <4>1 DEF last
    <3>3. k <= n \/ k = n + 1
      OBVIOUS
    <3> QED
      BY <3>1, <3>2, <3>3
  <2> HIDE DEF g
  <2> QED
    BY <2>4, <2>5, <2>6
<1> HIDE DEF P
<1>3. S = Nat
  <2>1. S \in SUBSET Nat /\ 0 \in S
    BY <1>1
  <2>2. ASSUME NEW n \in S PROVE n + 1 \in S
    BY <1>0, <1>2
  <2> HIDE DEF S
  <2> QED
    BY <2>1, <2>2, SetInduction
<1>4. P(Len(s))
  BY <1>0, <1>3
<1> QED
  BY <1>4 DEF Joined, P

\* What they are, for a length with a name.
LEMMA JoinedFacts ==
  ASSUME NEW M, NEW s \in Seq(Seq(M)), NEW f, Joined(f, s, M), NEW n \in Nat, n = Len(s)
  PROVE  /\ \A k \in 1 .. n : f[k] \in Seq(M) /\ s[k] \in Seq(M)
         /\ n > 0 => f[1] = s[1]
         /\ \A i, k \in 1 .. n : Follows(k, i) => f[k] = Cat(f[i], s[k])
<1>1. \A k \in 1 .. n : f[k] \in Seq(M) /\ s[k] \in Seq(M)
  <2>1. f \in [1 .. n -> Seq(M)]
    BY DEF Joined
  <2>2. \A k \in 1 .. n : s[k] \in Seq(M)
    OBVIOUS
  <2> QED
    BY <2>1, <2>2
<1>2. n > 0 => f[1] = s[1]
  BY DEF Joined
<1>3. \A i, k \in 1 .. n : Follows(k, i) => f[k] = Cat(f[i], s[k])
  BY DEF Joined
<1> QED
  BY <1>1, <1>2, <1>3

\* FlattenSeq computes the last of them.
LEMMA FlattenIsLast ==
  ASSUME NEW M, NEW s \in Seq(Seq(M)), NEW f, Joined(f, s, M),
         NEW n \in Nat, n = Len(s), n > 0
  PROVE  FlattenSeq(s) = f[n]
<1> DEFINE D(g) == [k \in 1 .. Len(s) |-> IF k = 1 THEN s[k] ELSE Cat(g[k - 1], s[k])]
           h == CHOOSE g : g = D(g)
<1>1. /\ \A k \in 1 .. n : f[k] \in Seq(M) /\ s[k] \in Seq(M)
      /\ f[1] = s[1]
      /\ \A i, k \in 1 .. n : Follows(k, i) => f[k] = Cat(f[i], s[k])
  <2>1. \A k \in 1 .. n : f[k] \in Seq(M) /\ s[k] \in Seq(M)
    BY JoinedFacts
  <2>2. f[1] = s[1]
    BY DEF Joined
  <2>3. \A i, k \in 1 .. n : Follows(k, i) => f[k] = Cat(f[i], s[k])
    BY DEF Joined
  <2> QED
    BY <2>1, <2>2, <2>3
<1>2. f = D(f)
  <2>1. f \in [1 .. n -> Seq(M)] /\ D(f) = [k \in 1 .. n |-> D(f)[k]]
    BY DEF Joined
  <2>2. ASSUME NEW k \in 1 .. n PROVE f[k] = D(f)[k]
    <3>1. CASE k = 1
      BY <1>1, <3>1
    <3>2. CASE k # 1
      <4>1. PICK i \in 1 .. n : i = k - 1 /\ Follows(k, i)
        BY <3>2 DEF Follows
      <4>2. f[k] = Cat(f[i], s[k])
        BY <1>1, <4>1
      <4>3. D(f)[k] = Cat(f[i], s[k])
        BY <3>2, <4>1
      <4> QED
        BY <4>2, <4>3
    <3> QED
      BY <3>1, <3>2
  <2> QED
    BY <2>1, <2>2
<1>3. h = D(h)
  <2> HIDE DEF D
  <2> QED
    BY <1>2
<1>4. h[1] = s[1]
  <2> HIDE DEF h
  <2>1. 1 \in 1 .. Len(s)
    OBVIOUS
  <2> QED
    BY <1>3, <2>1
<1>5. ASSUME NEW i \in 1 .. n, NEW k \in 1 .. n, Follows(k, i)
      PROVE  h[k] = Cat(h[i], s[k])
  <2> HIDE DEF h
  <2>1. k # 1 /\ k - 1 = i /\ k \in 1 .. Len(s)
    BY <1>5 DEF Follows
  <2> QED
    BY <1>3, <2>1
<1>6. FlattenSeq(s) = h[n]
  BY DEF FlattenSeq, h, D, Cat
<1> HIDE DEF h, D
<1> DEFINE S == {k \in Nat : k \in 1 .. n => h[k] = f[k]}
<1>7. S = Nat
  <2>1. 0 \in S
    OBVIOUS
  <2>2. ASSUME NEW i \in S PROVE i + 1 \in S
    <3> SUFFICES ASSUME i + 1 \in 1 .. n PROVE h[i + 1] = f[i + 1]
      BY <2>2
    <3>1. CASE i = 0
      BY <1>1, <1>4, <3>1
    <3>2. CASE i # 0
      <4>1. PICK k \in 1 .. n : k = i + 1 /\ i \in 1 .. n /\ Follows(k, i)
        BY <3>2 DEF Follows
      <4>2. h[i] = f[i]
        BY <4>1
      <4>3. h[k] = Cat(h[i], s[k])
        BY <1>5, <4>1
      <4>4. f[k] = Cat(f[i], s[k])
        BY <1>1, <4>1
      <4> QED
        BY <4>1, <4>2, <4>3, <4>4
    <3> QED
      BY <3>1, <3>2
  <2>3. S \in SUBSET Nat
    OBVIOUS
  <2> HIDE DEF S
  <2> QED
    BY <2>1, <2>2, <2>3, SetInduction
<1>8. h[n] = f[n]
  BY <1>7
<1> QED
  BY <1>6, <1>8

\* It is a sequence of members.
LEMMA FlattenType ==
  ASSUME NEW M, NEW s \in Seq(Seq(M)), Len(s) > 0
  PROVE  FlattenSeq(s) \in Seq(M)
<1>0. PICK n \in Nat : n = Len(s) /\ n > 0 /\ n \in 1 .. n
  OBVIOUS
<1>1. PICK f : Joined(f, s, M)
  BY JoinedExists
<1>2. FlattenSeq(s) = f[n]
  BY <1>0, <1>1, FlattenIsLast
<1>3. f[n] \in Seq(M)
  BY <1>0, <1>1, JoinedFacts
<1> QED
  BY <1>2, <1>3

\* The last sequence has gained a member.
Appended(t, s, m) ==
  /\ Len(s) > 0 /\ Len(t) = Len(s)
  /\ t[Len(s)] = Ext(s[Len(s)], m)
  /\ \A k \in 1 .. Len(s) : k # Len(s) => t[k] = s[k]

\* It comes last.
LEMMA FlattenAppend ==
  ASSUME NEW M, NEW s \in Seq(Seq(M)), NEW t \in Seq(Seq(M)), NEW m \in M,
         Appended(t, s, m)
  PROVE  FlattenSeq(t) = Ext(FlattenSeq(s), m)
<1>0. PICK n \in Nat : n = Len(s) /\ n > 0 /\ n = Len(t) /\ n \in 1 .. n /\ 1 \in 1 .. n
  BY DEF Appended
<1>1. PICK f : Joined(f, s, M)
  BY JoinedExists
<1>2. /\ \A k \in 1 .. n : f[k] \in Seq(M) /\ s[k] \in Seq(M)
      /\ f[1] = s[1]
      /\ \A i, k \in 1 .. n : Follows(k, i) => f[k] = Cat(f[i], s[k])
  <2>1. \A k \in 1 .. n : f[k] \in Seq(M) /\ s[k] \in Seq(M)
    BY <1>0, <1>1, JoinedFacts
  <2>2. f[1] = s[1]
    BY <1>0, <1>1 DEF Joined
  <2>3. \A i, k \in 1 .. n : Follows(k, i) => f[k] = Cat(f[i], s[k])
    BY <1>0, <1>1 DEF Joined
  <2> QED
    BY <2>1, <2>2, <2>3
<1>3. t[n] = Ext(s[n], m) /\ \A k \in 1 .. n : k # n => t[k] = s[k]
  BY <1>0 DEF Appended
<1>4. Ext(f[n], m) \in Seq(M)
  BY <1>0, <1>2, CatAppend
<1> DEFINE g == [k \in 1 .. n |-> IF k = n THEN Ext(f[n], m) ELSE f[k]]
<1>5. \A k \in 1 .. n : g[k] = IF k = n THEN Ext(f[n], m) ELSE f[k]
  OBVIOUS
<1>6. g \in [1 .. n -> Seq(M)]
  BY <1>2, <1>4
<1> HIDE DEF g
<1>7. g[1] = t[1]
  BY <1>0, <1>2, <1>3, <1>5
<1>8. ASSUME NEW i \in 1 .. n, NEW k \in 1 .. n, Follows(k, i)
      PROVE  g[k] = Cat(g[i], t[k])
  <2>1. g[i] = f[i] /\ f[k] = Cat(f[i], s[k]) /\ f[i] \in Seq(M) /\ s[k] \in Seq(M)
    <3>1. i # n
      BY <1>8 DEF Follows
    <3> QED
      BY <1>2, <1>5, <1>8, <3>1
  <2>2. CASE k # n
    BY <1>3, <1>5, <2>1, <2>2
  <2>3. CASE k = n
    <3>1. Ext(Cat(f[i], s[k]), m) = Cat(f[i], Ext(s[k], m))
      <4>1. PICK a \in Seq(M), b \in Seq(M) : a = f[i] /\ b = s[k]
        BY <2>1
      <4>2. Ext(Cat(a, b), m) = Cat(a, Ext(b, m))
        BY CatAppend
      <4> QED
        BY <4>1, <4>2
    <3>2. g[k] = Ext(f[k], m) /\ t[k] = Ext(s[k], m)
      BY <1>3, <1>5, <2>3
    <3> QED
      BY <2>1, <3>1, <3>2
  <2> QED
    BY <2>2, <2>3
<1>9. Joined(g, t, M)
  BY <1>0, <1>6, <1>7, <1>8 DEF Joined
<1>10. FlattenSeq(t) = g[n] /\ FlattenSeq(s) = f[n]
  <2>1. FlattenSeq(t) = g[n]
    BY <1>0, <1>9, FlattenIsLast
  <2>2. FlattenSeq(s) = f[n]
    BY <1>0, <1>1, FlattenIsLast
  <2> QED
    BY <2>1, <2>2
<1> QED
  BY <1>0, <1>5, <1>10

\* There is a sequence more, of one member.
Grown(t, s, m) ==
  /\ Len(s) > 0 /\ Len(t) = Len(s) + 1 /\ t[Len(t)] = Ext(<<>>, m)
  /\ \A k \in 1 .. Len(s) : t[k] = s[k]

\* It comes last, too.
LEMMA FlattenGrow ==
  ASSUME NEW M, NEW s \in Seq(Seq(M)), NEW t \in Seq(Seq(M)), NEW m \in M, Grown(t, s, m)
  PROVE  FlattenSeq(t) = Ext(FlattenSeq(s), m)
<1>0. PICK n \in Nat : n = Len(s) /\ n > 0 /\ n + 1 = Len(t) /\ n \in 1 .. n /\ 1 \in 1 .. n
  BY DEF Grown
<1>1. PICK f : Joined(f, s, M)
  BY JoinedExists
<1>2. /\ \A k \in 1 .. n : f[k] \in Seq(M) /\ s[k] \in Seq(M)
      /\ f[1] = s[1]
      /\ \A i, k \in 1 .. n : Follows(k, i) => f[k] = Cat(f[i], s[k])
  <2>1. \A k \in 1 .. n : f[k] \in Seq(M) /\ s[k] \in Seq(M)
    BY <1>0, <1>1, JoinedFacts
  <2>2. f[1] = s[1]
    BY <1>0, <1>1 DEF Joined
  <2>3. \A i, k \in 1 .. n : Follows(k, i) => f[k] = Cat(f[i], s[k])
    BY <1>0, <1>1 DEF Joined
  <2> QED
    BY <2>1, <2>2, <2>3
<1>3. t[n + 1] = Ext(<<>>, m) /\ \A k \in 1 .. n : t[k] = s[k]
  BY <1>0 DEF Grown
<1>4. Ext(f[n], m) \in Seq(M) /\ Ext(f[n], m) = Cat(f[n], Ext(<<>>, m))
  <2>1. f[n] \in Seq(M) /\ <<>> \in Seq(M)
    BY <1>0, <1>2
  <2>2. PICK a \in Seq(M), b \in Seq(M) : a = f[n] /\ b = <<>>
    BY <2>1
  <2>3. Ext(a, m) \in Seq(M) /\ Ext(Cat(a, b), m) = Cat(a, Ext(b, m)) /\ Cat(a, <<>>) = a
    BY CatAppend, CatEmpty
  <2> QED
    BY <2>2, <2>3
<1> DEFINE g == [k \in 1 .. n + 1 |-> IF k <= n THEN f[k] ELSE Ext(f[n], m)]
<1>5. \A k \in 1 .. n + 1 : g[k] = IF k <= n THEN f[k] ELSE Ext(f[n], m)
  OBVIOUS
<1>6. g \in [1 .. n + 1 -> Seq(M)]
  BY <1>2, <1>4
<1> HIDE DEF g
<1>7. g[1] = t[1]
  BY <1>0, <1>2, <1>3, <1>5
<1>8. ASSUME NEW i \in 1 .. n + 1, NEW k \in 1 .. n + 1, Follows(k, i)
      PROVE  g[k] = Cat(g[i], t[k])
  <2>1. i \in 1 .. n /\ g[i] = f[i]
    BY <1>5, <1>8 DEF Follows
  <2>2. CASE k <= n
    <3>1. k \in 1 .. n /\ g[k] = f[k] /\ t[k] = s[k]
      BY <1>3, <1>5, <2>2
    <3> QED
      BY <1>2, <1>8, <2>1, <3>1
  <2>3. CASE k = n + 1
    <3>1. i = n /\ g[k] = Ext(f[n], m) /\ t[k] = Ext(<<>>, m)
      BY <1>3, <1>5, <1>8, <2>1, <2>3 DEF Follows
    <3> QED
      BY <1>4, <2>1, <3>1
  <2>4. k <= n \/ k = n + 1
    BY <1>0
  <2> QED
    BY <2>2, <2>3, <2>4
<1>9. Joined(g, t, M)
  BY <1>0, <1>6, <1>7, <1>8 DEF Joined
<1>10. FlattenSeq(t) = g[n + 1] /\ FlattenSeq(s) = f[n]
  <2>1. FlattenSeq(t) = g[n + 1]
    BY <1>0, <1>9, FlattenIsLast
  <2>2. FlattenSeq(s) = f[n]
    BY <1>0, <1>1, FlattenIsLast
  <2> QED
    BY <2>1, <2>2
<1>11. g[n + 1] = Ext(f[n], m)
  <2>1. n + 1 \in 1 .. n + 1 /\ ~(n + 1 <= n)
    BY <1>0
  <2> QED
    BY <1>5, <2>1
<1> QED
  BY <1>10, <1>11

\* The first sequence has lost its first member.
Shortened(t, s) ==
  /\ Len(s) > 0 /\ Len(t) = Len(s)
  /\ s[1] # <<>> /\ t[1] = Rest(s[1])
  /\ \A k \in 1 .. Len(s) : k # 1 => t[k] = s[k]

\* It came first.
LEMMA FlattenTail ==
  ASSUME NEW M, NEW s \in Seq(Seq(M)), NEW t \in Seq(Seq(M)), Shortened(t, s)
  PROVE  /\ FlattenSeq(s) # <<>> /\ Head(FlattenSeq(s)) = Head(s[1])
         /\ FlattenSeq(t) = Rest(FlattenSeq(s))
<1>0. PICK n \in Nat : n = Len(s) /\ n > 0 /\ n = Len(t) /\ 1 \in 1 .. n /\ n \in 1 .. n
  BY DEF Shortened
<1>1. PICK f : Joined(f, s, M)
  BY JoinedExists
<1>2. /\ \A k \in 1 .. n : f[k] \in Seq(M) /\ s[k] \in Seq(M)
      /\ f[1] = s[1]
      /\ \A i, k \in 1 .. n : Follows(k, i) => f[k] = Cat(f[i], s[k])
  <2>1. \A k \in 1 .. n : f[k] \in Seq(M) /\ s[k] \in Seq(M)
    BY <1>0, <1>1, JoinedFacts
  <2>2. f[1] = s[1]
    BY <1>0, <1>1 DEF Joined
  <2>3. \A i, k \in 1 .. n : Follows(k, i) => f[k] = Cat(f[i], s[k])
    BY <1>0, <1>1 DEF Joined
  <2> QED
    BY <2>1, <2>2, <2>3
<1> DEFINE Starts(k) == f[k] # <<>> /\ Head(f[k]) = Head(s[1])
           S == {k \in Nat : k \in 1 .. n => Starts(k)}
<1>3. Starts(1)
  BY <1>2 DEF Shortened
<1>4. ASSUME NEW i \in 1 .. n, NEW k \in 1 .. n, Follows(k, i), Starts(i)
      PROVE  Starts(k)
  <2>1. f[k] = Cat(f[i], s[k]) /\ f[i] \in Seq(M) /\ s[k] \in Seq(M)
    BY <1>2, <1>4
  <2>2. Cat(f[i], s[k]) # <<>> /\ Head(Cat(f[i], s[k])) = Head(f[i])
    <3>1. PICK a \in Seq(M), b \in Seq(M) : a = f[i] /\ b = s[k] /\ a # <<>>
      BY <1>4, <2>1
    <3>2. a # <<>>
      BY <3>1
    <3>3. Cat(a, b) # <<>> /\ Head(Cat(a, b)) = Head(a)
      BY ONLY a \in Seq(M), b \in Seq(M), <3>2, CatTail
    <3> QED
      BY <3>1, <3>3
  <2> QED
    BY <1>4, <2>1, <2>2
<1> HIDE DEF Starts
<1>5. S = Nat
  <2>1. 0 \in S
    OBVIOUS
  <2>2. ASSUME NEW i \in S PROVE i + 1 \in S
    <3> SUFFICES ASSUME i + 1 \in 1 .. n PROVE Starts(i + 1)
      BY <2>2
    <3>1. i = 0 \/ i \in 1 .. n
      BY <1>0
    <3>2. Follows(i + 1, i)
      BY DEF Follows
    <3> QED
      BY <1>3, <1>4, <3>1, <3>2
  <2>3. S \in SUBSET Nat
    OBVIOUS
  <2> HIDE DEF S
  <2> QED
    BY <2>1, <2>2, <2>3, SetInduction
<1>6. \A k \in 1 .. n : Starts(k)
  BY <1>5
<1> DEFINE g == [k \in 1 .. n |-> Rest(f[k])]
<1>7. ASSUME NEW k \in 1 .. n PROVE Rest(f[k]) \in Seq(M)
  <2>1. f[k] \in Seq(M) /\ f[k] # <<>>
    BY <1>2, <1>6 DEF Starts
  <2> QED
    BY <2>1, CatTail
<1>8. \A k \in 1 .. n : g[k] = Rest(f[k])
  OBVIOUS
<1>9. g \in [1 .. n -> Seq(M)]
  BY <1>7
<1> HIDE DEF g
<1>10. g[1] = t[1]
  <2>1. t[1] = Rest(s[1])
    BY DEF Shortened
  <2>2. g[1] = Rest(f[1])
    BY <1>0, <1>8
  <2> QED
    BY <1>2, <2>1, <2>2
<1>11. ASSUME NEW i \in 1 .. n, NEW k \in 1 .. n, Follows(k, i)
      PROVE  g[k] = Cat(g[i], t[k])
  <2>1. f[k] = Cat(f[i], s[k]) /\ f[i] \in Seq(M) /\ s[k] \in Seq(M)
    BY <1>2, <1>11
  <2>2. t[k] = s[k]
    <3>1. k # 1 /\ k \in 1 .. Len(s)
      BY <1>0, <1>11 DEF Follows
    <3> QED
      BY <3>1 DEF Shortened
  <2>3. f[i] # <<>>
    BY <1>6 DEF Starts
  <2>4. Rest(Cat(f[i], s[k])) = Cat(Rest(f[i]), s[k])
    <3>1. PICK a \in Seq(M), b \in Seq(M) : a = f[i] /\ b = s[k] /\ a # <<>>
      BY <2>1, <2>3
    <3>2. Rest(Cat(a, b)) = Cat(Rest(a), b)
      BY <3>1, CatTail
    <3> QED
      BY <3>1, <3>2
  <2>5. g[k] = Rest(f[k]) /\ g[i] = Rest(f[i])
    BY <1>8
  <2> QED
    BY <2>1, <2>2, <2>4, <2>5
<1>12. Joined(g, t, M)
  BY <1>0, <1>9, <1>10, <1>11 DEF Joined
<1>13. FlattenSeq(t) = g[n]
  BY <1>0, <1>12, FlattenIsLast
<1>14. FlattenSeq(s) = f[n]
  BY <1>0, <1>1, FlattenIsLast
<1>15. g[n] = Rest(f[n]) /\ Starts(n)
  BY <1>0, <1>6, <1>8
<1> QED
  BY <1>13, <1>14, <1>15 DEF Starts

\* There is an empty sequence less at the beginning.
Skipped(t, s) ==
  /\ Len(t) > 0 /\ Len(s) = Len(t) + 1 /\ s[1] = <<>>
  /\ \A k \in 1 .. Len(t) : t[k] = s[k + 1]

\* That takes nothing away.
LEMMA FlattenSkip ==
  ASSUME NEW M, NEW s \in Seq(Seq(M)), NEW t \in Seq(Seq(M)), Skipped(t, s)
  PROVE  FlattenSeq(t) = FlattenSeq(s)
<1>0. PICK n \in Nat : n = Len(t) /\ n > 0 /\ n + 1 = Len(s) /\ n \in 1 .. n
  BY DEF Skipped
<1>1. PICK f : Joined(f, s, M)
  BY JoinedExists
<1>2. /\ \A k \in 1 .. n + 1 : f[k] \in Seq(M) /\ s[k] \in Seq(M)
      /\ f[1] = s[1]
      /\ \A i, k \in 1 .. n + 1 : Follows(k, i) => f[k] = Cat(f[i], s[k])
  <2>1. \A k \in 1 .. n + 1 : f[k] \in Seq(M) /\ s[k] \in Seq(M)
    BY <1>0, <1>1, JoinedFacts
  <2>2. f[1] = s[1]
    BY <1>0, <1>1 DEF Joined
  <2>3. \A i, k \in 1 .. n + 1 : Follows(k, i) => f[k] = Cat(f[i], s[k])
    BY <1>0, <1>1 DEF Joined
  <2> QED
    BY <2>1, <2>2, <2>3
<1>3. s[1] = <<>> /\ \A k \in 1 .. n : t[k] = s[k + 1]
  BY <1>0 DEF Skipped
<1> DEFINE g == [k \in 1 .. n |-> f[k + 1]]
<1>4. \A k \in 1 .. n : g[k] = f[k + 1] /\ k + 1 \in 1 .. n + 1
  OBVIOUS
<1>5. g \in [1 .. n -> Seq(M)]
  BY <1>2
<1> HIDE DEF g
<1>6. g[1] = t[1]
  <2>1. 1 \in 1 .. n + 1 /\ 2 \in 1 .. n + 1 /\ Follows(2, 1) /\ 1 \in 1 .. n
    BY <1>0 DEF Follows
  <2>2. f[2] = Cat(f[1], s[2]) /\ s[2] \in Seq(M)
    BY <1>2, <2>1
  <2>3. f[2] = s[2]
    BY <1>2, <1>3, <2>2, CatEmpty
  <2> QED
    BY <1>3, <1>4, <2>1, <2>3
<1>7. ASSUME NEW i \in 1 .. n, NEW k \in 1 .. n, Follows(k, i)
      PROVE  g[k] = Cat(g[i], t[k])
  <2>1. PICK l \in 1 .. n + 1 : l = k + 1 /\ k \in 1 .. n + 1 /\ Follows(l, k)
    BY <1>0 DEF Follows
  <2>2. f[l] = Cat(f[k], s[l])
    BY <1>2, <2>1
  <2>3. g[k] = f[l] /\ g[i] = f[k]
    BY <1>4, <1>7, <2>1 DEF Follows
  <2>4. t[k] = s[l]
    BY <1>3, <2>1
  <2> QED
    BY <2>2, <2>3, <2>4
<1>8. Joined(g, t, M)
  BY <1>0, <1>5, <1>6, <1>7 DEF Joined
<1>9. FlattenSeq(t) = g[n]
  BY <1>0, <1>8, FlattenIsLast
<1>10. FlattenSeq(s) = f[n + 1]
  BY <1>0, <1>1, FlattenIsLast
<1>11. g[n] = f[n + 1]
  BY <1>0, <1>4
<1> QED
  BY <1>9, <1>10, <1>11

-----------------------------------------------------------------------------
(* The messages of the nodes                                               *)

\* What a claim of a sender, a new node, and a claim of a receiver do to the queues.
Put(q, x, m) == [q EXCEPT ![x] = Append(@, m)]
Place(q, x, m) == [q EXCEPT ![x] = <<m>>]
Take(q, x) == [q EXCEPT ![x] = Tail(@)]

\* The ends of a sequence of messages.
LEMMA QueueEnds ==
  ASSUME NEW s \in Seq(Messages)
  PROVE  /\ Len(s) \in Nat /\ <<>> \in Seq(Messages)
         /\ \A m \in Messages :
              /\ Append(s, m) \in Seq(Messages) /\ Append(s, m) # <<>>
              /\ Len(Append(s, m)) = Len(s) + 1 /\ Append(<<>>, m) = <<m>>
              /\ <<m>> \in Seq(Messages)
         /\ s # <<>> => /\ Head(s) \in Messages
                        /\ Tail(s) \in Seq(Messages) /\ Len(Tail(s)) = Len(s) - 1
  OBVIOUS

\* The queues of the nodes from h to n.
Shares(h, n, q) == [k \in 1 .. n - h + 1 |-> q[h + k - 1]]

\* They are sequences of messages, at least one of them.
LEMMA SharesType ==
  ASSUME NEW h \in Nodes, NEW n \in Nodes, h <= n, NEW q \in [Nodes -> Seq(Messages)]
  PROVE  /\ Shares(h, n, q) \in Seq(Seq(Messages))
         /\ Len(Shares(h, n, q)) = n - h + 1 /\ n - h + 1 \in Nat \ {0}
         /\ \A k \in 1 .. n - h + 1 :
              Shares(h, n, q)[k] = q[h + k - 1] /\ h + k - 1 \in Nodes
<1>1. h \in Nat /\ n \in Nat /\ n - h + 1 \in Nat \ {0}
  BY BoundAssumption DEF Nodes
<1>2. \A k \in 1 .. n - h + 1 : h + k - 1 \in Nodes
  BY BoundAssumption DEF Nodes
<1>3. \A k \in 1 .. n - h + 1 : q[h + k - 1] \in Seq(Messages)
  BY <1>2
<1> DEFINE l == n - h + 1
<1> HIDE DEF l
<1>4. [k \in 1 .. l |-> q[h + k - 1]] \in Seq(Seq(Messages))
  <2>1. l \in Nat /\ \A k \in 1 .. l : q[h + k - 1] \in Seq(Messages)
    BY <1>1, <1>3 DEF l
  <2> QED
    BY <2>1
<1>5. Len([k \in 1 .. l |-> q[h + k - 1]]) = l
  BY <1>1 DEF l
<1> QED
  BY <1>1, <1>2, <1>4, <1>5 DEF Shares, l

\* A message appended to the queue of the last node,
LEMMA SharesAppend ==
  ASSUME NEW h \in Nodes, NEW n \in Nodes, h <= n, NEW q \in [Nodes -> Seq(Messages)],
         NEW m \in Messages, NEW r, r = Put(q, n, m)
  PROVE  FlattenSeq(Shares(h, n, r)) = Append(FlattenSeq(Shares(h, n, q)), m)
<1> DEFINE j == n - h + 1
<1>0. h \in Nat /\ n \in Nat /\ j \in 1 .. n - h + 1 /\ h + j - 1 = n
  BY BoundAssumption DEF Nodes
<1>1. /\ r \in [Nodes -> Seq(Messages)] /\ r[n] = Append(q[n], m)
      /\ \A y \in Nodes : y # n => r[y] = q[y]
  BY QueueEnds DEF Put
<1>2. Appended(Shares(h, n, r), Shares(h, n, q), m)
  <2>1. Len(Shares(h, n, r)) = j /\ Len(Shares(h, n, q)) = j /\ j > 0
    <3>1. Len(Shares(h, n, r)) = j
      BY <1>1, SharesType
    <3>2. Len(Shares(h, n, q)) = j
      BY SharesType
    <3> QED
      BY <1>0, <3>1, <3>2
  <2>2. Shares(h, n, r)[j] = r[n] /\ Shares(h, n, q)[j] = q[n]
    BY <1>0 DEF Shares
  <2>3. ASSUME NEW k \in 1 .. j, k # j
        PROVE  Shares(h, n, r)[k] = Shares(h, n, q)[k]
    <3>1. PICK y \in Nodes : y = h + k - 1 /\ y # n
      <4>1. h + k - 1 \in Nodes /\ h + k - 1 # n
        BY <1>0, <2>3, BoundAssumption DEF Nodes
      <4> QED
        BY <4>1
    <3>2. Shares(h, n, r)[k] = r[y] /\ Shares(h, n, q)[k] = q[y]
      BY <1>0, <3>1 DEF Shares
    <3> QED
      BY <1>1, <3>1, <3>2
  <2> HIDE DEF j
  <2> QED
    BY <1>1, <2>1, <2>2, <2>3 DEF Appended, Ext
<1>3. Shares(h, n, r) \in Seq(Seq(Messages)) /\ Shares(h, n, q) \in Seq(Seq(Messages))
  BY <1>1, SharesType
<1> HIDE DEF j
<1>4. FlattenSeq(Shares(h, n, r)) = Ext(FlattenSeq(Shares(h, n, q)), m)
  BY <1>2, <1>3, FlattenAppend
<1> QED
  BY <1>4 DEF Ext

\* a new node with a message in it,
LEMMA SharesGrow ==
  ASSUME NEW h \in Nodes, NEW n \in Nodes, h <= n, NEW q \in [Nodes -> Seq(Messages)],
         n + 1 \in Nodes, NEW m \in Messages, NEW r, r = Place(q, n + 1, m)
  PROVE  FlattenSeq(Shares(h, n + 1, r)) = Append(FlattenSeq(Shares(h, n, q)), m)
<1>0. h \in Nat /\ n \in Nat /\ h <= n + 1 /\ n + 1 - h + 1 = n - h + 1 + 1
      /\ n - h + 1 + 1 \in 1 .. n + 1 - h + 1 /\ h + (n - h + 1 + 1) - 1 = n + 1
      /\ 1 .. n - h + 1 \subseteq 1 .. n + 1 - h + 1
  BY BoundAssumption DEF Nodes
<1>1. /\ r \in [Nodes -> Seq(Messages)] /\ r[n + 1] = <<m>>
      /\ \A y \in Nodes : y # n + 1 => r[y] = q[y]
  BY QueueEnds DEF Place
<1>2. Grown(Shares(h, n + 1, r), Shares(h, n, q), m)
  <2>1. /\ Len(Shares(h, n + 1, r)) = n - h + 1 + 1 /\ Len(Shares(h, n, q)) = n - h + 1
        /\ n - h + 1 > 0
    <3>1. Len(Shares(h, n + 1, r)) = n + 1 - h + 1
      <4>1. PICK x \in Nodes : x = n + 1 /\ h <= x
        BY <1>0
      <4>2. Len(Shares(h, x, r)) = x - h + 1
        BY <1>1, <4>1, SharesType
      <4> QED
        BY <4>1, <4>2
    <3>2. Len(Shares(h, n, q)) = n - h + 1 /\ n - h + 1 > 0
      BY <1>0, SharesType
    <3> QED
      BY <1>0, <3>1, <3>2
  <2>2. Shares(h, n + 1, r)[n - h + 1 + 1] = Ext(<<>>, m)
    <3>1. PICK y \in Nat : y = n + 1
      BY <1>0
    <3>2. Shares(h, n + 1, r)[n - h + 1 + 1] = r[y]
      BY <1>0, <3>1 DEF Shares
    <3>3. Append(<<>>, m) = <<m>>
      BY QueueEnds
    <3> QED
      BY <1>1, <3>1, <3>2, <3>3 DEF Ext
  <2>3. ASSUME NEW k \in 1 .. n - h + 1
        PROVE  Shares(h, n + 1, r)[k] = Shares(h, n, q)[k]
    <3>1. PICK y \in Nodes : y = h + k - 1 /\ y # n + 1 /\ k \in 1 .. n + 1 - h + 1
      <4>1. h + k - 1 \in Nodes /\ h + k - 1 # n + 1
        BY <1>0, BoundAssumption DEF Nodes
      <4> QED
        BY <1>0, <4>1
    <3>2. Shares(h, n + 1, r)[k] = r[y]
      BY <1>0, <3>1 DEF Shares
    <3>3. Shares(h, n, q)[k] = q[y]
      BY <1>0, <3>1 DEF Shares
    <3> QED
      BY <1>1, <3>1, <3>2, <3>3
  <2> QED
    BY <2>1, <2>2, <2>3 DEF Grown
<1>3. Shares(h, n + 1, r) \in Seq(Seq(Messages)) /\ Shares(h, n, q) \in Seq(Seq(Messages))
  <2>1. Shares(h, n + 1, r) \in Seq(Seq(Messages))
    BY <1>0, <1>1, SharesType
  <2>2. Shares(h, n, q) \in Seq(Seq(Messages))
    BY SharesType
  <2> QED
    BY <2>1, <2>2
<1>4. FlattenSeq(Shares(h, n + 1, r)) = Ext(FlattenSeq(Shares(h, n, q)), m)
  BY <1>2, <1>3, FlattenGrow
<1> QED
  BY <1>4 DEF Ext

\* one taken from the first queue,
LEMMA SharesTail ==
  ASSUME NEW h \in Nodes, NEW n \in Nodes, h <= n, NEW q \in [Nodes -> Seq(Messages)],
         q[h] # <<>>, NEW r, r = Take(q, h)
  PROVE  /\ FlattenSeq(Shares(h, n, q)) # <<>>
         /\ Head(FlattenSeq(Shares(h, n, q))) = Head(q[h])
         /\ FlattenSeq(Shares(h, n, r)) = Tail(FlattenSeq(Shares(h, n, q)))
<1>0. h \in Nat /\ n \in Nat /\ 1 \in 1 .. n - h + 1 /\ h + 1 - 1 = h
  BY BoundAssumption DEF Nodes
<1>1. /\ r \in [Nodes -> Seq(Messages)] /\ r[h] = Tail(q[h])
      /\ \A y \in Nodes : y # h => r[y] = q[y]
  <2>1. Tail(q[h]) \in Seq(Messages)
    BY QueueEnds
  <2> QED
    BY <2>1 DEF Take
<1>2. Shares(h, n, r)[1] = r[h] /\ Shares(h, n, q)[1] = q[h]
  BY <1>0 DEF Shares
<1>3. Shortened(Shares(h, n, r), Shares(h, n, q))
  <2>1. Len(Shares(h, n, r)) = n - h + 1 /\ Len(Shares(h, n, q)) = n - h + 1
        /\ n - h + 1 > 0
    <3>1. Len(Shares(h, n, r)) = n - h + 1
      BY <1>1, SharesType
    <3>2. Len(Shares(h, n, q)) = n - h + 1 /\ n - h + 1 > 0
      BY <1>0, SharesType
    <3> QED
      BY <3>1, <3>2
  <2>2. ASSUME NEW k \in 1 .. n - h + 1, k # 1
        PROVE  Shares(h, n, r)[k] = Shares(h, n, q)[k]
    <3>1. PICK y \in Nodes : y = h + k - 1 /\ y \in Nat
      <4>1. h + k - 1 \in Nodes /\ h + k - 1 \in Nat
        BY <1>0, BoundAssumption DEF Nodes
      <4> QED
        BY <4>1
    <3>2. Shares(h, n, r)[k] = r[y] /\ Shares(h, n, q)[k] = q[y]
      BY <1>0, <3>1 DEF Shares
    <3>3. y # h
      BY <1>0, <2>2, <3>1
    <3> QED
      BY <1>1, <3>2, <3>3
  <2> QED
    BY <1>1, <1>2, <2>1, <2>2 DEF Shortened, Rest
<1>4. Shares(h, n, r) \in Seq(Seq(Messages)) /\ Shares(h, n, q) \in Seq(Seq(Messages))
  BY <1>1, SharesType
<1>5. /\ FlattenSeq(Shares(h, n, q)) # <<>>
      /\ Head(FlattenSeq(Shares(h, n, q))) = Head(Shares(h, n, q)[1])
      /\ FlattenSeq(Shares(h, n, r)) = Rest(FlattenSeq(Shares(h, n, q)))
  BY <1>3, <1>4, FlattenTail
<1> QED
  BY <1>2, <1>5 DEF Rest

\* and one at the beginning.
LEMMA SharesSkip ==
  ASSUME NEW h \in Nodes, NEW n \in Nodes, h < n, NEW q \in [Nodes -> Seq(Messages)],
         q[h] = <<>>
  PROVE  FlattenSeq(Shares(h + 1, n, q)) = FlattenSeq(Shares(h, n, q))
<1>0. h \in Nat /\ n \in Nat /\ h + 1 \in Nodes /\ h + 1 <= n /\ h <= n
      /\ n - h + 1 = n - (h + 1) + 1 + 1 /\ 1 \in 1 .. n - h + 1 /\ h + 1 - 1 = h
  BY BoundAssumption DEF Nodes
<1>1. Skipped(Shares(h + 1, n, q), Shares(h, n, q))
  <2>1. /\ Len(Shares(h + 1, n, q)) = n - (h + 1) + 1 /\ n - (h + 1) + 1 > 0
        /\ Len(Shares(h, n, q)) = n - (h + 1) + 1 + 1
    <3>1. Len(Shares(h + 1, n, q)) = n - (h + 1) + 1 /\ Len(Shares(h, n, q)) = n - h + 1
      BY <1>0, SharesType
    <3> QED
      BY <1>0, <3>1
  <2>2. Shares(h, n, q)[1] = <<>>
    <3>1. Shares(h, n, q)[1] = q[h]
      BY <1>0 DEF Shares
    <3> QED
      BY <3>1
  <2>3. ASSUME NEW k \in 1 .. n - (h + 1) + 1
        PROVE  Shares(h + 1, n, q)[k] = Shares(h, n, q)[k + 1]
    <3>1. PICK y \in Nat, l \in 1 .. n - h + 1 :
            l = k + 1 /\ y = h + 1 + k - 1 /\ y = h + l - 1
      BY <1>0
    <3>2. Shares(h + 1, n, q)[k] = q[y]
      BY <1>0, <3>1 DEF Shares
    <3>3. Shares(h, n, q)[l] = q[y]
      BY <1>0, <3>1 DEF Shares
    <3> QED
      BY <3>1, <3>2, <3>3
  <2> QED
    BY <2>1, <2>2, <2>3 DEF Skipped
<1>2. /\ Shares(h + 1, n, q) \in Seq(Seq(Messages))
      /\ Shares(h, n, q) \in Seq(Seq(Messages))
  BY <1>0, SharesType
<1> QED
  BY <1>1, <1>2, FlattenSkip

-----------------------------------------------------------------------------
(* The chain of nodes                                                      *)

\* A node that has another behind it is closed, and so is the one a sender is about to
\* link another to; behind the last node there are no messages.
Ended ==
  /\ \A n \in Nodes : n < nodes => qclosed[n]
  /\ \A s \in Senders : pc[s] \in {"s_free", "s_store"} => qclosed[node[s]]
  /\ \A n \in Nodes : n > nodes => queue[n] = <<>>

\* Receivers are at head or behind it, and go on to the next node.
Following ==
  /\ \A r \in Receivers : pc[r] \in ReceiverPCs \ {"r_load"} => node[r] <= head
  /\ \A r \in Receivers :
       pc[r] \in {"r_cap", "r_move"} /\ follow[r] \in Nodes => follow[r] = node[r] + 1

\* Head has left no message behind.
Drained == \A n \in Nodes : n < head => queue[n] = <<>>

ChainInv == UnboundedInv /\ Ended /\ Following /\ (broken \/ Drained)

\* A queue that still accepts messages is that of the last node.
LEMMA OpenIsLast ==
  ASSUME UnboundedInv, Ended, NEW s \in Senders, pc[s] = "s_try", node[s] \in Nodes,
         ~qclosed[node[s]]
  PROVE  node[s] = nodes
<1>1. node[s] \in Nat /\ nodes \in Nat /\ node[s] <= nodes
  BY Loaded, Numbers DEF UnboundedInv, Frames, Threads
<1> QED
  BY <1>1 DEF Ended

\* Who is at work behind the tail is in the last node.
LEMMA HolderIsLast ==
  ASSUME UnboundedInv, NEW s \in Senders, pc[s] = "s_store"
  PROVE  node[s] = nodes /\ nodes + 1 \in Nodes
<1>1. nodes + 1 \in Nodes
  BY RoomLeft
<1> QED
  BY <1>1 DEF UnboundedInv, Shape, Holders

\* A node is closed before the next is linked.
LEMMA EndedStep ==
  ASSUME UnboundedInv, ~broken, Ended, NEW t \in Threads, Alive(t), Acts(t)
  PROVE  Ended'
<1> USE DEF Ended, list, queues
<1>a. /\ pc \in [Threads -> {"idle"} \cup SenderPCs \cup ReceiverPCs \cup CloserPCs]
      /\ node \in [Threads -> Nodes \cup {Null}] /\ queue \in [Nodes -> Seq(Messages)]
      /\ qclosed \in [Nodes -> BOOLEAN] /\ nodes \in Nat /\ Nodes \subseteq Nat
      /\ Senders \subseteq Threads /\ nodes \in Nodes
  BY Loaded, Numbers DEF UnboundedInv, TypeOK, Roles, Threads
<1>b. \A u \in Threads \ {t} :
        /\ pc'[u] = pc[u] \/ (pc[u] = "r_sleep" /\ pc'[u] = "r_recv")
        /\ node'[u] = node[u]
  BY OthersStay
<1>c. ASSUME UNCHANGED <<nodes, queue>>, \A n \in Nodes : qclosed[n] => qclosed'[n],
             pc'[t] \notin {"s_free", "s_store"}
      PROVE  Ended'
  <2>1. ASSUME NEW s \in Senders, pc'[s] \in {"s_free", "s_store"} PROVE qclosed'[node'[s]]
    <3>1. pc[s] = pc'[s] /\ node'[s] = node[s]
      BY <1>a, <1>b, <1>c, <2>1
    <3>2. node[s] \in Nodes
      <4>1. node[s] \in Nodes \cup {Null} /\ node[s] # Null
        BY <1>a, <2>1, <3>1 DEF UnboundedInv, Frames, SenderPCs
      <4> QED
        BY <4>1
    <3> QED
      BY <1>c, <2>1, <3>1, <3>2
  <2> QED
    BY <1>c, <2>1
<1>1. CASE t \in Senders /\ \E m \in Messages : SendCall(t, m)
  <2>1. /\ UNCHANGED <<nodes, queue, qclosed>>
        /\ pc'[t] \notin {"s_free", "s_store"}
    BY <1>1, <1>a DEF SendCall, Move, Load
  <2> QED
    BY <1>c, <2>1
<1>2. CASE t \in Senders /\ SendLoadTail(t)
  <2>1. /\ UNCHANGED <<nodes, queue, qclosed>>
        /\ pc'[t] \notin {"s_free", "s_store"}
    BY <1>2, <1>a DEF SendLoadTail, Move, Load
  <2> QED
    BY <1>c, <2>1
<1>3. CASE t \in Senders /\ SendTry(t)
  <2>1. /\ pc[t] = "s_try" /\ pc'[t] \notin {"s_free", "s_store"} /\ node[t] \in Nodes
        /\ UNCHANGED <<nodes, qclosed, node>>
    BY <1>3, <1>a, AtNode DEF SendTry, Move
  <2>2. CASE queue' = queue
    BY <1>c, <2>1, <2>2
  <2>3. CASE ~qclosed[node[t]] /\ queue' = [queue EXCEPT ![node[t]] = Append(@, val[t])]
    <3>1. node[t] = nodes
      BY <1>3, <2>1, <2>3, OpenIsLast
    <3>2. \A s \in Senders : pc'[s] \in {"s_free", "s_store"} => pc[s] = pc'[s]
      BY <1>a, <1>b, <2>1
    <3> QED
      BY <1>a, <2>1, <2>3, <3>1, <3>2
  <2> QED
    BY <1>3, <2>2, <2>3 DEF SendTry
<1>4. CASE t \in Senders /\ SendPublish(t)
  <2>1. /\ UNCHANGED <<nodes, queue, qclosed>>
        /\ pc'[t] \notin {"s_free", "s_store"}
    BY <1>4, <1>a DEF SendPublish, Move
  <2> QED
    BY <1>c, <2>1
<1>5. CASE t \in Senders /\ SendWake(t)
  <2>1. /\ UNCHANGED <<nodes, queue, qclosed>>
        /\ pc'[t] \notin {"s_free", "s_store"}
    BY <1>5, <1>a DEF SendWake, PopFrame
  <2> QED
    BY <1>c, <2>1
<1>6. CASE t \in Senders /\ SendDisconnected(t)
  <2>1. /\ UNCHANGED <<nodes, queue, qclosed>>
        /\ pc'[t] \notin {"s_free", "s_store"}
    BY <1>6, <1>a DEF SendDisconnected, Move, PopFrame
  <2> QED
    BY <1>c, <2>1
<1>7. CASE t \in Senders /\ SendLink(t)
  <2>1. /\ UNCHANGED <<nodes, queue, qclosed>>
        /\ pc'[t] \notin {"s_free", "s_store"}
    BY <1>7, <1>a DEF SendLink, Move
  <2> QED
    BY <1>c, <2>1
<1>8. CASE t \in Senders /\ SendClose(t)
  <2>1. /\ pc[t] = "s_close" /\ qclosed' = [qclosed EXCEPT ![node[t]] = TRUE]
        /\ UNCHANGED <<nodes, queue, node>> /\ node[t] \in Nodes
    BY <1>8, AtNode DEF SendClose, Move
  <2>2. ASSUME NEW s \in Senders, pc'[s] \in {"s_free", "s_store"} PROVE qclosed'[node'[s]]
    BY <1>a, <1>b, <2>1, <2>2
  <2> QED
    BY <1>a, <2>1, <2>2
<1>9. CASE t \in Senders /\ SendFreeTemp(t)
  <2>1. pc[t] = "s_free" /\ UNCHANGED <<nodes, queue, qclosed, node>>
    BY <1>9 DEF SendFreeTemp, Move
  <2>2. ASSUME NEW s \in Senders, pc'[s] \in {"s_free", "s_store"} PROVE qclosed'[node'[s]]
    BY <1>a, <1>b, <2>1, <2>2
  <2> QED
    BY <2>1, <2>2
<1>10. CASE t \in Senders /\ SendStoreNext(t)
  <2>1. /\ pc[t] = "s_store" /\ pc'[t] = "s_tail" /\ nodes' = nodes + 1 /\ qclosed' = qclosed
        /\ queue' = [queue EXCEPT ![nodes + 1] = <<val[t]>>]
    BY <1>10, <1>a DEF SendStoreNext, Move
  <2>2. node[t] = nodes /\ nodes + 1 \in Nodes /\ qclosed[nodes]
    BY <1>10, <2>1, HolderIsLast
  <2>3. ASSUME NEW s \in Senders, pc'[s] \in {"s_free", "s_store"} PROVE qclosed'[node'[s]]
    BY <1>a, <1>b, <2>1, <2>3
  <2>4. ASSUME NEW n \in Nodes, n < nodes' PROVE qclosed'[n]
    BY <1>a, <2>1, <2>2, <2>4
  <2>5. ASSUME NEW n \in Nodes, n > nodes' PROVE queue'[n] = <<>>
    BY <1>a, <2>1, <2>2, <2>5
  <2> QED
    BY <2>3, <2>4, <2>5
<1>11. CASE t \in Senders /\ SendStoreTail(t)
  <2>1. /\ UNCHANGED <<nodes, queue, qclosed>>
        /\ pc'[t] \notin {"s_free", "s_store"}
    BY <1>11, <1>a DEF SendStoreTail, Move, PopFrame
  <2> QED
    BY <1>c, <2>1
<1>12. CASE t \in Receivers /\ RecvCall(t)
  <2>1. /\ UNCHANGED <<nodes, queue, qclosed>>
        /\ pc'[t] \notin {"s_free", "s_store"}
    BY <1>12, <1>a DEF RecvCall, Move, Load
  <2> QED
    BY <1>c, <2>1
<1>13. CASE t \in Receivers /\ RecvLoadHead(t)
  <2>1. /\ UNCHANGED <<nodes, queue, qclosed>>
        /\ pc'[t] \notin {"s_free", "s_store"}
    BY <1>13, <1>a DEF RecvLoadHead, Move, Load
  <2> QED
    BY <1>c, <2>1
<1>14. CASE t \in Receivers /\ RecvSelect(t)
  <2>1. UNCHANGED <<nodes, qclosed, node>> /\ pc'[t] \notin {"s_free", "s_store"}
    BY <1>14, <1>a DEF RecvSelect
  <2>2. CASE queue' = queue
    BY <1>c, <2>1, <2>2
  <2>3. CASE queue[node[t]] # <<>> /\ queue' = [queue EXCEPT ![node[t]] = Tail(@)]
    <3>1. ASSUME NEW n \in Nodes, n > nodes' PROVE queue'[n] = <<>>
      BY <1>a, <2>1, <2>3, <3>1
    <3>2. ASSUME NEW s \in Senders, pc'[s] \in {"s_free", "s_store"} PROVE qclosed'[node'[s]]
      BY <1>a, <1>b, <2>1, <3>2
    <3> QED
      BY <2>1, <3>1, <3>2
  <2> QED
    BY <1>14, <2>2, <2>3 DEF RecvSelect, Receivable
<1>15. CASE t \in Receivers /\ RecvLook(t)
  <2>1. /\ UNCHANGED <<nodes, queue, qclosed>>
        /\ pc'[t] \notin {"s_free", "s_store"}
    BY <1>15, <1>a DEF RecvLook, Move
  <2> QED
    BY <1>c, <2>1
<1>16. CASE t \in Receivers /\ RecvPark(t)
  <2>1. /\ UNCHANGED <<nodes, queue, qclosed>>
        /\ pc'[t] \notin {"s_free", "s_store"}
    BY <1>16, <1>a DEF RecvPark, Move
  <2> QED
    BY <1>c, <2>1
<1>17. CASE t \in Receivers /\ RecvReleased(t)
  <2>1. /\ UNCHANGED <<nodes, queue, qclosed>>
        /\ pc'[t] \notin {"s_free", "s_store"}
    BY <1>17, <1>a DEF RecvReleased, Move
  <2> QED
    BY <1>c, <2>1
<1>18. CASE t \in Receivers /\ RecvRelease(t)
  <2>1. /\ UNCHANGED <<nodes, queue, qclosed>>
        /\ pc'[t] \notin {"s_free", "s_store"}
    BY <1>18, <1>a DEF RecvRelease, Move, PopFrame
  <2> QED
    BY <1>c, <2>1
<1>19. CASE t \in Receivers /\ RecvErr(t)
  <2>1. /\ UNCHANGED <<nodes, queue, qclosed>>
        /\ pc'[t] \notin {"s_free", "s_store"}
    BY <1>19, <1>a DEF RecvErr, Move, PopFrame
  <2> QED
    BY <1>c, <2>1
<1>20. CASE t \in Receivers /\ RecvLoadNext(t)
  <2>1. /\ UNCHANGED <<nodes, queue, qclosed>>
        /\ pc'[t] \notin {"s_free", "s_store"}
    BY <1>20, <1>a DEF RecvLoadNext, Move
  <2> QED
    BY <1>c, <2>1
<1>21. CASE t \in Receivers /\ RecvLoadCap(t)
  <2>1. /\ UNCHANGED <<nodes, queue, qclosed>>
        /\ pc'[t] \notin {"s_free", "s_store"}
    BY <1>21, <1>a DEF RecvLoadCap, Move
  <2> QED
    BY <1>c, <2>1
<1>22. CASE t \in Receivers /\ RecvMoveHead(t)
  <2>1. /\ UNCHANGED <<nodes, queue, qclosed>>
        /\ pc'[t] \notin {"s_free", "s_store"}
    BY <1>22, <1>a DEF RecvMoveHead, Move
  <2> QED
    BY <1>c, <2>1
<1>23. CASE t \in Receivers /\ RecvFree(t)
  <2>1. /\ UNCHANGED <<nodes, queue, qclosed>>
        /\ pc'[t] \notin {"s_free", "s_store"}
    BY <1>23, <1>a DEF RecvFree, Move, PopFrame
  <2> QED
    BY <1>c, <2>1
<1>24. CASE t \in Closers /\ CloseCall(t)
  <2>1. /\ UNCHANGED <<nodes, queue, qclosed>>
        /\ pc'[t] \notin {"s_free", "s_store"}
    BY <1>24, <1>a DEF CloseCall, Move, Load
  <2> QED
    BY <1>c, <2>1
<1>25. CASE t \in Closers /\ CloseLoadTail(t)
  <2>1. /\ UNCHANGED <<nodes, queue, qclosed>>
        /\ pc'[t] \notin {"s_free", "s_store"}
    BY <1>25, <1>a DEF CloseLoadTail, Move, Load
  <2> QED
    BY <1>c, <2>1
<1>26. CASE t \in Closers /\ CloseLink(t)
  <2>1. /\ UNCHANGED <<nodes, queue, qclosed>>
        /\ pc'[t] \notin {"s_free", "s_store"}
    BY <1>26, <1>a DEF CloseLink, Move
  <2> QED
    BY <1>c, <2>1
<1>27. CASE t \in Closers /\ CloseFlag(t)
  <2>1. /\ UNCHANGED <<nodes, queue, qclosed>>
        /\ pc'[t] \notin {"s_free", "s_store"}
    BY <1>27, <1>a DEF CloseFlag, Move
  <2> QED
    BY <1>c, <2>1
<1>28. CASE t \in Closers /\ CloseLoadHead(t)
  <2>1. /\ UNCHANGED <<nodes, queue, qclosed>>
        /\ pc'[t] \notin {"s_free", "s_store"}
    BY <1>28, <1>a DEF CloseLoadHead, Move, Load
  <2> QED
    BY <1>c, <2>1
<1>29. CASE t \in Closers /\ CloseNode(t)
  <2>1. /\ UNCHANGED <<nodes, queue>> /\ pc'[t] \notin {"s_free", "s_store"}
        /\ qclosed' = [qclosed EXCEPT ![node[t]] = TRUE]
    BY <1>29, <1>a DEF CloseNode, Move
  <2> QED
    BY <1>a, <1>c, <2>1
<1>30. CASE t \in Closers /\ CloseLoadNext(t)
  <2>1. /\ UNCHANGED <<nodes, queue, qclosed>>
        /\ pc'[t] \notin {"s_free", "s_store"}
    BY <1>30, <1>a DEF CloseLoadNext, Move, Load
  <2> QED
    BY <1>c, <2>1
<1>31. CASE t \in Closers /\ CloseNextNode(t)
  <2>1. /\ UNCHANGED <<nodes, queue>> /\ pc'[t] \notin {"s_free", "s_store"}
        /\ qclosed' = [n \in Nodes |-> qclosed[n] \/ n = follow[t]]
    BY <1>31, <1>a DEF CloseNextNode, Move
  <2> QED
    BY <1>a, <1>c, <2>1
<1> QED
  BY <1>1, <1>2, <1>3, <1>4, <1>5, <1>6, <1>7, <1>8, <1>9, <1>10, <1>11, <1>12, <1>13,
     <1>14, <1>15, <1>16, <1>17, <1>18, <1>19, <1>20, <1>21, <1>22, <1>23, <1>24, <1>25,
     <1>26, <1>27, <1>28, <1>29, <1>30, <1>31
     DEF Acts, SenderStep, ReceiverStep, CloserStep

\* Head goes on node by node, and receivers do not get ahead of it.
LEMMA FollowingStep ==
  ASSUME UnboundedInv, ~broken, Following, NEW t \in Threads, Alive(t), Acts(t)
  PROVE  Following'
<1> USE DEF Following, list
<1>a. /\ pc \in [Threads -> {"idle"} \cup SenderPCs \cup ReceiverPCs \cup CloserPCs]
      /\ node \in [Threads -> Nodes \cup {Null}] /\ follow \in [Threads -> Links]
      /\ Receivers \subseteq Threads /\ head \in Nat
      /\ \A u \in Threads : node[u] \in Nat /\ follow[u] \in Nat
  BY Loaded DEF UnboundedInv, TypeOK, Roles, Threads
<1>b. \A u \in Threads \ {t} :
        /\ pc'[u] = pc[u] \/ (pc[u] = "r_sleep" /\ pc'[u] = "r_recv")
        /\ node'[u] = node[u] /\ follow'[u] = follow[u]
  BY OthersStay
<1>c. ASSUME head' \in Nat, head <= head',
             t \in Receivers /\ pc'[t] \in ReceiverPCs \ {"r_load"} => node'[t] <= head',
             t \in Receivers /\ pc'[t] \in {"r_cap", "r_move"} /\ follow'[t] \in Nodes =>
               follow'[t] = node'[t] + 1
      PROVE  Following'
  <2>1. ASSUME NEW r \in Receivers, pc'[r] \in ReceiverPCs \ {"r_load"}
        PROVE  node'[r] <= head'
    <3>1. CASE r = t
      BY <1>c, <2>1, <3>1
    <3>2. CASE r # t
      <4>1. pc[r] \in ReceiverPCs \ {"r_load"} /\ node'[r] = node[r]
        BY <1>a, <1>b, <2>1, <3>2 DEF ReceiverPCs
      <4>2. node[r] <= head /\ node[r] \in Nat
        BY <1>a, <4>1
      <4> QED
        BY <1>a, <1>c, <4>1, <4>2
    <3> QED
      BY <3>1, <3>2
  <2>2. ASSUME NEW r \in Receivers, pc'[r] \in {"r_cap", "r_move"}, follow'[r] \in Nodes
        PROVE  follow'[r] = node'[r] + 1
    BY <1>a, <1>b, <1>c, <2>2
  <2> QED
    BY <2>1, <2>2
<1>d. ASSUME UNCHANGED <<head, node, follow>>,
             t \in Receivers /\ pc'[t] \in ReceiverPCs \ {"r_load"} =>
               pc[t] \in ReceiverPCs \ {"r_load"},
             t \in Receivers /\ pc'[t] \in {"r_cap", "r_move"} => pc[t] \in {"r_cap", "r_move"}
      PROVE  Following'
  BY <1>a, <1>c, <1>d
<1>1. CASE t \in Senders /\ \E m \in Messages : SendCall(t, m)
  <2>1. head' = head /\ pc'[t] \notin ReceiverPCs \ {"r_load"}
    BY <1>1, <1>a DEF SendCall, Move, Load, ReceiverPCs
  <2> QED
    BY <1>a, <1>c, <2>1 DEF ReceiverPCs
<1>2. CASE t \in Senders /\ SendLoadTail(t)
  <2>1. head' = head /\ pc'[t] \notin ReceiverPCs \ {"r_load"}
    BY <1>2, <1>a DEF SendLoadTail, Move, Load, ReceiverPCs
  <2> QED
    BY <1>a, <1>c, <2>1 DEF ReceiverPCs
<1>3. CASE t \in Senders /\ SendTry(t)
  <2>1. head' = head /\ pc'[t] \notin ReceiverPCs \ {"r_load"}
    BY <1>3, <1>a DEF SendTry, Move, ReceiverPCs
  <2> QED
    BY <1>a, <1>c, <2>1 DEF ReceiverPCs
<1>4. CASE t \in Senders /\ SendPublish(t)
  <2>1. head' = head /\ pc'[t] \notin ReceiverPCs \ {"r_load"}
    BY <1>4, <1>a DEF SendPublish, Move, ReceiverPCs
  <2> QED
    BY <1>a, <1>c, <2>1 DEF ReceiverPCs
<1>5. CASE t \in Senders /\ SendWake(t)
  <2>1. head' = head /\ pc'[t] \notin ReceiverPCs \ {"r_load"}
    BY <1>5, <1>a DEF SendWake, PopFrame, ReceiverPCs
  <2> QED
    BY <1>a, <1>c, <2>1 DEF ReceiverPCs
<1>6. CASE t \in Senders /\ SendDisconnected(t)
  <2>1. head' = head /\ pc'[t] \notin ReceiverPCs \ {"r_load"}
    BY <1>6, <1>a DEF SendDisconnected, Move, PopFrame, ReceiverPCs
  <2> QED
    BY <1>a, <1>c, <2>1 DEF ReceiverPCs
<1>7. CASE t \in Senders /\ SendLink(t)
  <2>1. head' = head /\ pc'[t] \notin ReceiverPCs \ {"r_load"}
    BY <1>7, <1>a DEF SendLink, Move, ReceiverPCs
  <2> QED
    BY <1>a, <1>c, <2>1 DEF ReceiverPCs
<1>8. CASE t \in Senders /\ SendClose(t)
  <2>1. head' = head /\ pc'[t] \notin ReceiverPCs \ {"r_load"}
    BY <1>8, <1>a DEF SendClose, Move, ReceiverPCs
  <2> QED
    BY <1>a, <1>c, <2>1 DEF ReceiverPCs
<1>9. CASE t \in Senders /\ SendFreeTemp(t)
  <2>1. head' = head /\ pc'[t] \notin ReceiverPCs \ {"r_load"}
    BY <1>9, <1>a DEF SendFreeTemp, Move, ReceiverPCs
  <2> QED
    BY <1>a, <1>c, <2>1 DEF ReceiverPCs
<1>10. CASE t \in Senders /\ SendStoreNext(t)
  <2>1. head' = head /\ pc'[t] \notin ReceiverPCs \ {"r_load"}
    BY <1>10, <1>a DEF SendStoreNext, Move, Load, ReceiverPCs
  <2> QED
    BY <1>a, <1>c, <2>1 DEF ReceiverPCs
<1>11. CASE t \in Senders /\ SendStoreTail(t)
  <2>1. head' = head /\ pc'[t] \notin ReceiverPCs \ {"r_load"}
    BY <1>11, <1>a DEF SendStoreTail, Move, PopFrame, ReceiverPCs
  <2> QED
    BY <1>a, <1>c, <2>1 DEF ReceiverPCs
<1>12. CASE t \in Receivers /\ RecvCall(t)
  <2>1. head' = head /\ node'[t] = head /\ pc'[t] = "r_recv"
    BY <1>12, <1>a DEF RecvCall, Move, Load
  <2> QED
    BY <1>a, <1>c, <2>1
<1>13. CASE t \in Receivers /\ RecvLoadHead(t)
  <2>1. head' = head /\ node'[t] = head /\ pc'[t] = "r_recv"
    BY <1>13, <1>a DEF RecvLoadHead, Move, Load
  <2> QED
    BY <1>a, <1>c, <2>1
<1>14. CASE t \in Receivers /\ RecvSelect(t)
  <2>1. /\ UNCHANGED <<head, node, follow>>
        /\ pc[t] \in ReceiverPCs \ {"r_load"} /\ pc'[t] \notin {"r_cap", "r_move"}
    BY <1>14, <1>a DEF RecvSelect, ReceiverPCs
  <2> QED
    BY <1>d, <2>1
<1>15. CASE t \in Receivers /\ RecvLook(t)
  <2>1. /\ UNCHANGED <<head, node, follow>>
        /\ pc[t] \in ReceiverPCs \ {"r_load"} /\ pc'[t] \notin {"r_cap", "r_move"}
    BY <1>15, <1>a DEF RecvLook, Move, ReceiverPCs
  <2> QED
    BY <1>d, <2>1
<1>16. CASE t \in Receivers /\ RecvPark(t)
  <2>1. /\ UNCHANGED <<head, node, follow>>
        /\ pc[t] \in ReceiverPCs \ {"r_load"} /\ pc'[t] \notin {"r_cap", "r_move"}
    BY <1>16, <1>a DEF RecvPark, Move, ReceiverPCs
  <2> QED
    BY <1>d, <2>1
<1>17. CASE t \in Receivers /\ RecvReleased(t)
  <2>1. /\ UNCHANGED <<head, node, follow>>
        /\ pc[t] \in ReceiverPCs \ {"r_load"} /\ pc'[t] \notin {"r_cap", "r_move"}
    BY <1>17, <1>a DEF RecvReleased, Move, ReceiverPCs
  <2> QED
    BY <1>d, <2>1
<1>18. CASE t \in Receivers /\ RecvRelease(t)
  <2>1. head' = head /\ pc'[t] \notin ReceiverPCs \ {"r_load"}
    BY <1>18, <1>a DEF RecvRelease, Move, PopFrame, ReceiverPCs
  <2> QED
    BY <1>a, <1>c, <2>1 DEF ReceiverPCs
<1>19. CASE t \in Receivers /\ RecvErr(t)
  <2>1. CASE pc'[t] = "idle" /\ head' = head
    BY <1>a, <1>c, <2>1 DEF ReceiverPCs
  <2>2. CASE /\ pc[t] = "r_err" /\ pc'[t] = "r_next"
             /\ UNCHANGED <<head, node, follow>>
    BY <1>d, <2>2 DEF ReceiverPCs
  <2> QED
    BY <1>19, <1>a, <2>1, <2>2 DEF RecvErr, Move
<1>20. CASE t \in Receivers /\ RecvLoadNext(t)
  <2>1. /\ pc[t] = "r_next" /\ pc'[t] = "r_cap" /\ follow'[t] = next[node[t]]
        /\ UNCHANGED <<head, node>> /\ node[t] \in Nodes
    BY <1>20, <1>a, AtNode DEF RecvLoadNext, Move
  <2>2. node'[t] <= head'
    BY <1>20, <2>1 DEF ReceiverPCs
  <2>3. follow'[t] \in Nodes => follow'[t] = node'[t] + 1
    BY <2>1, Ends
  <2> QED
    BY <1>a, <1>c, <2>1, <2>2, <2>3
<1>21. CASE t \in Receivers /\ RecvLoadCap(t)
  <2>1. /\ pc[t] = "r_cap" /\ pc'[t] \in {"r_move", "r_next"}
        /\ UNCHANGED <<head, node, follow>>
    BY <1>21, <1>a DEF RecvLoadCap, Move
  <2> QED
    BY <1>d, <2>1 DEF ReceiverPCs
<1>22. CASE t \in Receivers /\ RecvMoveHead(t)
  <2>1. /\ pc[t] = "r_move" /\ UNCHANGED <<node, follow>>
        /\ follow[t] = node[t] + 1 /\ pc'[t] \in {"r_free", "r_load"}
    BY <1>22, <1>a DEF RecvMoveHead, Move, UnboundedInv, Frames
  <2>2. CASE head' = head
    BY <1>d, <2>1, <2>2 DEF ReceiverPCs
  <2>3. CASE head = node[t] /\ head' = follow[t]
    BY <1>a, <1>c, <2>1, <2>3
  <2> QED
    BY <1>22, <2>2, <2>3 DEF RecvMoveHead
<1>23. CASE t \in Receivers /\ RecvFree(t)
  <2>1. head' = head /\ pc'[t] \notin ReceiverPCs \ {"r_load"}
    BY <1>23, <1>a DEF RecvFree, Move, PopFrame, ReceiverPCs
  <2> QED
    BY <1>a, <1>c, <2>1 DEF ReceiverPCs
<1>24. CASE t \in Closers /\ CloseCall(t)
  <2>1. head' = head /\ pc'[t] \notin ReceiverPCs \ {"r_load"}
    BY <1>24, <1>a DEF CloseCall, Move, Load, ReceiverPCs
  <2> QED
    BY <1>a, <1>c, <2>1 DEF ReceiverPCs
<1>25. CASE t \in Closers /\ CloseLoadTail(t)
  <2>1. head' = head /\ pc'[t] \notin ReceiverPCs \ {"r_load"}
    BY <1>25, <1>a DEF CloseLoadTail, Move, Load, ReceiverPCs
  <2> QED
    BY <1>a, <1>c, <2>1 DEF ReceiverPCs
<1>26. CASE t \in Closers /\ CloseLink(t)
  <2>1. head' = head /\ pc'[t] \notin ReceiverPCs \ {"r_load"}
    BY <1>26, <1>a DEF CloseLink, Move, ReceiverPCs
  <2> QED
    BY <1>a, <1>c, <2>1 DEF ReceiverPCs
<1>27. CASE t \in Closers /\ CloseFlag(t)
  <2>1. head' = head /\ pc'[t] \notin ReceiverPCs \ {"r_load"}
    BY <1>27, <1>a DEF CloseFlag, Move, ReceiverPCs
  <2> QED
    BY <1>a, <1>c, <2>1 DEF ReceiverPCs
<1>28. CASE t \in Closers /\ CloseLoadHead(t)
  <2>1. head' = head /\ pc'[t] \notin ReceiverPCs \ {"r_load"}
    BY <1>28, <1>a DEF CloseLoadHead, Move, Load, ReceiverPCs
  <2> QED
    BY <1>a, <1>c, <2>1 DEF ReceiverPCs
<1>29. CASE t \in Closers /\ CloseNode(t)
  <2>1. head' = head /\ pc'[t] \notin ReceiverPCs \ {"r_load"}
    BY <1>29, <1>a DEF CloseNode, Move, ReceiverPCs
  <2> QED
    BY <1>a, <1>c, <2>1 DEF ReceiverPCs
<1>30. CASE t \in Closers /\ CloseLoadNext(t)
  <2>1. head' = head /\ pc'[t] \notin ReceiverPCs \ {"r_load"}
    BY <1>30, <1>a DEF CloseLoadNext, Move, Load, ReceiverPCs
  <2> QED
    BY <1>a, <1>c, <2>1 DEF ReceiverPCs
<1>31. CASE t \in Closers /\ CloseNextNode(t)
  <2>1. head' = head /\ pc'[t] \notin ReceiverPCs \ {"r_load"}
    BY <1>31, <1>a DEF CloseNextNode, Move, PopFrame, ReceiverPCs
  <2> QED
    BY <1>a, <1>c, <2>1 DEF ReceiverPCs
<1> QED
  BY <1>1, <1>2, <1>3, <1>4, <1>5, <1>6, <1>7, <1>8, <1>9, <1>10, <1>11, <1>12, <1>13,
     <1>14, <1>15, <1>16, <1>17, <1>18, <1>19, <1>20, <1>21, <1>22, <1>23, <1>24, <1>25,
     <1>26, <1>27, <1>28, <1>29, <1>30, <1>31
     DEF Acts, SenderStep, ReceiverStep, CloserStep

-----------------------------------------------------------------------------
(* The channel                                                             *)

\* The messages that no queue has accepted.
Unsent == Cardinality(todo) + Cardinality(Carrying)

\* There are never more messages than there are to send.
Room == Unsent + Len(Pending) <= MaxMessages

\* What a step can do to the channel: nothing, accept a message, or hand one over.
Stays == Pending' = Pending /\ Delivered' = Delivered
Gains(m) == /\ Pending' = Append(Pending, m) /\ Delivered' = Delivered
            /\ Unsent' + 1 <= Unsent
Loses(r) == /\ Pending # <<>>
            /\ Pending' = Tail(Pending)
            /\ Delivered' = [Delivered EXCEPT ![r] = Append(@, Head(Pending))]

\* The pending messages are those of the nodes from head on,
LEMMA PendingIsShares ==
  /\ Pending = FlattenSeq(Shares(head, nodes, queue))
  /\ Pending' = FlattenSeq(Shares(head', nodes', queue'))
BY DEF Pending, Shares

\* a sequence of messages.
LEMMA PendingType == UnboundedInv => Pending \in Seq(Messages)
<1> SUFFICES ASSUME UnboundedInv PROVE Pending \in Seq(Messages)
  OBVIOUS
<1>1. head \in Nodes /\ nodes \in Nodes /\ head <= nodes /\ queue \in [Nodes -> Seq(Messages)]
  BY DEF UnboundedInv, TypeOK, Frames
<1>2. Shares(head, nodes, queue) \in Seq(Seq(Messages)) /\ Len(Shares(head, nodes, queue)) > 0
  BY <1>1, SharesType
<1> QED
  BY <1>2, FlattenType, PendingIsShares

\* Both counts are numbers.
LEMMA UnsentType == UnboundedInv => /\ Cardinality(todo) \in Nat /\ IsFiniteSet(todo)
                                    /\ Cardinality(Carrying) \in Nat /\ Unsent \in Nat
<1> SUFFICES ASSUME UnboundedInv
             PROVE  /\ Cardinality(todo) \in Nat /\ IsFiniteSet(todo)
                    /\ Cardinality(Carrying) \in Nat /\ Unsent \in Nat
  OBVIOUS
<1>1. IsFiniteSet(todo) /\ IsFiniteSet(Carrying)
  BY TodoFinite DEF UnboundedInv, Budget
<1> QED
  BY <1>1, FS_CardinalityType DEF Unsent

\* A message leaves the count when a queue accepts it, and comes back with a send that
\* is disconnected.
LEMMA UnsentStep ==
  ASSUME UnboundedInv, ~broken, NEW t \in Threads, Alive(t), Acts(t)
  PROVE  /\ Unsent' <= Unsent
         /\ t \in Senders /\ pc[t] \in {"s_try", "s_store"}
              /\ pc'[t] \in {"s_publish", "s_tail"} => Unsent' + 1 <= Unsent
<1> DEFINE Carries == {"s_load", "s_try", "s_disconnected", "s_link", "s_close", "s_free",
                       "s_store"}
<1>a. /\ pc \in [Threads -> {"idle"} \cup SenderPCs \cup ReceiverPCs \cup CloserPCs]
      /\ Senders \subseteq Threads
      /\ IsFiniteSet(todo) /\ Cardinality(todo) \in Nat /\ Cardinality(Carrying) \in Nat
  BY UnsentType DEF UnboundedInv, Roles, Threads
<1>b. /\ t \in Carrying <=> t \in Senders /\ pc[t] \in Carries
      /\ t \in Carrying' <=> t \in Senders /\ pc'[t] \in Carries
  BY DEF Carrying, SenderPCs
<1>c. ASSUME todo' = todo, t \in Senders /\ pc'[t] \in Carries => pc[t] \in Carries
      PROVE  /\ Unsent' <= Unsent
             /\ t \in Senders /\ pc[t] \in {"s_try", "s_store"}
                  /\ pc'[t] \in {"s_publish", "s_tail"} => Unsent' + 1 <= Unsent
  <2>1. CASE t \in Carrying /\ t \notin Carrying'
    <3>1. Cardinality(Carrying') = Cardinality(Carrying) - 1
      BY <2>1, CarryingMoves
    <3>2. Unsent' + 1 <= Unsent
      BY <1>a, <1>c, <3>1 DEF Unsent
    <3>3. Unsent' <= Unsent
      BY <1>a, <1>c, <3>1 DEF Unsent
    <3> QED
      BY <3>2, <3>3
  <2>2. CASE t \in Carrying <=> t \in Carrying'
    <3>1. Carrying' = Carrying
      BY <2>2, CarryingMoves
    <3>2. Unsent' <= Unsent
      BY <1>a, <1>c, <3>1 DEF Unsent
    <3>3. ~(/\ t \in Senders /\ pc[t] \in {"s_try", "s_store"}
            /\ pc'[t] \in {"s_publish", "s_tail"})
      BY <1>b, <2>2
    <3> QED
      BY <3>2, <3>3
  <2> QED
    BY <1>b, <1>c, <2>1, <2>2
<1>1. CASE t \in Senders /\ \E m \in Messages : SendCall(t, m)
  <2>1. PICK m \in todo : todo' = todo \ {m} /\ pc[t] = "idle" /\ pc'[t] = "s_try"
    BY <1>1, <1>a DEF SendCall, Move
  <2>2. Cardinality(todo') = Cardinality(todo) - 1
    BY <1>a, <2>1, FS_RemoveElement
  <2>3. Cardinality(Carrying') = Cardinality(Carrying) + 1
    BY <1>1, <1>b, <2>1, CarryingMoves
  <2> QED
    BY <1>a, <2>1, <2>2, <2>3 DEF Unsent
<1>2. CASE t \in Senders /\ SendLoadTail(t)
  <2>1. todo' = todo /\ (t \in Senders /\ pc'[t] \in Carries => pc[t] \in Carries)
    BY <1>2, <1>a DEF SendLoadTail, Move, Load, ends
  <2> QED
    BY <1>c, <2>1
<1>3. CASE t \in Senders /\ SendTry(t)
  <2>1. todo' = todo /\ (t \in Senders /\ pc'[t] \in Carries => pc[t] \in Carries)
    BY <1>3, <1>a DEF SendTry, Move, ends
  <2> QED
    BY <1>c, <2>1
<1>4. CASE t \in Senders /\ SendPublish(t)
  <2>1. todo' = todo /\ (t \in Senders /\ pc'[t] \in Carries => pc[t] \in Carries)
    BY <1>4, <1>a DEF SendPublish, Move, ends
  <2> QED
    BY <1>c, <2>1
<1>5. CASE t \in Senders /\ SendWake(t)
  <2>1. todo' = todo /\ (t \in Senders /\ pc'[t] \in Carries => pc[t] \in Carries)
    BY <1>5, <1>a DEF SendWake, PopFrame, ends
  <2> QED
    BY <1>c, <2>1
<1>6. CASE t \in Senders /\ SendDisconnected(t)
  <2>1. CASE todo' = todo /\ pc[t] = "s_disconnected"
    BY <1>c, <2>1
  <2>2. CASE /\ pc[t] = "s_disconnected" /\ pc'[t] = "idle"
             /\ todo' = todo \cup {val[t]}
    <3>1. Cardinality(todo') \in {Cardinality(todo), Cardinality(todo) + 1}
      BY <1>a, <2>2, FS_AddElement
    <3>2. Cardinality(Carrying') = Cardinality(Carrying) - 1
      BY <1>6, <1>b, <2>2, CarryingMoves
    <3> QED
      BY <1>a, <2>2, <3>1, <3>2 DEF Unsent
  <2> QED
    BY <1>6, <1>a, <2>1, <2>2 DEF SendDisconnected, Move
<1>7. CASE t \in Senders /\ SendLink(t)
  <2>1. todo' = todo /\ (t \in Senders /\ pc'[t] \in Carries => pc[t] \in Carries)
    BY <1>7, <1>a DEF SendLink, Move, ends
  <2> QED
    BY <1>c, <2>1
<1>8. CASE t \in Senders /\ SendClose(t)
  <2>1. todo' = todo /\ (t \in Senders /\ pc'[t] \in Carries => pc[t] \in Carries)
    BY <1>8, <1>a DEF SendClose, Move, ends
  <2> QED
    BY <1>c, <2>1
<1>9. CASE t \in Senders /\ SendFreeTemp(t)
  <2>1. todo' = todo /\ (t \in Senders /\ pc'[t] \in Carries => pc[t] \in Carries)
    BY <1>9, <1>a DEF SendFreeTemp, Move, ends
  <2> QED
    BY <1>c, <2>1
<1>10. CASE t \in Senders /\ SendStoreNext(t)
  <2>1. todo' = todo /\ (t \in Senders /\ pc'[t] \in Carries => pc[t] \in Carries)
    BY <1>10, <1>a DEF SendStoreNext, Move, Load, ends
  <2> QED
    BY <1>c, <2>1
<1>11. CASE t \in Senders /\ SendStoreTail(t)
  <2>1. todo' = todo /\ (t \in Senders /\ pc'[t] \in Carries => pc[t] \in Carries)
    BY <1>11, <1>a DEF SendStoreTail, Move, PopFrame, ends
  <2> QED
    BY <1>c, <2>1
<1>12. CASE t \in Receivers /\ RecvCall(t)
  <2>1. todo' = todo /\ (t \in Senders /\ pc'[t] \in Carries => pc[t] \in Carries)
    BY <1>12, <1>a DEF RecvCall, Move, Load, ends
  <2> QED
    BY <1>c, <2>1
<1>13. CASE t \in Receivers /\ RecvLoadHead(t)
  <2>1. todo' = todo /\ (t \in Senders /\ pc'[t] \in Carries => pc[t] \in Carries)
    BY <1>13, <1>a DEF RecvLoadHead, Move, Load, ends
  <2> QED
    BY <1>c, <2>1
<1>14. CASE t \in Receivers /\ RecvSelect(t)
  <2>1. todo' = todo /\ (t \in Senders /\ pc'[t] \in Carries => pc[t] \in Carries)
    BY <1>14, <1>a DEF RecvSelect, ends
  <2> QED
    BY <1>c, <2>1
<1>15. CASE t \in Receivers /\ RecvLook(t)
  <2>1. todo' = todo /\ (t \in Senders /\ pc'[t] \in Carries => pc[t] \in Carries)
    BY <1>15, <1>a DEF RecvLook, Move, ends
  <2> QED
    BY <1>c, <2>1
<1>16. CASE t \in Receivers /\ RecvPark(t)
  <2>1. todo' = todo /\ (t \in Senders /\ pc'[t] \in Carries => pc[t] \in Carries)
    BY <1>16, <1>a DEF RecvPark, Move, ends
  <2> QED
    BY <1>c, <2>1
<1>17. CASE t \in Receivers /\ RecvReleased(t)
  <2>1. todo' = todo /\ (t \in Senders /\ pc'[t] \in Carries => pc[t] \in Carries)
    BY <1>17, <1>a DEF RecvReleased, Move, ends
  <2> QED
    BY <1>c, <2>1
<1>18. CASE t \in Receivers /\ RecvRelease(t)
  <2>1. todo' = todo /\ (t \in Senders /\ pc'[t] \in Carries => pc[t] \in Carries)
    BY <1>18, <1>a DEF RecvRelease, Move, PopFrame, ends
  <2> QED
    BY <1>c, <2>1
<1>19. CASE t \in Receivers /\ RecvErr(t)
  <2>1. todo' = todo /\ (t \in Senders /\ pc'[t] \in Carries => pc[t] \in Carries)
    BY <1>19, <1>a DEF RecvErr, Move, PopFrame, ends
  <2> QED
    BY <1>c, <2>1
<1>20. CASE t \in Receivers /\ RecvLoadNext(t)
  <2>1. todo' = todo /\ (t \in Senders /\ pc'[t] \in Carries => pc[t] \in Carries)
    BY <1>20, <1>a DEF RecvLoadNext, Move, ends
  <2> QED
    BY <1>c, <2>1
<1>21. CASE t \in Receivers /\ RecvLoadCap(t)
  <2>1. todo' = todo /\ (t \in Senders /\ pc'[t] \in Carries => pc[t] \in Carries)
    BY <1>21, <1>a DEF RecvLoadCap, Move, ends
  <2> QED
    BY <1>c, <2>1
<1>22. CASE t \in Receivers /\ RecvMoveHead(t)
  <2>1. todo' = todo /\ (t \in Senders /\ pc'[t] \in Carries => pc[t] \in Carries)
    BY <1>22, <1>a DEF RecvMoveHead, Move, ends
  <2> QED
    BY <1>c, <2>1
<1>23. CASE t \in Receivers /\ RecvFree(t)
  <2>1. todo' = todo /\ (t \in Senders /\ pc'[t] \in Carries => pc[t] \in Carries)
    BY <1>23, <1>a DEF RecvFree, Move, PopFrame, ends
  <2> QED
    BY <1>c, <2>1
<1>24. CASE t \in Closers /\ CloseCall(t)
  <2>1. todo' = todo /\ (t \in Senders /\ pc'[t] \in Carries => pc[t] \in Carries)
    BY <1>24, <1>a DEF CloseCall, Move, Load, ends
  <2> QED
    BY <1>c, <2>1
<1>25. CASE t \in Closers /\ CloseLoadTail(t)
  <2>1. todo' = todo /\ (t \in Senders /\ pc'[t] \in Carries => pc[t] \in Carries)
    BY <1>25, <1>a DEF CloseLoadTail, Move, Load, ends
  <2> QED
    BY <1>c, <2>1
<1>26. CASE t \in Closers /\ CloseLink(t)
  <2>1. todo' = todo /\ (t \in Senders /\ pc'[t] \in Carries => pc[t] \in Carries)
    BY <1>26, <1>a DEF CloseLink, Move, ends
  <2> QED
    BY <1>c, <2>1
<1>27. CASE t \in Closers /\ CloseFlag(t)
  <2>1. todo' = todo /\ (t \in Senders /\ pc'[t] \in Carries => pc[t] \in Carries)
    BY <1>27, <1>a DEF CloseFlag, Move, ends
  <2> QED
    BY <1>c, <2>1
<1>28. CASE t \in Closers /\ CloseLoadHead(t)
  <2>1. todo' = todo /\ (t \in Senders /\ pc'[t] \in Carries => pc[t] \in Carries)
    BY <1>28, <1>a DEF CloseLoadHead, Move, Load, ends
  <2> QED
    BY <1>c, <2>1
<1>29. CASE t \in Closers /\ CloseNode(t)
  <2>1. todo' = todo /\ (t \in Senders /\ pc'[t] \in Carries => pc[t] \in Carries)
    BY <1>29, <1>a DEF CloseNode, Move, ends
  <2> QED
    BY <1>c, <2>1
<1>30. CASE t \in Closers /\ CloseLoadNext(t)
  <2>1. todo' = todo /\ (t \in Senders /\ pc'[t] \in Carries => pc[t] \in Carries)
    BY <1>30, <1>a DEF CloseLoadNext, Move, Load, ends
  <2> QED
    BY <1>c, <2>1
<1>31. CASE t \in Closers /\ CloseNextNode(t)
  <2>1. todo' = todo /\ (t \in Senders /\ pc'[t] \in Carries => pc[t] \in Carries)
    BY <1>31, <1>a DEF CloseNextNode, Move, PopFrame, ends
  <2> QED
    BY <1>c, <2>1
<1> QED
  BY <1>1, <1>2, <1>3, <1>4, <1>5, <1>6, <1>7, <1>8, <1>9, <1>10, <1>11, <1>12, <1>13,
     <1>14, <1>15, <1>16, <1>17, <1>18, <1>19, <1>20, <1>21, <1>22, <1>23, <1>24, <1>25,
     <1>26, <1>27, <1>28, <1>29, <1>30, <1>31
     DEF Acts, SenderStep, ReceiverStep, CloserStep

\* Only a claim and the end of a receive touch what was delivered, and the latter only
\* writes down what the claim has taken.
LEMMA DeliveredSame ==
  ASSUME UnboundedInv, ~broken, NEW t \in Threads, Alive(t), Acts(t),
         got' = got, pc[t] # "r_read", pc'[t] # "r_read"
  PROVE  Delivered' = Delivered
<1>1. \A u \in Threads \ {t} :
        /\ pc'[u] = pc[u] \/ (pc[u] = "r_sleep" /\ pc'[u] = "r_recv")
        /\ val'[u] = val[u]
  BY OthersStay
<1>2. \A r \in Receivers : (pc'[r] = "r_read" <=> pc[r] = "r_read")
                           /\ (pc[r] = "r_read" => val'[r] = val[r])
  BY <1>1 DEF Threads
<1> QED
  BY <1>2 DEF Delivered

\* Whatever thread acts, the channel stays, gains a message or loses its first, unless
\* head leaves a message behind.
LEMMA EveryStep ==
  ASSUME ChainInv, ~broken, NEW t \in Threads, Alive(t), Acts(t)
  PROVE  \/ broken' \/ Stays
         \/ \E m \in Messages : Gains(m)
         \/ \E r \in Receivers : Loses(r)
<1> USE DEF list, queues, ends
<1>a. /\ pc \in [Threads -> {"idle"} \cup SenderPCs \cup ReceiverPCs \cup CloserPCs]
      /\ node \in [Threads -> Nodes \cup {Null}] /\ queue \in [Nodes -> Seq(Messages)]
      /\ head \in Nodes /\ nodes \in Nodes /\ head <= nodes /\ Nodes \subseteq Nat
      /\ Receivers \subseteq Threads /\ val \in [Threads -> Messages \cup {NoMsg}]
      /\ got \in [Receivers -> Seq(Messages)]
      /\ UnboundedInv /\ Ended /\ Following /\ Drained
  BY Numbers DEF ChainInv, UnboundedInv, TypeOK, Roles, Threads, Frames
<1>b. ASSUME UNCHANGED <<head, nodes, queue, got>>, pc[t] # "r_read", pc'[t] # "r_read"
      PROVE  Stays
  <2>1. Delivered' = Delivered
    BY <1>a, <1>b, DeliveredSame
  <2>2. Pending' = Pending
    BY <1>b DEF Pending
  <2> QED
    BY <2>1, <2>2 DEF Stays
<1>c. Pending = FlattenSeq(Shares(head, nodes, queue))
      /\ Pending' = FlattenSeq(Shares(head', nodes', queue'))
  BY PendingIsShares
<1>1. CASE t \in Senders /\ \E m \in Messages : SendCall(t, m)
  <2>1. UNCHANGED <<head, nodes, queue, got>> /\ pc[t] # "r_read" /\ pc'[t] # "r_read"
    BY <1>1, <1>a DEF SendCall, Move, Load
  <2> QED
    BY <1>b, <2>1
<1>2. CASE t \in Senders /\ SendLoadTail(t)
  <2>1. UNCHANGED <<head, nodes, queue, got>> /\ pc[t] # "r_read" /\ pc'[t] # "r_read"
    BY <1>2, <1>a DEF SendLoadTail, Move, Load
  <2> QED
    BY <1>b, <2>1
<1>3. CASE t \in Senders /\ SendTry(t)
  <2>1. /\ pc[t] = "s_try" /\ pc'[t] \in {"s_disconnected", "s_publish", "s_link"}
        /\ UNCHANGED <<head, nodes, got>> /\ node[t] \in Nodes
    BY <1>3, <1>a, AtNode DEF SendTry, Move
  <2>2. CASE queue' = queue
    BY <1>b, <2>1, <2>2
  <2>3. CASE /\ ~qclosed[node[t]] /\ pc'[t] = "s_publish"
             /\ queue' = [queue EXCEPT ![node[t]] = Append(@, val[t])]
    <3>1. node[t] = nodes
      BY <1>3, <1>a, <2>1, <2>3, OpenIsLast
    <3>2. val[t] \in Messages
      BY <1>a, <2>1 DEF UnboundedInv, Frames, SenderPCs
    <3>3. Pending' = Append(Pending, val[t])
      <4>1. queue' = Put(queue, nodes, val[t])
        BY <2>3, <3>1 DEF Put
      <4>2. FlattenSeq(Shares(head, nodes, queue')) =
              Append(FlattenSeq(Shares(head, nodes, queue)), val[t])
        BY <1>a, <3>2, <4>1, SharesAppend
      <4> QED
        BY <1>c, <2>1, <4>2
    <3>4. Delivered' = Delivered
      BY <1>a, <2>1, DeliveredSame
    <3>5. Unsent' + 1 <= Unsent
      BY <1>3, <1>a, <2>1, <2>3, UnsentStep
    <3> QED
      BY <3>2, <3>3, <3>4, <3>5 DEF Gains
  <2> QED
    BY <1>3, <1>a, <2>2, <2>3 DEF SendTry, Move
<1>4. CASE t \in Senders /\ SendPublish(t)
  <2>1. UNCHANGED <<head, nodes, queue, got>> /\ pc[t] # "r_read" /\ pc'[t] # "r_read"
    BY <1>4, <1>a DEF SendPublish, Move
  <2> QED
    BY <1>b, <2>1
<1>5. CASE t \in Senders /\ SendWake(t)
  <2>1. UNCHANGED <<head, nodes, queue, got>> /\ pc[t] # "r_read" /\ pc'[t] # "r_read"
    BY <1>5, <1>a DEF SendWake, PopFrame
  <2> QED
    BY <1>b, <2>1
<1>6. CASE t \in Senders /\ SendDisconnected(t)
  <2>1. UNCHANGED <<head, nodes, queue, got>> /\ pc[t] # "r_read" /\ pc'[t] # "r_read"
    BY <1>6, <1>a DEF SendDisconnected, Move, PopFrame
  <2> QED
    BY <1>b, <2>1
<1>7. CASE t \in Senders /\ SendLink(t)
  <2>1. UNCHANGED <<head, nodes, queue, got>> /\ pc[t] # "r_read" /\ pc'[t] # "r_read"
    BY <1>7, <1>a DEF SendLink, Move
  <2> QED
    BY <1>b, <2>1
<1>8. CASE t \in Senders /\ SendClose(t)
  <2>1. UNCHANGED <<head, nodes, queue, got>> /\ pc[t] # "r_read" /\ pc'[t] # "r_read"
    BY <1>8, <1>a DEF SendClose, Move
  <2> QED
    BY <1>b, <2>1
<1>9. CASE t \in Senders /\ SendFreeTemp(t)
  <2>1. UNCHANGED <<head, nodes, queue, got>> /\ pc[t] # "r_read" /\ pc'[t] # "r_read"
    BY <1>9, <1>a DEF SendFreeTemp, Move
  <2> QED
    BY <1>b, <2>1
<1>10. CASE t \in Senders /\ SendStoreNext(t)
  <2>1. /\ pc[t] = "s_store" /\ pc'[t] = "s_tail" /\ nodes' = nodes + 1
        /\ UNCHANGED <<head, got>> /\ queue' = [queue EXCEPT ![nodes + 1] = <<val[t]>>]
    BY <1>10, <1>a DEF SendStoreNext, Move
  <2>2. nodes + 1 \in Nodes /\ val[t] \in Messages
    BY <1>10, <1>a, <2>1, HolderIsLast DEF UnboundedInv, Frames, SenderPCs
  <2>3. Pending' = Append(Pending, val[t])
    <3>1. queue' = Place(queue, nodes + 1, val[t])
      BY <2>1 DEF Place
    <3>2. FlattenSeq(Shares(head, nodes + 1, queue')) =
            Append(FlattenSeq(Shares(head, nodes, queue)), val[t])
      BY <1>a, <2>2, <3>1, SharesGrow
    <3> QED
      BY <1>c, <2>1, <3>2
  <2>4. Delivered' = Delivered
    BY <1>a, <2>1, DeliveredSame
  <2>5. Unsent' + 1 <= Unsent
    BY <1>10, <1>a, <2>1, UnsentStep
  <2> QED
    BY <2>2, <2>3, <2>4, <2>5 DEF Gains
<1>11. CASE t \in Senders /\ SendStoreTail(t)
  <2>1. UNCHANGED <<head, nodes, queue, got>> /\ pc[t] # "r_read" /\ pc'[t] # "r_read"
    BY <1>11, <1>a DEF SendStoreTail, Move, PopFrame
  <2> QED
    BY <1>b, <2>1
<1>12. CASE t \in Receivers /\ RecvCall(t)
  <2>1. UNCHANGED <<head, nodes, queue, got>> /\ pc[t] # "r_read" /\ pc'[t] # "r_read"
    BY <1>12, <1>a DEF RecvCall, Move, Load
  <2> QED
    BY <1>b, <2>1
<1>13. CASE t \in Receivers /\ RecvLoadHead(t)
  <2>1. UNCHANGED <<head, nodes, queue, got>> /\ pc[t] # "r_read" /\ pc'[t] # "r_read"
    BY <1>13, <1>a DEF RecvLoadHead, Move, Load
  <2> QED
    BY <1>b, <2>1
<1>14. CASE t \in Receivers /\ RecvSelect(t)
  <2>1. /\ pc[t] \in {"r_recv", "r_last"} /\ node[t] \in Nodes
        /\ UNCHANGED <<head, nodes, got>>
    BY <1>14, <1>a, AtNode DEF RecvSelect
  <2>2. CASE queue' = queue /\ pc'[t] # "r_read"
    BY <1>b, <2>1, <2>2
  <2>3. CASE /\ queue[node[t]] # <<>> /\ val' = [val EXCEPT ![t] = Head(queue[node[t]])]
             /\ queue' = [queue EXCEPT ![node[t]] = Tail(@)]
             /\ pc' = [pc EXCEPT ![t] = "r_read"]
    <3>1. node[t] = head
      <4>1. node[t] \in Nat /\ head \in Nat /\ node[t] <= head
        BY <1>14, <1>a, <2>1 DEF Following, ReceiverPCs
      <4>2. ~(node[t] < head)
        BY <1>a, <2>1, <2>3 DEF Drained
      <4> QED
        BY <4>1, <4>2
    <3>2. queue' = Take(queue, head)
      BY <2>3, <3>1 DEF Take
    <3>3. /\ Pending # <<>> /\ Head(Pending) = Head(queue[head])
          /\ Pending' = Tail(Pending)
      <4>1. queue[head] # <<>>
        BY <2>3, <3>1
      <4>2. /\ FlattenSeq(Shares(head, nodes, queue)) # <<>>
            /\ Head(FlattenSeq(Shares(head, nodes, queue))) = Head(queue[head])
            /\ FlattenSeq(Shares(head, nodes, queue')) =
                 Tail(FlattenSeq(Shares(head, nodes, queue)))
        BY <1>a, <3>2, <4>1, SharesTail
      <4> QED
        BY <1>c, <2>1, <4>2
    <3>4. Delivered' = [Delivered EXCEPT ![t] = Append(@, Head(queue[head]))]
      <4>1. ASSUME NEW r \in Receivers
            PROVE  Delivered'[r] = [Delivered EXCEPT ![t] = Append(@, Head(queue[head]))][r]
        BY <1>14, <1>a, <2>1, <2>3, <3>1, <4>1 DEF Delivered
      <4>2. DOMAIN Delivered' = Receivers /\ DOMAIN Delivered = Receivers
        BY DEF Delivered
      <4> QED
        BY <4>1, <4>2 DEF Delivered
    <3> QED
      BY <1>14, <3>3, <3>4 DEF Loses
  <2> QED
    BY <1>14, <1>a, <2>2, <2>3 DEF RecvSelect, Receivable
<1>15. CASE t \in Receivers /\ RecvLook(t)
  <2>1. UNCHANGED <<head, nodes, queue, got>> /\ pc[t] # "r_read" /\ pc'[t] # "r_read"
    BY <1>15, <1>a DEF RecvLook, Move
  <2> QED
    BY <1>b, <2>1
<1>16. CASE t \in Receivers /\ RecvPark(t)
  <2>1. UNCHANGED <<head, nodes, queue, got>> /\ pc[t] # "r_read" /\ pc'[t] # "r_read"
    BY <1>16, <1>a DEF RecvPark, Move
  <2> QED
    BY <1>b, <2>1
<1>17. CASE t \in Receivers /\ RecvReleased(t)
  <2>1. UNCHANGED <<head, nodes, queue, got>> /\ pc[t] # "r_read" /\ pc'[t] # "r_read"
    BY <1>17, <1>a DEF RecvReleased, Move
  <2> QED
    BY <1>b, <2>1
<1>18. CASE t \in Receivers /\ RecvRelease(t)
  <2>1. /\ pc[t] = "r_read" /\ got' = [got EXCEPT ![t] = Append(@, val[t])]
        /\ pc' = [pc EXCEPT ![t] = "idle"] /\ UNCHANGED <<head, nodes, queue>>
        /\ val' = [val EXCEPT ![t] = NoMsg]
    BY <1>18 DEF RecvRelease, Move, PopFrame
  <2>2. ASSUME NEW r \in Receivers PROVE Delivered'[r] = Delivered[r]
    BY <1>a, <2>1, <2>2 DEF Delivered
  <2>3. Delivered' = Delivered
    BY <2>2 DEF Delivered
  <2>4. Pending' = Pending
    BY <2>1 DEF Pending
  <2> QED
    BY <2>3, <2>4 DEF Stays
<1>19. CASE t \in Receivers /\ RecvErr(t)
  <2>1. UNCHANGED <<head, nodes, queue, got>> /\ pc[t] # "r_read" /\ pc'[t] # "r_read"
    BY <1>19, <1>a DEF RecvErr, Move, PopFrame
  <2> QED
    BY <1>b, <2>1
<1>20. CASE t \in Receivers /\ RecvLoadNext(t)
  <2>1. UNCHANGED <<head, nodes, queue, got>> /\ pc[t] # "r_read" /\ pc'[t] # "r_read"
    BY <1>20, <1>a DEF RecvLoadNext, Move
  <2> QED
    BY <1>b, <2>1
<1>21. CASE t \in Receivers /\ RecvLoadCap(t)
  <2>1. UNCHANGED <<head, nodes, queue, got>> /\ pc[t] # "r_read" /\ pc'[t] # "r_read"
    BY <1>21, <1>a DEF RecvLoadCap, Move
  <2> QED
    BY <1>b, <2>1
<1>22. CASE t \in Receivers /\ RecvMoveHead(t)
  <2>1. /\ pc[t] = "r_move" /\ pc'[t] \in {"r_free", "r_load"}
        /\ UNCHANGED <<nodes, queue, got>>
        /\ follow[t] = node[t] + 1 /\ follow[t] <= nodes
    BY <1>22, <1>a DEF RecvMoveHead, Move, UnboundedInv, Frames, Following
  <2>2. CASE head' = head
    BY <1>b, <2>1, <2>2
  <2>3. CASE head = node[t] /\ head' = follow[t] /\ broken' = (queue[node[t]] # <<>>)
    <3>1. CASE queue[head] # <<>>
      BY <2>3, <3>1
    <3>2. CASE queue[head] = <<>>
      <4>1. head' = head + 1 /\ head < nodes
        <5>1. head \in Nat /\ nodes \in Nat /\ head + 1 <= nodes
          BY <1>a, <2>1, <2>3
        <5> QED
          BY <2>1, <2>3, <5>1
      <4>2. Pending' = Pending
        <5>1. FlattenSeq(Shares(head + 1, nodes, queue)) =
                FlattenSeq(Shares(head, nodes, queue))
          BY <1>a, <3>2, <4>1, SharesSkip
        <5> QED
          BY <1>c, <2>1, <4>1, <5>1
      <4>3. Delivered' = Delivered
        BY <1>a, <2>1, DeliveredSame
      <4> QED
        BY <4>2, <4>3 DEF Stays
    <3> QED
      BY <3>1, <3>2
  <2> QED
    BY <1>22, <2>2, <2>3 DEF RecvMoveHead
<1>23. CASE t \in Receivers /\ RecvFree(t)
  <2>1. UNCHANGED <<head, nodes, queue, got>> /\ pc[t] # "r_read" /\ pc'[t] # "r_read"
    BY <1>23, <1>a DEF RecvFree, Move, PopFrame
  <2> QED
    BY <1>b, <2>1
<1>24. CASE t \in Closers /\ CloseCall(t)
  <2>1. UNCHANGED <<head, nodes, queue, got>> /\ pc[t] # "r_read" /\ pc'[t] # "r_read"
    BY <1>24, <1>a DEF CloseCall, Move, Load
  <2> QED
    BY <1>b, <2>1
<1>25. CASE t \in Closers /\ CloseLoadTail(t)
  <2>1. UNCHANGED <<head, nodes, queue, got>> /\ pc[t] # "r_read" /\ pc'[t] # "r_read"
    BY <1>25, <1>a DEF CloseLoadTail, Move, Load
  <2> QED
    BY <1>b, <2>1
<1>26. CASE t \in Closers /\ CloseLink(t)
  <2>1. UNCHANGED <<head, nodes, queue, got>> /\ pc[t] # "r_read" /\ pc'[t] # "r_read"
    BY <1>26, <1>a DEF CloseLink, Move
  <2> QED
    BY <1>b, <2>1
<1>27. CASE t \in Closers /\ CloseFlag(t)
  <2>1. UNCHANGED <<head, nodes, queue, got>> /\ pc[t] # "r_read" /\ pc'[t] # "r_read"
    BY <1>27, <1>a DEF CloseFlag, Move
  <2> QED
    BY <1>b, <2>1
<1>28. CASE t \in Closers /\ CloseLoadHead(t)
  <2>1. UNCHANGED <<head, nodes, queue, got>> /\ pc[t] # "r_read" /\ pc'[t] # "r_read"
    BY <1>28, <1>a DEF CloseLoadHead, Move, Load
  <2> QED
    BY <1>b, <2>1
<1>29. CASE t \in Closers /\ CloseNode(t)
  <2>1. UNCHANGED <<head, nodes, queue, got>> /\ pc[t] # "r_read" /\ pc'[t] # "r_read"
    BY <1>29, <1>a DEF CloseNode, Move
  <2> QED
    BY <1>b, <2>1
<1>30. CASE t \in Closers /\ CloseLoadNext(t)
  <2>1. UNCHANGED <<head, nodes, queue, got>> /\ pc[t] # "r_read" /\ pc'[t] # "r_read"
    BY <1>30, <1>a DEF CloseLoadNext, Move, Load
  <2> QED
    BY <1>b, <2>1
<1>31. CASE t \in Closers /\ CloseNextNode(t)
  <2>1. UNCHANGED <<head, nodes, queue, got>> /\ pc[t] # "r_read" /\ pc'[t] # "r_read"
    BY <1>31, <1>a DEF CloseNextNode, Move, PopFrame
  <2> QED
    BY <1>b, <2>1
<1> QED
  BY <1>1, <1>2, <1>3, <1>4, <1>5, <1>6, <1>7, <1>8, <1>9, <1>10, <1>11, <1>12, <1>13,
     <1>14, <1>15, <1>16, <1>17, <1>18, <1>19, <1>20, <1>21, <1>22, <1>23, <1>24, <1>25,
     <1>26, <1>27, <1>28, <1>29, <1>30, <1>31
     DEF Acts, SenderStep, ReceiverStep, CloserStep

\* A step of a thread keeps what was drained empty,
LEMMA DrainedStep ==
  ASSUME ChainInv, ~broken, NEW t \in Threads, Alive(t), Acts(t)
  PROVE  broken' \/ Drained'
<1> USE DEF list, queues, ends
<1>a. /\ pc \in [Threads -> {"idle"} \cup SenderPCs \cup ReceiverPCs \cup CloserPCs]
      /\ queue \in [Nodes -> Seq(Messages)]
      /\ head \in Nodes /\ nodes \in Nodes /\ head <= nodes /\ Nodes \subseteq Nat
      /\ UnboundedInv /\ Ended /\ Following /\ Drained
  BY Numbers DEF ChainInv, UnboundedInv, TypeOK, Roles, Threads, Frames
<1>b. ASSUME UNCHANGED <<head, queue>> PROVE Drained'
  BY <1>a, <1>b DEF Drained
<1>1. CASE t \in Senders /\ \E m \in Messages : SendCall(t, m)
  BY <1>1, <1>b DEF SendCall, Move, Load
<1>2. CASE t \in Senders /\ SendLoadTail(t)
  BY <1>2, <1>b DEF SendLoadTail, Move, Load
<1>3. CASE t \in Senders /\ SendTry(t)
  <2>1. pc[t] = "s_try" /\ node[t] \in Nodes /\ head' = head
    BY <1>3, <1>a, AtNode DEF SendTry
  <2>2. CASE queue' = queue
    BY <1>b, <2>1, <2>2
  <2>3. CASE ~qclosed[node[t]] /\ queue' = [queue EXCEPT ![node[t]] = Append(@, val[t])]
    <3>1. node[t] = nodes
      BY <1>3, <1>a, <2>1, <2>3, OpenIsLast
    <3> QED
      BY <1>a, <2>1, <2>3, <3>1 DEF Drained
  <2> QED
    BY <1>3, <2>2, <2>3 DEF SendTry
<1>4. CASE t \in Senders /\ SendPublish(t)
  BY <1>4, <1>b DEF SendPublish, Move
<1>5. CASE t \in Senders /\ SendWake(t)
  BY <1>5, <1>b DEF SendWake, PopFrame
<1>6. CASE t \in Senders /\ SendDisconnected(t)
  BY <1>6, <1>b DEF SendDisconnected, Move, PopFrame
<1>7. CASE t \in Senders /\ SendLink(t)
  BY <1>7, <1>b DEF SendLink, Move
<1>8. CASE t \in Senders /\ SendClose(t)
  BY <1>8, <1>b DEF SendClose, Move
<1>9. CASE t \in Senders /\ SendFreeTemp(t)
  BY <1>9, <1>b DEF SendFreeTemp, Move
<1>10. CASE t \in Senders /\ SendStoreNext(t)
  <2>1. head' = head /\ queue' = [queue EXCEPT ![nodes + 1] = <<val[t]>>]
    BY <1>10 DEF SendStoreNext
  <2> QED
    BY <1>a, <2>1 DEF Drained
<1>11. CASE t \in Senders /\ SendStoreTail(t)
  BY <1>11, <1>b DEF SendStoreTail, Move, PopFrame
<1>12. CASE t \in Receivers /\ RecvCall(t)
  BY <1>12, <1>b DEF RecvCall, Move, Load
<1>13. CASE t \in Receivers /\ RecvLoadHead(t)
  BY <1>13, <1>b DEF RecvLoadHead, Move, Load
<1>14. CASE t \in Receivers /\ RecvSelect(t)
  <2>1. head' = head
    BY <1>14 DEF RecvSelect
  <2>2. CASE queue' = queue
    BY <1>b, <2>1, <2>2
  <2>3. CASE queue[node[t]] # <<>> /\ queue' = [queue EXCEPT ![node[t]] = Tail(@)]
    BY <1>a, <2>1, <2>3 DEF Drained
  <2> QED
    BY <1>14, <2>2, <2>3 DEF RecvSelect, Receivable
<1>15. CASE t \in Receivers /\ RecvLook(t)
  BY <1>15, <1>b DEF RecvLook, Move
<1>16. CASE t \in Receivers /\ RecvPark(t)
  BY <1>16, <1>b DEF RecvPark, Move
<1>17. CASE t \in Receivers /\ RecvReleased(t)
  BY <1>17, <1>b DEF RecvReleased, Move
<1>18. CASE t \in Receivers /\ RecvRelease(t)
  BY <1>18, <1>b DEF RecvRelease, Move, PopFrame
<1>19. CASE t \in Receivers /\ RecvErr(t)
  BY <1>19, <1>b DEF RecvErr, Move, PopFrame
<1>20. CASE t \in Receivers /\ RecvLoadNext(t)
  BY <1>20, <1>b DEF RecvLoadNext, Move
<1>21. CASE t \in Receivers /\ RecvLoadCap(t)
  BY <1>21, <1>b DEF RecvLoadCap, Move
<1>22. CASE t \in Receivers /\ RecvMoveHead(t)
  <2>1. CASE head' = head
    BY <1>22, <1>b, <2>1 DEF RecvMoveHead
  <2>2. CASE head = node[t] /\ head' = follow[t] /\ broken' = (queue[node[t]] # <<>>)
    <3>1. follow[t] = head + 1 /\ queue' = queue
      BY <1>22, <1>a, <2>2 DEF RecvMoveHead, Move, UnboundedInv, Frames, Following
    <3>2. CASE queue[head] # <<>>
      BY <2>2, <3>2
    <3>3. CASE queue[head] = <<>>
      <4>1. ASSUME NEW n \in Nodes, n < head' PROVE queue'[n] = <<>>
        <5>1. n < head \/ n = head
          <6>1. n \in Nat /\ head \in Nat /\ head' = head + 1
            BY <1>a, <2>2, <3>1
          <6> QED
            BY <4>1, <6>1
        <5> QED
          BY <1>a, <3>1, <3>3, <5>1 DEF Drained
      <4> QED
        BY <4>1 DEF Drained
    <3> QED
      BY <3>2, <3>3
  <2> QED
    BY <1>22, <2>1, <2>2 DEF RecvMoveHead
<1>23. CASE t \in Receivers /\ RecvFree(t)
  BY <1>23, <1>b DEF RecvFree, Move, PopFrame
<1>24. CASE t \in Closers /\ CloseCall(t)
  BY <1>24, <1>b DEF CloseCall, Move, Load
<1>25. CASE t \in Closers /\ CloseLoadTail(t)
  BY <1>25, <1>b DEF CloseLoadTail, Move, Load
<1>26. CASE t \in Closers /\ CloseLink(t)
  BY <1>26, <1>b DEF CloseLink, Move
<1>27. CASE t \in Closers /\ CloseFlag(t)
  BY <1>27, <1>b DEF CloseFlag, Move
<1>28. CASE t \in Closers /\ CloseLoadHead(t)
  BY <1>28, <1>b DEF CloseLoadHead, Move, Load
<1>29. CASE t \in Closers /\ CloseNode(t)
  BY <1>29, <1>b DEF CloseNode, Move
<1>30. CASE t \in Closers /\ CloseLoadNext(t)
  BY <1>30, <1>b DEF CloseLoadNext, Move, Load
<1>31. CASE t \in Closers /\ CloseNextNode(t)
  BY <1>31, <1>b DEF CloseNextNode, Move, PopFrame
<1> QED
  BY <1>1, <1>2, <1>3, <1>4, <1>5, <1>6, <1>7, <1>8, <1>9, <1>10, <1>11, <1>12, <1>13,
     <1>14, <1>15, <1>16, <1>17, <1>18, <1>19, <1>20, <1>21, <1>22, <1>23, <1>24, <1>25,
     <1>26, <1>27, <1>28, <1>29, <1>30, <1>31
     DEF Acts, SenderStep, ReceiverStep, CloserStep

\* so that the invariant of the chain is inductive.
LEMMA ChainStep == ChainInv /\ [Next]_vars => ChainInv'
<1> SUFFICES ASSUME ChainInv, [Next]_vars PROVE ChainInv'
  OBVIOUS
<1>1. UnboundedInv'
  BY StepInv DEF ChainInv
<1>2. ASSUME UNCHANGED <<list, queues, pc, node, follow>>
      PROVE  Ended' /\ Following' /\ (Drained <=> Drained')
  BY <1>2 DEF ChainInv, Ended, Following, Drained, list, queues
<1>3. ASSUME ~broken, NEW t \in Threads, Alive(t), Acts(t) PROVE ChainInv'
  BY <1>1, <1>3, EndedStep, FollowingStep, DrainedStep DEF ChainInv
<1>4. ASSUME NEW t \in Threads, Misuse(t) PROVE ChainInv'
  BY <1>1, <1>2, <1>4 DEF ChainInv, Misuse
<1>5. CASE UNCHANGED vars
  BY <1>1, <1>2, <1>5 DEF ChainInv, vars
<1> QED
  BY <1>3, <1>4, <1>5, StepsAct

\* A message that no queue had accepted finds room in the channel.
LEMMA Fits ==
  ASSUME NEW u \in Nat, NEW v \in Nat, NEW l \in Nat, NEW b \in Nat,
         v + 1 <= u, u + l <= b
  PROVE  l < b /\ v + (l + 1) <= b
OBVIOUS

\* The budget of the messages is kept.
LEMMA RoomStep ==
  ASSUME ChainInv, ChainInv', ~broken, Room, NEW t \in Threads, Alive(t), Acts(t)
  PROVE  broken' \/ Room'
<1>1. /\ Pending \in Seq(Messages) /\ Len(Pending) \in Nat
      /\ Unsent \in Nat /\ MaxMessages \in Nat
  BY PendingType, UnsentType, BoundAssumption, QueueEnds DEF ChainInv
<1>2. Unsent' \in Nat
  <2>1. IsFiniteSet(Carrying')
    BY DEF ChainInv, UnboundedInv, Budget
  <2>2. IsFiniteSet(todo')
    <3>1. IsFiniteSet(Messages)
      BY FS_Interval, BoundAssumption DEF Messages
    <3>2. todo' \subseteq Messages
      BY DEF ChainInv, UnboundedInv, TypeOK
    <3> QED
      BY <3>1, <3>2, FS_Subset
  <2>3. Cardinality(todo') \in Nat /\ Cardinality(Carrying') \in Nat
    BY <2>1, <2>2, FS_CardinalityType
  <2> QED
    BY <2>3 DEF Unsent
<1>3. Unsent' <= Unsent
  BY UnsentStep DEF ChainInv
<1>4. CASE Stays
  BY <1>1, <1>2, <1>3, <1>4 DEF Room, Stays
<1>5. ASSUME NEW m \in Messages, Gains(m) PROVE Room'
  <2>1. Len(Pending') = Len(Pending) + 1
    BY <1>1, <1>5, QueueEnds DEF Gains
  <2>2. Unsent' + 1 <= Unsent /\ Unsent + Len(Pending) <= MaxMessages
    BY <1>5 DEF Room, Gains
  <2>3. Unsent' + (Len(Pending) + 1) <= MaxMessages
    BY <1>1, <1>2, <2>2, Fits
  <2> QED
    BY <2>1, <2>3 DEF Room
<1>6. ASSUME NEW r \in Receivers, Loses(r) PROVE Room'
  <2>1. Len(Pending') = Len(Pending) - 1
    BY <1>1, <1>6, QueueEnds DEF Loses
  <2> QED
    BY <1>1, <1>2, <1>3, <2>1 DEF Room
<1> QED
  BY <1>4, <1>5, <1>6, EveryStep

\* Every step that does not break the list is one of the channel.
LEMMA ChannelStep ==
  ChainInv /\ (broken \/ Room) /\ [Next]_vars =>
    [broken' \/ Channel!Next]_<<Pending, Delivered>>
<1> SUFFICES ASSUME ChainInv, broken \/ Room, [Next]_vars
             PROVE  [broken' \/ Channel!Next]_<<Pending, Delivered>>
  OBVIOUS
<1>1. ASSUME ~broken, NEW t \in Threads, Alive(t), Acts(t)
      PROVE  [broken' \/ Channel!Next]_<<Pending, Delivered>>
  <2>1. Pending \in Seq(Messages) /\ Len(Pending) \in Nat /\ Unsent \in Nat /\ Unsent' \in Nat
    <3>1. ChainInv'
      BY ChainStep
    <3>2. Cardinality(todo') \in Nat /\ Cardinality(Carrying') \in Nat
      <4>1. IsFiniteSet(Messages)
        BY FS_Interval, BoundAssumption DEF Messages
      <4>2. IsFiniteSet(todo') /\ IsFiniteSet(Carrying')
        BY <3>1, <4>1, FS_Subset DEF ChainInv, UnboundedInv, Budget, TypeOK
      <4> QED
        BY <4>2, FS_CardinalityType
    <3> QED
      BY <3>2, PendingType, UnsentType, QueueEnds DEF ChainInv, Unsent
  <2>2. ASSUME NEW m \in Messages, Gains(m) PROVE Channel!Send(m)
    <3>1. Len(Pending) < MaxMessages
      <4>1. /\ Unsent' + 1 <= Unsent /\ Unsent + Len(Pending) <= MaxMessages
            /\ MaxMessages \in Nat
        BY <1>1, <2>2, BoundAssumption DEF Room, Gains
      <4> QED
        BY <2>1, <4>1, Fits
    <3> QED
      BY <2>2, <3>1 DEF Gains, Channel!Send
  <2>3. ASSUME NEW r \in Receivers, Loses(r) PROVE Channel!Recv(r)
    BY <2>3 DEF Loses, Channel!Recv
  <2>4. CASE Stays
    BY <2>4 DEF Stays
  <2> QED
    BY <1>1, <2>2, <2>3, <2>4, EveryStep DEF Channel!Next
<1>2. ASSUME NEW t \in Threads, Misuse(t) PROVE broken'
  BY <1>2 DEF Misuse
<1>3. CASE UNCHANGED vars
  <2>1. UNCHANGED <<Pending, Delivered>>
    BY <1>3 DEF vars, list, queues, ends, Pending, Delivered
  <2> QED
    BY <2>1
<1> QED
  BY <1>1, <1>2, <1>3, StepsAct

\* At first the list is empty.
LEMMA ChannelInit == Init => ChainInv /\ Room
<1> SUFFICES ASSUME Init PROVE ChainInv /\ Room
  OBVIOUS
<1>1. UnboundedInv
  BY InitInv
<1>2. Ended /\ Following /\ Drained
  BY <1>1, Numbers DEF Init, Ended, Following, Drained, ReceiverPCs, Threads
<1>3. Pending = <<>>
  <2>1. /\ head = 1 /\ nodes = 1 /\ 1 \in Nodes /\ queue \in [Nodes -> Seq(Messages)]
        /\ queue[1] = <<>>
    BY <1>1, Numbers DEF Init, UnboundedInv, TypeOK
  <2>2. PICK s \in Seq(Seq(Messages)) :
          s = Shares(head, nodes, queue) /\ Len(s) = 1 /\ s[1] = <<>>
    <3>1. /\ Shares(head, nodes, queue) \in Seq(Seq(Messages))
          /\ Len(Shares(head, nodes, queue)) = nodes - head + 1
      <4>1. head \in Nodes /\ nodes \in Nodes /\ head <= nodes
        BY <2>1
      <4> QED
        BY <2>1, <4>1, SharesType
    <3>2. Shares(head, nodes, queue)[1] = <<>>
      BY <2>1 DEF Shares
    <3> QED
      BY <2>1, <3>1, <3>2
  <2>3. PICK n \in Nat : n = Len(s) /\ n = 1 /\ n > 0
    BY <2>2
  <2>4. PICK f : Joined(f, s, Messages)
    BY JoinedExists
  <2>5. FlattenSeq(s) = f[n]
    BY <2>3, <2>4, FlattenIsLast
  <2>6. f[1] = s[1]
    BY <2>2, <2>4 DEF Joined
  <2> QED
    BY <2>2, <2>3, <2>5, <2>6, PendingIsShares
<1>4. Unsent = MaxMessages
  <2>1. Carrying = {}
    BY DEF Init, Carrying, SenderPCs, Threads
  <2>2. Cardinality(todo) = MaxMessages /\ MaxMessages \in Nat
    BY BoundAssumption, FS_Interval DEF Init, Messages
  <2> QED
    BY <2>1, <2>2, FS_EmptySet DEF Unsent
<1>5. Room
  BY <1>3, <1>4, BoundAssumption DEF Room
<1> QED
  BY <1>1, <1>2, <1>5 DEF ChainInv

\* The list of nodes is one first-in first-out channel, for any number of senders,
\* receivers, closers and messages and any capacity of the nodes, until a thread touches
\* freed memory or head leaves a message behind: messages come out once, and in the
\* order in which they went in.
THEOREM ChannelImplemented == Spec => ImplementsChannel
<1> DEFINE Inv == ChainInv /\ (broken \/ Room)
<1>1. Init => Inv
  BY ChannelInit
<1>2. Inv /\ [Next]_vars => Inv'
  <2> SUFFICES ASSUME ChainInv, broken \/ Room, [Next]_vars
               PROVE  ChainInv' /\ (broken' \/ Room')
    OBVIOUS
  <2>1. ChainInv'
    BY ChainStep
  <2>2. ASSUME ~broken, NEW t \in Threads, Alive(t), Acts(t) PROVE broken' \/ Room'
    BY <2>1, <2>2, RoomStep
  <2>3. ASSUME NEW t \in Threads, Misuse(t) PROVE broken'
    BY <2>3 DEF Misuse
  <2>4. CASE UNCHANGED vars
    <3>1. Pending' = Pending /\ Unsent' = Unsent /\ broken' = broken
      BY <2>4 DEF vars, list, queues, ends, Pending, Unsent, Carrying
    <3> QED
      BY <2>1, <3>1 DEF Room
  <2> QED
    BY <2>1, <2>2, <2>3, <2>4, StepsAct
<1>3. Inv /\ [Next]_vars => [broken' \/ Channel!Next]_<<Pending, Delivered>>
  BY ChannelStep
<1> QED
  BY <1>1, <1>2, <1>3, PTL DEF Spec, ImplementsChannel
=============================================================================
