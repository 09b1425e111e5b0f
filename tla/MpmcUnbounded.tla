---------------------------- MODULE MpmcUnbounded ----------------------------
(***************************************************************************)
(* omango's unbounded MPMC queue (src/queue/unbounded.rs): a linked list   *)
(* of bounded queues that several senders and receivers share.  A sender   *)
(* that finds the last node full links a temporary node, which locks the   *)
(* others out, closes the full queue, frees the temporary node, and puts a *)
(* node with its message in its place.  Receivers drain the first node;    *)
(* the one that moves head on frees it.                                    *)
(*                                                                         *)
(* The queue of a node is abstract, as in SpscUnbounded: the messages      *)
(* claimed by sends and not yet claimed by receives.  It answers Full and  *)
(* Empty as FailuresAreHonest of MpmcRing allows, and its notify may wake  *)
(* any of its sleeping receivers, or none.                                 *)
(*                                                                         *)
(* Nothing is said of what follows once a thread touches freed memory or a *)
(* null pointer, or head leaves a message behind (whose sender then writes *)
(* to a freed node): the behaviour is broken and ends there.               *)
(***************************************************************************)
EXTENDS Naturals, FiniteSets, SequencesExt

CONSTANTS
  Senders, Receivers, Closers,  \* the threads
  MaxMessages,  \* bound: how many messages there are to send
  NodeCap,      \* SUB_QUEUE_SIZE
  MaxCloses     \* bound: how often close is called

Null == 0
Nodes == 1 .. MaxMessages     \* every node but the first is linked with a message,
                              \* and the first is full then
Temp(n) == MaxMessages + n    \* the temporary node linked behind node n
End == 2 * MaxMessages + 1    \* the node a close has linked
Links == 0 .. End

\* Messages are interchangeable: a sender tries the lowest that is left.
Messages == 1 .. MaxMessages
NoMsg == 0

ASSUME CapAssumption == NodeCap \in Nat \ {0}

ASSUME BoundAssumption ==
  MaxMessages \in Nat \ {0} /\ MaxCloses \in Nat

VARIABLES
  head, tail,    \* MpmcUnbounded.head and tail
  closed,        \* MpmcUnbounded.closed
  next,          \* MpmcNode.next of every node
  queue,         \* MpmcNode.queue of every node: its messages
  qclosed,       \* the closed bit of the queue of every node
  nodes,         \* how many nodes senders have linked, the first included
  freed,         \* the nodes, temporary ones included, that were freed
  pc,            \* where each thread is
  node,          \* local: the node a thread works on
  follow,        \* local: the next node that a receiver or closer has loaded
  val,           \* local: the message a thread carries
  todo,          \* the messages not yet handed over
  got,           \* what the calls of each receiver returned, in order
  closes,        \* how often close was called
  broken         \* see above

list == <<head, tail, closed, next, nodes, freed>>
queues == <<queue, qclosed>>
ends == <<todo, got, closes>>
vars == <<list, queues, pc, node, follow, val, ends, broken>>

Threads == Senders \cup Receivers \cup Closers

Init ==
  /\ head = 1 /\ tail = 1 /\ nodes = 1
  /\ closed = FALSE
  /\ next = [n \in Nodes |-> Null]
  /\ queue = [n \in Nodes |-> <<>>]
  /\ qclosed = [n \in Nodes |-> FALSE]
  /\ freed = {}
  /\ pc = [t \in Threads |-> "idle"]
  /\ node = [t \in Threads |-> Null]
  /\ follow = [t \in Threads |-> Null]
  /\ val = [t \in Threads |-> NoMsg]
  /\ todo = Messages
  /\ got = [r \in Receivers |-> <<>>]
  /\ closes = 0
  /\ broken = FALSE

-----------------------------------------------------------------------------
(* Helpers                                                                 *)

Move(t, from, to) == pc[t] = from /\ pc' = [pc EXCEPT ![t] = to]

Load(t, n) == node' = [node EXCEPT ![t] = n]

\* The stack frame of a call is gone once the call has returned.
PopFrame(t) ==
  /\ node' = [node EXCEPT ![t] = Null]
  /\ follow' = [follow EXCEPT ![t] = Null]
  /\ val' = [val EXCEPT ![t] = NoMsg]

\* What the next step of a thread accesses: a node, or one it follows.
Accesses(t) ==
  IF pc[t] \in {"s_try", "s_publish", "s_wake", "s_link", "s_close", "s_free", "s_store",
                "r_recv", "r_look", "r_park", "r_sleep", "r_last", "r_read", "r_next",
                "c_link", "c_close", "c_next"}
  THEN {node[t]}
  ELSE IF pc[t] \in {"r_cap", "c_close_next"} THEN {follow[t]} ELSE {}

Alive(t) == Accesses(t) \cap (freed \cup {Null}) = {}

\* The oldest message of a node can be received: its sender has published it.
Receivable(n) ==
  /\ queue[n] # <<>>
  /\ ~ \E s \in Senders : pc[s] = "s_publish" /\ val[s] = Head(queue[n])

\* Receivers that have claimed an element of a node and not yet released it.
Reading(n) == {r \in Receivers : pc[r] = "r_read" /\ node[r] = n}

-----------------------------------------------------------------------------
(* send                                                                    *)

\* A call begins with its load of tail.
SendCall(s, m) ==
  /\ Move(s, "idle", "s_try")
  /\ m \in todo /\ \A l \in todo : m <= l
  /\ todo' = todo \ {m}
  /\ val' = [val EXCEPT ![s] = m]
  /\ Load(s, tail)
  /\ UNCHANGED <<list, queues, follow, got, closes, broken>>

SendLoadTail(s) ==
  /\ Move(s, "s_load", "s_try")
  /\ Load(s, tail)
  /\ UNCHANGED <<list, queues, follow, val, ends, broken>>

\* try_send on the node: Disconnected, a claim, or Full.
SendTry(s) ==
  LET n == node[s] IN
  /\ pc[s] = "s_try"
  /\ \/ qclosed[n] /\ Move(s, "s_try", "s_disconnected") /\ UNCHANGED queue
     \/ /\ ~qclosed[n] /\ Len(queue[n]) + Cardinality(Reading(n)) < NodeCap
        /\ Move(s, "s_try", "s_publish")
        /\ queue' = [queue EXCEPT ![n] = Append(@, val[s])]
     \/ /\ ~qclosed[n] /\ (Len(queue[n]) = NodeCap \/ Reading(n) # {})
        /\ Move(s, "s_try", "s_link")
        /\ UNCHANGED queue
  /\ UNCHANGED <<list, qclosed, node, follow, val, ends, broken>>

SendPublish(s) ==
  /\ Move(s, "s_publish", "s_wake")
  /\ UNCHANGED <<list, queues, node, follow, val, ends, broken>>

\* The last access to the node: its read waker.
SendWake(s) ==
  /\ pc[s] = "s_wake"
  /\ \E woken \in SUBSET {r \in Receivers : pc[r] = "r_sleep" /\ node[r] = node[s]} :
       pc' = [t \in Threads |-> IF t = s THEN "idle"
                                ELSE IF t \in woken THEN "r_recv" ELSE pc[t]]
  /\ PopFrame(s)
  /\ UNCHANGED <<list, queues, ends, broken>>

\* Mutant: a closed node is taken for a closed list.
SendGivesUp(s) ==
  /\ Move(s, "s_disconnected", "idle")
  /\ todo' = todo \cup {val[s]}
  /\ PopFrame(s)
  /\ UNCHANGED <<list, queues, got, closes, broken>>

\* The node was closed because it was full, or because the list is: only then
\* does the message go back to the caller.
SendDisconnected(s) ==
  /\ \/ /\ closed
        /\ Move(s, "s_disconnected", "idle")
        /\ todo' = todo \cup {val[s]}
        /\ PopFrame(s)
     \/ /\ ~closed
        /\ Move(s, "s_disconnected", "s_load")
        /\ UNCHANGED <<node, follow, val, todo>>
  /\ UNCHANGED <<list, queues, got, closes, broken>>

\* The weak exchange links a temporary node, or fails: on what somebody else
\* has linked, or for no reason.
SendLink(s) ==
  /\ pc[s] = "s_link"
  /\ \/ /\ next[node[s]] = Null
        /\ Move(s, "s_link", "s_close")
        /\ next' = [next EXCEPT ![node[s]] = Temp(node[s])]
     \/ Move(s, "s_link", "s_load") /\ UNCHANGED next
  /\ UNCHANGED <<head, tail, closed, nodes, freed, queues, node, follow, val, ends, broken>>

\* Mutant: the full queue is left open.
SendCloseSkipped(s) ==
  /\ Move(s, "s_close", "s_free")
  /\ UNCHANGED <<list, queues, node, follow, val, ends, broken>>

SendClose(s) ==
  /\ Move(s, "s_close", "s_free")
  /\ qclosed' = [qclosed EXCEPT ![node[s]] = TRUE]
  /\ UNCHANGED <<list, queue, node, follow, val, ends, broken>>

\* The temporary node is freed while next still points at it.
SendFreeTemp(s) ==
  /\ Move(s, "s_free", "s_store")
  /\ freed' = freed \cup {Temp(node[s])}
  /\ UNCHANGED <<head, tail, closed, next, nodes, queues, node, follow, val, ends, broken>>

\* The new node is nobody else's until it is stored in next with its message.
SendStoreNext(s) ==
  /\ Move(s, "s_store", "s_tail")
  /\ nodes' = nodes + 1
  /\ queue' = [queue EXCEPT ![nodes + 1] = <<val[s]>>]
  /\ next' = [next EXCEPT ![node[s]] = nodes + 1]
  /\ Load(s, nodes + 1)
  /\ UNCHANGED <<head, tail, closed, freed, qclosed, follow, val, ends, broken>>

\* Mutant: the store into tail is missing.
SendTailKept(s) ==
  /\ Move(s, "s_tail", "idle")
  /\ PopFrame(s)
  /\ UNCHANGED <<list, queues, ends, broken>>

SendStoreTail(s) ==
  /\ Move(s, "s_tail", "idle")
  /\ tail' = node[s]
  /\ PopFrame(s)
  /\ UNCHANGED <<head, closed, next, nodes, freed, queues, ends, broken>>

SenderStep(s) ==
  \/ SendLoadTail(s) \/ SendTry(s) \/ SendPublish(s) \/ SendWake(s)
  \/ SendDisconnected(s) \/ SendLink(s) \/ SendClose(s) \/ SendFreeTemp(s)
  \/ SendStoreNext(s) \/ SendStoreTail(s)

-----------------------------------------------------------------------------
(* recv                                                                    *)

\* A call begins with its load of head.
RecvCall(r) ==
  /\ Move(r, "idle", "r_recv")
  /\ Load(r, head)
  /\ UNCHANGED <<list, queues, follow, val, ends, broken>>

RecvLoadHead(r) ==
  /\ Move(r, "r_load", "r_recv")
  /\ Load(r, head)
  /\ UNCHANGED <<list, queues, follow, val, ends, broken>>

\* The selection of the node's recv: an ordinary one, or the last one, which it
\* makes after it has seen the queue closed.
RecvSelect(r) ==
  LET n == node[r] IN
  /\ pc[r] \in {"r_recv", "r_last"}
  /\ \/ /\ Receivable(n)
        /\ val' = [val EXCEPT ![r] = Head(queue[n])]
        /\ queue' = [queue EXCEPT ![n] = Tail(@)]
        /\ pc' = [pc EXCEPT ![r] = "r_read"]
     \/ /\ ~Receivable(n)
        /\ pc' = [pc EXCEPT ![r] = IF @ = "r_last" THEN "r_err" ELSE "r_look"]
        /\ UNCHANGED <<val, queue>>
  /\ UNCHANGED <<list, qclosed, node, follow, ends, broken>>

\* Poll the closed bit and the element, register, and look once more: select
\* again, for the last time if the queue is closed, or go to sleep.
RecvLook(r) ==
  LET n == node[r] IN
  /\ pc[r] = "r_look"
  /\ \/ qclosed[n] /\ Move(r, "r_look", "r_last")
     \/ ~qclosed[n] /\ Move(r, "r_look", "r_recv")
     \/ ~qclosed[n] /\ ~Receivable(n) /\ Move(r, "r_look", "r_park")
  /\ UNCHANGED <<list, queues, node, follow, val, ends, broken>>

\* The store of PARKED: a notify that came since the last look is lost.
RecvPark(r) ==
  /\ Move(r, "r_park", "r_sleep")
  /\ UNCHANGED <<list, queues, node, follow, val, ends, broken>>

\* Whoever closes the queue of a node wakes its receivers until they have left.
RecvReleased(r) ==
  /\ Move(r, "r_sleep", "r_last")
  /\ qclosed[node[r]]
  /\ UNCHANGED <<list, queues, node, follow, val, ends, broken>>

RecvRelease(r) ==
  /\ Move(r, "r_read", "idle")
  /\ got' = [got EXCEPT ![r] = Append(@, val[r])]
  /\ PopFrame(r)
  /\ UNCHANGED <<list, queues, todo, closes, broken>>

\* The node's recv has failed: the list is closed, or there is a next node.
RecvErr(r) ==
  /\ \/ closed /\ Move(r, "r_err", "idle") /\ PopFrame(r)
     \/ ~closed /\ Move(r, "r_err", "r_next") /\ UNCHANGED <<node, follow, val>>
  /\ UNCHANGED <<list, queues, ends, broken>>

\* Spin until next is set.
RecvLoadNext(r) ==
  /\ Move(r, "r_next", "r_cap")
  /\ next[node[r]] # Null
  /\ follow' = [follow EXCEPT ![r] = next[node[r]]]
  /\ UNCHANGED <<list, queues, node, val, ends, broken>>

\* Mutant: the capacity is not looked at.
IsQueueNode(n) == TRUE

\* Only the nodes of senders have the capacity of a sub queue.
HasSubQueueSize(n) == n \in Nodes

RecvLoadCap(r) ==
  /\ Move(r, "r_cap", IF HasSubQueueSize(follow[r]) THEN "r_move" ELSE "r_next")
  /\ UNCHANGED <<list, queues, node, follow, val, ends, broken>>

\* The weak exchange moves head on, away from messages that are not published
\* yet if there are any, or fails; a failure starts over.
RecvMoveHead(r) ==
  /\ \/ /\ head = node[r]
        /\ Move(r, "r_move", "r_free")
        /\ head' = follow[r]
        /\ broken' = (queue[node[r]] # <<>>)
     \/ Move(r, "r_move", "r_load") /\ UNCHANGED <<head, broken>>
  /\ UNCHANGED <<tail, closed, next, nodes, freed, queues, node, follow, val, ends>>

RecvFree(r) ==
  /\ Move(r, "r_free", "r_load")
  /\ freed' = freed \cup {node[r]}
  /\ PopFrame(r)
  /\ UNCHANGED <<head, tail, closed, next, nodes, queues, ends, broken>>

ReceiverStep(r) ==
  \/ RecvLoadHead(r) \/ RecvSelect(r) \/ RecvLook(r) \/ RecvPark(r) \/ RecvReleased(r)
  \/ RecvRelease(r) \/ RecvErr(r) \/ RecvLoadNext(r) \/ RecvLoadCap(r)
  \/ RecvMoveHead(r) \/ RecvFree(r)

-----------------------------------------------------------------------------
(* close                                                                   *)

CloseCall(c) ==
  /\ closes < MaxCloses
  /\ Move(c, "idle", "c_link")
  /\ Load(c, tail)
  /\ closes' = closes + 1
  /\ UNCHANGED <<list, queues, follow, val, todo, got, broken>>

CloseLoadTail(c) ==
  /\ Move(c, "c_tail", "c_link")
  /\ Load(c, tail)
  /\ UNCHANGED <<list, queues, follow, val, ends, broken>>

\* Mutant: a failed exchange ends the loop.
CloseLinkOnce(c) ==
  /\ Move(c, "c_link", "c_flag")
  /\ \/ next[node[c]] = Null /\ next' = [next EXCEPT ![node[c]] = End]
     \/ UNCHANGED next
  /\ UNCHANGED <<head, tail, closed, nodes, freed, queues, node, follow, val, ends, broken>>

\* The weak exchange links a node whose queue is closed; a failure starts over
\* with the tail.
CloseLink(c) ==
  /\ \/ /\ Move(c, "c_link", "c_flag")
        /\ next[node[c]] = Null
        /\ next' = [next EXCEPT ![node[c]] = End]
     \/ Move(c, "c_link", "c_tail") /\ UNCHANGED next
  /\ UNCHANGED <<head, tail, closed, nodes, freed, queues, node, follow, val, ends, broken>>

CloseFlag(c) ==
  /\ Move(c, "c_flag", "c_head")
  /\ closed' = TRUE
  /\ UNCHANGED <<head, tail, next, nodes, freed, queues, node, follow, val, ends, broken>>

CloseLoadHead(c) ==
  /\ Move(c, "c_head", "c_close")
  /\ Load(c, head)
  /\ UNCHANGED <<list, queues, follow, val, ends, broken>>

CloseNode(c) ==
  /\ Move(c, "c_close", "c_next")
  /\ qclosed' = [qclosed EXCEPT ![node[c]] = TRUE]
  /\ UNCHANGED <<list, queue, node, follow, val, ends, broken>>

\* A null next makes the loop go on with the null.
CloseLoadNext(c) ==
  /\ pc[c] = "c_next"
  /\ \/ /\ next[node[c]] = Null
        /\ Move(c, "c_next", "c_close")
        /\ Load(c, Null)
        /\ UNCHANGED follow
     \/ /\ next[node[c]] # Null
        /\ Move(c, "c_next", "c_close_next")
        /\ follow' = [follow EXCEPT ![c] = next[node[c]]]
        /\ UNCHANGED node
  /\ UNCHANGED <<list, queues, val, ends, broken>>

\* Nobody ever sends to a node of close or to a temporary one.
CloseNextNode(c) ==
  /\ Move(c, "c_close_next", "idle")
  /\ qclosed' = [n \in Nodes |-> qclosed[n] \/ n = follow[c]]
  /\ PopFrame(c)
  /\ UNCHANGED <<list, queue, ends, broken>>

CloserStep(c) ==
  \/ CloseLoadTail(c) \/ CloseLink(c) \/ CloseFlag(c) \/ CloseLoadHead(c)
  \/ CloseNode(c) \/ CloseLoadNext(c) \/ CloseNextNode(c)

-----------------------------------------------------------------------------
Calls ==
  \/ \E s \in Senders, m \in Messages : SendCall(s, m)
  \/ \E r \in Receivers : RecvCall(r)
  \/ \E c \in Closers : CloseCall(c)

\* A thread accesses a freed node, or follows a null.
Misuse(t) ==
  /\ ~Alive(t)
  /\ broken' = TRUE
  /\ UNCHANGED <<list, queues, pc, node, follow, val, ends>>

Runs(t) ==
  /\ ~broken
  /\ \/ /\ Alive(t)
        /\ \/ t \in Senders /\ SenderStep(t)
           \/ t \in Receivers /\ ReceiverStep(t)
           \/ t \in Closers /\ CloserStep(t)
     \/ Misuse(t)

Next == (~broken /\ Calls) \/ \E t \in Threads : Runs(t)

Spec == Init /\ [][Next]_vars

-----------------------------------------------------------------------------
(* Properties                                                              *)

\* Type invariant.
TypeOK ==
  /\ head \in Nodes /\ tail \in Nodes /\ nodes \in Nodes /\ closed \in BOOLEAN
  /\ next \in [Nodes -> Links]
  /\ queue \in [Nodes -> Seq(Messages)]
  /\ \A n \in Nodes : Len(queue[n]) <= NodeCap
  /\ qclosed \in [Nodes -> BOOLEAN]
  /\ freed \subseteq Links
  /\ node \in [Threads -> Nodes \cup {Null}]
  /\ follow \in [Threads -> Links]
  /\ val \in [Threads -> Messages \cup {NoMsg}]
  /\ todo \subseteq Messages
  /\ got \in [Receivers -> Seq(Messages)]
  /\ closes \in 0 .. MaxCloses /\ broken \in BOOLEAN

Pending == FlattenSeq([k \in 1 .. nodes - head + 1 |-> queue[head + k - 1]])

Delivered ==
  [r \in Receivers |-> IF pc[r] = "r_read" THEN Append(got[r], val[r]) ELSE got[r]]

\* What the receivers can still reach; frozen once the behaviour is broken.
Channel == INSTANCE FifoChannel
           WITH Capacity <- MaxMessages, closed <- FALSE, queue <- Pending,
                got <- Delivered

\* Until it breaks, the list implements one unbounded channel: whoever sends and
\* receives, messages come out once and in the order in which they went in,
\* across nodes.
ImplementsChannel == [][broken' \/ Channel!Next]_<<Pending, Delivered>>

\* As long as no sender has found a node full nothing breaks, whatever closes
\* and receives do: the receivers never move off the first node.
SafeUntilGrowth == broken => nodes > 1 \/ next[1] = Temp(1)

\* send and recv fail only if somebody closes.
ErrorsOnlyByClose ==
  [][\/ \E s \in Senders : pc[s] = "s_disconnected" /\ pc'[s] = "idle"
     \/ \E r \in Receivers : pc[r] = "r_err" /\ pc'[r] = "idle"
     => closes > 0]_vars

\* At most one close ever gets past its exchange: the tail stays at the node where
\* the first has linked its own, so every other one retries there for good.
OneCloseGetsThrough ==
  closes - Cardinality({c \in Closers : pc[c] \in {"c_tail", "c_link"}}) <= 1

\* Nobody spins for nothing.  While the tail has a next node, which locks senders
\* and closers out, a sender is about to move the tail on, or a close has linked
\* its node for good; and whoever waits in a node that has failed to receive finds
\* the node of a sender behind it, or a sender at work there.
SpinningEnds ==
  broken \/
    /\ next[tail] \notin {Null, End} =>
         \E s \in Senders :
           \/ pc[s] \in {"s_close", "s_free", "s_store"} /\ node[s] = tail
           \/ pc[s] = "s_tail" /\ node[s] = next[tail]
    /\ \A r \in Receivers : pc[r] \in {"r_next", "r_cap"} =>
         \/ next[node[r]] \in Nodes
         \/ \E s \in Senders : pc[s] \in {"s_free", "s_store"} /\ node[s] = node[r]

=============================================================================
