--------------------------- MODULE SpscUnbounded ---------------------------
(***************************************************************************)
(* omango's unbounded SPSC queue (src/queue/unbounded.rs): a linked list   *)
(* of bounded queues.  The sender fills the queue of the last node; when   *)
(* it is full it closes it and links a new node.  The receiver drains the  *)
(* queue of the first node; when that is closed and empty it frees the     *)
(* node and goes on to the next.  close() links a node of its own, one     *)
(* that was closed before, and closes the queues of the first nodes.       *)
(*                                                                         *)
(* The queue of a node is abstract here: the sequence of the messages      *)
(* claimed by sends and not yet claimed by receives.  A claim and the      *)
(* publication (the release) of the element are steps of their own, since  *)
(* a receive fails on an element that is claimed and not yet published,    *)
(* and a send finds the queue full while one is read.                      *)
(*                                                                         *)
(* Nodes are numbered in the order in which they are linked.  Once a       *)
(* thread touches a freed node or follows a null pointer, nothing is said  *)
(* of what follows: the behaviour ends there.                              *)
(***************************************************************************)
EXTENDS Naturals, FiniteSets, SequencesExt

CONSTANTS
  MaxMessages, \* bound: how many messages there are to send
  Closers,     \* the threads that call close
  NodeCap,     \* SUB_QUEUE_SIZE
  MaxNodes,    \* bound: how many nodes are ever linked
  MaxCloses    \* bound: how often close is called

Nodes == 1 .. MaxNodes
Null == 0

\* Messages are interchangeable: the sender tries the lowest it has left.
Messages == 1 .. MaxMessages
NoMsg == 0

ASSUME CapAssumption == NodeCap \in Nat \ {0}

ASSUME BoundAssumption ==
  MaxNodes \in Nat \ {0} /\ MaxCloses \in Nat /\ MaxMessages \in Nat

VARIABLES
  head,      \* SpscUnbounded.head
  tail,      \* SpscUnbounded.tail
  closed,    \* SpscUnbounded.closed
  next,      \* SpscNode.next of every node
  queue,     \* SpscNode.queue of every node: its messages
  qclosed,   \* the closed flag of the queue of every node
  nodes,     \* how many nodes were linked
  freed,     \* the nodes the receiver has freed
  spc, sval, fresh,   \* the sender: where it is, its message, the node it linked
  rpc, rval, second,  \* the receiver: where it is, its message, whether it has
                      \* gone on to a second node
  old,                \* the receiver: the node it leaves
  cpc, cnode,         \* each closer: where it is, the node it looks at
  todo,      \* the messages not yet handed over
  got,       \* what the receiver's calls returned, in order
  closes,    \* how often close was called
  misused    \* a thread has touched memory that is not there

list == <<head, tail, closed, next, nodes, freed>>
sender == <<spc, sval, fresh, todo>>
receiver == <<rpc, rval, second, old, got>>
closer == <<cpc, cnode, closes>>
vars == <<list, queue, qclosed, sender, receiver, closer, misused>>

SenderPCs == {"idle", "s_try", "s_select", "s_publish", "s_wake", "s_close",
              "s_link", "s_fill", "s_fill_publish", "s_fill_wake", "s_tail",
              "s_refused"}
ReceiverPCs == {"idle", "r_recv", "r_look", "r_park", "r_sleep", "r_last",
                "r_read", "r_err", "r_next", "r_free"}
CloserPCs == {"idle", "c_tail", "c_link", "c_flag", "c_head", "c_close",
              "c_next", "c_close_next"}

Init ==
  /\ head = 1 /\ tail = 1 /\ nodes = 1
  /\ closed = FALSE
  /\ next = [n \in Nodes |-> Null]
  /\ queue = [n \in Nodes |-> <<>>]
  /\ qclosed = [n \in Nodes |-> FALSE]
  /\ freed = {}
  /\ spc = "idle" /\ sval = NoMsg /\ fresh = Null
  /\ rpc = "idle" /\ rval = NoMsg /\ second = FALSE /\ old = Null
  /\ cpc = [c \in Closers |-> "idle"] /\ cnode = [c \in Closers |-> Null]
  /\ todo = Messages
  /\ got = <<>>
  /\ closes = 0
  /\ misused = FALSE


\* The nodes that the next step of a thread accesses.
SenderNodes ==
  IF spc \in {"s_fill", "s_fill_publish", "s_fill_wake"} THEN {fresh}
  ELSE IF spc \in {"idle", "s_tail", "s_refused"} THEN {} ELSE {tail}

ReceiverNodes == IF rpc \in {"idle", "r_err", "r_free"} THEN {} ELSE {head}

CloserNodes(c) ==
  IF cpc[c] \in {"c_link", "c_close", "c_next", "c_close_next"} THEN {cnode[c]} ELSE {}

Alive(used) == ~misused /\ used \cap (freed \cup {Null}) = {}

-----------------------------------------------------------------------------
(* The queue of a node                                                     *)

\* The last message of the queue is claimed but not yet published.
Unpublished(n) ==
  \/ spc = "s_publish" /\ n = tail
  \/ spc = "s_fill_publish" /\ n = fresh

Receivable(n) == Len(queue[n]) > IF Unpublished(n) THEN 1 ELSE 0

\* The notify of a send wakes the receiver only if it sleeps already.
WakeReader(n) ==
  /\ rpc' = IF rpc = "r_sleep" /\ head = n THEN "r_recv" ELSE rpc
  /\ UNCHANGED <<rval, second, old, got>>

\* Elements that no send can claim: those of messages, and the one being read.
Occupied(n) == Len(queue[n]) + IF rpc = "r_read" /\ head = n THEN 1 ELSE 0

-----------------------------------------------------------------------------
(* send                                                                    *)

\* Only the sender stores into tail, so it can load it at any time.
SendCall(m) ==
  /\ spc = "idle"
  /\ m \in todo /\ \A l \in todo : m <= l
  /\ todo' = todo \ {m}
  /\ sval' = m
  /\ spc' = "s_try"
  /\ UNCHANGED <<list, queue, qclosed, fresh, receiver, closer>>

\* try_send looks at the closed flag first, and at the element afterwards.
SendLoadClosed ==
  /\ spc = "s_try"
  /\ spc' = IF qclosed[tail] THEN "s_refused" ELSE "s_select"
  /\ UNCHANGED <<list, queue, qclosed, sval, fresh, todo, receiver, closer>>

SendSelect ==
  /\ spc = "s_select"
  /\ \/ /\ Occupied(tail) < NodeCap
        /\ queue' = [queue EXCEPT ![tail] = Append(@, sval)]
        /\ spc' = "s_publish"
     \/ /\ Occupied(tail) = NodeCap
        /\ spc' = "s_close"
        /\ UNCHANGED queue
  /\ UNCHANGED <<list, qclosed, sval, fresh, todo, receiver, closer>>

SendPublish ==
  /\ spc = "s_publish"
  /\ spc' = "s_wake"
  /\ UNCHANGED <<list, queue, qclosed, sval, fresh, todo, receiver, closer>>

\* The last access to the node: its reader's waker.
SendWake ==
  /\ spc = "s_wake"
  /\ WakeReader(tail)
  /\ spc' = "idle"
  /\ sval' = NoMsg
  /\ UNCHANGED <<list, queue, qclosed, fresh, todo, closer>>

\* Mutant: the full queue is left open.
SendCloseSkipped ==
  /\ spc = "s_close"
  /\ spc' = "s_link"
  /\ UNCHANGED <<list, queue, qclosed, sval, fresh, todo, receiver, closer>>

\* The queue is full: it is closed, so that the receiver moves on once it is
\* empty.
SendClose ==
  /\ spc = "s_close"
  /\ qclosed' = [qclosed EXCEPT ![tail] = TRUE]
  /\ spc' = "s_link"
  /\ UNCHANGED <<list, queue, sval, fresh, todo, receiver, closer>>

\* The weak exchange links a new node, or fails: on the node that a close has
\* linked, or for no reason, which makes a null the new tail.
SendLink ==
  /\ spc = "s_link"
  /\ \/ /\ next[tail] = Null
        /\ nodes < MaxNodes
        /\ nodes' = nodes + 1
        /\ fresh' = nodes + 1
        /\ next' = [next EXCEPT ![tail] = nodes + 1]
        /\ spc' = "s_fill"
        /\ UNCHANGED tail
     \/ /\ tail' = next[tail]
        /\ spc' = "s_refused"
        /\ UNCHANGED <<nodes, fresh, next>>
  /\ UNCHANGED <<head, closed, freed, queue, qclosed, sval, todo, receiver, closer>>

\* try_send into the new node, whose outcome is ignored.
SendFill ==
  /\ spc = "s_fill"
  /\ queue' = IF qclosed[fresh] THEN queue
              ELSE [queue EXCEPT ![fresh] = Append(@, sval)]
  /\ spc' = IF qclosed[fresh] THEN "s_tail" ELSE "s_fill_publish"
  /\ UNCHANGED <<list, qclosed, sval, fresh, todo, receiver, closer>>

SendFillPublish ==
  /\ spc = "s_fill_publish"
  /\ spc' = "s_fill_wake"
  /\ UNCHANGED <<list, queue, qclosed, sval, fresh, todo, receiver, closer>>

SendFillWake ==
  /\ spc = "s_fill_wake"
  /\ WakeReader(fresh)
  /\ spc' = "s_tail"
  /\ UNCHANGED <<list, queue, qclosed, sval, fresh, todo, closer>>

\* Mutant: the store into tail is missing.
SendTailKept ==
  /\ spc = "s_tail"
  /\ spc' = "idle"
  /\ sval' = NoMsg
  /\ fresh' = Null
  /\ UNCHANGED <<list, queue, qclosed, todo, receiver, closer>>

SendTail ==
  /\ spc = "s_tail"
  /\ tail' = fresh
  /\ spc' = "idle"
  /\ sval' = NoMsg
  /\ fresh' = Null
  /\ UNCHANGED <<head, closed, next, nodes, freed, queue, qclosed, todo, receiver, closer>>

\* The message goes back to the caller.
SendRefused ==
  /\ spc = "s_refused"
  /\ spc' = "idle"
  /\ sval' = NoMsg
  /\ todo' = todo \cup {sval}
  /\ UNCHANGED <<list, queue, qclosed, fresh, receiver, closer>>

SenderStep ==
  \/ SendLoadClosed \/ SendSelect \/ SendPublish \/ SendWake \/ SendClose
  \/ SendLink \/ SendFill \/ SendFillPublish \/ SendFillWake \/ SendTail \/ SendRefused

-----------------------------------------------------------------------------
(* recv                                                                    *)

RecvCall ==
  /\ rpc = "idle"
  /\ rpc' = "r_recv"
  /\ UNCHANGED <<list, queue, qclosed, rval, second, old, got, sender, closer>>

\* The selection of the node's recv: an ordinary one, or the last one, which it
\* makes after it has seen the queue closed.
RecvSelect ==
  /\ rpc \in {"r_recv", "r_last"}
  /\ \/ /\ Receivable(head)
        /\ rval' = Head(queue[head])
        /\ queue' = [queue EXCEPT ![head] = Tail(@)]
        /\ rpc' = "r_read"
     \/ /\ ~Receivable(head)
        /\ rpc' = IF rpc = "r_last" THEN "r_err" ELSE "r_look"
        /\ UNCHANGED <<rval, queue>>
  /\ UNCHANGED <<list, qclosed, second, old, got, sender, closer>>

\* Mutant: the last selection is left out.
RecvLookOnce ==
  /\ rpc = "r_look"
  /\ rpc' = IF qclosed[head] THEN "r_err" ELSE "r_recv"
  /\ UNCHANGED <<list, queue, qclosed, rval, second, old, got, sender, closer>>

\* Poll the closed flag and the element, register, and look once more: the
\* receiver selects again, for the last time if the queue is closed, or goes to
\* sleep if it saw nothing.
RecvLook ==
  /\ rpc = "r_look"
  /\ \/ qclosed[head] /\ rpc' = "r_last"
     \/ ~qclosed[head] /\ rpc' = "r_recv"
     \/ ~qclosed[head] /\ ~Receivable(head) /\ rpc' = "r_park"
  /\ UNCHANGED <<list, queue, qclosed, rval, second, old, got, sender, closer>>

\* The store of PARKED: a notify that came since the last look is lost.
RecvPark ==
  /\ rpc = "r_park"
  /\ rpc' = "r_sleep"
  /\ UNCHANGED <<list, queue, qclosed, rval, second, old, got, sender, closer>>

\* Whoever closes the queue of a node wakes its receiver until it has left.
RecvReleased ==
  /\ rpc = "r_sleep"
  /\ qclosed[head]
  /\ rpc' = "r_last"
  /\ UNCHANGED <<list, queue, qclosed, rval, second, old, got, sender, closer>>

RecvRelease ==
  /\ rpc = "r_read"
  /\ got' = Append(got, rval)
  /\ rval' = NoMsg
  /\ second' = FALSE
  /\ rpc' = "idle"
  /\ UNCHANGED <<list, queue, qclosed, old, sender, closer>>

\* Mutant: recv gives up with the first node.
RecvErrAlways ==
  /\ rpc = "r_err"
  /\ rpc' = "idle"
  /\ second' = FALSE
  /\ UNCHANGED <<list, queue, qclosed, rval, old, got, sender, closer>>

\* The node's recv has failed.  The failure of a second node is passed on
\* without another look at the flag.
RecvErr ==
  /\ rpc = "r_err"
  /\ rpc' = IF second \/ closed THEN "idle" ELSE "r_next"
  /\ second' = FALSE
  /\ UNCHANGED <<list, queue, qclosed, rval, old, got, sender, closer>>

\* Spin until the next node is linked, and move on.
RecvNext ==
  /\ rpc = "r_next"
  /\ next[head] # Null
  /\ head' = next[head]
  /\ old' = head
  /\ rpc' = "r_free"
  /\ UNCHANGED <<tail, closed, next, nodes, freed, queue, qclosed, rval, second, got,
                 sender, closer>>

RecvFree ==
  /\ rpc = "r_free"
  /\ freed' = freed \cup {old}
  /\ old' = Null
  /\ second' = TRUE
  /\ rpc' = "r_recv"
  /\ UNCHANGED <<head, tail, closed, next, nodes, queue, qclosed, rval, got, sender, closer>>

ReceiverStep ==
  \/ RecvSelect \/ RecvLook \/ RecvPark \/ RecvReleased \/ RecvRelease
  \/ RecvErr \/ RecvNext \/ RecvFree

-----------------------------------------------------------------------------
(* close                                                                   *)

CloserAt(c, from, to, node) ==
  /\ cpc[c] = from
  /\ cpc' = [cpc EXCEPT ![c] = to]
  /\ cnode' = [cnode EXCEPT ![c] = node]

CloseCall(c) ==
  /\ CloserAt(c, "idle", "c_tail", Null)
  /\ closes < MaxCloses
  /\ closes' = closes + 1
  /\ UNCHANGED <<list, queue, qclosed, sender, receiver>>

CloseLoadTail(c) ==
  /\ CloserAt(c, "c_tail", "c_link", tail)
  /\ UNCHANGED <<list, queue, qclosed, closes, sender, receiver>>

\* The weak exchange links a node whose queue is closed; a failure starts over
\* with the tail.
CloseLink(c) ==
  /\ \/ /\ CloserAt(c, "c_link", "c_flag", Null)
        /\ next[cnode[c]] = Null
        /\ nodes < MaxNodes
        /\ nodes' = nodes + 1
        /\ next' = [next EXCEPT ![cnode[c]] = nodes + 1]
        /\ qclosed' = [qclosed EXCEPT ![nodes + 1] = TRUE]
     \/ /\ CloserAt(c, "c_link", "c_tail", Null)
        /\ UNCHANGED <<nodes, next, qclosed>>
  /\ UNCHANGED <<head, tail, closed, freed, queue, closes, sender, receiver>>

CloseFlag(c) ==
  /\ CloserAt(c, "c_flag", "c_head", Null)
  /\ closed' = TRUE
  /\ UNCHANGED <<head, tail, next, nodes, freed, queue, qclosed, closes, sender, receiver>>

CloseLoadHead(c) ==
  /\ CloserAt(c, "c_head", "c_close", head)
  /\ UNCHANGED <<list, queue, qclosed, closes, sender, receiver>>

\* Mutant: the queue of the first node is left open.
CloseNodeSkipped(c) ==
  /\ CloserAt(c, "c_close", "c_next", cnode[c])
  /\ UNCHANGED <<list, queue, qclosed, closes, sender, receiver>>

CloseNode(c) ==
  /\ CloserAt(c, "c_close", "c_next", cnode[c])
  /\ qclosed' = [qclosed EXCEPT ![cnode[c]] = TRUE]
  /\ UNCHANGED <<list, queue, closes, sender, receiver>>

\* A null next makes the loop go on with the null.
CloseLoadNext(c) ==
  /\ CloserAt(c, "c_next", IF next[cnode[c]] = Null THEN "c_close" ELSE "c_close_next",
              next[cnode[c]])
  /\ UNCHANGED <<list, queue, qclosed, closes, sender, receiver>>

CloseNextNode(c) ==
  /\ CloserAt(c, "c_close_next", "idle", Null)
  /\ qclosed' = [qclosed EXCEPT ![cnode[c]] = TRUE]
  /\ UNCHANGED <<list, queue, closes, sender, receiver>>

CloserStep(c) ==
  \/ CloseLoadTail(c) \/ CloseLink(c) \/ CloseFlag(c) \/ CloseLoadHead(c)
  \/ CloseNode(c) \/ CloseLoadNext(c) \/ CloseNextNode(c)

-----------------------------------------------------------------------------
\* A thread accesses a freed node, or follows a null.
Misuse(used) ==
  /\ ~misused
  /\ ~Alive(used)
  /\ misused' = TRUE
  /\ UNCHANGED <<list, queue, qclosed, sender, receiver, closer>>

SenderRuns == Alive(SenderNodes) /\ SenderStep /\ UNCHANGED misused
ReceiverRuns == Alive(ReceiverNodes) /\ ReceiverStep /\ UNCHANGED misused
CloserRuns(c) == Alive(CloserNodes(c)) /\ CloserStep(c) /\ UNCHANGED misused

Calls ==
  /\ ~misused
  /\ \/ \E m \in Messages : SendCall(m)
     \/ RecvCall
     \/ \E c \in Closers : CloseCall(c)
  /\ UNCHANGED misused

Next ==
  \/ Calls
  \/ SenderRuns \/ Misuse(SenderNodes)
  \/ ReceiverRuns
  \/ \E c \in Closers : CloserRuns(c) \/ Misuse(CloserNodes(c))

Spec == Init /\ [][Next]_vars

\* A thread inside a call runs on, and an exchange that may fail for no reason
\* succeeds at last.  Nobody has to call.
Fairness ==
  /\ WF_vars(SenderRuns) /\ WF_vars(Misuse(SenderNodes))
  /\ WF_vars(ReceiverRuns)
  /\ \A c \in Closers :
       /\ WF_vars(CloserRuns(c)) /\ WF_vars(Misuse(CloserNodes(c)))
       /\ SF_vars(CloserRuns(c) /\ nodes' # nodes)

FairSpec == Spec /\ Fairness

-----------------------------------------------------------------------------
(* Properties                                                              *)

\* Type invariant.
TypeOK ==
  /\ head \in Nodes /\ tail \in Nodes \cup {Null} /\ nodes \in Nodes
  /\ closed \in BOOLEAN
  /\ next \in [Nodes -> Nodes \cup {Null}]
  /\ queue \in [Nodes -> Seq(Messages)]
  /\ \A n \in Nodes : Len(queue[n]) <= NodeCap
  /\ qclosed \in [Nodes -> BOOLEAN]
  /\ freed \subseteq Nodes
  /\ spc \in SenderPCs /\ sval \in Messages \cup {NoMsg} /\ fresh \in Nodes \cup {Null}
  /\ rpc \in ReceiverPCs /\ rval \in Messages \cup {NoMsg} /\ second \in BOOLEAN
  /\ old \in Nodes \cup {Null}
  /\ cpc \in [Closers -> CloserPCs] /\ cnode \in [Closers -> Nodes \cup {Null}]
  /\ todo \subseteq Messages
  /\ got \in Seq(Messages)
  /\ closes \in 0 .. MaxCloses
  /\ misused \in BOOLEAN

\* What the receiver can still reach: nodes are numbered along the list.
Pending == FlattenSeq([k \in 1 .. nodes - head + 1 |-> queue[head + k - 1]])

Delivered == IF rpc = "r_read" THEN Append(got, rval) ELSE got

Channel == INSTANCE FifoChannel
           WITH Receivers <- {"receiver"}, Capacity <- Cardinality(Messages),
                queue <- Pending, closed <- FALSE,
                got <- [r \in {"receiver"} |-> Delivered]

\* The list implements one unbounded channel: messages come out in the order
\* in which they went in, across all nodes, and none is left behind in a node
\* that the receiver leaves.  (The channel stays open: a close only reaches the
\* first two nodes, and later nodes go on accepting messages.)
ImplementsChannel == Channel!Spec

\* The types hold, and as long as nobody calls close, no thread touches a node
\* that the receiver has freed.  The one other way to go wrong is an exchange of
\* the sender that fails for no reason.
SafeUntilClose == TypeOK /\ (misused /\ tail # Null => closes > 0)

\* send and recv fail only if somebody closes: that the sender itself closes the
\* queues of full nodes is seen by neither caller.  (Again but for that exchange.)
ErrorsOnlyByClose ==
  [][\/ spc = "s_refused" /\ spc' = "idle" /\ tail # Null
     \/ rpc = "r_err" /\ rpc' = "idle"
     => closes > 0]_vars

\* A notify has passed the receiver between its last look and its sleep, as it
\* does in MpmcBounded: it sleeps beside a message of its own node.
WakeupLost ==
  /\ rpc = "r_sleep" /\ Receivable(head) /\ ~qclosed[head]
  /\ spc \notin {"s_wake", "s_fill_wake"}

\* Every send returns.  When there is a message to receive, recv returns or has
\* lost its wake-up: it never sleeps or spins in a node that the sender has left.
CallsReturn ==
  /\ spc # "idle" ~> spc = "idle" \/ misused
  /\ rpc # "idle" /\ Pending # <<>> ~>
       rpc = "idle" \/ misused \/ tail = Null \/ WakeupLost

\* A close returns, and a receiver that waits is released by it.
CloseReleases ==
  /\ \A c \in Closers : cpc[c] # "idle" ~> cpc[c] = "idle" \/ misused
  /\ closed /\ rpc # "idle" ~> rpc = "idle" \/ misused

\* "Uses recv to read remaining messages" after a close: recv gives up for good
\* only when nothing is left, or a send is still under way.
RemainingCanBeReceived ==
  [][rpc = "r_last" /\ rpc' = "r_err" /\ closed /\ spc = "idle" => Pending = <<>>]_vars

=============================================================================
