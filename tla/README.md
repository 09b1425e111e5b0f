# Verification of omango

TLA+ specifications of [omango](../src/README.md), a Rust library of concurrent
queues, a wait group and two "single" execution groups; TLC runs that check them
on small instances; and TLAPS proofs of the most important facts for every value
of the constants. Line numbers refer to the files under `src/src/`.

## 1. Inventory

| Component | State it keeps | Operations | What makes it correct |
|---|---|---|---|
| Bounded MPMC queue (`queue/bounded.rs` `MpmcBounded`, `queue/elem.rs`) | `write_meta`, `read_meta` (index and lap packed in 64 bits, the top bit of the write lap is *closed*), a lap and a message per element | `try_send`, `try_recv`, `send`, `recv`, `close`, `is_close`, `length` | one thread inside an element at a time; FIFO; no message lost or doubled; no send after a close; honest Full and Empty |
| Wakers (`queue/waker.rs`) | a deque of raw pointers to stack waiters, `start`, `closed` under a mutex; the unlocked `empty` flag; a `parked` word per waiter | `Waiter::retry`, `sleep`; `Waker::register`, `unregister`, `wake_one`, `close` | no dangling pointer, no missed wake-up, close releases everybody |
| Bounded SPSC queue (`SpscBounded`) | the same with plain metas, one per side, and a closed flag of its own | the same | the same, across the wrap of the laps |
| Unbounded queues (`queue/unbounded.rs`) | linked list of bounded queues, `head`, `tail`, `closed` | `send`, `recv`, `close` | no message lost when the list grows, no node used after it is freed |
| Handles (`queue/mpmc.rs`, `queue/spsc.rs`) | an `Arc` of the queue | forward; `clone`, `drop` | the queue outlives every call and drops what is left in it |
| WaitGroup (`wg.rs`) | `count`, `flag` | `new`, `add`, `done`, `wait` | wait returns if and only if the counter is zero |
| Flight group (`single/flight.rs`) | a table of reference-counted calls behind a spin lock; per call a WaitGroup, a counter of callers and a result | `exec`, `forgot` | one execution per key in flight; every duplicate gets the result; calls live as long as they are shared |
| Source group (`single/source.rs`) | an array of calls, an index, a WaitGroup | `new`, `add`, `sum`, `get`, `reset` | adds never share a call; after `sum` every call is written and found |
| Errors, module roots, benchmarks | none | | |

**Interactions.** The handles call the queues through an `Arc` without a lock.
The bounded queues share words with each other's threads (metas, laps), call the
wakers after every transfer, and pass them the address of an element's lap.
Wakers and wait groups sleep in a futex (`omango_futex`), wakers lock a
`parking_lot` mutex, the flight group a spin lock (`omango_util`); none of these
libraries is part of the repository. Both single groups use a WaitGroup.

**Hard behaviours.** Interleavings of lock-free accesses; decisions taken on
words loaded earlier; a wake-up racing with a thread on its way to sleep; a
close racing with everything; memory freed behind a thread's back; counters that
wrap; a panic between two steps. `PROJECT.json` lists each hazard at its line with
the properties that cover it.

## 2. Modules

| Module | Models | Composition |
|---|---|---|
| `FifoChannel` | abstract: what a bounded queue promises | |
| `MpmcRing` | lock-free core of the MPMC queue, 1 action per shared access | implements `FifoChannel` (`ImplementsChannel`) |
| `MpmcHandles` | the queue behind its handles: clone, drop, drop of the elements | extends `MpmcRing` |
| `Wakers` | both wakers and the blocking protocol, over any queue | |
| `MpmcBounded` | the blocking MPMC queue | `MpmcRing` composed with `Wakers` |
| `SpscRing` | lock-free core of the SPSC queue, wrapping laps | implements `FifoChannel` |
| `SpscBounded` | the blocking SPSC queue | `SpscRing` composed with `Wakers` |
| `SpscUnbounded` | the SPSC list of bounded queues: growth, reclamation, close | implements `FifoChannel` (as large as all messages) |
| `MpmcUnbounded` | the MPMC list: temporary nodes, several receivers at head, reclamation, close | implements `FifoChannel` until memory is misused |
| `WaitGroup` | the wait group | |
| `SingleFlight` | the flight group | its per-call group implements `WaitGroup` (`ImplementsGroup`) |
| `SingleSource` | the source group | uses of `WaitGroup` only that a single waiter is released at zero |
| `MpmcBounded_proofs` | theorems about the ring, its handles and the blocking MPMC queue | extends `MpmcBounded`, `MpmcHandles` and TLAPS |
| `SpscBounded_proofs` | theorems about the SPSC ring and its blocking queue | extends `SpscBounded` and TLAPS |
| `Wakers_proofs`, `SpscUnbounded_proofs`, `MpmcUnbounded_proofs`, `WaitGroup_proofs`, `SingleFlight_proofs`, `SingleSource_proofs` | theorems | extend their module and TLAPS |
| `MCMpmcHandles`, `MCMpmcBounded`, `MCMpmcUnbounded` | symmetry sets for TLC | extend their module |

Operators whose comment starts with "Mutant:" are plausible bugs. They are not
part of any specification; substituted for the operator they precede, they
must break the property that `PROJECT.json` names for them.

### State and actions

*`MpmcRing`.* The packed metas are records `[idx, lap]`, `write_meta.lap >=
MPMC_MASK_32` is the closed bit. A call of a sender runs `SendCall`,
`SendLoadMeta` (line 457), `SendLoadLap` (465-470), `SendCas` (473-492, weak: it
may fail without a reason), `SendRecheck` (495, 502, 511), `SendWrite` and
`SendPublish` (`ElemArr::write`), `SendReturn`; a receiver is alike. `SendRetry`
and `RecvRetry` stand for the loop of the blocking calls. `todo` and `got` are
the clients' books: messages not handed over, results of receives.

*`MpmcHandles`.* `owners` are the threads with a handle; whoever has one may call,
clone it for another thread or drop it. The last drop of either kind drops the
queue, and with it the element array: `Dropped` counts what `ElemArr::drop`
(`elem.rs:77-92`) takes for initialised.

*`Wakers`.* `waiters` (the deque), `start`, `wk_closed`, `empty` for each of the two
wakers; `parked` for each thread; `at`, where a thread is in the code of the wakers; `mode`
(a try call, a blocking call, or one that has seen Closed). What a thread sees of the queue
(is it closed, has the element's lap moved on) is a parameter of its step. `retry` is its last
poll, since the earlier ones leave no trace; `register` is two steps under the lock,
`sleep` four (`SleepIsClose`, `SleepLap`, `Park`, `FutexWait`). `Notify` and `WakeAll` are
single steps: they run under the lock, and what a waiter does meanwhile neither
reads nor writes what they use, except its own parked word, of which each waiter is
visited once. `WakerSpec` is the protocol over a queue that may answer each look
either way; the theorems about the wakers are about it, so that they hold in both
compositions.

*`MpmcBounded`, `SpscBounded`.* While a thread is in the code of the wakers its place in the
ring stays put (`s_full`, `r_empty` while it waits, `s_ok`, `r_ok` while it notifies) and `at`
moves. The step that brings it back continues in the ring at once: `GoOn` starts the
selection over, a last time for a receiver that has seen Closed.

*`SpscRing`.* The metas belong to one thread each, so a claim joins the load of
the lap before it. Laps count modulo `LAP_MOD`.

*`SpscUnbounded`.* One action per access to the list: `send` runs from `s_try` to
`s_tail` (unbounded.rs 135-163), `recv` from `r_recv` to `r_free` (169-192), each
closer from `c_tail` to `c_close_next` (the two macros, 39-75). The queue of a
node is the sequence of its claimed messages, with claim, publication and
notify as separate steps: a receive fails on a claimed element that is not
published, and a send finds the queue full while an element is read. Of the
wakers it keeps what matters to the list: a notify reaches a receiver only if it
sleeps already (`WakeReader`), and whoever closes a queue gets its receiver
out (`RecvReleased`). Nodes are numbered as they are linked. The weak exchange of
the sender may fail without a reason and then makes null the tail. Once a thread
touches a freed or null node (`Misuse`), the behaviour ends there.

*`MpmcUnbounded`.* The same for several threads on each side. `send` (244-292) links a
temporary node (`SendLink`), closes the full queue, frees the temporary node
(`SendFreeTemp`, line 276), and puts a node with its message in its place (`SendStoreNext`,
`SendStoreTail`); `recv` (295-323) goes from `r_recv` over `r_next`, `r_cap` (the capacity read
through `next`) and `r_move` to `r_free`. `broken` is raised by the step after which the
code means nothing: an access to a node that was freed, or to null, and a head that moves
off a node with a claimed message that is still to be written.

*`WaitGroup`.* `FetchSub` is the decrement with its assertion and test,
`DoneStore` and `DoneWakeAll` the rest of `done`; `WaitLoad`, `WaitFutex`,
`WaitClear` are `wait`. `owed` is the clients' account. Clients follow the
documentation of `add` (lines 67-75); `DoneUnmatched` is the one mistake they
may make, `CatchPanic` what the test of it does.

*`SingleFlight`.* `exec` is `ExecCall`, `Get`/`CloneStore`, then either the
`Follower*` actions (with `WaitGroup::wait` inlined) or the `Leader*` actions; `times`
is the count of a call's callers. The counter of an `Rc` is loaded and stored in
separate steps because nothing orders its clones and drops. The type a caller asks for is left
open: a duplicate may find another one in the call and panic (`FollowerPanics`, line 134). Once a
thread touches a freed call the behaviour ends, since the code means nothing from there on: safety
properties hold up to that point and `ExecReturns` makes an exception for it.

*`SingleSource`.* `AddClaim` (132-133), `AddRun` (135-140), `AddWrite` (142-148),
`AddDone` (149); `SumReturn` and `Reset` belong to the thread that sums. `get` only
reads: what it finds is `SumIsComplete`.

### Abstractions

* Memory is sequentially consistent. The code uses Acquire, Release and Relaxed;
  reorderings a weaker model allows are not explored. This matters most for
  the store of a lap followed by the load of `empty` (`waker.rs:233`), for `head` of the SPSC
  list, a plain field which `close` reads (line 200), and for the Relaxed store of `closed`
  (`unbounded.rs:52`).
* Backoff (spin, snooze) is nothing: it changes no state.
* A futex wait sleeps only if the word holds the expected value, may wake
  spuriously, and a wake releases whoever sleeps. Mutexes and the spin lock
  exclude and, under the fairness below, let everybody in.
* Messages, keys and outcomes are model values; the messages of the SPSC modules and of
  `MpmcUnbounded` are numbers, sent lowest first. Each message is accepted once.
* Laps of `MpmcRing` are numbers without a bound of their own. Runs keep the mask
  out of reach; the theorems do not: exclusion and conservation are proved beyond it too, and
  what needs it out of reach says so (`LapsLeft`, section 4).
* Nodes of the lists are never reused: the address of a freed node does not come back as that of
  a new one. An exchange of `head` that succeeds on such an address (ABA, `unbounded.rs:314`) is
  therefore not represented: what `MpmcUnbounded` shows and proves is about executions in which
  the allocator does not return the address while a receiver is on its way to that exchange.
* The node queues of the two lists are abstract. What they answer is what the
  modules of the bounded queues are checked to answer (`FailuresAreHonest`,
  `ImplementsChannel`).

## 3. Runs

Passing runs, with what they ask:

| Run | Instance | Shows |
|---|---|---|
| `handles_two_by_two` | 2 senders, 2 receivers, 1 closer, 3 messages, 2 elements; handles cloned and dropped | `ElementExclusive`, `MessagesConserved` and the inductive invariant of both, `ConserveInv` (`RingInv` is its first part); refinement of `FifoChannel` (`ImplementsChannel`); `NoClaimAfterClose`; `FailuresAreHonest`; the drop of the queue drops what is still to be received, once (`PendingDroppedOnce`) |
| `bounded_two_receivers` | 1 sender, 2 receivers, 1 closer, 2 messages, 1 element | the registry of raw pointers is sound (`RegistrySound`), the unlocked flag can be trusted (`EmptyFlagExact`, `SkipIsSafe`), `recv` gives up honestly (`LastTryIsHonest`), and a close leaves nobody asleep behind it (`NobodySleepsAfterClose`) |
| `spsc_bounded_wrap` | 5 messages, 2 elements, laps modulo 4, 1 closer | exclusion, refinement of `FifoChannel` and honest answers across the wrap, with blocking calls; `CallsReturnOrSleep` and `CloseReleases` under fairness |
| `mpmc_unbounded_growth` | 2 senders, 2 receivers, 1 closer, 3 messages, nodes of 1, 2 closes | FIFO across nodes until the memory of a node is misused (`ImplementsChannel`), which takes a growth (`SafeUntilGrowth`); `ErrorsOnlyByClose`; nobody locked out of the list, or spinning, for nothing (`SpinningEnds`); one close that gets through and no other (`OneCloseGetsThrough`) |
| `spsc_unbounded_growth` | 6 messages, nodes of 2, 1 closer | refinement of one unbounded `FifoChannel` across nodes; `SafeUntilClose`; `ErrorsOnlyByClose`; `CallsReturn` and `CloseReleases` under fairness |
| `wg_one_waiter` | 2 members, 1 waiter, 2 adds, one `done` too many | `AccountInv`, `NoLostWakeup`, `FirstUnmatchedPanics`, and `ZeroReleases` under fairness |
| `flight_shared` | 2 callers, one of them also forgets, 2 executions, 2 keys | `ResultReady`, `ImplementsGroup`, and `ExecReturns` under fairness |
| `source_collection` | 3 adders, 3 sources, 2 calls, one reset | `CallExclusive`, `SumIsComplete`, no refusal while a call is left (`RefusalsAreHonest`), and `SumReturns` under fairness |

Runs that find the code at odds with what it says of itself (the findings in
`PROJECT.json` quote both sides):

| Run | Property | What happens |
|---|---|---|
| `bounded_lost_wakeup` | `NobodySleepsOnWork` | a waiter parks after the notify has passed it |
| `wg_two_waiters` | `ZeroReleases` | one waiter lowers the flag the other needs |
| `flight_in_flight` | `OnlyOneInFlight` | lookup and insertion are not one step |
| `spsc_unbounded_remaining` | `RemainingCanBeReceived` | after a close `recv` never leaves the node it is in |

**A property that states a flaw.** `OneCloseGetsThrough`, of a passing run, describes what the code
does where a reader might expect otherwise: a second `close` of a list retries forever. No document
or test of the repository says what a second close does.

**What the code does that no run judges.** The models have the following
behaviours of the code, given constants that reach them, and the properties are
stated around them:

* a second collection of the source group, for which `source.rs:89-90` calls a group that was reset
  ready, gets nowhere: `reset` sets the index to the end (line 229), so every add of it is
  refused and its `sum` waits forever. `ResetStalls` proves this for every length;
  `RefusalsAreHonest` and `SumReturns` are about the first collection;
* the lap of the MPMC queue runs into the closed bit after 2^30 rounds (`bounded.rs:477`), and the
  queue closes by itself;
* once the laps of the SPSC queue have wrapped on one side only, `try_send` on a full
  queue spins instead of answering Full (`Overtaken` in `SpscRing`);
* `recv` fails after a close while a send that was accepted is still being written
  (`LastTryIsHonest` says exactly when it may);
* the drop of a queue drops the bytes of elements that were never written, and once more
  messages that were received (`drops` in `MpmcHandles` counts both;
  `PendingDroppedOnce` is about the messages still to be received);
* a receiver of the MPMC list reads the capacity of a temporary node that its sender
  has freed (`unbounded.rs:276, 309`), and the receiver that moves head on frees a node in
  which others still look for messages or a sender has yet to write (line 320): that
  `broken` is reached is why the properties of `MpmcUnbounded` stop at it;
* a caught panic of `done` leaves the counter wrapped, so a second `done` too many
  does not panic;
* the `Rc` of a flight call loses updates of its count, and a call may be freed while
  shared; two duplicates of one call run into the WaitGroup's flag (`wg_two_waiters`, not
  `ExecReturns`, whose runs have at most one duplicate per call);
* `close` of the lists closes two nodes only, follows a null `next`, and reads nodes
  the receivers may free (`CloseReleases` stops at that step); a spurious failure of the SPSC
  sender's exchange makes null the tail;
* a sender of the MPMC list that finds the last node full after a close, without having seen
  it closed, retries forever behind the node that the close has linked.

Two more were met in reading only. A second `get` of the source group copies a value already given
away. And `length` of the bounded queues (`bounded.rs:447-454`, 237-244), documented as 'Get current
length of queue' (`mpmc.rs:172`), drops the laps of the metas, which it loads one after the other: equal
indices count as full, so an empty queue has the length of its capacity, and while the
write index is ahead the answer is one too many. The example in its documentation
(`mpmc.rs:192`) asks a queue of capacity one, whose answer is always 1.

**Bounds.** Three messages on two elements take both metas to their second lap;
a race needs two threads of a kind, and the inductive invariant that the run
checks is proved without bounds. The mask, `COUNT_MOD` and `LAP_MOD` are scaled
down where the wrap is the question (`LAP_MOD`: five messages on two elements go
around four laps) and out of reach where it is not. Two receivers are the
smallest number for which `start`, the order of the deque, and a wake-up that
reaches the wrong waiter matter. Six messages on nodes of two make the SPSC list
grow twice, so that a node is linked, filled, left and freed while the
next is linked, and a fourth node is left for the close. Nodes of one message make the
MPMC list grow twice with three; two closes by one thread are enough, since the second waits for
what the first has left. Two executions by two callers share a call, displace each other's, or
find it forgotten; a call has at most one duplicate then, which is all the WaitGroup beneath
it can serve. `SingleSource` has one adder more than calls, so that one is refused.

**Fairness.** A thread inside a call keeps running (weak fairness on its steps;
strong where a lock, or a compare-exchange that may fail for no reason, comes
and goes), user functions return, and nobody has to make a call. No fairness is
assumed of spurious wake-ups. In `SpscUnbounded` a receiver whose wake-up is lost may
sleep on: `CallsReturn` makes that exception (`WakeupLost`) beside the null tail and freed
memory. The MPMC list states no liveness: its loops would need strong fairness for every
exchange of every thread, beyond what TLC handles on three million states.
`SpinningEnds` is the safety half of it: whenever somebody waits for a link or for the tail, the
thread that has to act is at that very place. `CHECK_DEADLOCK FALSE` stands where clients
may have no call or no handle left, or where a behaviour ends in freed memory.

## 4. Proofs

All proofs hold for every finite or infinite set of threads and messages, every
capacity, and every modulus that the named ASSUMEs allow.

**The bounded MPMC queue** (`MpmcBounded_proofs`, 3288 obligations).

*The ring.* `Typing` proves `TypeOK`. `Exclusion` proves
`ElementExclusive`, and `ClosedIsFinal` proves `NoClaimAfterClose`, both from
`RingInvariance`. Exclusion is not inductive: that a second thread cannot claim
an element depends on its lap, and on the claims that come next. `RingInv`
therefore says, for each element, at which lap it will next be claimed for
writing (`NextWrite`) and for reading (`NextRead`), and that together with the
element's own lap these determine one of four phases: free, being written,
full, being read. A thread inside an element knows its phase (`WriterPhase`,
`ReaderPhase`), and a thread before its compare-exchange knows that the element's
lap has not fallen behind the meta it loaded (`MayClaim`), which is what makes a
successful exchange mean that the element is ready. Claims move one element to
its next phase (`SenderClaim`, `ReceiverClaim`), and leaving an element moves its lap
(`LeaveStep`); every other step changes no word the invariant reads (`QuietStep`).
After a close the write side is unknown, so the phases weaken there.

*Where a message is.* `Conservation` proves `MessagesConserved` from `ConserveInv`. Counting the
places of a message is not inductive: a send must not overwrite an element whose
message nobody has taken, and a receive must find its message where it was written.
`Whereabouts` says which one of five places a message is in (with its client, with one
sender, in one element, with one receiver, or in one result), and that the bytes of a message
nobody has claimed are in no second element, not even left over. That needs the phases of
`RingInv` and the parity of the laps: reads are claimed at odd ones (`ReadsOdd`), so that
`WrittenIn`, which goes by the lap, agrees with who is inside. One lemma follows the places
through each step (`SendWritePlaces` to `RecvReturnPlaces`); `QuietPlaces` does the rest. It
holds whatever the laps do, also when they run into the closed bit.

*The handles.* Using a handle is a step of the ring, cloning or dropping one leaves the ring
alone (lemma `HandlesImplementRing`), and a thread without a handle is in no call (`HandlesInv`). When
the last handle goes, then, every message is with its client, in one element, or in one
result, and `PendingIsDropped` proves `PendingDroppedOnce`.

*The ring as a channel.* `ChannelImplemented` proves the refinement of `FifoChannel`, and
`FailuresHonest` proves `FailuresAreHonest`. Both have the
hypothesis `[]LapsLeft`: a queue that is open has not yet run its lap into the closed bit,
which takes 2^30 rounds (`bounded.rs:477`). Without it they are false, since the queue then closes
by itself; `BitStep` proves that it does so in no other way. `OpenInv` is `RingInv` sharpened under that hypothesis. Its phases
hold after a close as before it (`OpenPhase` reads the write side without the bit), they say in
which phase somebody must be inside, where `RingInv` only says who may be, and they
date a loaded meta: it is the present one, or at least a whole
claim behind the next one of its element (`LoadedWrite`, `LoadedRead`). From it, the metas are at
most one lap apart (`MetasClose`), so that `Pending` is a sequence with one member for each
element between them (`PendingType`) and no two of its places are the same element. A claim for
writing appends to it (`ChannelSend`), a claim for reading takes its head (`ChannelRecv`), writing
the bytes changes the element but not what is pending (`ChannelWrite`), and nothing
else touches it (`ChannelStutter`). An answer Full or Empty is given on a lap below
the loaded one, which only two phases allow (`FullIsHonest`, `EmptyIsHonest`).

*The blocking queue.* Each step of the composition is a step of the ring or leaves the ring
alone (lemma `RingImplemented`), and likewise for the wakers. `BlockingExclusion`,
`BlockingConserves` and `BlockingChannel` follow from the first, `RegistryBlocking` and
`FlagBlocking` from the second. `SkippingIsSafe` needs both: a thread that returns without a wake-up has found the flag up, so the opposite deque is empty (exact
flag), so nobody of that side is registered (sound registry). `LastTryHonest` proves
`LastTryIsHonest` (under `[]LapsLeft` again): only a look at the bit makes a try the last one, the
bit stays (`ClosedStays`), and what the failing try says of the channel is
`FailuresHonest` once more. `NobodySleepsOn` proves `NobodySleepsAfterClose` (under `[]LapsLeft`,
without which nobody need come to wake the sleepers): the bit is set before the close goes through the
wakers (`BitByClose`), a close leaves a waker only when its deque is empty (`CloserLeaves`), and who
registers after that sees the bit before it could park (`LookSeesBit`). The wakers appear under two
names there, `W` in the module and `P` with the theorems; the `Same...` lemmas equate them.

**The wakers** (`Wakers_proofs`, 352). `RegistryKept` proves `RegistrySound` and `FlagKept` proves
`EmptyFlagExact` of `WakerSpec`, that is, over any queue. Both are inductive. The work is in the two
sequence lemmas, `Entering` and `Leaving`: a waiter that is appended, or removed from wherever it
stands, keeps the deque free of doubles and changes its range by exactly that waiter. `start`
stays below the length because every departure lowers it.

**The bounded SPSC queue** (`SpscBounded_proofs`, 975). `Exclusion`, with the four phases of the
MPMC ring, but laps compared by equality of `After(lap, d)` modulo `LAP_MOD`, since an order of
laps means nothing once they wrap. That the phases stay distinct takes a modulus of at least
four, which the code's 2^32 is (`LapAssumption`). The lemma `RingImplemented`
carries it over to the blocking queue (`BlockingExclusion`), and the theorems about the wakers with it (`WakersBlocking`).

`ChannelImplemented` proves the refinement of `FifoChannel`, with no hypothesis on how long the queue
is used. The phases alone do not say which of the two metas is ahead: with a modulus of four,
four laps on is no lap on. `ChannelInv` therefore adds `MetasClose`, the writer is on the reader's lap
or one lap past it, and `Parity`, without which the difference of the metas (`Count`) would not
be the number of pending messages across a wrap. A claim of the sender then
appends, one of the receiver takes the head, and `FailuresHonest` reads `FailuresAreHonest` off the
phases. `BlockingChannel` carries the refinement over to the blocking queue.

**The unbounded SPSC queue** (`SpscUnbounded_proofs`, 2738). `NodesAlive` proves `SafeUntilClose` from
`ListInv`: links lead forward, what was freed is behind head, and, as long as nobody has closed,
the list ends at tail or at the one node the sender is filling (`Untroubled`). The receiver moves
on only over a link, so it is never more than that one node ahead of the sender, which then works
on the new node and not on tail. `ReceiverIsSafe` holds with closes too, and is why the model has
no step in which the receiver touches freed memory.

`NoSpuriousErrors` proves `ErrorsOnlyByClose` from `ErrorInv`: without a close it is the sender
that closes queues, those of the nodes it is leaving, and such a queue was full. So a node nobody
has received from yet still holds a message, and the receive from a second node cannot fail.

`ChannelImplemented` proves that the list implements one unbounded `FifoChannel`, closes included.
`ChainInv` says that the list is a chain of all the nodes in the order they were linked
(`Consecutive`), that only closers with the flag up and the sender that leaves a node close it
(`Closing`), that the receiver leaves a node only when it is closed, empty and no longer filled
(`LeftEmpty`), and that the nodes in front of the sender's are empty (`FrontEmpty`). So a send
appends at the end of `Pending` and a receive takes its head, although both work on the queue of
one node, and every other step leaves it alone (`EveryStep`). `Pending` is a `FlattenSeq` over the
nodes, about which the lemmas on `Joined` say what a step needs. They are inductions
over the number of nodes, made possible by `SetInduction`, which takes a set of
naturals in place of the predicate that the library's theorems have as a parameter. `Room` is
what keeps the messages in the list within the bound of the model.

**The unbounded MPMC queue** (`MpmcUnbounded_proofs`, 5658). `UnboundedInv` is about the end of the
list. What follows the tail tells who is at work there (`Shape`): a null admits one exchange, the
temporary node or a new one belongs to the one sender that linked it, the node of a
close stays. `NobodySpinsForNothing` (`SpinningEnds`) reads that off, with `MovesOn`: only a close
closes the queue of a node that stays the last. So does `SecondCloseRetries`
(`OneCloseGetsThrough`), by counting the closers that are still before their exchange
(`CloseCount`). `NothingBreaksEarly` (`SafeUntilGrowth`) is `Calm`, which needs to know what each
frame refers to (`Frames`). `Typing` is not free here: that the list never has more nodes than
messages follows only from the fact that a node is linked when the one before it has
accepted a message (`Budget`). `NoSpuriousErrors` proves `ErrorsOnlyByClose`.

`ChannelImplemented` proves `ImplementsChannel`, the refinement of one unbounded `FifoChannel` up
to the step that breaks the list. `ChainInv` adds three facts: a node with another behind
it is closed, so that a queue that still accepts messages is that of the last node (`Ended`);
receivers are at head or behind it (`Following`); and what head has left is empty, since the
behaviour would be broken otherwise (`Drained`). So every send appends at the end of `Pending`, into
the last node or as a new one, and a receiver that finds a message finds the head of
`Pending`, though it may have loaded head long ago (`EveryStep`). The lemmas about `FlattenSeq` are those
of the SPSC list where the steps are the same.

**The wait group** (`WaitGroup_proofs`, 226). `Typing` proves `TypeOK`; `AccountKept` proves
`AccountInv`, which is inductive: as long as every `done` was announced the
counter is the clients' account and no assertion fails; and
`FirstUnmatchedCaught` proves that the assertion catches the first mistake.
`SingleWaiterIsWoken` proves `NoLostWakeup` for groups with at most one waiter, from
`WakeInv`: a waiter on its way into the futex at a zero counter finds the flag up
or a thread about to raise it. The assumption is needed: `wg_two_waiters` is a
counterexample for two.

**The flight group** (`SingleFlight_proofs`, 1293). `ResultsAreReady` proves `ResultReady` from
`FlightInv`, which follows the life of a call (`Lives`): the one thread that created it (`Leading`) is
the only one that ever lowers its counter, and does so after the result is written; the
counter never rises again. So a duplicate that has seen zero finds a result. The number of
callers it is told of stays within its type because every `exec` is counted once, in one call
(`Budget`). The table plays no part: calls may be displaced and forgotten, and the racy counts of
an `Rc` matter only as far as a stored one is positive or frees the call (`RefsPositive`).
`GroupImplemented` proves `ImplementsGroup`, given that there is a call at all (`MaxExecs > 0`): each
step of `exec` is a step of the first call's `WaitGroup` or leaves it alone.

**The source group** (`SingleSource_proofs`, 346). `SourceInv` makes the counter the number of the calls
that are still open (nobody's, or somebody's who has not called `done`), keeps the threads inside
calls on slots of their own, and follows a key from the clients' books into the call that carries
it. `CallsExclude` follows, and `SumCompletes`: a zero counter leaves no call open. Whoever was refused
has found the index past the end, and every call below the index is somebody's
(`RefusalsHonest`). After a reset the invariant takes its second form, in which nobody ever gets a
call and no `sum` returns (`ResetStalls`).

**Model-checked only.** Liveness (`CallsReturnOrSleep`, `CallsReturn`, `CloseReleases`,
`ZeroReleases`, `ExecReturns`, `SumReturns`), which is out of the provers' reach, and the
counterexamples of section 3, which are single behaviours. Every other property of a run that passes is
a theorem. The inductive invariants that are not in the component's own
module (`OpenInv`, `HandlesInv`, `ChannelInv`, `ListInv`, `ErrorInv`, `ChainInv`, `UnboundedInv`,
`FlightInv`, `SourceInv`) live with their proofs; TLC found no violation of them on the instances
of the runs before they were proved.

## 5. Not modelled, and why

* `length` of the bounded queues: it changes nothing, nothing but the handles calls it, and what it
  answers (section 3) can be read off its five lines.
* The wrap of the lap into the closed bit in the MPMC queue (`bounded.rs:477`): the model has it for a
  small mask, but no run asks about it, and 2^30 rounds are out of the reach of a run.
* Clones and drops of the handles other than those of the bounded MPMC queue: they have
  the same form; those of the unbounded queues drop a head and a tail that free no node.
* Weak memory, spin and snooze timing, errors' texts, benchmarks.
* More than one thread on a side of the SPSC queue: the handles can be cloned, but
  one thread per side is the contract in the queue's name. (Closers may be many.)

## 6. Plan

Done: every queue, the wakers, the wait group and both single groups, with a theorem for every
safety property and every refinement that a run checks. What is left, in this order:

1. The hypothesis `[]LapsLeft` in the theorems about the bounded MPMC ring as a channel: what can be
   said of a ring that has closed by itself.
2. The part of liveness that is safety: invariants that name, for each sleeping or spinning thread,
   the thread that has to act, as `SpinningEnds` does for the MPMC list.
