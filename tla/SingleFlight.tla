---------------------------- MODULE SingleFlight ----------------------------
(***************************************************************************)
(* omango's single-flight group (src/single/flight.rs): exec looks its key *)
(* up in a table of calls.  A caller that finds a call waits for it and    *)
(* shares its result; a caller that finds none creates a call, inserts it, *)
(* runs the user's function and publishes the result.  forgot drops the    *)
(* table's entry.                                                          *)
(*                                                                         *)
(* Calls are reference counted by Rc, whose counter is a plain integer.    *)
(* The group declares itself Sync, so a clone and a drop of one Rc by two  *)
(* threads race: each is a load and a store here.  The WaitGroup of a call *)
(* is modelled access by access, as in module WaitGroup, which it is shown *)
(* to implement.  Once a thread touches a call that was freed, nothing is  *)
(* said of what follows: the behaviour ends there.                         *)
(***************************************************************************)
EXTENDS Naturals

CONSTANTS
  Callers,     \* threads that call exec
  Forgetters,  \* threads that call forgot; a thread may be both
  Keys,        \* the units of work
  MaxExecs     \* bound: how often exec is called

Threads == Callers \cup Forgetters
Calls == 1 .. MaxExecs
NoCall == 0
Outcomes == {"ok", "err", "panic"}
NoResult == "none"

ASSUME ExecsAssumption == MaxExecs \in Nat

VARIABLES
  table,    \* the HashMap behind the spin lock: the call of each key
  execs,    \* how often exec was called
  created,  \* how many calls were created
  refs,     \* the strong count of the Rc of each call
  freed,    \* the calls whose strong count reached zero
  count,    \* Call.wg.count
  flag,     \* Call.wg.flag
  times,    \* Call.count: the callers that share the call
  result,   \* Call.result
  pc,       \* where each thread is in the operation it executes
  key,      \* local: the key asked for
  call,     \* local: the call a thread holds, or has removed
  old,      \* local: the call an insertion displaced
  loaded,   \* local: a strong count loaded and not yet stored back
  misused   \* a thread has accessed a call after it was freed

rc == <<refs, freed, loaded>>
group == <<count, flag>>
vars == <<table, execs, created, rc, group, times, result, pc, key, call, old, misused>>

FollowerPCs == {"f_count", "f_load", "f_futex", "f_clear", "f_read"}
LeaderPCs == {"l_run", "l_done", "d_store", "d_wake"}
PCs == {"idle", "g_get", "g_clone", "l_create", "l_insert", "l_displaced",
        "f_asleep", "drop", "drop_store", "o_remove", "o_removed"}
         \cup FollowerPCs \cup LeaderPCs

Goto(t, label) == pc' = [pc EXCEPT ![t] = label]

\* The lock: get holds it shared while it clones; insert and remove hold it
\* exclusively until the entry they took out is dropped.
Reading == \E t \in Threads : pc[t] = "g_clone"
Writing == \E t \in Threads : pc[t] \in {"l_displaced", "o_removed"}

\* The next access of a thread goes to a call that was freed.
Dangling(t) ==
  \/ call[t] \in freed /\ pc[t] \in FollowerPCs \cup LeaderPCs \cup
                           {"g_clone", "drop", "drop_store", "o_removed"}
  \/ old[t] \in freed /\ pc[t] = "l_displaced"

Init ==
  /\ table = [k \in Keys |-> NoCall]
  /\ execs = 0
  /\ created = 0
  /\ refs = [c \in Calls |-> 0]
  /\ freed = {}
  /\ count = [c \in Calls |-> 0]
  /\ flag = [c \in Calls |-> 0]
  /\ times = [c \in Calls |-> 0]
  /\ result = [c \in Calls |-> NoResult]
  /\ pc = [t \in Threads |-> "idle"]
  /\ key \in [Threads -> Keys]
  /\ call = [t \in Threads |-> NoCall]
  /\ old = [t \in Threads |-> NoCall]
  /\ loaded = [t \in Threads |-> 0]
  /\ misused = FALSE

-----------------------------------------------------------------------------
ExecCall(t, k) ==
  /\ pc[t] = "idle"
  /\ execs < MaxExecs
  /\ execs' = execs + 1
  /\ key' = [key EXCEPT ![t] = k]
  /\ Goto(t, "g_get")
  /\ UNCHANGED <<table, created, rc, group, times, result, call, old>>

\* get: look up under the read lock; a hit goes on to clone the Rc, of which
\* this is the load.
Get(t) ==
  /\ pc[t] = "g_get"
  /\ ~Writing
  /\ \/ /\ table[key[t]] # NoCall
        /\ call' = [call EXCEPT ![t] = table[key[t]]]
        /\ loaded' = [loaded EXCEPT ![t] = refs[table[key[t]]]]
        /\ Goto(t, "g_clone")
     \/ /\ table[key[t]] = NoCall
        /\ Goto(t, "l_create")
        /\ UNCHANGED <<call, loaded>>
  /\ UNCHANGED <<table, execs, created, refs, freed, group, times, result, key, old>>

CloneStore(t) ==
  /\ pc[t] = "g_clone"
  /\ refs' = [refs EXCEPT ![call[t]] = loaded[t] + 1]
  /\ Goto(t, "f_count")
  /\ UNCHANGED <<table, execs, created, freed, loaded, group, times, result, key, call, old>>

-----------------------------------------------------------------------------
(* A duplicate: WaitGroup::wait, then the result                           *)

FollowerCount(t) ==
  /\ pc[t] = "f_count"
  /\ times' = [times EXCEPT ![call[t]] = @ + 1]
  /\ Goto(t, "f_load")
  /\ UNCHANGED <<table, execs, created, rc, group, result, key, call, old>>

\* The key holds a call of another type: unwrap panics before the duplicate is
\* counted, and the unwinding drops its Rc.  (Types are left open: any hit may be
\* of the other type.)
FollowerPanics(t) ==
  /\ pc[t] = "f_count"
  /\ Goto(t, "drop")
  /\ UNCHANGED <<table, execs, created, rc, group, times, result, key, call, old>>

FollowerLoad(t) ==
  /\ pc[t] = "f_load"
  /\ Goto(t, IF count[call[t]] > 0 THEN "f_futex" ELSE "f_clear")
  /\ UNCHANGED <<table, execs, created, rc, group, times, result, key, call, old>>

\* Mutant: a raised flag ends the wait without another look at the counter.
FollowerFutexOnce(t) ==
  /\ pc[t] = "f_futex"
  /\ Goto(t, IF flag[call[t]] = 0 THEN "f_asleep" ELSE "f_clear")
  /\ UNCHANGED <<table, execs, created, rc, group, times, result, key, call, old>>

FollowerFutex(t) ==
  /\ pc[t] = "f_futex"
  /\ Goto(t, IF flag[call[t]] = 0 THEN "f_asleep" ELSE "f_load")
  /\ UNCHANGED <<table, execs, created, rc, group, times, result, key, call, old>>

SpuriousWake(t) ==
  /\ pc[t] = "f_asleep"
  /\ Goto(t, "f_load")
  /\ UNCHANGED <<table, execs, created, rc, group, times, result, key, call, old>>

FollowerClear(t) ==
  /\ pc[t] = "f_clear"
  /\ flag' = [flag EXCEPT ![call[t]] = 0]
  /\ Goto(t, "f_read")
  /\ UNCHANGED <<table, execs, created, rc, count, times, result, key, call, old>>

FollowerRead(t) ==
  /\ pc[t] = "f_read"
  /\ Goto(t, "drop")
  /\ UNCHANGED <<table, execs, created, rc, group, times, result, key, call, old>>

-----------------------------------------------------------------------------
(* The original                                                            *)

\* The new call, its clone and wg.add(1) are private until the insertion.
LeaderCreate(t) ==
  /\ pc[t] = "l_create"
  /\ created' = created + 1
  /\ call' = [call EXCEPT ![t] = created + 1]
  /\ refs' = [refs EXCEPT ![created + 1] = 2]
  /\ count' = [count EXCEPT ![created + 1] = 1]
  /\ times' = [times EXCEPT ![created + 1] = 1]
  /\ Goto(t, "l_insert")
  /\ UNCHANGED <<table, execs, freed, loaded, flag, result, key, old>>

\* insert displaces whatever call the key has by now, and drops it.
LeaderInsert(t) ==
  /\ pc[t] = "l_insert"
  /\ ~Reading /\ ~Writing
  /\ table' = [table EXCEPT ![key[t]] = call[t]]
  /\ \/ /\ table[key[t]] = NoCall
        /\ Goto(t, "l_run")
        /\ UNCHANGED <<old, loaded>>
     \/ /\ table[key[t]] # NoCall
        /\ old' = [old EXCEPT ![t] = table[key[t]]]
        /\ loaded' = [loaded EXCEPT ![t] = refs[table[key[t]]]]
        /\ Goto(t, "l_displaced")
  /\ UNCHANGED <<execs, created, refs, freed, group, times, result, key, call>>

\* The store of a drop, and the free when the count it stores is zero.
DropStore(t, c, next) ==
  /\ refs' = [refs EXCEPT ![c] = loaded[t] - 1]
  /\ freed' = IF loaded[t] = 1 THEN freed \cup {c} ELSE freed
  /\ Goto(t, next)
  /\ UNCHANGED <<table, execs, created, loaded, group, times, result, key, call, old>>

DropDisplaced(t) == pc[t] = "l_displaced" /\ DropStore(t, old[t], "l_run")

\* Mutant: a panic of the user's function skips done().
LeaderRunUncaught(t, outcome) ==
  /\ pc[t] = "l_run"
  /\ result' = [result EXCEPT ![call[t]] = outcome]
  /\ Goto(t, IF outcome = "panic" THEN "drop" ELSE "l_done")
  /\ UNCHANGED <<table, execs, created, rc, group, times, key, call, old>>

\* Mutant: an error of the user's function is not recorded.
LeaderRunUnset(t, outcome) ==
  /\ pc[t] = "l_run"
  /\ result' = IF outcome = "err" THEN result ELSE [result EXCEPT ![call[t]] = outcome]
  /\ Goto(t, "l_done")
  /\ UNCHANGED <<table, execs, created, rc, group, times, key, call, old>>

\* The user's function returns or panics; either way a result is written.
LeaderRun(t, outcome) ==
  /\ pc[t] = "l_run"
  /\ result' = [result EXCEPT ![call[t]] = outcome]
  /\ Goto(t, "l_done")
  /\ UNCHANGED <<table, execs, created, rc, group, times, key, call, old>>

\* done(): its assertion holds as long as the counter keeps its type.
LeaderDone(t) ==
  /\ pc[t] = "l_done"
  /\ count' = [count EXCEPT ![call[t]] = @ - 1]
  /\ Goto(t, IF count[call[t]] = 1 THEN "d_store" ELSE "drop")
  /\ UNCHANGED <<table, execs, created, rc, flag, times, result, key, call, old>>

LeaderStore(t) ==
  /\ pc[t] = "d_store"
  /\ flag' = [flag EXCEPT ![call[t]] = 1]
  /\ Goto(t, "d_wake")
  /\ UNCHANGED <<table, execs, created, rc, count, times, result, key, call, old>>

LeaderWake(t) ==
  /\ pc[t] = "d_wake"
  /\ pc' = [u \in Threads |->
              IF u = t THEN "drop"
              ELSE IF pc[u] = "f_asleep" /\ call[u] = call[t] THEN "f_load" ELSE pc[u]]
  /\ UNCHANGED <<table, execs, created, rc, group, times, result, key, call, old>>

-----------------------------------------------------------------------------
(* The end of exec: the caller's own Rc is dropped without the lock        *)

DropLoad(t) ==
  /\ pc[t] = "drop"
  /\ loaded' = [loaded EXCEPT ![t] = refs[call[t]]]
  /\ Goto(t, "drop_store")
  /\ UNCHANGED <<table, execs, created, refs, freed, group, times, result, key, call, old>>

DropOwn(t) == pc[t] = "drop_store" /\ DropStore(t, call[t], "idle")

ForgotCall(t, k) ==
  /\ pc[t] = "idle"
  /\ key' = [key EXCEPT ![t] = k]
  /\ Goto(t, "o_remove")
  /\ UNCHANGED <<table, execs, created, rc, group, times, result, call, old>>

ForgotRemove(t) ==
  /\ pc[t] = "o_remove"
  /\ ~Reading /\ ~Writing
  /\ table' = [table EXCEPT ![key[t]] = NoCall]
  /\ \/ /\ table[key[t]] = NoCall
        /\ Goto(t, "idle")
        /\ UNCHANGED <<call, loaded>>
     \/ /\ table[key[t]] # NoCall
        /\ call' = [call EXCEPT ![t] = table[key[t]]]
        /\ loaded' = [loaded EXCEPT ![t] = refs[table[key[t]]]]
        /\ Goto(t, "o_removed")
  /\ UNCHANGED <<execs, created, refs, freed, group, times, result, key, old>>

ForgotDrop(t) == pc[t] = "o_removed" /\ DropStore(t, call[t], "idle")

\* Reading or writing freed memory.
UseFreed(t) ==
  /\ Dangling(t)
  /\ ~misused
  /\ misused' = TRUE
  /\ UNCHANGED <<table, execs, created, rc, group, times, result, pc, key, call, old>>

-----------------------------------------------------------------------------
Locking(t) == Get(t) \/ LeaderInsert(t) \/ ForgotRemove(t)

Running(t) ==
  \/ CloneStore(t) \/ FollowerCount(t) \/ FollowerPanics(t) \/ FollowerLoad(t)
  \/ FollowerFutex(t) \/ FollowerClear(t) \/ FollowerRead(t) \/ LeaderCreate(t) \/ DropDisplaced(t)
  \/ \E outcome \in Outcomes : LeaderRun(t, outcome)
  \/ LeaderDone(t) \/ LeaderStore(t) \/ LeaderWake(t)
  \/ DropLoad(t) \/ DropOwn(t) \/ ForgotDrop(t)

\* The next access of t goes to memory that is alive.
Alive(t) == ~Dangling(t) /\ ~misused /\ UNCHANGED misused

Next ==
  \E t \in Threads :
    \/ UseFreed(t)
    \/ /\ Alive(t)
       /\ \/ t \in Callers /\ \E k \in Keys : ExecCall(t, k)
          \/ t \in Forgetters /\ \E k \in Keys : ForgotCall(t, k)
          \/ Locking(t) \/ Running(t) \/ SpuriousWake(t)

Spec == Init /\ [][Next]_vars

\* A thread inside a call runs on unless it sleeps, the user's function
\* returns, and the spin lock lets everybody in at last.
Fairness ==
  \A t \in Threads :
    /\ WF_vars(Alive(t) /\ Running(t))
    /\ SF_vars(Alive(t) /\ Locking(t))
    /\ WF_vars(UseFreed(t))

FairSpec == Spec /\ Fairness

-----------------------------------------------------------------------------
(* Properties                                                              *)

\* Type invariant.
TypeOK ==
  /\ table \in [Keys -> Calls \cup {NoCall}]
  /\ execs \in 0 .. MaxExecs
  /\ created \in 0 .. execs
  /\ refs \in [Calls -> Nat]
  /\ freed \subseteq Calls
  /\ count \in [Calls -> {0, 1}]
  /\ flag \in [Calls -> {0, 1}]
  /\ times \in [Calls -> 0 .. MaxExecs]
  /\ result \in [Calls -> Outcomes \cup {NoResult}]
  /\ pc \in [Threads -> PCs]
  /\ key \in [Threads -> Keys]
  /\ call \in [Threads -> Calls \cup {NoCall}]
  /\ old \in [Threads -> Calls \cup {NoCall}]
  /\ loaded \in [Threads -> Nat]
  /\ misused \in BOOLEAN

\* "These fields are written once before the WaitGroup is done and are only read
\* after the WaitGroup is done": a duplicate that reads the result of a live
\* call finds it written, whatever became of the table's entry meanwhile, and the
\* number of callers it returns counts the original and itself.  (The type
\* invariant is its first part.)
ResultReady ==
  /\ TypeOK
  /\ \A t \in Threads :
       pc[t] \in {"f_clear", "f_read"} /\ ~Dangling(t) =>
         result[call[t]] # NoResult /\ times[call[t]] >= 2

\* The WaitGroup of the first call, as module WaitGroup sees it.
GroupPc ==
  [t \in Threads |->
     IF call[t] # 1 THEN "idle"
     ELSE IF pc[t] = "f_load" THEN "w_load"
     ELSE IF pc[t] = "f_futex" THEN "w_futex"
     ELSE IF pc[t] = "f_asleep" THEN "w_asleep"
     ELSE IF pc[t] = "f_clear" THEN "w_clear"
     ELSE IF pc[t] \in {"d_store", "d_wake"} THEN pc[t]
     ELSE "idle"]

Group ==
  INSTANCE WaitGroup
  WITH Members <- Threads, Waiters <- Threads, COUNT_MOD <- 4, MaxAdd <- 1,
       MaxAdds <- 1, MaxUnmatched <- 0, count <- count[1], flag <- flag[1],
       pc <- GroupPc, owed <- count[1],
       adds <- IF created >= 1 THEN 1 ELSE 0, unmatched <- 0

\* exec keeps the rules of the WaitGroup of a call, seen here on the first one:
\* one add, before anybody can wait, then one done, after which it stays zero;
\* not even a caller that took over the key adds to it again.
ImplementsGroup == Group!Spec

\* Every exec and every forgot returns, unless the memory of a call was misused.
ExecReturns ==
  \A t \in Threads :
    pc[t] # "idle" ~> pc[t] = "idle" \/ misused

\* "Only one execution is in-flight for a given key at a time."
OnlyOneInFlight ==
  \A t, u \in Threads :
    pc[t] = "l_run" /\ pc[u] = "l_run" /\ key[t] = key[u] => t = u

=============================================================================
