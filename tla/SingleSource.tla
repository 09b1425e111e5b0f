---------------------------- MODULE SingleSource ----------------------------
(***************************************************************************)
(* omango's source group (src/single/source.rs): a collection of n calls.  *)
(* Each add claims the next call, runs the user's function, and writes its *)
(* key and its result without a lock; sum waits until n adds are done; get *)
(* then hands out results by key, and reset starts a new collection.       *)
(*                                                                         *)
(* Clients are those of the documentation: keys are unique, one thread     *)
(* sums, gets follow the sum, and reset, which needs the group for itself, *)
(* follows both.  The WaitGroup is what module WaitGroup shows of it for   *)
(* one waiter: wait returns once the counter is zero.                      *)
(***************************************************************************)
EXTENDS Naturals, FiniteSets

CONSTANTS
  Adders,     \* the threads that call add
  Keys,       \* the names of sources
  MaxLen,     \* bound: the largest n of new(n) and reset(n)
  MaxResets   \* bound: how often reset is called

Slots == 0 .. MaxLen - 1
Outcomes == {"ok", "err", "panic"}
NoKey == "no key"
Uninit == <<NoKey, "uninit">>

ASSUME BoundAssumption == MaxLen \in Nat \ {0} /\ MaxResets \in Nat

ASSUME KeyAssumption == NoKey \notin Keys

VARIABLES
  len,      \* the length of Group.calls
  name,     \* Call.key of every call
  result,   \* Call.result of every call: the key it came from, or Uninit
  index,    \* Group.index
  count,    \* Group.wg: its counter
  pc,       \* where each adder is
  slot,     \* local: the index an adder claimed
  source,   \* local: the key an adder adds
  main,     \* the thread that sums: "adding", "sum" or "summed"
  left,     \* the clients' account: keys not added in this collection
  added,    \* the clients' account: keys whose add has returned
  resets    \* how often reset was called

calls == <<len, name, result>>
client == <<left, added, resets>>
vars == <<calls, index, count, pc, slot, source, main, client>>

AdderPCs == {"idle", "claim", "run", "write_result", "done", "panicked"}

\* Calls as Call::default leaves them.
NoNames == [i \in Slots |-> NoKey]
NoResults == [i \in Slots |-> Uninit]

Goto(t, label) == pc' = [pc EXCEPT ![t] = label]

Init ==
  /\ len \in 0 .. MaxLen
  /\ name = NoNames
  /\ result = NoResults
  /\ index = 0
  /\ count = len
  /\ pc = [t \in Adders |-> "idle"]
  /\ slot = [t \in Adders |-> 0]
  /\ source \in [Adders -> Keys]
  /\ main = "adding"
  /\ left = Keys
  /\ added = {}
  /\ resets = 0

-----------------------------------------------------------------------------
(* add                                                                     *)

AddCall(t) ==
  /\ pc[t] = "idle"
  /\ \E k \in left :
       /\ source' = [source EXCEPT ![t] = k]
       /\ left' = left \ {k}
  /\ Goto(t, "claim")
  /\ UNCHANGED <<calls, index, count, slot, main, added, resets>>

\* Mutant: the assertion is gone.
AddClaimUnchecked(t) ==
  /\ pc[t] = "claim"
  /\ slot' = [slot EXCEPT ![t] = index]
  /\ index' = index + 1
  /\ Goto(t, "run")
  /\ UNCHANGED <<calls, count, source, main, client>>

\* Mutant: the last call is refused.
AddClaimShort(t) ==
  /\ pc[t] = "claim"
  /\ slot' = [slot EXCEPT ![t] = index]
  /\ index' = index + 1
  /\ Goto(t, IF index + 1 < len THEN "run" ELSE "panicked")
  /\ UNCHANGED <<calls, count, source, main, client>>

\* fetch_add, then the assertion, which fails with the index already advanced.
AddClaim(t) ==
  /\ pc[t] = "claim"
  /\ slot' = [slot EXCEPT ![t] = index]
  /\ index' = index + 1
  /\ Goto(t, IF index < len THEN "run" ELSE "panicked")
  /\ UNCHANGED <<calls, count, source, main, client>>

\* The function returns or panics inside catch_unwind; the key is written.
AddRun(t) ==
  /\ pc[t] = "run"
  /\ name' = [name EXCEPT ![slot[t]] = source[t]]
  /\ Goto(t, "write_result")
  /\ UNCHANGED <<len, result, index, count, slot, source, main, client>>

\* Mutant: a panic of the function leaves add.
AddWriteUncaught(t, outcome) ==
  /\ pc[t] = "write_result"
  /\ result' = [result EXCEPT ![slot[t]] = <<source[t], outcome>>]
  /\ Goto(t, IF outcome = "panic" THEN "panicked" ELSE "done")
  /\ UNCHANGED <<len, name, index, count, slot, source, main, client>>

AddWrite(t, outcome) ==
  /\ pc[t] = "write_result"
  /\ result' = [result EXCEPT ![slot[t]] = <<source[t], outcome>>]
  /\ Goto(t, "done")
  /\ UNCHANGED <<len, name, index, count, slot, source, main, client>>

AddDone(t) ==
  /\ pc[t] = "done"
  /\ count' = count - 1
  /\ added' = added \cup {source[t]}
  /\ Goto(t, "idle")
  /\ UNCHANGED <<calls, index, slot, source, main, left, resets>>

\* The assertion's panic ends the add; its caller goes on.
AddPanicked(t) ==
  /\ pc[t] = "panicked"
  /\ Goto(t, "idle")
  /\ UNCHANGED <<calls, index, count, slot, source, main, client>>

-----------------------------------------------------------------------------
(* sum, get and reset                                                      *)

SumCall ==
  /\ main = "adding"
  /\ main' = "sum"
  /\ UNCHANGED <<calls, index, count, pc, slot, source, client>>

\* Mutant: the sum returns with the last call still to be written.
SumReturnEarly ==
  /\ main = "sum"
  /\ count <= 1
  /\ main' = "summed"
  /\ UNCHANGED <<calls, index, count, pc, slot, source, client>>

SumReturn ==
  /\ main = "sum"
  /\ count = 0
  /\ main' = "summed"
  /\ UNCHANGED <<calls, index, count, pc, slot, source, client>>

\* Where get finds a key: it copies the first result bit by bit, without a look
\* at whether it was written, and changes nothing in the group.
Found(k) == {i \in 0 .. len - 1 : name[i] = k}

\* &mut self: nobody else is inside the group.  The index becomes n.
Reset(n) ==
  /\ main = "summed"
  /\ \A t \in Adders : pc[t] = "idle"
  /\ resets < MaxResets
  /\ len' = n
  /\ name' = NoNames
  /\ result' = NoResults
  /\ index' = n
  /\ count' = n
  /\ main' = "adding"
  /\ left' = Keys
  /\ added' = {}
  /\ resets' = resets + 1
  /\ UNCHANGED <<pc, slot, source>>

-----------------------------------------------------------------------------
AddStep(t) ==
  \/ AddClaim(t) \/ AddRun(t) \/ AddDone(t) \/ AddPanicked(t)
  \/ \E outcome \in Outcomes : AddWrite(t, outcome)

Next ==
  \/ \E t \in Adders : AddCall(t) \/ AddStep(t)
  \/ SumCall \/ SumReturn
  \/ \E n \in 0 .. MaxLen : Reset(n)

Spec == Init /\ [][Next]_vars

\* Whoever is inside add or sum runs on; the user's functions return.
Fairness == WF_vars(SumReturn) /\ \A t \in Adders : WF_vars(AddStep(t))

FairSpec == Spec /\ Fairness

-----------------------------------------------------------------------------
(* Properties                                                              *)

\* Type invariant.
TypeOK ==
  /\ len \in 0 .. MaxLen
  /\ name \in [Slots -> Keys \cup {NoKey}]
  /\ result \in [Slots -> (Keys \X Outcomes) \cup {Uninit}]
  /\ index \in Nat
  /\ count \in 0 .. MaxLen
  /\ pc \in [Adders -> AdderPCs]
  /\ slot \in [Adders -> Nat]
  /\ source \in [Adders -> Keys]
  /\ main \in {"adding", "sum", "summed"}
  /\ left \subseteq Keys
  /\ added \subseteq Keys
  /\ resets \in 0 .. MaxResets

\* Threads that write a call without a lock.
InCall(t) == pc[t] \in {"run", "write_result", "done"}

\* The types hold, no two adds write the same call, and none writes beyond the
\* last.
CallExclusive ==
  /\ TypeOK
  /\ \A t, u \in Adders :
       InCall(t) => slot[t] < len /\ (InCall(u) /\ slot[t] = slot[u] => t = u)

\* Once sum has returned nobody writes any more, every call is initialised and
\* get finds every source that was added, with its own result: get, which
\* assumes all this without a check, reads neither garbage nor another's value.
SumIsComplete ==
  main = "summed" =>
    /\ \A t \in Adders : ~InCall(t)
    /\ \A i \in 0 .. len - 1 : result[i] # Uninit /\ result[i][1] = name[i]
    /\ \A k \in added : Cardinality(Found(k)) = 1

\* Every call of the collection is somebody's: written, or about to be.
NoCallLeft ==
  \A i \in 0 .. len - 1 :
    name[i] # NoKey \/ \E u \in Adders : InCall(u) /\ slot[u] = i

\* An add of the first collection is refused by the assertion only when no call is
\* left for it, whatever other adds have claimed, filled or been refused meanwhile.
RefusalsAreHonest ==
  \A t \in Adders : resets = 0 /\ pc[t] = "panicked" => NoCallLeft

\* In the collection of a new group, sum returns once every call was claimed,
\* panic of a user's function or not.  (After a reset no call can be claimed.)
SumReturns ==
  main = "sum" /\ resets = 0 /\ index >= len ~> main = "summed"

=============================================================================
