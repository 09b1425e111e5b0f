------------------------- MODULE SingleSource_proofs -------------------------
(***************************************************************************)
(* Proofs about SingleSource for any number of adders, keys and calls: the *)
(* adds of a collection never share a call, and after sum every call is    *)
(* written and found; a collection that starts with reset is never summed. *)
(***************************************************************************)
EXTENDS SingleSource, FiniteSetTheorems, TLAPS

USE BoundAssumption, KeyAssumption

-----------------------------------------------------------------------------
(* The inductive invariant                                                 *)

\* The calls that are still to be done: nobody's, or somebody's.
Open ==
  {i \in 0 .. len - 1 : index <= i \/ \E t \in Adders : InCall(t) /\ slot[t] = i}

\* Every thread inside a call has it for itself.
SlotsApart ==
  /\ \A t \in Adders : InCall(t) => slot[t] < len /\ slot[t] < index
  /\ \A t, u \in Adders : InCall(t) /\ InCall(u) /\ slot[t] = slot[u] => t = u

\* Clients add a key once.
KeysOnce ==
  /\ left \cap added = {}
  /\ \A t \in Adders : pc[t] # "idle" => source[t] \notin left \cup added
  /\ \A t, u \in Adders :
       pc[t] # "idle" /\ pc[u] # "idle" /\ source[t] = source[u] => t = u

\* A name is written once, and is that of an add that is done or about to be.
NamesKnown ==
  /\ \A i \in Slots : name[i] # NoKey =>
       /\ i < index /\ i < len
       /\ \/ name[i] \in added
          \/ \E t \in Adders :
               pc[t] \in {"write_result", "done"} /\ slot[t] = i /\ source[t] = name[i]
  /\ \A i, j \in Slots : name[i] = name[j] /\ name[i] # NoKey => i = j
  /\ \A k \in added : \E i \in Slots : name[i] = k

\* How far a thread is with its call.
CallsFilled ==
  \A t \in Adders :
    /\ pc[t] = "run" => name[slot[t]] = NoKey
    /\ pc[t] \in {"write_result", "done"} => name[slot[t]] = source[t]
    /\ pc[t] = "done" => result[slot[t]][1] = source[t]

\* A call that is done has its result.
DoneCallsKept ==
  \A i \in (0 .. len - 1) \ Open : name[i] # NoKey /\ result[i][1] = name[i]

\* An add that was refused has found the index at the end.
RefusedLate == \A t \in Adders : pc[t] = "panicked" => index >= len

\* In the collection of a new group the counter counts the open calls.
FirstCollection ==
  /\ count = Cardinality(Open)
  /\ SlotsApart /\ KeysOnce /\ NamesKnown /\ CallsFilled /\ DoneCallsKept
  /\ RefusedLate

\* In every other one nobody gets a call, and the counter stays where it began.
LaterCollection ==
  /\ index >= len /\ count = len
  /\ \A t \in Adders : ~InCall(t)
  /\ added = {} /\ name = NoNames

SourceInv ==
  /\ TypeOK
  /\ main = "summed" => count = 0
  /\ resets = 0 => FirstCollection
  /\ resets > 0 => LaterCollection

\* The open calls are no more than there are calls.
LEMMA OpenFinite ==
  ASSUME len \in Nat
  PROVE  /\ IsFiniteSet(Open) /\ Cardinality(Open) \in 0 .. len
         /\ Cardinality(Open) = 0 <=> Open = {}
<1>1. IsFiniteSet(0 .. len - 1) /\ Cardinality(0 .. len - 1) = len
  BY FS_Interval
<1>2. IsFiniteSet(Open) /\ Cardinality(Open) <= Cardinality(0 .. len - 1)
  BY <1>1, FS_Subset DEF Open
<1> QED
  BY <1>1, <1>2, FS_CardinalityType, FS_EmptySet

\* Calls open and close only with the index and with who is inside them.
LEMMA OpenKept ==
  ASSUME len' = len,
         \A i \in 0 .. len - 1 :
           (index' <= i \/ \E t \in Adders : InCall(t)' /\ slot'[t] = i) <=>
           (index <= i \/ \E t \in Adders : InCall(t) /\ slot[t] = i)
  PROVE  Open' = Open
BY DEF Open

-----------------------------------------------------------------------------
(* The steps of an add                                                     *)

\* A client calls add with a key of its own.
LEMMA CallStep ==
  ASSUME TypeOK, FirstCollection, NEW t \in Adders, AddCall(t)
  PROVE  FirstCollection'
<1> USE DEF AddCall, Goto, calls, InCall, TypeOK, FirstCollection
<1>1. Open' = Open
  BY OpenKept
<1>2. SlotsApart'
  BY DEF SlotsApart
<1>3. KeysOnce'
  BY DEF KeysOnce
<1>4. NamesKnown'
  BY DEF NamesKnown
<1>5. CallsFilled'
  BY DEF CallsFilled
<1>6. DoneCallsKept'
  BY <1>1 DEF DoneCallsKept
<1>7. RefusedLate'
  BY DEF RefusedLate
<1> QED
  BY <1>1, <1>2, <1>3, <1>4, <1>5, <1>6, <1>7

\* fetch_add hands a free call from the index to a thread, or none.
LEMMA ClaimStep ==
  ASSUME TypeOK, FirstCollection, NEW t \in Adders, AddClaim(t)
  PROVE  FirstCollection'
<1> USE DEF AddClaim, Goto, calls, client, InCall, TypeOK, FirstCollection
<1>1. Open' = Open
  <2>1. ASSUME NEW i \in 0 .. len - 1
        PROVE  (index' <= i \/ \E u \in Adders : InCall(u)' /\ slot'[u] = i) <=>
               (index <= i \/ \E u \in Adders : InCall(u) /\ slot[u] = i)
    OBVIOUS
  <2> QED
    BY <2>1, OpenKept
<1>2. SlotsApart'
  BY DEF SlotsApart
<1>3. KeysOnce'
  BY DEF KeysOnce
<1>4. NamesKnown'
  <2>1. UNCHANGED <<name, len, added, source>> /\ index' = index + 1 /\ index \in Nat
    OBVIOUS
  <2>2. ASSUME NEW i \in Slots, name[i] # NoKey
        PROVE  /\ i < index' /\ i < len
               /\ \/ name[i] \in added
                  \/ \E u \in Adders : /\ pc'[u] \in {"write_result", "done"}
                                       /\ slot'[u] = i /\ source[u] = name[i]
    <3>1. i \in Nat /\ i < index /\ i < len
      BY <2>2 DEF NamesKnown, Slots
    <3>2. CASE name[i] \in added
      BY <2>1, <3>1, <3>2
    <3>3. CASE name[i] \notin added
      <4>1. PICK u \in Adders : /\ pc[u] \in {"write_result", "done"}
                                /\ slot[u] = i /\ source[u] = name[i]
        BY <2>2, <3>3 DEF NamesKnown
      <4>2. u # t /\ pc'[u] = pc[u] /\ slot'[u] = slot[u]
        BY <4>1
      <4> QED
        BY <2>1, <3>1, <4>1, <4>2
    <3> QED
      BY <3>2, <3>3
  <2> QED
    BY <2>1, <2>2 DEF NamesKnown
<1>5. CallsFilled'
  BY DEF CallsFilled, NamesKnown, Slots
<1>6. DoneCallsKept'
  BY <1>1 DEF DoneCallsKept
<1>7. RefusedLate'
  BY DEF RefusedLate
<1> QED
  BY <1>1, <1>2, <1>3, <1>4, <1>5, <1>6, <1>7

\* A key is written to a call that has none.
LEMMA RunStep ==
  ASSUME TypeOK, FirstCollection, NEW t \in Adders, AddRun(t)
  PROVE  FirstCollection'
<1> USE DEF AddRun, Goto, client, InCall, TypeOK, FirstCollection
<1>0. slot[t] \in Slots /\ slot[t] < len /\ slot[t] < index
  BY DEF SlotsApart, Slots
<1>1. Open' = Open
  BY OpenKept
<1>2. SlotsApart'
  BY DEF SlotsApart
<1>3. KeysOnce'
  BY DEF KeysOnce
<1>4. NamesKnown'
  BY <1>0 DEF NamesKnown, KeysOnce, CallsFilled
<1>5. CallsFilled'
  BY <1>0 DEF CallsFilled, SlotsApart
<1>6. DoneCallsKept'
  BY <1>0, <1>1 DEF DoneCallsKept, Open
<1>7. RefusedLate'
  BY DEF RefusedLate
<1> QED
  BY <1>1, <1>2, <1>3, <1>4, <1>5, <1>6, <1>7

\* A result is written next to its key.
LEMMA WriteStep ==
  ASSUME TypeOK, FirstCollection, NEW t \in Adders, NEW o \in Outcomes, AddWrite(t, o)
  PROVE  FirstCollection'
<1> USE DEF AddWrite, Goto, client, InCall, TypeOK, FirstCollection
<1>0. slot[t] \in Slots /\ slot[t] < len /\ slot[t] < index
  BY DEF SlotsApart, Slots
<1>1. Open' = Open
  BY OpenKept
<1>2. SlotsApart'
  BY DEF SlotsApart
<1>3. KeysOnce'
  BY DEF KeysOnce
<1>4. NamesKnown'
  BY DEF NamesKnown
<1>5. CallsFilled'
  BY <1>0 DEF CallsFilled, SlotsApart
<1>6. DoneCallsKept'
  BY <1>0, <1>1 DEF DoneCallsKept, Open
<1>7. RefusedLate'
  BY DEF RefusedLate
<1> QED
  BY <1>1, <1>2, <1>3, <1>4, <1>5, <1>6, <1>7

\* done closes one open call, so the counter has room for it.
LEMMA DoneStep ==
  ASSUME TypeOK, FirstCollection, NEW t \in Adders, AddDone(t)
  PROVE  FirstCollection' /\ count > 0
<1> USE DEF AddDone, Goto, calls, InCall, TypeOK, FirstCollection
<1>0. slot[t] \in Slots /\ slot[t] < len /\ slot[t] < index /\ slot[t] \in 0 .. len - 1
  BY DEF SlotsApart, Slots
<1>1. Open' = Open \ {slot[t]} /\ slot[t] \in Open
  BY <1>0 DEF Open, SlotsApart
<1>2. count > 0 /\ count' = Cardinality(Open')
  <2>1. IsFiniteSet(Open) /\ Cardinality(Open) \in Nat /\ Cardinality(Open) # 0
    BY <1>1, OpenFinite
  <2>2. Cardinality(Open \ {slot[t]}) = Cardinality(Open) - 1
    BY <1>1, <2>1, FS_RemoveElement
  <2> QED
    BY <1>1, <2>1, <2>2
<1>3. SlotsApart'
  BY DEF SlotsApart
<1>4. KeysOnce'
  BY DEF KeysOnce
<1>5. NamesKnown'
  BY <1>0 DEF NamesKnown, CallsFilled
<1>6. CallsFilled'
  BY DEF CallsFilled
<1>7. DoneCallsKept'
  BY <1>0, <1>1 DEF DoneCallsKept, CallsFilled
<1>8. RefusedLate'
  BY DEF RefusedLate
<1> QED
  BY <1>2, <1>3, <1>4, <1>5, <1>6, <1>7, <1>8

\* What is left moves nobody into a call or out of one.
LEMMA OtherStep ==
  ASSUME TypeOK, FirstCollection,
         \/ \E t \in Adders : AddPanicked(t)
         \/ SumCall \/ SumReturn \/ UNCHANGED vars
  PROVE  FirstCollection'
<1> USE DEF AddPanicked, SumCall, SumReturn, vars, Goto, calls, client, InCall, TypeOK,
            FirstCollection
<1>1. Open' = Open
  BY OpenKept
<1>2. SlotsApart'
  BY DEF SlotsApart
<1>3. KeysOnce'
  BY DEF KeysOnce
<1>4. NamesKnown'
  BY DEF NamesKnown
<1>5. CallsFilled'
  BY DEF CallsFilled
<1>6. DoneCallsKept'
  BY <1>1 DEF DoneCallsKept
<1>7. RefusedLate'
  BY DEF RefusedLate
<1> QED
  BY <1>1, <1>2, <1>3, <1>4, <1>5, <1>6, <1>7

-----------------------------------------------------------------------------
(* Every collection                                                        *)

\* Every step of the first collection keeps what is known of it, and types.
LEMMA FirstStep ==
  ASSUME SourceInv, resets = 0, Next, resets' = 0
  PROVE  SourceInv'
<1>0. TypeOK /\ FirstCollection /\ (main = "summed" => count = 0)
  BY DEF SourceInv
<1>1. ASSUME NEW n \in 0 .. MaxLen, Reset(n) PROVE FALSE
  BY <1>1 DEF Reset
<1>2. FirstCollection'
  BY <1>0, <1>1, CallStep, ClaimStep, RunStep, WriteStep, DoneStep, OtherStep
     DEF Next, AddStep
<1>3. ASSUME NEW t \in Adders, AddDone(t) PROVE count > 0
  BY <1>0, <1>3, DoneStep
<1>4. TypeOK' /\ (main' = "summed" => count' = 0)
  <2> USE <1>0 DEF TypeOK, AdderPCs, Goto, calls, client, Slots
  <2>1. ASSUME NEW t \in Adders, AddCall(t) PROVE TypeOK'
    BY <2>1 DEF AddCall
  <2>2. ASSUME NEW t \in Adders, AddClaim(t) PROVE TypeOK'
    BY <2>2 DEF AddClaim
  <2>3. ASSUME NEW t \in Adders, AddRun(t) PROVE TypeOK'
    BY <2>3 DEF AddRun
  <2>4. ASSUME NEW t \in Adders, NEW o \in Outcomes, AddWrite(t, o) PROVE TypeOK'
    BY <2>4 DEF AddWrite
  <2>5. ASSUME NEW t \in Adders, AddDone(t) PROVE TypeOK'
    <3>1. count > 0
      BY <1>3, <2>5
    <3>2. count' \in 0 .. MaxLen
      BY <2>5, <3>1 DEF AddDone
    <3> QED
      BY <2>5, <3>2 DEF AddDone
  <2>6. ASSUME NEW t \in Adders, AddPanicked(t) PROVE TypeOK'
    BY <2>6 DEF AddPanicked
  <2>7. CASE SumCall \/ SumReturn
    BY <2>7 DEF SumCall, SumReturn
  <2>8. TypeOK'
    BY <1>1, <2>1, <2>2, <2>3, <2>4, <2>5, <2>6, <2>7 DEF Next, AddStep
  <2>9. main' = "summed" => count' = 0
    BY <1>1, <1>3
       DEF Next, AddStep, AddCall, AddClaim, AddRun, AddWrite, AddDone, AddPanicked,
           SumCall, SumReturn
  <2> QED
    BY <2>8, <2>9
<1> QED
  BY <1>2, <1>4 DEF SourceInv

\* After a reset every add finds the index at the end, and nothing moves.
LEMMA LaterStep ==
  ASSUME SourceInv, Next, resets' > 0
  PROVE  SourceInv'
<1> USE DEF SourceInv, TypeOK, AdderPCs, Goto, calls, client, LaterCollection, InCall
<1>1. ASSUME NEW n \in 0 .. MaxLen, Reset(n) PROVE SourceInv'
  BY <1>1 DEF Reset, NoNames, NoResults, Slots
<1>2. CASE resets > 0 /\ UNCHANGED resets
  <2>1. ASSUME NEW t \in Adders, AddCall(t) PROVE SourceInv'
    BY <1>2, <2>1 DEF AddCall
  <2>2. ASSUME NEW t \in Adders, AddClaim(t) PROVE SourceInv'
    BY <1>2, <2>2 DEF AddClaim
  <2>3. ASSUME NEW t \in Adders,
               AddRun(t) \/ AddDone(t) \/ \E o \in Outcomes : AddWrite(t, o)
        PROVE  FALSE
    BY <1>2, <2>3 DEF AddRun, AddDone, AddWrite
  <2>4. ASSUME NEW t \in Adders, AddPanicked(t) PROVE SourceInv'
    BY <1>2, <2>4 DEF AddPanicked
  <2>5. CASE SumCall \/ SumReturn
    BY <1>2, <2>5 DEF SumCall, SumReturn
  <2> QED
    BY <1>1, <2>1, <2>2, <2>3, <2>4, <2>5 DEF Next, AddStep
<1>3. UNCHANGED resets \/ \E n \in 0 .. MaxLen : Reset(n)
  BY DEF Next, AddStep, AddCall, AddClaim, AddRun, AddWrite, AddDone, AddPanicked,
     SumCall, SumReturn
<1> QED
  BY <1>1, <1>2, <1>3

\* Every step keeps the invariant.
LEMMA SourceStep == SourceInv /\ [Next]_vars => SourceInv'
<1> SUFFICES ASSUME SourceInv, [Next]_vars PROVE SourceInv'
  OBVIOUS
<1>1. CASE UNCHANGED vars
  <2>1. resets = 0 => FirstCollection'
    BY <1>1, OtherStep DEF SourceInv
  <2> QED
    BY <1>1, <2>1
       DEF SourceInv, vars, calls, client, TypeOK, LaterCollection, InCall
<1>2. CASE Next
  <2>1. resets' \in Nat /\ (resets' = 0 => resets = 0)
    BY <1>2
       DEF Next, AddStep, AddCall, AddClaim, AddRun, AddWrite, AddDone, AddPanicked,
           SumCall, SumReturn, Reset, SourceInv, TypeOK, client
  <2> QED
    BY <1>2, <2>1, FirstStep, LaterStep
<1> QED
  BY <1>1, <1>2

\* A new group has every call open.
LEMMA SourceInit == Init => SourceInv
<1> SUFFICES ASSUME Init PROVE SourceInv
  OBVIOUS
<1>1. TypeOK
  BY DEF Init, TypeOK, AdderPCs, NoNames, NoResults, Slots
<1>2. Open = 0 .. len - 1 /\ len \in Nat
  BY DEF Init, Open, InCall
<1>3. count = Cardinality(Open)
  BY <1>2, FS_Interval DEF Init
<1>4. SlotsApart /\ KeysOnce /\ NamesKnown /\ CallsFilled /\ DoneCallsKept /\ RefusedLate
  BY <1>2 DEF Init, RefusedLate, SlotsApart, KeysOnce, NamesKnown, CallsFilled, DoneCallsKept, InCall,
              NoNames
<1> QED
  BY <1>1, <1>3, <1>4 DEF SourceInv, FirstCollection, Init

\* What the rest follows from.
THEOREM SourceInvariance == Spec => []SourceInv
BY SourceInit, SourceStep, PTL DEF Spec

-----------------------------------------------------------------------------
(* What it implies                                                         *)

\* Adds write their calls without a lock, and never the same one.
THEOREM CallsExclude == Spec => []CallExclusive
<1>1. SourceInv => CallExclusive
  BY DEF SourceInv, TypeOK, FirstCollection, LaterCollection, SlotsApart, CallExclusive
<1> QED
  BY <1>1, SourceInvariance, PTL

\* When the counter is zero every call is closed.
LEMMA SummedMeansClosed ==
  ASSUME SourceInv, main = "summed", resets = 0
  PROVE  Open = {} /\ \A t \in Adders : ~InCall(t)
<1>1. Open = {}
  BY OpenFinite DEF SourceInv, TypeOK, FirstCollection
<1> QED
  BY <1>1 DEF SourceInv, TypeOK, FirstCollection, SlotsApart, Open

\* After sum, get reads no garbage and nobody else's result, and it finds every
\* source that was added.
THEOREM SumCompletes == Spec => []SumIsComplete
<1>1. ASSUME SourceInv, main = "summed", resets = 0 PROVE SumIsComplete
  <2> USE DEF SourceInv, FirstCollection, TypeOK
  <2>1. Open = {} /\ \A t \in Adders : ~InCall(t)
    BY <1>1, SummedMeansClosed
  <2>2. \A i \in 0 .. len - 1 : name[i] # NoKey /\ result[i][1] = name[i]
    BY <1>1, <2>1 DEF DoneCallsKept
  <2>3. \A i \in 0 .. len - 1 : result[i] # Uninit
    BY <2>2 DEF Uninit
  <2>4. ASSUME NEW k \in added PROVE Cardinality(Found(k)) = 1
    <3>1. PICK i \in Slots : name[i] = k
      BY <1>1 DEF NamesKnown
    <3>2. k # NoKey
      BY <1>1, <2>4
    <3>3. i \in 0 .. len - 1
      BY <1>1, <3>1, <3>2 DEF NamesKnown, Slots
    <3>4. Found(k) = {i}
      BY <1>1, <3>1, <3>2, <3>3 DEF Found, NamesKnown, Slots
    <3> QED
      BY <3>4, FS_Singleton
  <2> QED
    BY <2>1, <2>2, <2>3, <2>4 DEF SumIsComplete
<1>2. ASSUME SourceInv, main = "summed", resets > 0 PROVE SumIsComplete
  BY <1>2 DEF SourceInv, LaterCollection, SumIsComplete, TypeOK
<1>3. SourceInv => SumIsComplete
  BY <1>1, <1>2 DEF SourceInv, TypeOK, SumIsComplete
<1> QED
  BY <1>3, SourceInvariance, PTL

\* An add of the first collection is refused only when every call is somebody's.
THEOREM RefusalsHonest == Spec => []RefusalsAreHonest
<1>1. ASSUME SourceInv, NEW t \in Adders, resets = 0, pc[t] = "panicked",
             NEW i \in 0 .. len - 1
      PROVE  name[i] # NoKey \/ \E u \in Adders : InCall(u) /\ slot[u] = i
  <2>1. FirstCollection /\ index >= len /\ index \in Nat /\ len \in Nat
    BY <1>1 DEF SourceInv, FirstCollection, RefusedLate, TypeOK
  <2>2. CASE i \in Open
    BY <2>1, <2>2 DEF Open
  <2>3. CASE i \notin Open
    BY <2>1, <2>3 DEF FirstCollection, DoneCallsKept
  <2> QED
    BY <2>2, <2>3
<1>2. SourceInv => RefusalsAreHonest
  BY <1>1 DEF RefusalsAreHonest, NoCallLeft
<1> QED
  BY <1>2, SourceInvariance, PTL

\* Of later collections nothing of the kind holds, although reset "clean previous
\* data and ready for the new collection" (source.rs:89-90): the index stays at the
\* end (line 229), so that no collection that starts with reset(n), n > 0, gets anywhere.  No add writes its call, get finds no key, the
\* counter stays at n and sum does not return.
SecondCollectionStalls ==
  resets > 0 /\ len > 0 =>
    main # "summed" /\ count = len /\ \A k \in Keys : Found(k) = {}

THEOREM ResetStalls == Spec => []SecondCollectionStalls
<1>1. SourceInv => SecondCollectionStalls
  BY DEF SourceInv, LaterCollection, SecondCollectionStalls, Found, NoNames, TypeOK, Slots
<1> QED
  BY <1>1, SourceInvariance, PTL

=============================================================================
