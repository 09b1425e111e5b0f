------------------------- MODULE SingleFlight_proofs -------------------------
(***************************************************************************)
(* What the single-flight group guarantees to a duplicate, for any number  *)
(* of callers, keys and calls.  The argument follows the life of a call:   *)
(* the one thread that creates it is the only one that ever lowers its     *)
(* counter, and it does so after the result is written; the counter never  *)
(* rises again, so a duplicate that has seen it at zero finds a result.    *)
(* Nothing here depends on the table: a call may be displaced or forgotten.*)
(***************************************************************************)
EXTENDS SingleFlight, FiniteSetTheorems, TLAPS

\* The threads whose exec has not yet been counted in the times of a call.
CountingPCs == {"g_get", "g_clone", "f_count", "l_create"}
Counting == {t \in Threads : pc[t] \in CountingPCs}

\* The original of a call, until it has lowered the counter.
Leading(t) == pc[t] \in {"l_insert", "l_displaced", "l_run", "l_done"}

\* A thread works on a call.
Holding(t) == pc[t] \notin {"idle", "g_get", "l_create", "o_remove"}

\* Threads and the table know calls that were created.
CallsKnown ==
  /\ \A t \in Threads : call[t] <= created /\ old[t] <= created
  /\ \A k \in Keys : table[k] <= created
  /\ \A t \in Threads : Holding(t) => call[t] # NoCall
  /\ \A t \in Threads : pc[t] = "l_displaced" => old[t] # NoCall

\* The strong count of a call that is alive is positive, and so is what a thread
\* has loaded of it: whatever races, a count is stored that is one more or less
\* than a positive number, and zero frees the call.
RefsPositive ==
  /\ \A c \in Calls : c <= created => c \in freed \/ refs[c] > 0
  /\ \A t \in Threads :
       /\ pc[t] \in {"g_clone", "drop_store", "o_removed"} =>
            call[t] \in freed \/ loaded[t] > 0
       /\ pc[t] = "l_displaced" => old[t] \in freed \/ loaded[t] > 0

\* Every exec is counted once, in the times of one call.
Budget ==
  /\ IsFiniteSet(Counting)
  /\ created + Cardinality(Counting) <= execs
  /\ \A c \in Calls : times[c] + Cardinality(Counting) <= execs

\* The life of a call.
Unborn(c) == count[c] = 0 /\ times[c] = 0
Living(c) == times[c] >= 1 /\ (count[c] = 0 => result[c] # NoResult)

Lives ==
  /\ \A c \in Calls : IF c > created THEN Unborn(c) ELSE Living(c)
  /\ \A t, u \in Threads : Leading(t) /\ Leading(u) /\ call[t] = call[u] => t = u
  /\ \A t \in Threads :
       /\ Leading(t) => count[call[t]] = 1
       /\ pc[t] = "l_done" => result[call[t]] # NoResult
       /\ pc[t] \in {"f_load", "f_futex", "f_asleep", "f_clear", "f_read"} =>
            times[call[t]] >= 2
       /\ pc[t] \in {"f_clear", "f_read"} => count[call[t]] = 0

FlightInv == TypeOK /\ CallsKnown /\ RefsPositive /\ Budget /\ Lives

\* What a thread does whose call is alive.
Acts(t) ==
  \/ \E k \in Keys : ExecCall(t, k) \/ ForgotCall(t, k)
  \/ Locking(t) \/ Running(t) \/ SpuriousWake(t)

-----------------------------------------------------------------------------
(* Lemmas                                                                  *)

\* How the set of uncounted threads changes when one thread moves.
LEMMA CountingMoves ==
  ASSUME TypeOK, Budget, NEW t \in Threads, NEW label, Goto(t, label)
  PROVE  /\ (pc[t] \in CountingPCs <=> label \in CountingPCs) =>
              Counting' = Counting
         /\ pc[t] \notin CountingPCs /\ label \in CountingPCs =>
              /\ IsFiniteSet(Counting')
              /\ Cardinality(Counting') = Cardinality(Counting) + 1
         /\ pc[t] \in CountingPCs /\ label \notin CountingPCs =>
              /\ IsFiniteSet(Counting')
              /\ Cardinality(Counting') = Cardinality(Counting) - 1
<1>1. \A u \in Threads : pc'[u] = IF u = t THEN label ELSE pc[u]
  BY DEF Goto, TypeOK
<1>2. ASSUME pc[t] \in CountingPCs <=> label \in CountingPCs PROVE Counting' = Counting
  BY <1>1, <1>2 DEF Counting
<1>3. ASSUME pc[t] \notin CountingPCs, label \in CountingPCs
      PROVE  /\ IsFiniteSet(Counting')
             /\ Cardinality(Counting') = Cardinality(Counting) + 1
  <2>1. Counting' = Counting \cup {t} /\ t \notin Counting
    BY <1>1, <1>3 DEF Counting
  <2> QED
    BY <2>1, FS_AddElement DEF Budget
<1>4. ASSUME pc[t] \in CountingPCs, label \notin CountingPCs
      PROVE  /\ IsFiniteSet(Counting')
             /\ Cardinality(Counting') = Cardinality(Counting) - 1
  <2>1. Counting' = Counting \ {t} /\ t \in Counting
    BY <1>1, <1>4 DEF Counting
  <2> QED
    BY <2>1, FS_RemoveElement DEF Budget
<1> QED
  BY <1>2, <1>3, <1>4

\* The size of that set is a number.
LEMMA CountingSize == Budget => Cardinality(Counting) \in Nat
  BY FS_CardinalityType DEF Budget

\* There is room for another call, and for another sharer of a call, as long as an
\* exec is not yet counted.
LEMMA RoomLeft ==
  ASSUME TypeOK, Budget, NEW t \in Threads, pc[t] \in CountingPCs
  PROVE  /\ created + 1 \in Calls /\ created + 1 <= execs
         /\ \A c \in Calls : times[c] + 1 <= execs
<1>1. t \in Counting
  BY DEF Counting
<1>2. Counting # {} /\ Cardinality(Counting) \in Nat
  BY <1>1, CountingSize
<1>3. Cardinality(Counting) >= 1
  BY <1>2, FS_EmptySet DEF Budget
<1>4. created + 1 <= execs /\ created \in Nat /\ execs \in Nat /\ execs <= MaxExecs
  BY <1>2, <1>3, ExecsAssumption DEF TypeOK, Budget
<1>5. ASSUME NEW c \in Calls PROVE times[c] + 1 <= execs
  <2>1. times[c] \in Nat /\ times[c] + Cardinality(Counting) <= execs
    BY DEF TypeOK, Budget
  <2> QED
    BY <1>2, <1>3, <1>4, <2>1
<1> QED
  BY <1>4, <1>5, ExecsAssumption DEF Calls

\* A thread at work holds a call, and has loaded a positive count where it is about
\* to store one.
LEMMA Held ==
  ASSUME FlightInv, NEW t \in Threads, ~Dangling(t)
  PROVE  /\ Holding(t) => call[t] \in Calls /\ call[t] \in 1 .. created
         /\ pc[t] = "l_displaced" => old[t] \in Calls /\ old[t] \in 1 .. created
         /\ pc[t] \in {"g_clone", "l_displaced", "drop_store", "o_removed"} =>
              loaded[t] \in Nat /\ loaded[t] > 0
  BY ExecsAssumption DEF FlightInv, TypeOK, CallsKnown, RefsPositive, Dangling, Calls, NoCall

\* Calls are numbers.
LEMMA Numbered ==
  ASSUME TypeOK
  PROVE  /\ \A t \in Threads : call[t] \in Nat /\ old[t] \in Nat
         /\ \A k \in Keys : table[k] \in Nat
         /\ created \in Nat /\ NoCall = 0
<1>1. Calls \cup {NoCall} \subseteq Nat /\ NoCall = 0
  BY DEF Calls, NoCall
<1>2. /\ \A t \in Threads : call[t] \in Calls \cup {NoCall} /\ old[t] \in Calls \cup {NoCall}
      /\ \A k \in Keys : table[k] \in Calls \cup {NoCall}
  BY DEF TypeOK
<1>3. created \in Nat
  BY ExecsAssumption DEF TypeOK
<1> QED
  BY <1>1, <1>2, <1>3

\* Every step leads to a point that exists.
LEMMA PcStep ==
  ASSUME FlightInv, NEW t \in Threads, Alive(t), Acts(t)
  PROVE  pc' \in [Threads -> PCs]
<1> USE DEF FlightInv, TypeOK, PCs, FollowerPCs, LeaderPCs
<1>1. CASE \E k \in Keys : ExecCall(t, k)
  BY <1>1 DEF ExecCall, Goto
<1>2. CASE \E k \in Keys : ForgotCall(t, k)
  BY <1>2 DEF ForgotCall, Goto
<1>3. CASE Get(t)
  BY <1>3 DEF Get, Goto
<1>4. CASE CloneStore(t)
  BY <1>4 DEF CloneStore, Goto
<1>5. CASE FollowerCount(t)
  BY <1>5 DEF FollowerCount, Goto
<1>6. CASE FollowerLoad(t)
  BY <1>6 DEF FollowerLoad, Goto
<1>7. CASE FollowerFutex(t)
  BY <1>7 DEF FollowerFutex, Goto
<1>8. CASE SpuriousWake(t)
  BY <1>8 DEF SpuriousWake, Goto
<1>9. CASE FollowerClear(t)
  BY <1>9 DEF FollowerClear, Goto
<1>10. CASE FollowerRead(t)
  BY <1>10 DEF FollowerRead, Goto
<1>11. CASE LeaderCreate(t)
  BY <1>11 DEF LeaderCreate, Goto
<1>12. CASE LeaderInsert(t)
  BY <1>12 DEF LeaderInsert, Goto
<1>13. CASE DropDisplaced(t)
  BY <1>13 DEF DropDisplaced, DropStore, Goto
<1>14. CASE \E outcome \in Outcomes : LeaderRun(t, outcome)
  BY <1>14 DEF LeaderRun, Goto
<1>15. CASE LeaderDone(t)
  BY <1>15 DEF LeaderDone, Goto
<1>16. CASE LeaderStore(t)
  BY <1>16 DEF LeaderStore, Goto
<1>17. CASE LeaderWake(t)
  BY <1>17 DEF LeaderWake, Goto
<1>18. CASE DropLoad(t)
  BY <1>18 DEF DropLoad, Goto
<1>19. CASE DropOwn(t)
  BY <1>19 DEF DropOwn, DropStore, Goto
<1>20. CASE ForgotRemove(t)
  BY <1>20 DEF ForgotRemove, Goto
<1>21. CASE ForgotDrop(t)
  BY <1>21 DEF ForgotDrop, DropStore, Goto
<1>22. CASE FollowerPanics(t)
  BY <1>22 DEF FollowerPanics, Goto
<1> QED
  BY <1>1, <1>2, <1>3, <1>4, <1>5, <1>6, <1>7, <1>8, <1>9, <1>10, <1>11, <1>12, <1>13,
     <1>14, <1>15, <1>16, <1>17, <1>18, <1>19, <1>20, <1>21, <1>22
     DEF Acts, Locking, Running

\* Every step keeps the types.
LEMMA TypeStep ==
  ASSUME FlightInv, NEW t \in Threads, Alive(t), Acts(t)
  PROVE  TypeOK'
<1> USE DEF FlightInv, TypeOK, rc, group, Alive
<1>a. NoCall = 0 /\ MaxExecs \in Nat /\ Calls = 1 .. MaxExecs
  BY ExecsAssumption DEF NoCall, Calls
<1>b. /\ Holding(t) => call[t] \in Calls
      /\ pc[t] = "l_displaced" => old[t] \in Calls
      /\ pc[t] \in {"g_clone", "l_displaced", "drop_store", "o_removed"} => loaded[t] > 0
  BY Held
<1>c. pc[t] \in CountingPCs =>
        /\ created + 1 \in Calls /\ created + 1 <= execs
        /\ \A c \in Calls : times[c] + 1 <= MaxExecs
  BY RoomLeft, <1>a
<1>1. CASE \E k \in Keys : ExecCall(t, k)
  <2>1. execs' \in 0 .. MaxExecs /\ execs <= execs' /\ key' \in [Threads -> Keys]
    BY <1>1, <1>a DEF ExecCall
  <2> QED
    BY <1>1, <2>1, PcStep DEF ExecCall
<1>2. CASE \E k \in Keys : ForgotCall(t, k)
  <2>1. key' \in [Threads -> Keys]
    BY <1>2 DEF ForgotCall
  <2> QED
    BY <1>2, <2>1, PcStep DEF ForgotCall
<1>3. CASE Get(t)
  <2>1. call' \in [Threads -> Calls \cup {NoCall}] /\ loaded' \in [Threads -> Nat]
    BY <1>3, <1>a DEF Get
  <2> QED
    BY <1>3, <2>1, PcStep DEF Get
<1>4. CASE CloneStore(t)
  <2>1. loaded[t] + 1 \in Nat
    OBVIOUS
  <2>2. refs' \in [Calls -> Nat]
    BY <1>4, <2>1 DEF CloneStore
  <2> QED
    BY <1>4, <2>2, PcStep DEF CloneStore
<1>5. CASE FollowerCount(t)
  <2>1. times' \in [Calls -> 0 .. MaxExecs]
    BY <1>5, <1>a, <1>b, <1>c DEF FollowerCount, CountingPCs, Holding
  <2> QED
    BY <1>5, <2>1, PcStep DEF FollowerCount
<1>6. CASE FollowerLoad(t)
  BY <1>6, PcStep DEF FollowerLoad
<1>7. CASE FollowerFutex(t)
  BY <1>7, PcStep DEF FollowerFutex
<1>8. CASE SpuriousWake(t)
  BY <1>8, PcStep DEF SpuriousWake
<1>9. CASE FollowerClear(t)
  <2>1. flag' \in [Calls -> {0, 1}]
    BY <1>9 DEF FollowerClear
  <2> QED
    BY <1>9, <2>1, PcStep DEF FollowerClear
<1>10. CASE FollowerRead(t)
  BY <1>10, PcStep DEF FollowerRead
<1>11. CASE LeaderCreate(t)
  <2>1. created + 1 \in 0 .. execs /\ created + 1 \in Calls /\ 1 \in 0 .. MaxExecs
    BY <1>11, <1>a, <1>c DEF LeaderCreate, CountingPCs
  <2>2. created' \in 0 .. execs /\ call' \in [Threads -> Calls \cup {NoCall}]
        /\ refs' \in [Calls -> Nat] /\ count' \in [Calls -> {0, 1}]
        /\ times' \in [Calls -> 0 .. MaxExecs]
    BY <1>11, <2>1 DEF LeaderCreate
  <2> QED
    BY <1>11, <2>2, PcStep DEF LeaderCreate
<1>12. CASE LeaderInsert(t)
  <2>1. table' \in [Keys -> Calls \cup {NoCall}] /\ loaded' \in [Threads -> Nat]
        /\ old' \in [Threads -> Calls \cup {NoCall}]
    BY <1>12, <1>a DEF LeaderInsert
  <2> QED
    BY <1>12, <2>1, PcStep DEF LeaderInsert
<1>13. CASE DropDisplaced(t)
  <2>1. refs' \in [Calls -> Nat] /\ freed' \subseteq Calls
    BY <1>13, <1>b DEF DropDisplaced, DropStore
  <2> QED
    BY <1>13, <2>1, PcStep DEF DropDisplaced, DropStore
<1>14. CASE \E outcome \in Outcomes : LeaderRun(t, outcome)
  <2>1. result' \in [Calls -> Outcomes \cup {NoResult}]
    BY <1>14 DEF LeaderRun
  <2> QED
    BY <1>14, <2>1, PcStep DEF LeaderRun
<1>15. CASE LeaderDone(t)
  <2>1. count' \in [Calls -> {0, 1}]
    BY <1>15, <1>b DEF LeaderDone, Lives, Leading, Holding
  <2> QED
    BY <1>15, <2>1, PcStep DEF LeaderDone
<1>16. CASE LeaderStore(t)
  <2>1. flag' \in [Calls -> {0, 1}]
    BY <1>16 DEF LeaderStore
  <2> QED
    BY <1>16, <2>1, PcStep DEF LeaderStore
<1>17. CASE LeaderWake(t)
  BY <1>17, PcStep DEF LeaderWake
<1>18. CASE DropLoad(t)
  <2>1. loaded' \in [Threads -> Nat]
    BY <1>18, <1>b DEF DropLoad, Holding
  <2> QED
    BY <1>18, <2>1, PcStep DEF DropLoad
<1>19. CASE DropOwn(t)
  <2>1. refs' \in [Calls -> Nat] /\ freed' \subseteq Calls
    BY <1>19, <1>b DEF DropOwn, DropStore, Holding
  <2> QED
    BY <1>19, <2>1, PcStep DEF DropOwn, DropStore
<1>20. CASE ForgotRemove(t)
  <2>1. table' \in [Keys -> Calls \cup {NoCall}] /\ loaded' \in [Threads -> Nat]
        /\ call' \in [Threads -> Calls \cup {NoCall}]
    BY <1>20, <1>a DEF ForgotRemove
  <2> QED
    BY <1>20, <2>1, PcStep DEF ForgotRemove
<1>21. CASE ForgotDrop(t)
  <2>1. refs' \in [Calls -> Nat] /\ freed' \subseteq Calls
    BY <1>21, <1>b DEF ForgotDrop, DropStore, Holding
  <2> QED
    BY <1>21, <2>1, PcStep DEF ForgotDrop, DropStore
<1>22. CASE FollowerPanics(t)
  BY <1>22, PcStep DEF FollowerPanics
<1> QED
  BY <1>1, <1>2, <1>3, <1>4, <1>5, <1>6, <1>7, <1>8, <1>9, <1>10, <1>11, <1>12, <1>13,
     <1>14, <1>15, <1>16, <1>17, <1>18, <1>19, <1>20, <1>21, <1>22
     DEF Acts, Locking, Running

\* Threads and the table go on knowing created calls only.
LEMMA KnownStep ==
  ASSUME FlightInv, NEW t \in Threads, Alive(t), Acts(t)
  PROVE  CallsKnown'
<1>a. /\ \A u \in Threads : call[u] \in Nat /\ old[u] \in Nat
      /\ \A k \in Keys : table[k] \in Nat
      /\ created \in Nat /\ NoCall = 0
  BY Numbered DEF FlightInv
<1>b. pc \in [Threads -> PCs] /\ call \in [Threads -> Calls \cup {NoCall}]
      /\ old \in [Threads -> Calls \cup {NoCall}] /\ table \in [Keys -> Calls \cup {NoCall}]
      /\ key \in [Threads -> Keys]
  BY DEF FlightInv, TypeOK
<1> USE DEF FlightInv, CallsKnown, Holding
<1>1. CASE \E k \in Keys : ExecCall(t, k)
  BY <1>1, <1>a, <1>b DEF ExecCall, Goto
<1>2. CASE \E k \in Keys : ForgotCall(t, k)
  BY <1>2, <1>a, <1>b DEF ForgotCall, Goto
<1>3. CASE Get(t)
  BY <1>3, <1>a, <1>b DEF Get, Goto
<1>4. CASE CloneStore(t)
  BY <1>4, <1>a, <1>b DEF CloneStore, Goto
<1>5. CASE FollowerCount(t)
  BY <1>5, <1>a, <1>b DEF FollowerCount, Goto
<1>6. CASE FollowerLoad(t)
  BY <1>6, <1>a, <1>b DEF FollowerLoad, Goto
<1>7. CASE FollowerFutex(t)
  BY <1>7, <1>a, <1>b DEF FollowerFutex, Goto
<1>8. CASE SpuriousWake(t)
  BY <1>8, <1>a, <1>b DEF SpuriousWake, Goto
<1>9. CASE FollowerClear(t)
  BY <1>9, <1>a, <1>b DEF FollowerClear, Goto
<1>10. CASE FollowerRead(t)
  BY <1>10, <1>a, <1>b DEF FollowerRead, Goto
<1>11. CASE LeaderCreate(t)
  BY <1>11, <1>a, <1>b DEF LeaderCreate, Goto
<1>12. CASE LeaderInsert(t)
  BY <1>12, <1>a, <1>b DEF LeaderInsert, Goto
<1>13. CASE DropDisplaced(t)
  BY <1>13, <1>a, <1>b DEF DropDisplaced, DropStore, Goto
<1>14. CASE \E outcome \in Outcomes : LeaderRun(t, outcome)
  BY <1>14, <1>a, <1>b DEF LeaderRun, Goto
<1>15. CASE LeaderDone(t)
  BY <1>15, <1>a, <1>b DEF LeaderDone, Goto
<1>16. CASE LeaderStore(t)
  BY <1>16, <1>a, <1>b DEF LeaderStore, Goto
<1>17. CASE LeaderWake(t)
  BY <1>17, <1>a, <1>b DEF LeaderWake, Goto
<1>18. CASE DropLoad(t)
  BY <1>18, <1>a, <1>b DEF DropLoad, Goto
<1>19. CASE DropOwn(t)
  BY <1>19, <1>a, <1>b DEF DropOwn, DropStore, Goto
<1>20. CASE ForgotRemove(t)
  BY <1>20, <1>a, <1>b DEF ForgotRemove, Goto
<1>21. CASE ForgotDrop(t)
  BY <1>21, <1>a, <1>b DEF ForgotDrop, DropStore, Goto
<1>22. CASE FollowerPanics(t)
  BY <1>22, <1>a, <1>b DEF FollowerPanics, Goto
<1> QED
  BY <1>1, <1>2, <1>3, <1>4, <1>5, <1>6, <1>7, <1>8, <1>9, <1>10, <1>11, <1>12, <1>13,
     <1>14, <1>15, <1>16, <1>17, <1>18, <1>19, <1>20, <1>21, <1>22
     DEF Acts, Locking, Running

\* Strong counts of calls that are alive stay positive.
LEMMA RefsStep ==
  ASSUME FlightInv, NEW t \in Threads, Alive(t), Acts(t)
  PROVE  RefsPositive'
<1>a. /\ \A u \in Threads : call[u] \in Nat /\ old[u] \in Nat /\ loaded[u] \in Nat
      /\ \A k \in Keys : table[k] \in Nat
      /\ created \in Nat /\ NoCall = 0 /\ Calls \subseteq Nat
  <2>1. Calls \subseteq Nat /\ \A u \in Threads : loaded[u] \in Nat
    BY DEF FlightInv, TypeOK, Calls
  <2> QED
    BY <2>1, Numbered DEF FlightInv
<1>b. pc \in [Threads -> PCs] /\ loaded \in [Threads -> Nat] /\ refs \in [Calls -> Nat]
      /\ call \in [Threads -> Calls \cup {NoCall}] /\ table \in [Keys -> Calls \cup {NoCall}]
      /\ old \in [Threads -> Calls \cup {NoCall}] /\ key \in [Threads -> Keys]
  BY DEF FlightInv, TypeOK
<1>c. /\ Holding(t) => call[t] \in Calls /\ call[t] \in 1 .. created
      /\ pc[t] = "l_displaced" => old[t] \in Calls /\ old[t] \in 1 .. created
      /\ pc[t] \in {"g_clone", "l_displaced", "drop_store", "o_removed"} => loaded[t] > 0
  BY Held DEF Alive
<1> USE DEF FlightInv, RefsPositive, rc
<1>1. CASE \E k \in Keys : ExecCall(t, k)
  BY <1>1, <1>a, <1>b DEF ExecCall, Goto
<1>2. CASE \E k \in Keys : ForgotCall(t, k)
  BY <1>2, <1>a, <1>b DEF ForgotCall, Goto
<1>3. CASE Get(t)
  BY <1>3, <1>a, <1>b DEF Get, Goto, CallsKnown
<1>4. CASE CloneStore(t)
  BY <1>4, <1>a, <1>b, <1>c DEF CloneStore, Goto, Holding
<1>5. CASE FollowerCount(t)
  BY <1>5, <1>a, <1>b DEF FollowerCount, Goto
<1>6. CASE FollowerLoad(t)
  BY <1>6, <1>a, <1>b DEF FollowerLoad, Goto
<1>7. CASE FollowerFutex(t)
  BY <1>7, <1>a, <1>b DEF FollowerFutex, Goto
<1>8. CASE SpuriousWake(t)
  BY <1>8, <1>a, <1>b DEF SpuriousWake, Goto
<1>9. CASE FollowerClear(t)
  BY <1>9, <1>a, <1>b DEF FollowerClear, Goto
<1>10. CASE FollowerRead(t)
  BY <1>10, <1>a, <1>b DEF FollowerRead, Goto
<1>11. CASE LeaderCreate(t)
  BY <1>11, <1>a, <1>b DEF LeaderCreate, Goto, CallsKnown
<1>12. CASE LeaderInsert(t)
  BY <1>12, <1>a, <1>b DEF LeaderInsert, Goto, CallsKnown
<1>13. CASE DropDisplaced(t)
  BY <1>13, <1>a, <1>b, <1>c DEF DropDisplaced, DropStore, Goto, Holding
<1>14. CASE \E outcome \in Outcomes : LeaderRun(t, outcome)
  BY <1>14, <1>a, <1>b DEF LeaderRun, Goto
<1>15. CASE LeaderDone(t)
  BY <1>15, <1>a, <1>b DEF LeaderDone, Goto
<1>16. CASE LeaderStore(t)
  BY <1>16, <1>a, <1>b DEF LeaderStore, Goto
<1>17. CASE LeaderWake(t)
  BY <1>17, <1>a, <1>b DEF LeaderWake, Goto
<1>18. CASE DropLoad(t)
  BY <1>18, <1>a, <1>b, <1>c DEF DropLoad, Goto, Holding
<1>19. CASE DropOwn(t)
  BY <1>19, <1>a, <1>b, <1>c DEF DropOwn, DropStore, Goto, Holding
<1>20. CASE ForgotRemove(t)
  BY <1>20, <1>a, <1>b DEF ForgotRemove, Goto, CallsKnown
<1>21. CASE ForgotDrop(t)
  BY <1>21, <1>a, <1>b, <1>c DEF ForgotDrop, DropStore, Goto, Holding
<1>22. CASE FollowerPanics(t)
  BY <1>22, <1>a, <1>b DEF FollowerPanics, Goto
<1> QED
  BY <1>1, <1>2, <1>3, <1>4, <1>5, <1>6, <1>7, <1>8, <1>9, <1>10, <1>11, <1>12, <1>13,
     <1>14, <1>15, <1>16, <1>17, <1>18, <1>19, <1>20, <1>21, <1>22
     DEF Acts, Locking, Running

\* Every exec is counted once, and where it calls for a call.
LEMMA BudgetStep ==
  ASSUME FlightInv, NEW t \in Threads, Alive(t), Acts(t)
  PROVE  Budget'
<1> USE DEF FlightInv, Budget
<1>a. pc \in [Threads -> PCs]
  BY DEF TypeOK
<1>b. /\ Cardinality(Counting) \in Nat /\ created \in Nat /\ execs \in Nat
      /\ times \in [Calls -> Nat]
  BY CountingSize, ExecsAssumption DEF TypeOK
<1>1. CASE \E k \in Keys : ExecCall(t, k)
  <2>1. pc[t] = "idle" /\ Goto(t, "g_get") /\ execs' = execs + 1
        /\ UNCHANGED <<created, times>>
    BY <1>1 DEF ExecCall
  <2>2. IsFiniteSet(Counting') /\ Cardinality(Counting') = Cardinality(Counting) + 1
    BY <2>1, CountingMoves DEF CountingPCs
  <2> QED
    BY <1>b, <2>1, <2>2
<1>2. CASE \E k \in Keys : ForgotCall(t, k)
  <2>1. pc[t] = "idle" /\ Goto(t, "o_remove") /\ UNCHANGED <<created, execs, times>>
    BY <1>2 DEF ForgotCall
  <2>2. Counting' = Counting
    BY <2>1, CountingMoves DEF CountingPCs
  <2> QED
    BY <1>b, <2>1, <2>2
<1>3. CASE Get(t)
  <2>1. /\ pc[t] = "g_get" /\ \E label \in {"g_clone", "l_create"} : Goto(t, label)
        /\ UNCHANGED <<created, execs, times>>
    BY <1>3 DEF Get
  <2>2. Counting' = Counting
    BY <2>1, CountingMoves DEF CountingPCs
  <2> QED
    BY <1>b, <2>1, <2>2
<1>4. CASE CloneStore(t)
  <2>1. pc[t] = "g_clone" /\ Goto(t, "f_count") /\ UNCHANGED <<created, execs, times>>
    BY <1>4 DEF CloneStore
  <2>2. Counting' = Counting
    BY <2>1, CountingMoves DEF CountingPCs
  <2> QED
    BY <1>b, <2>1, <2>2
<1>5. CASE FollowerCount(t)
  <2>1. pc[t] = "f_count" /\ Goto(t, "f_load") /\ UNCHANGED <<created, execs>>
        /\ times' = [times EXCEPT ![call[t]] = @ + 1]
    BY <1>5 DEF FollowerCount
  <2>2. IsFiniteSet(Counting') /\ Cardinality(Counting') = Cardinality(Counting) - 1
    BY <2>1, CountingMoves DEF CountingPCs
  <2>3. \A c \in Calls : times'[c] <= times[c] + 1 /\ times'[c] \in Nat
    BY <1>b, <2>1
  <2> QED
    BY <1>b, <2>1, <2>2, <2>3
<1>6. CASE FollowerLoad(t)
  <2>1. /\ pc[t] = "f_load" /\ \E label \in {"f_futex", "f_clear"} : Goto(t, label)
        /\ UNCHANGED <<created, execs, times>>
    BY <1>6 DEF FollowerLoad
  <2>2. Counting' = Counting
    BY <2>1, CountingMoves DEF CountingPCs
  <2> QED
    BY <1>b, <2>1, <2>2
<1>7. CASE FollowerFutex(t)
  <2>1. /\ pc[t] = "f_futex" /\ \E label \in {"f_asleep", "f_load"} : Goto(t, label)
        /\ UNCHANGED <<created, execs, times>>
    BY <1>7 DEF FollowerFutex
  <2>2. Counting' = Counting
    BY <2>1, CountingMoves DEF CountingPCs
  <2> QED
    BY <1>b, <2>1, <2>2
<1>8. CASE SpuriousWake(t)
  <2>1. pc[t] = "f_asleep" /\ Goto(t, "f_load") /\ UNCHANGED <<created, execs, times>>
    BY <1>8 DEF SpuriousWake
  <2>2. Counting' = Counting
    BY <2>1, CountingMoves DEF CountingPCs
  <2> QED
    BY <1>b, <2>1, <2>2
<1>9. CASE FollowerClear(t)
  <2>1. pc[t] = "f_clear" /\ Goto(t, "f_read") /\ UNCHANGED <<created, execs, times>>
    BY <1>9 DEF FollowerClear
  <2>2. Counting' = Counting
    BY <2>1, CountingMoves DEF CountingPCs
  <2> QED
    BY <1>b, <2>1, <2>2
<1>10. CASE FollowerRead(t)
  <2>1. pc[t] = "f_read" /\ Goto(t, "drop") /\ UNCHANGED <<created, execs, times>>
    BY <1>10 DEF FollowerRead
  <2>2. Counting' = Counting
    BY <2>1, CountingMoves DEF CountingPCs
  <2> QED
    BY <1>b, <2>1, <2>2
<1>11. CASE LeaderCreate(t)
  <2>1. pc[t] = "l_create" /\ Goto(t, "l_insert") /\ UNCHANGED execs
        /\ created' = created + 1 /\ times' = [times EXCEPT ![created + 1] = 1]
    BY <1>11 DEF LeaderCreate
  <2>2. IsFiniteSet(Counting') /\ Cardinality(Counting') = Cardinality(Counting) - 1
    BY <2>1, CountingMoves DEF CountingPCs
  <2>3. \A c \in Calls : times'[c] <= times[c] + 1 /\ times'[c] \in Nat
    BY <1>b, <2>1
  <2> QED
    BY <1>b, <2>1, <2>2, <2>3
<1>12. CASE LeaderInsert(t)
  <2>1. /\ pc[t] = "l_insert" /\ \E label \in {"l_run", "l_displaced"} : Goto(t, label)
        /\ UNCHANGED <<created, execs, times>>
    BY <1>12 DEF LeaderInsert
  <2>2. Counting' = Counting
    BY <2>1, CountingMoves DEF CountingPCs
  <2> QED
    BY <1>b, <2>1, <2>2
<1>13. CASE DropDisplaced(t)
  <2>1. pc[t] = "l_displaced" /\ Goto(t, "l_run") /\ UNCHANGED <<created, execs, times>>
    BY <1>13 DEF DropDisplaced, DropStore
  <2>2. Counting' = Counting
    BY <2>1, CountingMoves DEF CountingPCs
  <2> QED
    BY <1>b, <2>1, <2>2
<1>14. CASE \E outcome \in Outcomes : LeaderRun(t, outcome)
  <2>1. pc[t] = "l_run" /\ Goto(t, "l_done") /\ UNCHANGED <<created, execs, times>>
    BY <1>14 DEF LeaderRun
  <2>2. Counting' = Counting
    BY <2>1, CountingMoves DEF CountingPCs
  <2> QED
    BY <1>b, <2>1, <2>2
<1>15. CASE LeaderDone(t)
  <2>1. /\ pc[t] = "l_done" /\ \E label \in {"d_store", "drop"} : Goto(t, label)
        /\ UNCHANGED <<created, execs, times>>
    BY <1>15 DEF LeaderDone
  <2>2. Counting' = Counting
    BY <2>1, CountingMoves DEF CountingPCs
  <2> QED
    BY <1>b, <2>1, <2>2
<1>16. CASE LeaderStore(t)
  <2>1. pc[t] = "d_store" /\ Goto(t, "d_wake") /\ UNCHANGED <<created, execs, times>>
    BY <1>16 DEF LeaderStore
  <2>2. Counting' = Counting
    BY <2>1, CountingMoves DEF CountingPCs
  <2> QED
    BY <1>b, <2>1, <2>2
<1>17. CASE LeaderWake(t)
  <2>1. Counting' = Counting
    BY <1>17, <1>a DEF LeaderWake, Counting, CountingPCs
  <2> QED
    BY <1>17, <1>b, <2>1 DEF LeaderWake
<1>18. CASE DropLoad(t)
  <2>1. pc[t] = "drop" /\ Goto(t, "drop_store") /\ UNCHANGED <<created, execs, times>>
    BY <1>18 DEF DropLoad
  <2>2. Counting' = Counting
    BY <2>1, CountingMoves DEF CountingPCs
  <2> QED
    BY <1>b, <2>1, <2>2
<1>19. CASE DropOwn(t)
  <2>1. pc[t] = "drop_store" /\ Goto(t, "idle") /\ UNCHANGED <<created, execs, times>>
    BY <1>19 DEF DropOwn, DropStore
  <2>2. Counting' = Counting
    BY <2>1, CountingMoves DEF CountingPCs
  <2> QED
    BY <1>b, <2>1, <2>2
<1>20. CASE ForgotRemove(t)
  <2>1. /\ pc[t] = "o_remove" /\ \E label \in {"idle", "o_removed"} : Goto(t, label)
        /\ UNCHANGED <<created, execs, times>>
    BY <1>20 DEF ForgotRemove
  <2>2. Counting' = Counting
    BY <2>1, CountingMoves DEF CountingPCs
  <2> QED
    BY <1>b, <2>1, <2>2
<1>21. CASE ForgotDrop(t)
  <2>1. pc[t] = "o_removed" /\ Goto(t, "idle") /\ UNCHANGED <<created, execs, times>>
    BY <1>21 DEF ForgotDrop, DropStore
  <2>2. Counting' = Counting
    BY <2>1, CountingMoves DEF CountingPCs
  <2> QED
    BY <1>b, <2>1, <2>2
<1>22. CASE FollowerPanics(t)
  <2>1. pc[t] = "f_count" /\ Goto(t, "drop") /\ UNCHANGED <<created, execs, times>>
    BY <1>22 DEF FollowerPanics
  <2>2. IsFiniteSet(Counting') /\ Cardinality(Counting') = Cardinality(Counting) - 1
    BY <2>1, CountingMoves DEF CountingPCs
  <2> QED
    BY <1>b, <2>1, <2>2
<1> QED
  BY <1>1, <1>2, <1>3, <1>4, <1>5, <1>6, <1>7, <1>8, <1>9, <1>10, <1>11, <1>12, <1>13,
     <1>14, <1>15, <1>16, <1>17, <1>18, <1>19, <1>20, <1>21, <1>22
     DEF Acts, Locking, Running

\* Every step is one of the life of a call, or none.
LEMMA LivesStep ==
  ASSUME FlightInv, NEW t \in Threads, Alive(t), Acts(t)
  PROVE  Lives'
<1> USE DEF FlightInv, Lives, Living, Unborn, Leading, group
<1>a. /\ pc \in [Threads -> PCs] /\ call \in [Threads -> Calls \cup {NoCall}]
      /\ count \in [Calls -> {0, 1}] /\ times \in [Calls -> Nat]
      /\ result \in [Calls -> Outcomes \cup {NoResult}]
      /\ created \in Nat /\ Calls \subseteq Nat /\ NoResult \notin Outcomes
  BY ExecsAssumption DEF TypeOK, Calls, Outcomes, NoResult
<1>b. \A u \in Threads : call[u] <= created /\ call[u] \in Nat
                         /\ (Holding(u) => call[u] \in Calls /\ call[u] # NoCall)
  BY Numbered DEF TypeOK, CallsKnown
<1>c. Holding(t) => call[t] \in Calls /\ call[t] \in 1 .. created
  BY Held DEF Alive
<1>d. pc[t] = "l_create" => created + 1 \in Calls
  BY RoomLeft DEF CountingPCs
<1>1. CASE \E k \in Keys : ExecCall(t, k)
  BY <1>1, <1>a, <1>b DEF ExecCall, Goto
<1>2. CASE \E k \in Keys : ForgotCall(t, k)
  BY <1>2, <1>a, <1>b DEF ForgotCall, Goto
<1>3. CASE Get(t)
  BY <1>3, <1>a, <1>b DEF Get, Goto
<1>4. CASE CloneStore(t)
  BY <1>4, <1>a, <1>b DEF CloneStore, Goto
<1>5. CASE FollowerCount(t)
  BY <1>5, <1>a, <1>b, <1>c DEF FollowerCount, Goto, Holding
<1>6. CASE FollowerLoad(t)
  BY <1>6, <1>a, <1>b, <1>c DEF FollowerLoad, Goto, Holding
<1>7. CASE FollowerFutex(t)
  BY <1>7, <1>a, <1>b, <1>c DEF FollowerFutex, Goto, Holding
<1>8. CASE SpuriousWake(t)
  BY <1>8, <1>a, <1>b DEF SpuriousWake, Goto
<1>9. CASE FollowerClear(t)
  BY <1>9, <1>a, <1>b, <1>c DEF FollowerClear, Goto, Holding
<1>10. CASE FollowerRead(t)
  BY <1>10, <1>a, <1>b DEF FollowerRead, Goto
<1>11. CASE LeaderCreate(t)
  BY <1>11, <1>a, <1>b, <1>d DEF LeaderCreate, Goto
<1>12. CASE LeaderInsert(t)
  BY <1>12, <1>a, <1>b DEF LeaderInsert, Goto
<1>13. CASE DropDisplaced(t)
  BY <1>13, <1>a, <1>b DEF DropDisplaced, DropStore, Goto
<1>14. CASE \E outcome \in Outcomes : LeaderRun(t, outcome)
  BY <1>14, <1>a, <1>b, <1>c DEF LeaderRun, Goto, Holding
<1>15. CASE LeaderDone(t)
  BY <1>15, <1>a, <1>b, <1>c DEF LeaderDone, Goto, Holding
<1>16. CASE LeaderStore(t)
  BY <1>16, <1>a, <1>b, <1>c DEF LeaderStore, Goto, Holding
<1>17. CASE LeaderWake(t)
  BY <1>17, <1>a, <1>b DEF LeaderWake, Goto
<1>18. CASE DropLoad(t)
  BY <1>18, <1>a, <1>b DEF DropLoad, Goto
<1>19. CASE DropOwn(t)
  BY <1>19, <1>a, <1>b DEF DropOwn, DropStore, Goto
<1>20. CASE ForgotRemove(t)
  BY <1>20, <1>a, <1>b DEF ForgotRemove, Goto
<1>21. CASE ForgotDrop(t)
  BY <1>21, <1>a, <1>b DEF ForgotDrop, DropStore, Goto
<1>22. CASE FollowerPanics(t)
  BY <1>22, <1>a, <1>b DEF FollowerPanics, Goto
<1> QED
  BY <1>1, <1>2, <1>3, <1>4, <1>5, <1>6, <1>7, <1>8, <1>9, <1>10, <1>11, <1>12, <1>13,
     <1>14, <1>15, <1>16, <1>17, <1>18, <1>19, <1>20, <1>21, <1>22
     DEF Acts, Locking, Running


-----------------------------------------------------------------------------
(* Theorems                                                                *)

\* The initial states satisfy the invariant.
LEMMA FlightInit == Init => FlightInv
<1> SUFFICES ASSUME Init PROVE FlightInv
  OBVIOUS
<1>1. TypeOK
  <2>1. 0 \in 0 .. MaxExecs /\ "idle" \in PCs
    BY ExecsAssumption DEF PCs
  <2>2. /\ execs \in 0 .. MaxExecs /\ created \in 0 .. execs
        /\ times \in [Calls -> 0 .. MaxExecs] /\ pc \in [Threads -> PCs]
    BY <2>1 DEF Init
  <2> QED
    BY <2>2 DEF Init, TypeOK
<1>2. CallsKnown
  BY DEF Init, CallsKnown, Holding, NoCall
<1>3. RefsPositive
  BY DEF Init, RefsPositive, Calls
<1>4. Budget
  <2>1. Counting = {}
    BY DEF Init, Counting, CountingPCs
  <2>2. IsFiniteSet(Counting) /\ Cardinality(Counting) = 0
    BY <2>1, FS_EmptySet
  <2> QED
    BY <2>2 DEF Init, Budget
<1>5. Lives
  BY DEF Init, Lives, Unborn, Leading, Calls
<1> QED
  BY <1>1, <1>2, <1>3, <1>4, <1>5 DEF FlightInv

\* Every step keeps the invariant.
LEMMA FlightStep == FlightInv /\ [Next]_vars => FlightInv'
<1> SUFFICES ASSUME FlightInv, [Next]_vars PROVE FlightInv'
  OBVIOUS
<1>1. ASSUME NEW t \in Threads, Alive(t), Acts(t) PROVE FlightInv'
  BY <1>1, TypeStep, KnownStep, RefsStep, BudgetStep, LivesStep DEF FlightInv
<1>2. ASSUME UNCHANGED <<table, execs, created, rc, group, times, result, pc, key, call, old>>,
             misused' \in BOOLEAN
      PROVE  FlightInv'
  BY <1>2 DEF FlightInv, TypeOK, CallsKnown, Holding, RefsPositive, Budget, Counting,
              Lives, Living, Unborn, Leading, rc, group
<1>3. ASSUME NEW t \in Threads, UseFreed(t) PROVE FlightInv'
  BY <1>2, <1>3 DEF UseFreed
<1>4. CASE UNCHANGED vars
  BY <1>2, <1>4 DEF vars, FlightInv, TypeOK
<1> QED
  BY <1>1, <1>3, <1>4 DEF Next, Acts

\* Calls are created once, are lowered once by the thread that created them, after
\* their result is written, and keep a positive strong count while they are alive.
THEOREM FlightInvariance == Spec => []FlightInv
  BY FlightInit, FlightStep, PTL DEF Spec

\* A duplicate that has come out of the wait of a live call finds its result
\* written, and is told of at least two callers.
THEOREM ResultsAreReady == Spec => []ResultReady
<1>1. FlightInv => ResultReady
  <2> SUFFICES ASSUME FlightInv, NEW t \in Threads, pc[t] \in {"f_clear", "f_read"}
               PROVE  result[call[t]] # NoResult /\ times[call[t]] >= 2
    BY DEF FlightInv, ResultReady
  <2>1. call[t] \in Calls /\ call[t] \in Nat /\ call[t] <= created /\ created \in Nat
    BY Numbered DEF FlightInv, TypeOK, CallsKnown, Holding
  <2>2. Living(call[t]) /\ count[call[t]] = 0 /\ times[call[t]] >= 2
    BY <2>1 DEF FlightInv, Lives
  <2> QED
    BY <2>2 DEF Living
<1> QED
  BY <1>1, FlightInvariance, PTL

-----------------------------------------------------------------------------
(* The WaitGroup of a call                                                 *)

\* A step that neither changes the WaitGroup of the first call nor moves a thread
\* in it is no step of that WaitGroup.
LEMMA GroupStutter ==
  ASSUME count'[1] = count[1], flag'[1] = flag[1],
         created >= 1 <=> created' >= 1,
         \A u \in Threads : GroupPc'[u] = GroupPc[u]
  PROVE  UNCHANGED Group!vars
<1>1. GroupPc' = GroupPc
  BY DEF GroupPc
<1> QED
  BY <1>1 DEF Group!vars, Group!client

\* Every step of a thread is a step of the first call's WaitGroup, or none.
LEMMA GroupSteps ==
  ASSUME FlightInv, NEW t \in Threads, Alive(t), Acts(t), MaxExecs > 0
  PROVE  [Group!Next]_(Group!vars)
<1>a. /\ pc \in [Threads -> PCs] /\ call \in [Threads -> Calls \cup {NoCall}]
      /\ count \in [Calls -> {0, 1}] /\ flag \in [Calls -> {0, 1}]
  BY DEF FlightInv, TypeOK
<1>b. /\ created \in Nat /\ 1 \in Calls /\ Lives /\ Calls \subseteq Nat
      /\ \A u \in Threads : call[u] \in Nat /\ call[u] <= created
  BY Numbered, ExecsAssumption DEF FlightInv, CallsKnown, Calls
<1> USE DEF NoCall
<1>1. CASE \E k \in Keys : ExecCall(t, k)
  <2>1. \A u \in Threads : GroupPc'[u] = GroupPc[u]
    BY <1>1, <1>a DEF ExecCall, GroupPc, Goto
  <2> QED
    BY <1>1, <2>1, GroupStutter DEF ExecCall, group
<1>2. CASE \E k \in Keys : ForgotCall(t, k)
  <2>1. \A u \in Threads : GroupPc'[u] = GroupPc[u]
    BY <1>2, <1>a DEF ForgotCall, GroupPc, Goto
  <2> QED
    BY <1>2, <2>1, GroupStutter DEF ForgotCall, group
<1>3. CASE Get(t)
  <2>1. \A u \in Threads : GroupPc'[u] = GroupPc[u]
    BY <1>3, <1>a DEF Get, GroupPc, Goto
  <2> QED
    BY <1>3, <2>1, GroupStutter DEF Get, group
<1>4. CASE CloneStore(t)
  <2>1. \A u \in Threads : GroupPc'[u] = GroupPc[u]
    BY <1>4, <1>a DEF CloneStore, GroupPc, Goto
  <2> QED
    BY <1>4, <2>1, GroupStutter DEF CloneStore, group
<1>5. CASE FollowerCount(t)
  <2>1. CASE call[t] # 1
    <3>1. \A u \in Threads : GroupPc'[u] = GroupPc[u]
      BY <1>5, <1>a, <2>1 DEF FollowerCount, GroupPc, Goto
    <3> QED
      BY <1>5, <1>b, <2>1, <3>1, GroupStutter DEF FollowerCount, group
  <2>2. CASE call[t] = 1
    <3>1. Group!WaitCall(t)
      BY <1>5, <1>a, <1>b, <2>2
         DEF FollowerCount, GroupPc, Goto, group, Group!WaitCall, Group!Goto, Group!client
    <3> QED
      BY <3>1 DEF Group!Next, Group!Threads
  <2> QED
    BY <2>1, <2>2
<1>6. CASE FollowerLoad(t)
  <2>1. CASE call[t] # 1
    <3>1. \A u \in Threads : GroupPc'[u] = GroupPc[u]
      BY <1>6, <1>a, <2>1 DEF FollowerLoad, GroupPc, Goto
    <3> QED
      BY <1>6, <1>b, <2>1, <3>1, GroupStutter DEF FollowerLoad, group
  <2>2. CASE call[t] = 1
    <3>1. /\ GroupPc[t] = "w_load" /\ UNCHANGED <<count[1], flag[1], Group!client>>
          /\ GroupPc' = [GroupPc EXCEPT ![t] = IF count[1] > 0 THEN "w_futex" ELSE "w_clear"]
      BY <1>6, <1>a, <2>2 DEF FollowerLoad, GroupPc, Goto, group, Group!client
    <3>2. count[1] > 0 \/ count[1] = 0
      BY <1>a, <1>b
    <3> QED
      BY <3>1, <3>2 DEF Group!WaitLoad, Group!Goto, Group!WaitStep, Group!Next
  <2> QED
    BY <2>1, <2>2
<1>7. CASE FollowerFutex(t)
  <2>1. CASE call[t] # 1
    <3>1. \A u \in Threads : GroupPc'[u] = GroupPc[u]
      BY <1>7, <1>a, <2>1 DEF FollowerFutex, GroupPc, Goto
    <3> QED
      BY <1>7, <1>b, <2>1, <3>1, GroupStutter DEF FollowerFutex, group
  <2>2. CASE call[t] = 1
    <3>1. Group!WaitFutex(t)
      BY <1>7, <1>a, <1>b, <2>2
         DEF FollowerFutex, GroupPc, Goto, group, Group!WaitFutex, Group!Goto,
             Group!client
    <3> QED
      BY <3>1 DEF Group!Next, Group!Threads, Group!WaitStep
  <2> QED
    BY <2>1, <2>2
<1>8. CASE SpuriousWake(t)
  <2>1. CASE call[t] # 1
    <3>1. \A u \in Threads : GroupPc'[u] = GroupPc[u]
      BY <1>8, <1>a, <2>1 DEF SpuriousWake, GroupPc, Goto
    <3> QED
      BY <1>8, <1>b, <2>1, <3>1, GroupStutter DEF SpuriousWake, group
  <2>2. CASE call[t] = 1
    <3>1. Group!SpuriousWake(t)
      BY <1>8, <1>a, <1>b, <2>2
         DEF SpuriousWake, GroupPc, Goto, group, Group!SpuriousWake, Group!Goto,
             Group!client
    <3> QED
      BY <3>1 DEF Group!Next, Group!Threads
  <2> QED
    BY <2>1, <2>2
<1>9. CASE FollowerClear(t)
  <2>1. CASE call[t] # 1
    <3>1. \A u \in Threads : GroupPc'[u] = GroupPc[u]
      BY <1>9, <1>a, <2>1 DEF FollowerClear, GroupPc, Goto
    <3> QED
      BY <1>9, <1>b, <2>1, <3>1, GroupStutter DEF FollowerClear, group
  <2>2. CASE call[t] = 1
    <3>1. Group!WaitClear(t)
      BY <1>9, <1>a, <1>b, <2>2
         DEF FollowerClear, GroupPc, Goto, group, Group!WaitClear, Group!Goto,
             Group!client
    <3> QED
      BY <3>1 DEF Group!Next, Group!Threads, Group!WaitStep
  <2> QED
    BY <2>1, <2>2
<1>10. CASE FollowerRead(t)
  <2>1. \A u \in Threads : GroupPc'[u] = GroupPc[u]
    BY <1>10, <1>a DEF FollowerRead, GroupPc, Goto
  <2> QED
    BY <1>10, <2>1, GroupStutter DEF FollowerRead, group
<1>11. CASE LeaderCreate(t)
  <2>1. CASE created # 0
    <3>1. \A u \in Threads : GroupPc'[u] = GroupPc[u]
      BY <1>11, <1>a, <1>b, <2>1 DEF LeaderCreate, GroupPc, Goto
    <3> QED
      BY <1>11, <1>b, <2>1, <3>1, GroupStutter DEF LeaderCreate
  <2>2. CASE created = 0
    <3>1. \A u \in Threads : call[u] = 0
      BY <1>b, <2>2
    <3>2. GroupPc = [u \in Threads |-> "idle"] /\ GroupPc' = GroupPc
      BY <1>11, <1>a, <3>1 DEF LeaderCreate, GroupPc, Goto
    <3>3. count[1] = 0 /\ count'[1] = 1 /\ created' = 1 /\ UNCHANGED flag[1]
      BY <1>11, <1>a, <1>b, <2>2 DEF LeaderCreate, Lives, Unborn
    <3>4. Group!Add(t, 1)
      BY <2>2, <3>2, <3>3 DEF Group!Add, Group!WaitPCs
    <3> QED
      BY <3>4 DEF Group!Next
  <2> QED
    BY <2>1, <2>2
<1>12. CASE LeaderInsert(t)
  <2>1. \A u \in Threads : GroupPc'[u] = GroupPc[u]
    BY <1>12, <1>a DEF LeaderInsert, GroupPc, Goto
  <2> QED
    BY <1>12, <2>1, GroupStutter DEF LeaderInsert, group
<1>13. CASE DropDisplaced(t)
  <2>1. \A u \in Threads : GroupPc'[u] = GroupPc[u]
    BY <1>13, <1>a DEF DropDisplaced, DropStore, GroupPc, Goto
  <2> QED
    BY <1>13, <2>1, GroupStutter DEF DropDisplaced, DropStore, group
<1>14. CASE \E outcome \in Outcomes : LeaderRun(t, outcome)
  <2>1. \A u \in Threads : GroupPc'[u] = GroupPc[u]
    BY <1>14, <1>a DEF LeaderRun, GroupPc, Goto
  <2> QED
    BY <1>14, <2>1, GroupStutter DEF LeaderRun, group
<1>15. CASE LeaderDone(t)
  <2>1. CASE call[t] # 1
    <3>1. \A u \in Threads : GroupPc'[u] = GroupPc[u]
      BY <1>15, <1>a, <2>1 DEF LeaderDone, GroupPc, Goto
    <3> QED
      BY <1>15, <1>b, <2>1, <3>1, GroupStutter DEF LeaderDone, group
  <2>2. CASE call[t] = 1
    <3>1. count[1] = 1 /\ count'[1] = 0
      BY <1>15, <1>a, <1>b, <2>2 DEF LeaderDone, Lives, Leading
    <3>2. /\ GroupPc[t] = "idle" /\ GroupPc' = [GroupPc EXCEPT ![t] = "d_store"]
          /\ UNCHANGED <<flag[1], created>>
      BY <1>15, <1>a, <2>2, <3>1 DEF LeaderDone, GroupPc, Goto
    <3>3. Group!DoneCall(t)
      BY <3>1, <3>2 DEF Group!DoneCall, Group!FetchSub, Group!Goto
    <3> QED
      BY <3>3 DEF Group!Next, Group!Threads
  <2> QED
    BY <2>1, <2>2
<1>16. CASE LeaderStore(t)
  <2>1. CASE call[t] # 1
    <3>1. \A u \in Threads : GroupPc'[u] = GroupPc[u]
      BY <1>16, <1>a, <2>1 DEF LeaderStore, GroupPc, Goto
    <3> QED
      BY <1>16, <1>b, <2>1, <3>1, GroupStutter DEF LeaderStore, group
  <2>2. CASE call[t] = 1
    <3>1. Group!DoneStore(t)
      BY <1>16, <1>a, <1>b, <2>2
         DEF LeaderStore, GroupPc, Goto, group, Group!DoneStore, Group!Goto, Group!client
    <3> QED
      BY <3>1 DEF Group!Next, Group!Threads, Group!DoneStep
  <2> QED
    BY <2>1, <2>2
<1>17. CASE LeaderWake(t)
  <2>1. CASE call[t] # 1
    <3>1. \A u \in Threads : GroupPc'[u] = GroupPc[u]
      BY <1>17, <1>a, <2>1 DEF LeaderWake, GroupPc, Goto
    <3> QED
      BY <1>17, <1>b, <2>1, <3>1, GroupStutter DEF LeaderWake, group
  <2>2. CASE call[t] = 1
    <3>1. \A u \in Threads :
            GroupPc'[u] = IF u = t THEN "idle"
                          ELSE IF GroupPc[u] = "w_asleep" THEN "w_load" ELSE GroupPc[u]
      BY <1>17, <1>a, <2>2 DEF LeaderWake, GroupPc
    <3>2. GroupPc' = [u \in Threads |->
            IF u = t THEN "idle"
            ELSE IF GroupPc[u] = "w_asleep" THEN "w_load" ELSE GroupPc[u]]
      BY <3>1 DEF GroupPc
    <3>3. GroupPc[t] = "d_wake" /\ UNCHANGED <<count[1], flag[1], Group!client>>
      BY <1>17, <2>2 DEF LeaderWake, GroupPc, group, Group!client
    <3> QED
      BY <3>2, <3>3 DEF Group!DoneWakeAll, Group!DoneStep, Group!Next, Group!Threads, Threads
  <2> QED
    BY <2>1, <2>2
<1>18. CASE DropLoad(t)
  <2>1. \A u \in Threads : GroupPc'[u] = GroupPc[u]
    BY <1>18, <1>a DEF DropLoad, GroupPc, Goto
  <2> QED
    BY <1>18, <2>1, GroupStutter DEF DropLoad, group
<1>19. CASE DropOwn(t)
  <2>1. \A u \in Threads : GroupPc'[u] = GroupPc[u]
    BY <1>19, <1>a DEF DropOwn, DropStore, GroupPc, Goto
  <2> QED
    BY <1>19, <2>1, GroupStutter DEF DropOwn, DropStore, group
<1>20. CASE ForgotRemove(t)
  <2>1. \A u \in Threads : GroupPc'[u] = GroupPc[u]
    BY <1>20, <1>a DEF ForgotRemove, GroupPc, Goto
  <2> QED
    BY <1>20, <2>1, GroupStutter DEF ForgotRemove, group
<1>21. CASE ForgotDrop(t)
  <2>1. \A u \in Threads : GroupPc'[u] = GroupPc[u]
    BY <1>21, <1>a DEF ForgotDrop, DropStore, GroupPc, Goto
  <2> QED
    BY <1>21, <2>1, GroupStutter DEF ForgotDrop, DropStore, group
<1>22. CASE FollowerPanics(t)
  <2>1. \A u \in Threads : GroupPc'[u] = GroupPc[u]
    BY <1>22, <1>a DEF FollowerPanics, GroupPc, Goto
  <2> QED
    BY <1>22, <2>1, GroupStutter DEF FollowerPanics, group
<1> QED
  BY <1>1, <1>2, <1>3, <1>4, <1>5, <1>6, <1>7, <1>8, <1>9, <1>10, <1>11, <1>12, <1>13,
     <1>14, <1>15, <1>16, <1>17, <1>18, <1>19, <1>20, <1>21, <1>22
     DEF Acts, Locking, Running

\* exec keeps the rules of the WaitGroup of a call: one add before anybody can wait,
\* one done after that, whoever displaces or forgets the call meanwhile.
THEOREM GroupImplemented ==
  ASSUME MaxExecs > 0
  PROVE  Spec => ImplementsGroup
<1>1. Init => Group!Init
  <2> SUFFICES ASSUME Init PROVE Group!Init
    OBVIOUS
  <2>1. 1 \in Calls
    BY ExecsAssumption DEF Calls
  <2>2. GroupPc = [t \in Threads |-> "idle"]
    BY DEF Init, GroupPc, NoCall
  <2> QED
    BY <2>1, <2>2 DEF Init, Group!Init, Group!Threads
<1>2. FlightInv /\ [Next]_vars => [Group!Next]_(Group!vars)
  <2> SUFFICES ASSUME FlightInv, [Next]_vars PROVE [Group!Next]_(Group!vars)
    OBVIOUS
  <2>1. ASSUME NEW t \in Threads, Alive(t), Acts(t) PROVE [Group!Next]_(Group!vars)
    BY <2>1, GroupSteps
  <2>2. ASSUME UNCHANGED <<count, flag, created, pc, call>> PROVE UNCHANGED Group!vars
    BY <2>2, GroupStutter DEF GroupPc
  <2>3. ASSUME NEW t \in Threads, UseFreed(t) PROVE UNCHANGED Group!vars
    BY <2>2, <2>3 DEF UseFreed, group
  <2>4. CASE UNCHANGED vars
    BY <2>2, <2>4 DEF vars, group
  <2> QED
    BY <2>1, <2>3, <2>4 DEF Next, Acts
<1> QED
  BY <1>1, <1>2, FlightInvariance, PTL DEF Spec, ImplementsGroup, Group!Spec

=============================================================================
