-------------------------- MODULE CounterThreadsProofs --------------------------
(***************************************************************************)
(* What holds of components3_main.c for any number of threads, when main   *)
(* waits for that number.                                                  *)
(***************************************************************************)
EXTENDS CounterThreads, FiniteSetTheorems, TLAPS

Counting == Locking \cup {"atomic"}

Inside == {"load", "store", "signal", "unlock"}

(* Each build has a part of the program only. *)
ProgramInv ==
  /\ build \in Unlocked => main \in {"create", "check", "sleep", "done"}
  /\ build \in Polling => main \in {"create", "sleep", "lock", "read", "unlock", "done"}
  /\ build = "cond" =>
       main \in {"create", "lock", "test", "wait", "waiting", "relock", "unlock", "done"}
  /\ \A t \in Threads :
       /\ build = "base" => thread[t] = "none"
       /\ build = "pth" => thread[t] \in {"none", "failed", "end"}
       /\ build = "atomic" => thread[t] \in {"none", "failed", "add", "end"}
       /\ build \in Locking => thread[t] # "add"
       /\ thread[t] = "signal" => build = "cond"
  /\ build = "base" => main # "create"
  /\ build = "cond" /\ main = "unlock" => tmp >= GOAL
  /\ main = "create" => spawned < THREADS
  /\ \A t \in Threads : t >= spawned => thread[t] = "none"

(* Whoever is inside holds the lock, so a copy of g_val taken there is     *)
(* good until it is used.                                                  *)
LockInv ==
  /\ main \in {"read", "test", "wait", "unlock"} <=> holder = Main
  /\ \A t \in Threads :
       /\ thread[t] \in Inside <=> holder = t
       /\ thread[t] = "store" => reg[t] = val
  /\ main = "wait" => val < GOAL

(* What main knows of g_val stays true. *)
CountInv ==
  /\ NoLostUpdate
  /\ build \notin Counting => val = 0
  /\ tmp <= val
  /\ main = "done" => val >= GOAL

IInv == TypeOK /\ ProgramInv /\ LockInv /\ CountInv /\ NoLostWakeup

-----------------------------------------------------------------------------
(* The assumption on the constants, as the arithmetic needs it.            *)
LEMMA CountAssumed == THREADS \in Nat /\ THREADS > 0 /\ GOAL = THREADS
  BY CountAssumption

(* No more increments than threads. *)
LEMMA AddedCardinality ==
  /\ IsFiniteSet(Added)
  /\ Cardinality(Added) \in Nat
  /\ Cardinality(Added) <= THREADS
  /\ Cardinality(Added) = THREADS => Added = Threads
<1>1. IsFiniteSet(Threads) /\ Cardinality(Threads) = THREADS
  BY CountAssumed, FS_Interval DEF Threads
<1>2. Added \in SUBSET Threads
  BY DEF Added
<1>3. IsFiniteSet(Added) /\ Cardinality(Added) <= THREADS
      /\ (Cardinality(Added) = THREADS => Added = Threads)
  BY <1>1, <1>2, FS_Subset
<1> QED
  BY <1>3, FS_CardinalityType

(* A thread that counts itself once raises the count by one. *)
LEMMA CountOneMore ==
  ASSUME NEW t \in Threads, t \notin Added, Added' = Added \cup {t},
         val = Cardinality(Added), val' = val + 1
  PROVE  val' = Cardinality(Added') /\ val' \in 0 .. THREADS /\ val < GOAL
<1>1. val' = Cardinality(Added')
  BY AddedCardinality, FS_AddElement
<1>2. Added # Threads
  BY DEF Added
<1>3. Cardinality(Added) < THREADS
  BY <1>2, AddedCardinality, CountAssumed
<1> QED
  BY <1>1, <1>3, AddedCardinality, CountAssumed

(* The invariant holds at first.                                           *)
LEMMA InitInv == Init => IInv
<1> SUFFICES ASSUME Init PROVE IInv
  OBVIOUS
<1>1. TypeOK
  BY CountAssumed DEF Init, TypeOK
<1>2. ProgramInv
  BY CountAssumed DEF Init, ProgramInv, Builds, Unlocked, Polling, Locking, Threads
<1>3. LockInv
  BY DEF Init, LockInv, Inside, Threads, Main, Nobody
<1>4. Added = {}
  BY DEF Init, Added
<1>5. CountInv
  BY <1>4, FS_EmptySet DEF Init, CountInv, NoLostUpdate
<1> QED
  BY <1>1, <1>2, <1>3, <1>5 DEF Init, IInv, NoLostWakeup

-----------------------------------------------------------------------------
(* Steps                                                                   *)

(* The two steps that change g_val add one for a thread that was not yet   *)
(* counted.                                                                *)
LEMMA IncrementStep ==
  ASSUME IInv, NEW t \in Threads, FetchAdd(t) \/ Store(t)
  PROVE  /\ build \in Counting
         /\ val' = val + 1
         /\ val' = Cardinality(Added')
         /\ val' \in 0 .. THREADS
         /\ val < GOAL
<1>1. TypeOK /\ ProgramInv /\ LockInv /\ NoLostUpdate
  BY DEF IInv, CountInv
<1>2. build \in Counting
  BY <1>1 DEF ProgramInv, FetchAdd, Store, ThreadStep, TypeOK, Builds, Locking,
              Polling, Counting
<1>3. val' = val + 1
  BY <1>1 DEF LockInv, FetchAdd, Store, ThreadStep
<1>4. t \notin Added /\ Added' = Added \cup {t}
  <2>1. CASE FetchAdd(t)
    BY <1>1, <2>1 DEF FetchAdd, ThreadStep, Added, TypeOK
  <2>2. CASE Store(t)
    BY <1>1, <2>2 DEF Store, ThreadStep, Added, TypeOK
  <2> QED
    BY <2>1, <2>2
<1>5. val = Cardinality(Added)
  BY <1>1, <1>2 DEF NoLostUpdate, Counting
<1> QED
  BY <1>2, <1>3, <1>4, <1>5, CountOneMore

(* Every step keeps the types.                                             *)
LEMMA TypeStep == IInv /\ [Next]_vars => TypeOK'
<1> SUFFICES ASSUME IInv, [Next]_vars PROVE TypeOK'
  OBVIOUS
<1>1. TypeOK /\ ProgramInv /\ LockInv /\ CountInv
  BY DEF IInv
<1> USE CountAssumed
<1>2. CASE Create
  BY <1>1, <1>2 DEF TypeOK, Create, MainStep, ProgramInv, Begin, Entry, Unlocked, Polling, Locking, Builds, Threads
<1>3. CASE Check
  BY <1>1, <1>3 DEF TypeOK, Check, MainStep
<1>4. CASE Sleep
  BY <1>1, <1>4 DEF TypeOK, Sleep, MainStep
<1>5. CASE MainLock
  BY <1>1, <1>5 DEF TypeOK, MainLock, MainStep
<1>6. CASE Read
  BY <1>1, <1>6 DEF TypeOK, Read, MainStep
<1>7. CASE Test
  BY <1>1, <1>7 DEF TypeOK, Test, MainStep
<1>8. CASE Wait
  BY <1>1, <1>8 DEF TypeOK, Wait, MainStep
<1>9. CASE Relock
  BY <1>1, <1>9 DEF TypeOK, Relock, MainStep
<1>10. CASE MainUnlock
  BY <1>1, <1>10 DEF TypeOK, MainUnlock, MainStep
<1>11. CASE WakeSpuriously
  BY <1>1, <1>11 DEF TypeOK, WakeSpuriously, MainStep
<1>12. ASSUME NEW t \in Threads, FetchAdd(t) PROVE TypeOK'
  BY <1>1, <1>12, IncrementStep DEF IInv, TypeOK, FetchAdd, ThreadStep
<1>13. ASSUME NEW t \in Threads, Lock(t) PROVE TypeOK'
  BY <1>1, <1>13 DEF TypeOK, Lock, ThreadStep
<1>14. ASSUME NEW t \in Threads, Load(t) PROVE TypeOK'
  BY <1>1, <1>14 DEF TypeOK, Load, ThreadStep
<1>15. ASSUME NEW t \in Threads, Store(t) PROVE TypeOK'
  BY <1>1, <1>15, IncrementStep DEF IInv, TypeOK, Store, ThreadStep
<1>16. ASSUME NEW t \in Threads, Signal(t) PROVE TypeOK'
  BY <1>1, <1>16 DEF TypeOK, Signal, ThreadStep
<1>17. ASSUME NEW t \in Threads, Unlock(t) PROVE TypeOK'
  BY <1>1, <1>17 DEF TypeOK, Unlock, ThreadStep
<1>18. CASE UNCHANGED vars
  BY <1>1, <1>18 DEF TypeOK, vars
<1> QED
  BY <1>2, <1>3, <1>4, <1>5, <1>6, <1>7, <1>8, <1>9, <1>10, <1>11, <1>12, <1>13, <1>14, <1>15, <1>16, <1>17, <1>18 DEF Next, MainNext, ThreadNext, Finished

(* Every step stays in the program of its build.                           *)
LEMMA ProgramStep == IInv /\ [Next]_vars => ProgramInv'
<1> SUFFICES ASSUME IInv, [Next]_vars PROVE ProgramInv'
  OBVIOUS
<1>1. TypeOK /\ ProgramInv
  BY DEF IInv
<1> USE CountAssumed
<1>2. CASE Create
  BY <1>1, <1>2 DEF TypeOK, ProgramInv, Builds, Unlocked, Polling, Locking, Threads, Create, MainStep, Begin, Entry
<1>3. CASE Check
  BY <1>1, <1>3 DEF TypeOK, ProgramInv, Builds, Unlocked, Polling, Locking, Threads, Check, MainStep
<1>4. CASE Sleep
  BY <1>1, <1>4 DEF TypeOK, ProgramInv, Builds, Unlocked, Polling, Locking, Threads, Sleep, MainStep
<1>5. CASE MainLock
  BY <1>1, <1>5 DEF TypeOK, ProgramInv, Builds, Unlocked, Polling, Locking, Threads, MainLock, MainStep
<1>6. CASE Read
  BY <1>1, <1>6 DEF TypeOK, ProgramInv, Builds, Unlocked, Polling, Locking, Threads, Read, MainStep
<1>7. CASE Test
  BY <1>1, <1>7 DEF TypeOK, ProgramInv, Builds, Unlocked, Polling, Locking, Threads, Test, MainStep
<1>8. CASE Wait
  BY <1>1, <1>8 DEF TypeOK, ProgramInv, Builds, Unlocked, Polling, Locking, Threads, Wait, MainStep
<1>9. CASE Relock
  BY <1>1, <1>9 DEF TypeOK, ProgramInv, Builds, Unlocked, Polling, Locking, Threads, Relock, MainStep
<1>10. CASE MainUnlock
  BY <1>1, <1>10 DEF TypeOK, ProgramInv, Builds, Unlocked, Polling, Locking, Threads, MainUnlock, MainStep
<1>11. CASE WakeSpuriously
  BY <1>1, <1>11 DEF TypeOK, ProgramInv, Builds, Unlocked, Polling, Locking, Threads, WakeSpuriously, MainStep
<1>12. ASSUME NEW t \in Threads, FetchAdd(t) PROVE ProgramInv'
  BY <1>1, <1>12 DEF TypeOK, ProgramInv, Builds, Unlocked, Polling, Locking, Threads, FetchAdd, ThreadStep
<1>13. ASSUME NEW t \in Threads, Lock(t) PROVE ProgramInv'
  BY <1>1, <1>13 DEF TypeOK, ProgramInv, Builds, Unlocked, Polling, Locking, Threads, Lock, ThreadStep
<1>14. ASSUME NEW t \in Threads, Load(t) PROVE ProgramInv'
  BY <1>1, <1>14 DEF TypeOK, ProgramInv, Builds, Unlocked, Polling, Locking, Threads, Load, ThreadStep
<1>15. ASSUME NEW t \in Threads, Store(t) PROVE ProgramInv'
  BY <1>1, <1>15 DEF TypeOK, ProgramInv, Builds, Unlocked, Polling, Locking, Threads, Store, ThreadStep
<1>16. ASSUME NEW t \in Threads, Signal(t) PROVE ProgramInv'
  BY <1>1, <1>16 DEF TypeOK, ProgramInv, Builds, Unlocked, Polling, Locking, Threads, Signal, ThreadStep
<1>17. ASSUME NEW t \in Threads, Unlock(t) PROVE ProgramInv'
  BY <1>1, <1>17 DEF TypeOK, ProgramInv, Builds, Unlocked, Polling, Locking, Threads, Unlock, ThreadStep
<1>18. CASE UNCHANGED vars
  BY <1>1, <1>18 DEF TypeOK, ProgramInv, Builds, Unlocked, Polling, Locking, Threads, vars
<1> QED
  BY <1>2, <1>3, <1>4, <1>5, <1>6, <1>7, <1>8, <1>9, <1>10, <1>11, <1>12, <1>13, <1>14, <1>15, <1>16, <1>17, <1>18 DEF Next, MainNext, ThreadNext, Finished

(* Every step keeps the lock and what it protects.                         *)
LEMMA LockStep == IInv /\ [Next]_vars => LockInv'
<1> SUFFICES ASSUME IInv, [Next]_vars PROVE LockInv'
  OBVIOUS
<1>1. TypeOK /\ ProgramInv /\ LockInv
  BY DEF IInv
<1> USE CountAssumed
<1>2. CASE Create
  BY <1>1, <1>2 DEF TypeOK, ProgramInv, LockInv, Inside, Main, Nobody, Builds, Unlocked, Polling, Locking, Threads, Create, MainStep, Begin, Entry
<1>3. CASE Check
  BY <1>1, <1>3 DEF TypeOK, ProgramInv, LockInv, Inside, Main, Nobody, Builds, Unlocked, Polling, Locking, Threads, Check, MainStep
<1>4. CASE Sleep
  BY <1>1, <1>4 DEF TypeOK, ProgramInv, LockInv, Inside, Main, Nobody, Builds, Unlocked, Polling, Locking, Threads, Sleep, MainStep
<1>5. CASE MainLock
  BY <1>1, <1>5 DEF TypeOK, ProgramInv, LockInv, Inside, Main, Nobody, Builds, Unlocked, Polling, Locking, Threads, MainLock, MainStep
<1>6. CASE Read
  BY <1>1, <1>6 DEF TypeOK, ProgramInv, LockInv, Inside, Main, Nobody, Builds, Unlocked, Polling, Locking, Threads, Read, MainStep
<1>7. CASE Test
  BY <1>1, <1>7 DEF TypeOK, ProgramInv, LockInv, Inside, Main, Nobody, Builds, Unlocked, Polling, Locking, Threads, Test, MainStep
<1>8. CASE Wait
  BY <1>1, <1>8 DEF TypeOK, ProgramInv, LockInv, Inside, Main, Nobody, Builds, Unlocked, Polling, Locking, Threads, Wait, MainStep
<1>9. CASE Relock
  BY <1>1, <1>9 DEF TypeOK, ProgramInv, LockInv, Inside, Main, Nobody, Builds, Unlocked, Polling, Locking, Threads, Relock, MainStep
<1>10. CASE MainUnlock
  BY <1>1, <1>10 DEF TypeOK, ProgramInv, LockInv, Inside, Main, Nobody, Builds, Unlocked, Polling, Locking, Threads, MainUnlock, MainStep
<1>11. CASE WakeSpuriously
  BY <1>1, <1>11 DEF TypeOK, ProgramInv, LockInv, Inside, Main, Nobody, Builds, Unlocked, Polling, Locking, Threads, WakeSpuriously, MainStep
<1>12. ASSUME NEW t \in Threads, FetchAdd(t) PROVE LockInv'
  BY <1>1, <1>12 DEF TypeOK, ProgramInv, LockInv, Inside, Main, Nobody, Builds, Unlocked, Polling, Locking, Threads, FetchAdd, ThreadStep
<1>13. ASSUME NEW t \in Threads, Lock(t) PROVE LockInv'
  BY <1>1, <1>13 DEF TypeOK, ProgramInv, LockInv, Inside, Main, Nobody, Builds, Unlocked, Polling, Locking, Threads, Lock, ThreadStep
<1>14. ASSUME NEW t \in Threads, Load(t) PROVE LockInv'
  BY <1>1, <1>14 DEF TypeOK, ProgramInv, LockInv, Inside, Main, Nobody, Builds, Unlocked, Polling, Locking, Threads, Load, ThreadStep
<1>15. ASSUME NEW t \in Threads, Store(t) PROVE LockInv'
  BY <1>1, <1>15 DEF TypeOK, ProgramInv, LockInv, Inside, Main, Nobody, Builds, Unlocked, Polling, Locking, Threads, Store, ThreadStep
<1>16. ASSUME NEW t \in Threads, Signal(t) PROVE LockInv'
  BY <1>1, <1>16 DEF TypeOK, ProgramInv, LockInv, Inside, Main, Nobody, Builds, Unlocked, Polling, Locking, Threads, Signal, ThreadStep
<1>17. ASSUME NEW t \in Threads, Unlock(t) PROVE LockInv'
  BY <1>1, <1>17 DEF TypeOK, ProgramInv, LockInv, Inside, Main, Nobody, Builds, Unlocked, Polling, Locking, Threads, Unlock, ThreadStep
<1>18. CASE UNCHANGED vars
  BY <1>1, <1>18 DEF TypeOK, ProgramInv, LockInv, Inside, Main, Nobody, Builds, Unlocked, Polling, Locking, Threads, vars
<1> QED
  BY <1>2, <1>3, <1>4, <1>5, <1>6, <1>7, <1>8, <1>9, <1>10, <1>11, <1>12, <1>13, <1>14, <1>15, <1>16, <1>17, <1>18 DEF Next, MainNext, ThreadNext, Finished

(* Every other step leaves the set of those who are counted alone.         *)
LEMMA QuietStep ==
  ASSUME IInv, build \in Counting,
         \/ MainNext \/ WakeSpuriously \/ UNCHANGED vars
         \/ \E t \in Threads : Lock(t) \/ Load(t) \/ Signal(t) \/ Unlock(t)
  PROVE  Added' = Added
<1>1. TypeOK /\ ProgramInv
  BY DEF IInv
<1> USE CountAssumed
<1>2. CASE Create
  <2>1. spawned \in Threads /\ thread[spawned] = "none"
    BY <1>1, <1>2 DEF TypeOK, ProgramInv, Create, MainStep, Threads
  <2>2. Entry \in {"lock", "add"}
    BY DEF Entry, Counting, Locking, Polling
  <2>3. PICK first \in {"lock", "add", "failed"} : thread' = [thread EXCEPT ![spawned] = first]
    BY <1>2, <2>2 DEF Create
  <2> QED
    BY <1>1, <2>1, <2>3 DEF TypeOK, Added
<1>3. CASE Check \/ Sleep \/ MainLock \/ Read \/ Test \/ Wait \/ Relock \/ MainUnlock
           \/ WakeSpuriously \/ UNCHANGED vars
  BY <1>3 DEF Added, Check, Sleep, MainLock, Read, Test, Wait, Relock, MainUnlock,
              WakeSpuriously, vars
<1>4. ASSUME NEW t \in Threads, Lock(t) \/ Load(t) \/ Signal(t) \/ Unlock(t)
      PROVE  Added' = Added
  BY <1>1, <1>4 DEF TypeOK, Added, Lock, Load, Signal, Unlock, ThreadStep
<1> QED
  BY <1>2, <1>3, <1>4 DEF MainNext

(* Every step keeps the count.                                             *)
LEMMA CountStep == IInv /\ [Next]_vars => CountInv'
<1> SUFFICES ASSUME IInv, [Next]_vars PROVE CountInv'
  OBVIOUS
<1>1. TypeOK /\ ProgramInv /\ LockInv /\ CountInv
  BY DEF IInv
<1> USE CountAssumed
<1>2. ASSUME NEW t \in Threads, FetchAdd(t) \/ Store(t) PROVE CountInv'
  <2>1. build \in Counting /\ val' = val + 1 /\ val' = Cardinality(Added')
    BY <1>2, IncrementStep
  <2>2. UNCHANGED <<build, main, tmp>>
    BY <1>2 DEF FetchAdd, Store
  <2> QED
    BY <1>1, <2>1, <2>2 DEF CountInv, NoLostUpdate, TypeOK
<1>3. ASSUME \/ MainNext \/ WakeSpuriously \/ UNCHANGED vars
             \/ \E t \in Threads : Lock(t) \/ Load(t) \/ Signal(t) \/ Unlock(t)
      PROVE  CountInv'
  <2>1. UNCHANGED <<build, val>>
    BY <1>3 DEF MainNext, Create, Check, Sleep, MainLock, Read, Test, Wait, Relock,
                MainUnlock, WakeSpuriously, Lock, Load, Signal, Unlock, vars
  <2>2. NoLostUpdate'
    <3>1. CASE build \in Counting
      BY <1>1, <1>3, <2>1, <3>1, QuietStep DEF CountInv, NoLostUpdate
    <3>2. CASE build \notin Counting
      BY <2>1, <3>2 DEF NoLostUpdate, Counting
    <3> QED
      BY <3>1, <3>2
  <2>3. tmp' <= val
    BY <1>1, <1>3 DEF CountInv, TypeOK, MainNext, Create, Check, Sleep, MainLock, Read, Test,
       Wait, Relock, MainUnlock, WakeSpuriously, Lock, Load, Signal, Unlock, vars
  <2>4. main' = "done" => val >= GOAL
    <3>1. CASE Create
      BY <1>1, <3>1 DEF Create, MainStep, Begin, Unlocked, Polling, ProgramInv, TypeOK, Builds
    <3>2. CASE Check \/ Sleep \/ MainLock \/ Read \/ Test \/ Wait \/ Relock \/ MainUnlock
               \/ WakeSpuriously \/ UNCHANGED vars
      BY <1>1, <3>2 DEF CountInv, TypeOK, Check, Sleep, MainLock, Read, Test, Wait, Relock,
         MainUnlock, WakeSpuriously, MainStep, vars
    <3>3. ASSUME NEW t \in Threads, Lock(t) \/ Load(t) \/ Signal(t) \/ Unlock(t)
          PROVE  main' = "done" => val >= GOAL
      BY <1>1, <3>3 DEF CountInv, Lock, Load, Signal, Unlock
    <3> QED
      BY <1>3, <3>1, <3>2, <3>3 DEF MainNext
  <2> QED
    BY <1>1, <2>1, <2>2, <2>3, <2>4 DEF CountInv, Counting
<1> QED
  BY <1>2, <1>3 DEF Next, ThreadNext, Finished

(* The thread that completes the count signals later than it stores, with  *)
(* the mutex main needs to begin its wait.                                 *)
LEMMA WakeupStep == IInv /\ [Next]_vars => NoLostWakeup'
<1> SUFFICES ASSUME IInv, [Next]_vars, main' = "waiting", val' >= GOAL
             PROVE  \E t \in Threads : thread'[t] = "signal"
  BY DEF NoLostWakeup
<1>1. TypeOK /\ ProgramInv /\ LockInv /\ NoLostWakeup
  BY DEF IInv
<1> USE CountAssumed
<1>2. ASSUME NEW t \in Threads, FetchAdd(t) PROVE FALSE
  BY <1>1, <1>2 DEF ProgramInv, FetchAdd, ThreadStep, TypeOK, Builds, Unlocked, Polling,
     Locking
<1>3. ASSUME NEW t \in Threads, Store(t) PROVE thread'[t] = "signal"
  BY <1>1, <1>3 DEF ProgramInv, Store, ThreadStep, TypeOK, Builds, Unlocked, Polling, Locking
<1>4. ASSUME NEW t \in Threads, Signal(t) PROVE FALSE
  BY <1>4 DEF Signal
<1>5. ASSUME NEW t \in Threads, Lock(t) \/ Load(t) \/ Unlock(t)
      PROVE  \E u \in Threads : thread'[u] = "signal"
  <2>1. PICK u \in Threads : thread[u] = "signal"
    BY <1>1, <1>5 DEF NoLostWakeup, Lock, Load, Unlock
  <2> QED
    BY <1>1, <1>5, <2>1 DEF TypeOK, Lock, Load, Unlock, ThreadStep
<1>6. CASE MainNext
  BY <1>1, <1>6 DEF LockInv, TypeOK, ProgramInv, MainNext, Create, Check, Sleep, MainLock, Read,
     Test, Wait, Relock, MainUnlock, MainStep, Begin, Builds, Unlocked, Polling, Locking
<1>7. CASE WakeSpuriously
  BY <1>7 DEF WakeSpuriously, MainStep
<1>8. CASE UNCHANGED vars
  BY <1>1, <1>8 DEF NoLostWakeup, vars
<1> QED
  BY <1>2, <1>3, <1>4, <1>5, <1>6, <1>7, <1>8 DEF Next, ThreadNext, Finished

-----------------------------------------------------------------------------
(* The theorems                                                            *)

(* The inductive invariant: program, lock and count together.              *)
THEOREM CounterInv == Spec => []IInv
<1>1. IInv /\ [Next]_vars => IInv'
  BY TypeStep, ProgramStep, LockStep, CountStep, WakeupStep DEF IInv
<1> QED
  BY <1>1, InitInv, PTL DEF Spec

(* Types: g_val never passes the number of threads.                        *)
THEOREM CounterTypeOK == Spec => []TypeOK
<1>1. IInv => TypeOK
  BY DEF IInv
<1> QED
  BY <1>1, CounterInv, PTL

(* No build that protects g_val loses an increment.                        *)
THEOREM CounterNoLostUpdate == Spec => []NoLostUpdate
<1>1. IInv => NoLostUpdate
  BY DEF IInv, CountInv
<1> QED
  BY <1>1, CounterInv, PTL

(* The count is complete when main is done: a subset of the threads as     *)
(* large as all of them is all of them.                                    *)
LEMMA DoneCounted == IInv => DoneMeansAll
<1> SUFFICES ASSUME IInv, main = "done"
             PROVE  build \in Counting /\ Added = Threads
  BY DEF DoneMeansAll, Counting
<1>1. TypeOK /\ CountInv
  BY DEF IInv
<1>2. val >= GOAL /\ build \in Counting
  BY <1>1, CountAssumed DEF CountInv
<1>3. val = Cardinality(Added)
  BY <1>1, <1>2 DEF CountInv, NoLostUpdate, Counting
<1> QED
  BY <1>1, <1>2, <1>3, CountAssumed, AddedCardinality DEF TypeOK

(* main is done only when every thread has counted itself.                 *)
THEOREM CounterDoneMeansAll == Spec => []DoneMeansAll
  BY DoneCounted, CounterInv, PTL

(* main never waits for a signal that was already given.                   *)
THEOREM CounterNoLostWakeup == Spec => []NoLostWakeup
<1>1. IInv => NoLostWakeup
  BY DEF IInv
<1> QED
  BY <1>1, CounterInv, PTL

-----------------------------------------------------------------------------
(* Refinement                                                              *)

(* Initial states map to initial states.                                   *)
LEMMA CounterInitImplements == Init => Counter!Init
  BY DEF Init, Counter!Init

(* Every step maps to a step of the counter or a stutter.                  *)
LEMMA CounterStepImplements ==
  IInv /\ [Next]_vars => [Counter!Next]_(Counter!counterVars)
<1> SUFFICES ASSUME IInv, [Next]_vars PROVE [Counter!Next]_(Counter!counterVars)
  OBVIOUS
<1>1. TypeOK /\ CountInv
  BY DEF IInv
<1> USE CountAssumed
<1>2. ASSUME NEW t \in Threads, FetchAdd(t) \/ Store(t) PROVE Counter!Increment
  <2>1. val' = val + 1 /\ val < GOAL
    BY <1>2, IncrementStep
  <2>2. main' = main
    BY <1>2 DEF FetchAdd, Store
  <2> QED
    BY <2>1, <2>2 DEF Counter!Increment
<1>3. ASSUME NEW t \in Threads, Lock(t) \/ Load(t) \/ Unlock(t)
      PROVE  UNCHANGED Counter!counterVars
  BY <1>3 DEF Lock, Load, Unlock, Counter!counterVars
<1>4. ASSUME NEW t \in Threads, Signal(t) PROVE UNCHANGED Counter!counterVars
  BY <1>4 DEF Signal, Counter!counterVars
<1>5. CASE WakeSpuriously \/ UNCHANGED vars
  BY <1>5 DEF WakeSpuriously, MainStep, vars, Counter!counterVars
<1>6. CASE MainNext
  <2>1. val' = val /\ main # "done"
    BY <1>6 DEF MainNext, Create, Check, Sleep, MainLock, Read, Test, Wait, Relock,
                MainUnlock, MainStep
  <2>2. CASE main' = "done"
    <3>1. CountInv'
      BY CountStep
    <3>2. val = GOAL
      BY <1>1, <2>1, <2>2, <3>1 DEF CountInv, TypeOK
    <3> QED
      BY <2>1, <2>2, <3>2 DEF Counter!Next, Counter!Finish
  <2>3. CASE main' # "done"
    BY <2>1, <2>3 DEF Counter!counterVars
  <2> QED
    BY <2>2, <2>3
<1> QED
  BY <1>2, <1>3, <1>4, <1>5, <1>6 DEF Next, ThreadNext, Finished, Counter!Next

(* To main, g_val is a counter incremented in single steps.                *)
THEOREM CounterImplements == Spec => ImplementsCounter
  BY CounterInitImplements, CounterStepImplements, CounterInv, PTL
     DEF Spec, ImplementsCounter, Counter!Spec

=============================================================================
