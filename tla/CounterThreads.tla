----------------------------- MODULE CounterThreads -----------------------------
(***************************************************************************)
(* apps/mini_components3/components3_main.c: main starts THREADS threads   *)
(* that increment g_val, and waits until they have.  The build chooses how *)
(* g_val is protected; in this module that choice is the variable build,   *)
(* which never changes:                                                    *)
(*   "base"    no threads                "pth"     threads that only print *)
(*   "atomic"  atomic_fetch_add          "mutex"   a mutex, main polls     *)
(*   "cond"    a mutex and a condition   "rwlock"  a rwlock, main polls    *)
(*                                                                         *)
(* Threads interleave in any order: the priorities the code asks for only  *)
(* make some orders likelier.  As main is the only reader, the rwlock      *)
(* excludes exactly what the mutex does.                                   *)
(***************************************************************************)
EXTENDS Integers, FiniteSets

CONSTANTS
  THREADS,        \* threads that are started
  GOAL            \* the value main waits for: the literal 3 of the code

VARIABLES
  build,
  val,            \* g_val
  holder,         \* who holds g_mut or g_rw
  main, thread,   \* where main and the threads are
  spawned,        \* threads main has tried to create
  tmp,            \* main's copy of g_val
  reg             \* each thread's copy of g_val, inside g_val++

vars == <<build, val, holder, main, thread, spawned, tmp, reg>>

(* components3_main.c:40 and the comparisons with 3 (:174, :201, :219,     *)
(* :248, :263) go together.                                                *)
ASSUME CountAssumption ==
  /\ THREADS \in Nat \ {0}
  /\ GOAL = THREADS

Builds == {"base", "pth", "atomic", "mutex", "cond", "rwlock"}
Polling == {"mutex", "rwlock"}
Locking == Polling \cup {"cond"}
Unlocked == {"base", "pth", "atomic"}

Threads == 0 .. THREADS - 1
Main == -1
Nobody == -2

-----------------------------------------------------------------------------
(* main                                                                    *)

(* What main does when it has started the threads. *)
Begin ==
  CASE build \in Unlocked -> "check"
    [] build \in Polling  -> "sleep"
    [] build = "cond"     -> "lock"

Init ==
  /\ build \in Builds
  /\ val = 0
  /\ holder = Nobody
  /\ main = IF build = "base" THEN "check" ELSE "create"
  /\ thread = [t \in Threads |-> "none"]
  /\ spawned = 0
  /\ tmp = 0
  /\ reg = [t \in Threads |-> 0]

MainStep(from, to) == main = from /\ main' = to

(* What a thread does first, once it has said hello. *)
Entry ==
  CASE build \in Locking  -> "lock"
    [] build = "atomic"   -> "add"
    [] build = "pth"      -> "end"

(* Mutant: the loop runs once too often. *)
CreateOneMore ==
  /\ MainStep("create", IF spawned = THREADS THEN Begin ELSE "create")
  /\ \E first \in {Entry, "failed"} : thread' = [thread EXCEPT ![spawned] = first]
  /\ spawned' = spawned + 1
  /\ UNCHANGED <<build, val, holder, tmp, reg>>

(* The result of pthread_create is ignored. *)
Create ==
  /\ MainStep("create", IF spawned + 1 = THREADS THEN Begin ELSE "create")
  /\ \E first \in {Entry, "failed"} : thread' = [thread EXCEPT ![spawned] = first]
  /\ spawned' = spawned + 1
  /\ UNCHANGED <<build, val, holder, tmp, reg>>

(* An unprotected or atomic read. *)
Check ==
  /\ MainStep("check", IF val < GOAL THEN "sleep" ELSE "done")
  /\ UNCHANGED <<build, val, holder, thread, spawned, tmp, reg>>

Sleep ==
  /\ MainStep("sleep", IF build \in Polling THEN "lock" ELSE "check")
  /\ UNCHANGED <<build, val, holder, thread, spawned, tmp, reg>>

MainLock ==
  /\ MainStep("lock", IF build = "cond" THEN "test" ELSE "read")
  /\ holder = Nobody
  /\ holder' = Main
  /\ UNCHANGED <<build, val, thread, spawned, tmp, reg>>

Read ==
  /\ MainStep("read", "unlock")
  /\ tmp' = val
  /\ UNCHANGED <<build, val, holder, thread, spawned, reg>>

(* while (g_val < 3) *)
Test ==
  /\ MainStep("test", IF val < GOAL THEN "wait" ELSE "unlock")
  /\ tmp' = val
  /\ UNCHANGED <<build, val, holder, thread, spawned, reg>>

(* Mutant: release the mutex, then wait. *)
WaitLate ==
  /\ \/ MainStep("wait", "released") /\ holder' = Nobody
     \/ MainStep("released", "waiting") /\ UNCHANGED holder
  /\ UNCHANGED <<build, val, thread, spawned, tmp, reg>>

(* pthread_cond_wait releases the mutex and waits in one step. *)
Wait ==
  /\ MainStep("wait", "waiting")
  /\ holder' = Nobody
  /\ UNCHANGED <<build, val, thread, spawned, tmp, reg>>

(* pthread_cond_wait may return without a signal. *)
WakeSpuriously ==
  /\ MainStep("waiting", "relock")
  /\ UNCHANGED <<build, val, holder, thread, spawned, tmp, reg>>

(* Mutant: `if' for `while': main does not test again. *)
RelockNoTest ==
  /\ MainStep("relock", "done")
  /\ holder = Nobody
  /\ UNCHANGED <<build, val, holder, thread, spawned, tmp, reg>>

(* pthread_cond_wait takes the mutex before it returns. *)
Relock ==
  /\ MainStep("relock", "test")
  /\ holder = Nobody
  /\ holder' = Main
  /\ UNCHANGED <<build, val, thread, spawned, tmp, reg>>

MainUnlock ==
  /\ MainStep("unlock", IF tmp < GOAL THEN "sleep" ELSE "done")
  /\ holder' = Nobody
  /\ UNCHANGED <<build, val, thread, spawned, tmp, reg>>

-----------------------------------------------------------------------------
(* The threads                                                             *)

ThreadStep(t, from, to) == thread[t] = from /\ thread' = [thread EXCEPT ![t] = to]

FetchAdd(t) ==
  /\ ThreadStep(t, "add", "end")
  /\ val' = val + 1
  /\ UNCHANGED <<build, holder, main, spawned, tmp, reg>>

(* Mutant: the thread does not wait for the lock. *)
LockAtOnce(t) ==
  /\ ThreadStep(t, "lock", "load")
  /\ holder' = t
  /\ UNCHANGED <<build, val, main, spawned, tmp, reg>>

Lock(t) ==
  /\ ThreadStep(t, "lock", "load")
  /\ holder = Nobody
  /\ holder' = t
  /\ UNCHANGED <<build, val, main, spawned, tmp, reg>>

Load(t) ==
  /\ ThreadStep(t, "load", "store")
  /\ reg' = [reg EXCEPT ![t] = val]
  /\ UNCHANGED <<build, val, holder, main, spawned, tmp>>

Store(t) ==
  /\ ThreadStep(t, "store", IF build = "cond" THEN "signal" ELSE "unlock")
  /\ val' = reg[t] + 1
  /\ UNCHANGED <<build, holder, main, spawned, tmp, reg>>

(* Mutant: only the first thread signals. *)
SignalFirst(t) ==
  /\ ThreadStep(t, "signal", "unlock")
  /\ main' = IF main = "waiting" /\ val = 1 THEN "relock" ELSE main
  /\ UNCHANGED <<build, val, holder, spawned, tmp, reg>>

(* A signal nobody waits for is lost. *)
Signal(t) ==
  /\ ThreadStep(t, "signal", "unlock")
  /\ main' = IF main = "waiting" THEN "relock" ELSE main
  /\ UNCHANGED <<build, val, holder, spawned, tmp, reg>>

Unlock(t) ==
  /\ ThreadStep(t, "unlock", "end")
  /\ holder' = Nobody
  /\ UNCHANGED <<build, val, main, spawned, tmp, reg>>

-----------------------------------------------------------------------------
MainNext ==
  \/ Create \/ Check \/ Sleep \/ MainLock \/ Read \/ Test
  \/ Wait \/ Relock \/ MainUnlock

ThreadNext(t) ==
  FetchAdd(t) \/ Lock(t) \/ Load(t) \/ Store(t) \/ Signal(t) \/ Unlock(t)

(* main has returned and every thread has ended. *)
Finished ==
  /\ main = "done"
  /\ \A t \in Threads : thread[t] \in {"none", "failed", "end"}
  /\ UNCHANGED vars

Next ==
  \/ MainNext \/ WakeSpuriously \/ Finished
  \/ \E t \in Threads : ThreadNext(t)

Spec == Init /\ [][Next]_vars

(* Whoever can run is scheduled in the end.  A mutex or rwlock of NuttX    *)
(* goes to a waiter when it is released, so main, which takes it again and *)
(* again, cannot keep a thread out for ever.  Each thread takes it once.   *)
FairSpec ==
  /\ Spec
  /\ WF_vars(MainNext)
  /\ \A t \in Threads : WF_vars(ThreadNext(t)) /\ SF_vars(Lock(t))

-----------------------------------------------------------------------------
(* Type invariant: g_val never passes the number of threads.               *)
TypeOK ==
  /\ build \in Builds
  /\ val \in 0 .. THREADS
  /\ holder \in Threads \cup {Main, Nobody}
  /\ main \in {"create", "check", "sleep", "lock", "read", "test", "wait",
               "waiting", "relock", "unlock", "done"}
  /\ thread \in [Threads -> {"none", "failed", "add", "lock", "load", "store",
                             "signal", "unlock", "end"}]
  /\ spawned \in 0 .. THREADS
  /\ tmp \in 0 .. THREADS
  /\ reg \in [Threads -> 0 .. THREADS]

(* The threads whose increment is done. *)
Added == {t \in Threads : thread[t] \in {"signal", "unlock", "end"}}

(* No increment is lost, whoever is inside g_val++ at the same time        *)
(* (components3_main.c:83, :97, :111, :127).                               *)
NoLostUpdate == build \in Locking \cup {"atomic"} => val = Cardinality(Added)

(* main is not done before every thread has counted itself, whichever way  *)
(* it waits (components3_main.c:174-179, :194-203, :219-226, :241-250).    *)
DoneMeansAll ==
  main = "done" => build \in Locking \cup {"atomic"} /\ Added = Threads

(* main never sleeps in pthread_cond_wait with nothing left to wake it:    *)
(* when all increments are done a signal is still to come                  *)
(* (components3_main.c:110-113, :217-224).                                 *)
NoLostWakeup ==
  main = "waiting" /\ val >= GOAL => \E t \in Threads : thread[t] = "signal"

(* To main g_val is a counter that threads increment in single steps       *)
(* (components3_main.c:73-131, :165-253).                                  *)
Counter == INSTANCE SharedCounter
  WITH Goal <- GOAL, count <- val, finished <- (main = "done")

ImplementsCounter == Counter!Spec

(* main finishes if the threads can be created and the build has them      *)
(* count (components3_main.c:165-253).                                     *)
Terminates ==
  <>( \/ main = "done"
      \/ build \in {"base", "pth"}
      \/ \E t \in Threads : thread[t] = "failed")

=============================================================================
