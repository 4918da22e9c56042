------------------------------- MODULE SemNotify -------------------------------
(***************************************************************************)
(* apps/mini_components4/components4_main.c: main waits for a semaphore    *)
(* that a thread and a timer post.  The build chooses which of them there  *)
(* are; here that choice is the variable build, which never changes:       *)
(* "THREAD", "POSIXTIMER" and "POSIXTIMER_SIGENV" of                       *)
(* CONFIG_RAILAB_MINIMAL_COMPONENTS4_...                                   *)
(*                                                                         *)
(* The callback of POSIXTIMER_SIGENV runs on a worker of the kernel.  The  *)
(* signal of a timer without it has no handler: it ends a wait of main,    *)
(* and is gone if there is none.                                           *)
(***************************************************************************)
EXTENDS Naturals

CONSTANT SEM_VALUE_MAX

ASSUME SemAssumption == SEM_VALUE_MAX \in Nat \ {0}

VARIABLES
  build,
  main,       \* where main is
  thread,     \* where the thread is, "none" if there is none
  timer,      \* "runs", or "none"
  callback,   \* "queued", or "idle"
  g_sem       \* the count of the semaphore

vars == <<build, main, thread, timer, callback, g_sem>>

Builds ==
  {b \in SUBSET {"THREAD", "POSIXTIMER", "POSIXTIMER_SIGENV"} :
     "POSIXTIMER_SIGENV" \in b => "POSIXTIMER" \in b}

Init ==
  /\ build \in Builds
  /\ main = "pthread_create"
  /\ thread = "none"
  /\ timer = "none"
  /\ callback = "idle"
  /\ g_sem = 0

-----------------------------------------------------------------------------
(* sem_post: the post goes to main if it waits, else to the count, and to  *)
(* nobody if that is full; nobody looks at the result.                     *)
SemPost ==
  IF main = "waits"
    THEN main' = "granted" /\ UNCHANGED g_sem
    ELSE UNCHANGED main /\ g_sem' = IF g_sem < SEM_VALUE_MAX THEN g_sem + 1 ELSE g_sem

(* Mutant: the thread is in every build. *)
CreateThreadAlways ==
  /\ main = "pthread_create"
  /\ thread' \in {"none", "sleeps"}
  /\ main' = "timer_create"
  /\ UNCHANGED <<build, timer, callback, g_sem>>

(* pthread_create, of which nobody looks at the result. *)
CreateThread ==
  /\ main = "pthread_create"
  /\ thread' \in IF "THREAD" \in build THEN {"none", "sleeps"} ELSE {"none"}
  /\ main' = "timer_create"
  /\ UNCHANGED <<build, timer, callback, g_sem>>

(* timer_create and timer_settime, with the same. *)
CreateTimer ==
  /\ main = "timer_create"
  /\ timer' \in IF "POSIXTIMER" \in build THEN {"none", "runs"} ELSE {"none"}
  /\ main' = "loop"
  /\ UNCHANGED <<build, thread, callback, g_sem>>

SemWait ==
  /\ main = "loop"
  /\ IF g_sem > 0 THEN main' = "granted" /\ g_sem' = g_sem - 1
                  ELSE main' = "waits" /\ UNCHANGED g_sem
  /\ UNCHANGED <<build, thread, timer, callback>>

(* "sem!" *)
Report ==
  /\ main = "granted"
  /\ main' = "loop"
  /\ UNCHANGED <<build, thread, timer, callback, g_sem>>

(* Mutant: an interrupted wait ends the loop. *)
InterruptedEnds ==
  /\ main = "interrupted"
  /\ main' = "ends"
  /\ UNCHANGED <<build, thread, timer, callback, g_sem>>

(* "EINTR" *)
Interrupted ==
  /\ main = "interrupted"
  /\ main' = "loop"
  /\ UNCHANGED <<build, thread, timer, callback, g_sem>>

Main == CreateThread \/ CreateTimer \/ SemWait \/ Report \/ Interrupted

(* sleep(2) is over, or a signal ended it. *)
ThreadWakes ==
  /\ thread = "sleeps"
  /\ thread' = "posts"
  /\ UNCHANGED <<build, main, timer, callback, g_sem>>

ThreadPosts ==
  /\ thread = "posts"
  /\ SemPost
  /\ thread' = "sleeps"
  /\ UNCHANGED <<build, timer, callback>>

(* The timer expires: a callback that has not run yet is not queued again. *)
ExpireCallback ==
  /\ timer = "runs" /\ "POSIXTIMER_SIGENV" \in build
  /\ callback' = "queued"
  /\ UNCHANGED <<build, main, thread, timer, g_sem>>

(* Mutant: main does not look at ret, so the wait seems to have succeeded. *)
ExpireSignalReports ==
  /\ timer = "runs" /\ "POSIXTIMER_SIGENV" \notin build /\ main = "waits"
  /\ main' = "granted"
  /\ UNCHANGED <<build, thread, timer, callback, g_sem>>

(* The signal ends main's wait; at any other time it changes nothing. *)
ExpireSignal ==
  /\ timer = "runs" /\ "POSIXTIMER_SIGENV" \notin build /\ main = "waits"
  /\ main' = "interrupted"
  /\ UNCHANGED <<build, thread, timer, callback, g_sem>>

(* sigev_callback *)
Callback ==
  /\ callback = "queued"
  /\ SemPost
  /\ callback' = "idle"
  /\ UNCHANGED <<build, thread, timer>>

Next ==
  Main \/ ThreadWakes \/ ThreadPosts \/ ExpireCallback \/ ExpireSignal \/ Callback

Spec == Init /\ [][Next]_vars

(* The threads and the worker run, a sleep ends and the timer expires.     *)
Fairness ==
  /\ WF_vars(Main)
  /\ WF_vars(ThreadWakes) /\ WF_vars(ThreadPosts)
  /\ WF_vars(ExpireCallback) /\ WF_vars(Callback)

FairSpec == Spec /\ Fairness

-----------------------------------------------------------------------------
(* Type invariant: nothing is posted in a build that has nobody to post,   *)
(* and main never waits while there is a post to take.                     *)
TypeOK ==
  /\ build \in Builds
  /\ main \in {"pthread_create", "timer_create", "loop", "waits", "granted", "interrupted"}
  /\ thread \in {"none", "sleeps", "posts"}
  /\ timer \in {"none", "runs"}
  /\ callback \in {"idle", "queued"}
  /\ g_sem \in 0 .. SEM_VALUE_MAX
  /\ thread # "none" => "THREAD" \in build /\ main # "pthread_create"
  /\ callback = "queued" => "POSIXTIMER_SIGENV" \in build
  /\ main = "waits" => g_sem = 0

(* Who is at sem_post, and the posts main has not printed "sem!" for. *)
posting ==
  (IF thread = "posts" THEN {"thread"} ELSE {})
    \cup (IF callback = "queued" THEN {"callback"} ELSE {})

owed == g_sem + (IF main = "granted" THEN 1 ELSE 0)

Promise ==
  INSTANCE Notices WITH
    Posters <- {"thread", "callback"}, CAPACITY <- SEM_VALUE_MAX

(* "sem!" is printed once for each post, of the thread and of the callback *)
(* at any time, never for a wait that a signal ended, and no post is lost  *)
(* before the semaphore is full (components4_main.c:48-65, :112-126).      *)
ImplementsNotices == Promise!Spec

(* There is somebody to post. *)
Posted == thread # "none" \/ (timer = "runs" /\ "POSIXTIMER_SIGENV" \in build)

(* As long as there is a thread or a callback, main is notified again and  *)
(* again, however often a signal ends its wait (components4_main.c:48-65,  *)
(* :112-126).                                                              *)
KeepsNotifying == Posted ~> main = "granted"

=============================================================================
