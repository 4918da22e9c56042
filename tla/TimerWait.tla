------------------------------- MODULE TimerWait -------------------------------
(***************************************************************************)
(* apps/mini_components2/components2_main.c: main starts timers of one     *)
(* period and then waits for them in a loop that sleeps once a pass.  The  *)
(* build chooses how it waits; here that choice is the variable loop,      *)
(* which never changes:                                                    *)
(*   "read"   it reads the timers one after the other, which blocks        *)
(*   "poll"   poll() on all of them, then it reads those that are ready    *)
(*   "epoll"  epoll_wait(), then it reads what events[] names              *)
(*                                                                         *)
(* Time passes in ticks: each timer counts down to its next expiry and     *)
(* main's sleep to its end.  Whenever main can run it may be kept from it, *)
(* for at most LATE ticks in a pass of its loop.                           *)
(***************************************************************************)
EXTENDS Integers, FiniteSets, Functions

CONSTANTS
  MAXFDS,     \* how many timers: 2 in the code
  PERIOD,     \* ticks between expiries: tms, 2 s in the code
  PAUSE,      \* ticks main sleeps: sleep(1)
  LATE,       \* ticks main may lose in one pass
  Garbage     \* what an entry of events[] may be before it is written

VARIABLES
  loop,
  main, k,    \* where main is, and at which timer or entry
  due,        \* ticks to each timer's next expiry, 0 if it does not exist
  pending,    \* expiries a read of the timer would return, up to Many
  ready,      \* poll: the fds with revents = POLLIN
  events,     \* epoll: the entries
  nap,        \* ticks left of main's sleep
  late        \* ticks lost in this pass

vars == <<loop, main, k, due, pending, ready, events, nap, late>>

Loops == {"read", "poll", "epoll"}
Fds == 1 .. MAXFDS

(* No step depends on the number of expiries a read returns.  Three and    *)
(* more are one count: the two that the epoll build may merge are told     *)
(* from three.                                                             *)
Many == 3

(* An entry with events = POLLIN names a timer, a descriptor whose read    *)
(* fails, or one that is open and never has anything to read.              *)
Nothing == 0        \* events is not POLLIN
Stray == -1
Silent == -2
Entry == Fds \cup {Nothing, Stray, Silent}

ASSUME TimerAssumption ==
  /\ MAXFDS \in Nat \ {0}
  /\ PERIOD \in Nat \ {0}
  /\ PAUSE \in Nat \ {0}
  /\ LATE \in Nat
  /\ Garbage \subseteq Entry

(* What the periods of the code, 2 s and 1 s, leave for everything else.   *)
ASSUME TimingAssumption == PAUSE + 2 * LATE < PERIOD

-----------------------------------------------------------------------------
Expired == {t \in Fds : pending[t] > 0}

(* What main reads next. *)
Target ==
  CASE loop = "read"  -> k
    [] loop = "poll"  -> IF k \in ready THEN k ELSE Nothing
    [] loop = "epoll" -> events[k]

(* The read of a timer that does not exist fails. *)
Fails(fd) == fd = Stray \/ (fd \in Fds /\ due[fd] = 0)

(* main has something to do and nothing to wait for. *)
CanRun ==
  \/ main = "boot"
  \/ main = "wait" /\ Expired # {}
  \/ main = "read" /\ (Target \in Expired \cup {Nothing} \/ Fails(Target))
  \/ main = "sleep" /\ nap = 0

-----------------------------------------------------------------------------
Init ==
  /\ loop \in Loops
  /\ main = "boot"
  /\ k = 1
  /\ due = [t \in Fds |-> 0]
  /\ pending = [t \in Fds |-> 0]
  /\ ready = {}
  /\ events \in [Fds -> Garbage]
  /\ nap = 0
  /\ late = 0

First == IF loop = "read" THEN "read" ELSE "wait"

(* Mutant: one entry too many. *)
NextFdPast(after) ==
  IF k <= MAXFDS THEN k' = k + 1 /\ main' = main ELSE k' = 1 /\ main' = after

NextFd(after) ==
  IF k < MAXFDS THEN k' = k + 1 /\ main' = main ELSE k' = 1 /\ main' = after

(* timerfd_create and timerfd_settime. *)
StartTimer ==
  /\ main = "boot"
  /\ due' = [due EXCEPT ![k] = PERIOD]
  /\ NextFd(First)
  /\ UNCHANGED <<loop, pending, ready, events, nap, late>>

(* timerfd_create failed: nobody looks at its result. *)
NoTimer ==
  /\ main = "boot"
  /\ NextFd(First)
  /\ UNCHANGED <<loop, due, pending, ready, events, nap, late>>

(* Mutant: nothing clears revents. *)
PollKeepsOld ==
  /\ main = "wait" /\ loop = "poll" /\ Expired # {}
  /\ ready' = ready \cup Expired
  /\ main' = "read"
  /\ UNCHANGED <<loop, k, due, pending, events, nap, late>>

(* Mutant: `else if' between the two timers. *)
PollOne ==
  /\ main = "wait" /\ loop = "poll" /\ Expired # {}
  /\ ready' = {CHOOSE t \in Expired : \A u \in Expired : t <= u}
  /\ main' = "read"
  /\ UNCHANGED <<loop, k, due, pending, events, nap, late>>

(* poll returns with the revents of every timer set anew. *)
Poll ==
  /\ main = "wait" /\ loop = "poll" /\ Expired # {}
  /\ ready' = Expired
  /\ main' = "read"
  /\ UNCHANGED <<loop, k, due, pending, events, nap, late>>

(* Mutant: room for one entry only. *)
EpollOne ==
  /\ main = "wait" /\ loop = "epoll" /\ Expired # {}
  /\ \E t \in Expired : events' = [events EXCEPT ![1] = t]
  /\ main' = "read"
  /\ UNCHANGED <<loop, k, due, pending, ready, nap, late>>

(* epoll_wait writes an entry for each expired timer, in an order of its   *)
(* own, and leaves the others as they were.                                *)
EpollWait ==
  /\ main = "wait" /\ loop = "epoll" /\ Expired # {}
  /\ LET ret == Cardinality(Expired)
     IN  \E order \in Bijection(1 .. ret, Expired) :
           events' = [n \in Fds |-> IF n <= ret THEN order[n] ELSE events[n]]
  /\ main' = "read"
  /\ UNCHANGED <<loop, k, due, pending, ready, nap, late>>

(* Mutant: sleep(2). *)
AfterReadLong ==
  /\ NextFd("sleep")
  /\ IF k < MAXFDS THEN UNCHANGED <<nap, late>> ELSE nap' = 2 * PAUSE /\ late' = 0
  /\ UNCHANGED <<loop, due, ready, events>>

(* Mutant: a sleep after every timer. *)
AfterReadSleeps ==
  /\ main' = "sleep" /\ nap' = PAUSE
  /\ IF k < MAXFDS THEN k' = k + 1 /\ late' = late ELSE k' = 1 /\ late' = 0
  /\ UNCHANGED <<loop, due, ready, events>>

(* The next timer, or the sleep at the end of the pass. *)
AfterRead ==
  /\ NextFd("sleep")
  /\ IF k < MAXFDS THEN UNCHANGED <<nap, late>> ELSE nap' = PAUSE /\ late' = 0
  /\ UNCHANGED <<loop, due, ready, events>>

(* revents or events is not POLLIN. *)
Skip ==
  /\ main = "read" /\ Target = Nothing
  /\ AfterRead
  /\ UNCHANGED pending

(* timer_read of a timer that expired: the count is taken and cleared. *)
ReadTimer ==
  /\ main = "read" /\ Target \in Expired
  /\ pending' = [pending EXCEPT ![Target] = 0]
  /\ AfterRead

(* Mutant: a failed read ends the pass. *)
ReadFailsBreak ==
  /\ main = "read" /\ Fails(Target)
  /\ main' = "sleep" /\ k' = 1 /\ nap' = PAUSE /\ late' = 0
  /\ UNCHANGED <<loop, due, ready, events, pending>>

(* timer_read of another descriptor: nobody looks at its result. *)
ReadFails ==
  /\ main = "read" /\ Fails(Target)
  /\ AfterRead
  /\ UNCHANGED pending

WakeUp ==
  /\ main = "sleep" /\ nap = 0
  /\ main' = First
  /\ UNCHANGED <<loop, k, due, pending, ready, events, nap, late>>

Main == StartTimer \/ NoTimer \/ Poll \/ EpollWait \/ Skip \/ ReadTimer \/ ReadFails
          \/ WakeUp

Tick ==
  /\ CanRun => late < LATE
  /\ late' = IF CanRun THEN late + 1 ELSE late
  /\ nap' = IF nap > 0 THEN nap - 1 ELSE 0
  /\ due' = [t \in Fds |-> IF due[t] = 1 THEN PERIOD
                           ELSE IF due[t] = 0 THEN 0 ELSE due[t] - 1]
  /\ pending' = [t \in Fds |-> IF due[t] = 1 /\ pending[t] < Many THEN pending[t] + 1
                               ELSE pending[t]]
  /\ UNCHANGED <<loop, main, k, ready, events>>

Next == Main \/ Tick

Spec == Init /\ [][Next]_vars

(* main runs when it can and time passes. *)
FairSpec == Spec /\ WF_vars(Main) /\ WF_vars(Tick)

-----------------------------------------------------------------------------
(* Type invariant: main is where its build lets it be, and never loses     *)
(* more time than a pass may.                                              *)
TypeOK ==
  /\ loop \in Loops
  /\ main \in {"boot", "wait", "read", "sleep"}
  /\ loop = "read" => main # "wait"
  /\ k \in Fds
  /\ main \in {"wait", "sleep"} => k = 1
  /\ due \in [Fds -> 0 .. PERIOD]
  /\ pending \in [Fds -> 0 .. Many]
  /\ ready \subseteq Fds
  /\ events \in [Fds -> Entry]
  /\ nap \in 0 .. PAUSE
  /\ late \in 0 .. LATE

(* A read returns one expiry: the loops that read and poll are fast enough *)
(* for the timers although they sleep between passes and, one of them,     *)
(* blocks on one timer while another expires (components2_main.c:132-150,  *)
(* :167-174).                                                              *)
KeepsUp ==
  loop \in {"read", "poll"} => \A t \in Fds : pending[t] <= 1

(* The poll build never waits in read(): it starts a read only of a timer  *)
(* that has something to return (components2_main.c:138-149).              *)
PollNeverBlocks ==
  loop = "poll" /\ main = "read" => Target \in Expired \cup {Nothing}

(* Ticks since the oldest expiry of timer t that nobody has read.          *)
Age(t) == PERIOD * pending[t] - due[t]

(* The poll build comes to every expiry within a sleep and the time that   *)
(* two passes may lose, whatever the other timers do                       *)
(* (components2_main.c:135-150).                                           *)
PollResponds ==
  loop = "poll" => \A t \in Expired : Age(t) < PAUSE + 2 * LATE

(* The read build waits for the timers in turn, and while it is awake none *)
(* of them is kept waiting: it comes to every expiry within the time that  *)
(* one pass may lose, although it may stand in the read of one timer when  *)
(* the other expires (components2_main.c:167-174).                         *)
ReadResponds ==
  loop = "read" /\ main = "read" => \A t \in Expired : Age(t) <= LATE

(* The epoll build, which may block on an entry nobody wrote, falls behind *)
(* by less than a sleep, a period and what two passes may lose: it merges  *)
(* two expiries at most (components2_main.c:152-165).                      *)
EpollResponds ==
  loop = "epoll" => \A t \in Expired : Age(t) < PERIOD + PAUSE + 2 * LATE

(* Every expiry is read in the end, by all three builds, even if the other *)
(* timer does not exist or events[] names it twice                         *)
(* (components2_main.c:49-61, :130-175).                                   *)
EveryExpiryRead ==
  \A t \in Fds : pending[t] > 0 ~> pending[t] = 0

(* components2_main.c:152 "Wait with epoll": the epoll build would wait in *)
(* epoll_wait only.  It looks at entries epoll_wait did not write and      *)
(* waits in the read of a timer that has not expired.                      *)
EpollNeverBlocks ==
  loop = "epoll" /\ main = "read" => Target \in Expired \cup {Nothing} \/ Fails(Target)

=============================================================================
