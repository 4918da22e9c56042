---------------------------- MODULE TimerWaitProofs ----------------------------
(***************************************************************************)
(* What holds of components2_main.c for any number of timers, any period   *)
(* and sleep and any time that the loop may lose, as long as a sleep and   *)
(* two such times are shorter than a period (TimingAssumption).            *)
(***************************************************************************)
EXTENDS TimerWait, FiniteSetTheorems, TLAPS

(* Ticks until the oldest expiry that main has not read, negative if that  *)
(* lies in the past: time takes one off it and a read of one expiry adds a *)
(* period.  More than two are never left unread.                           *)
Left(t) ==
  IF pending[t] = 0 THEN due[t]
  ELSE IF pending[t] = 1 THEN due[t] - PERIOD ELSE due[t] - PERIOD - PERIOD

(* What the arguments share: timers exist once they were                   *)
(* started, an expiry belongs to a timer, only the sleep has ticks left.   *)
BootInv ==
  /\ \A t \in Fds : due[t] = 0 => pending[t] = 0
  /\ main = "boot" => \A t \in Fds : t >= k => due[t] = 0
  /\ main # "sleep" => nap = 0

(* The least that may be left of timer t in the poll build: main sees an   *)
(* expiry at the next poll and reads it in the pass that follows.          *)
PollFloor(t) ==
  CASE main = "boot"  -> PERIOD - late
    [] main = "sleep" -> 1 + nap - PAUSE - LATE - late
    [] main = "wait"  -> 1 - PAUSE - LATE - late
    [] main = "read"  -> IF t \in ready /\ t >= k THEN 1 - PAUSE - LATE - late ELSE 1 - late

PollInv ==
  loop = "poll" =>
    /\ \A t \in Fds : due[t] # 0 => pending[t] <= 1 /\ PollFloor(t) <= Left(t)
    /\ main = "read" => \A t \in ready : t >= k => pending[t] > 0

(* In the read build, where main waits for the timers in turn, what counts *)
(* is what is left without the read of this pass, once that is done.       *)
Done(t) == main = "sleep" \/ (main = "read" /\ t < k)

Phase(t) == IF Done(t) THEN Left(t) - PERIOD ELSE Left(t)

ReadFloor(t) ==
  CASE main = "boot"  -> PERIOD - late
    [] main = "read"  -> IF t >= k THEN - late ELSE - LATE - late
    [] main = "sleep" -> nap - PAUSE - LATE - LATE - late

(* The timers were started in the order in which they are read, within the *)
(* time that boot may lose, and they stay together: while main waits for   *)
(* one, those it has still to read are not behind it, and those it has     *)
(* read are not far behind.                                                *)
ReadInv ==
  loop = "read" =>
    /\ \A t \in Fds : due[t] # 0 => pending[t] <= 1 /\ ReadFloor(t) <= Phase(t)
    /\ \A t, u \in Fds :
         t < u /\ due[t] # 0 /\ due[u] # 0 => Phase(u) - Phase(t) \in 0 .. LATE

IInv == TypeOK /\ BootInv /\ PollInv /\ ReadInv

(* The epoll build looks at an entry that epoll_wait may not have written: *)
(* it may block there for the rest of a period, while the timer that it    *)
(* has read, or the other one, expires.                                    *)
Blocked == events[2] \in Fds /\ due[events[2]] # 0 /\ pending[events[2]] = 0

EpollFloor(t) ==
  CASE main = "boot"  -> PERIOD - late
    [] main = "sleep" -> 1 + nap - PERIOD - PAUSE - LATE - late
    [] main = "wait"  -> 1 - PERIOD - PAUSE - LATE - late
    [] main = "read" /\ k = 1 ->
         IF t = events[1] \/ (t = events[2] /\ t \in Expired)
         THEN 1 - PERIOD - PAUSE - LATE - late ELSE 1 - late
    [] main = "read" /\ k = 2 ->
         IF Blocked THEN 1 + due[events[2]] - PERIOD - late
         ELSE IF t = events[2] THEN 1 - PERIOD - PAUSE - LATE - late ELSE 1 - PERIOD - late

EpollInv ==
  loop = "epoll" =>
    /\ \A t \in Fds : due[t] # 0 => pending[t] <= 2 /\ EpollFloor(t) <= Left(t)
    /\ \A n \in Fds : events[n] # Silent
    /\ main = "read" /\ k = 1 => events[1] \in Expired

-----------------------------------------------------------------------------
(* The assumptions as the arithmetic needs them.                           *)
LEMMA Timing ==
  /\ MAXFDS \in Nat /\ MAXFDS >= 1
  /\ PERIOD \in Nat /\ PAUSE \in Nat /\ PAUSE >= 1 /\ LATE \in Nat
  /\ PAUSE + LATE + LATE < PERIOD
  BY TimerAssumption, TimingAssumption

LEMMA InitInv == Init => IInv
<1> SUFFICES ASSUME Init PROVE IInv
  OBVIOUS
<1> USE Timing
<1>1. TypeOK
  BY TimerAssumption DEF Init, TypeOK, Fds, Loops, Many
<1> QED
  BY <1>1 DEF Init, IInv, BootInv, PollInv, ReadInv, Fds

(* Types.                                                                  *)
LEMMA TypeStep == TypeOK /\ BootInv /\ [Next]_vars => TypeOK' /\ BootInv'
<1> SUFFICES ASSUME TypeOK, BootInv, [Next]_vars PROVE TypeOK' /\ BootInv'
  OBVIOUS
<1> USE Timing
<1>1. CASE StartTimer
  BY <1>1 DEF TypeOK, BootInv, StartTimer, NextFd, First, Loops, Fds
<1>2. CASE NoTimer
  BY <1>2 DEF TypeOK, BootInv, NoTimer, NextFd, First, Loops, Fds
<1>3. CASE Poll
  BY <1>3 DEF TypeOK, BootInv, Poll, Loops, Fds, Expired
<1>4. CASE EpollWait
  <2>1. PICK order \in Bijection(1 .. Cardinality(Expired), Expired) :
          events' = [n \in Fds |-> IF n <= Cardinality(Expired) THEN order[n] ELSE events[n]]
    BY <1>4 DEF EpollWait
  <2>2. order \in [1 .. Cardinality(Expired) -> Expired]
    BY <2>1 DEF Bijection, Injection
  <2>3. \A n \in Fds : n <= Cardinality(Expired) => n \in 1 .. Cardinality(Expired)
    BY DEF Fds
  <2>4. events' \in [Fds -> Entry]
    BY <2>1, <2>2, <2>3 DEF TypeOK, Entry, Expired
  <2> QED
    BY <1>4, <2>4 DEF TypeOK, BootInv, EpollWait
<1>5. CASE Skip \/ ReadTimer \/ ReadFails
  <2>1. main = "read" /\ nap = 0 /\ AfterRead
    BY <1>5 DEF BootInv, Skip, ReadTimer, ReadFails
  <2>2. pending' \in [Fds -> 0 .. Many] /\ \A t \in Fds : pending[t] = 0 => pending'[t] = 0
    BY <1>5 DEF TypeOK, Skip, ReadTimer, ReadFails, Many
  <2>3. UNCHANGED <<loop, due, ready, events>>
    BY <2>1 DEF AfterRead
  <2>4. /\ main' \in {"read", "sleep"} /\ k' \in Fds /\ (main' = "sleep" => k' = 1)
        /\ nap' \in 0 .. PAUSE /\ late' \in 0 .. LATE /\ (main' # "sleep" => nap' = 0)
    BY <2>1 DEF TypeOK, AfterRead, NextFd, Fds
  <2> QED
    BY <2>1, <2>2, <2>3, <2>4 DEF TypeOK, BootInv
<1>6. CASE WakeUp
  BY <1>6 DEF TypeOK, BootInv, WakeUp, First, Loops, Fds
<1>7. CASE Tick
  <2>1. due' \in [Fds -> 0 .. PERIOD] /\ pending' \in [Fds -> 0 .. Many]
    BY <1>7 DEF TypeOK, Tick, Many
  <2>2. late' \in 0 .. LATE /\ nap' \in 0 .. PAUSE
    BY <1>7 DEF TypeOK, Tick
  <2> QED
    BY <1>7, <2>1, <2>2 DEF TypeOK, BootInv, Tick
<1>8. CASE UNCHANGED vars
  BY <1>8 DEF TypeOK, BootInv, vars, Expired
<1> QED
  BY <1>1, <1>2, <1>3, <1>4, <1>5, <1>6, <1>7, <1>8 DEF Next, Main

-----------------------------------------------------------------------------
(* Time                                                                    *)

(* A tick takes one off every timer, unless the expiry it brings would be  *)
(* the second that nobody read.                                            *)
LEMMA TickDown ==
  ASSUME TypeOK, Tick, NEW t \in Fds, due[t] # 0, pending[t] <= 1,
         Left(t) - 1 > - PERIOD
  PROVE  due'[t] # 0 /\ pending'[t] <= 1 /\ Left(t)' = Left(t) - 1
<1> USE Timing
<1>1. due[t] \in 1 .. PERIOD /\ pending[t] \in {0, 1}
  BY DEF TypeOK
<1>2. /\ due'[t] = IF due[t] = 1 THEN PERIOD ELSE due[t] - 1
      /\ pending'[t] = IF due[t] = 1 THEN pending[t] + 1 ELSE pending[t]
  BY <1>1 DEF Tick, Many
<1>3. pending[t] = 1 => due[t] # 1
  BY <1>1 DEF Left
<1> QED
  BY <1>1, <1>2, <1>3 DEF Left

(* The same for two.                                                       *)
LEMMA TickBack ==
  ASSUME TypeOK, Tick, NEW t \in Fds, due[t] # 0, pending[t] <= 2,
         Left(t) - 1 > - PERIOD - PERIOD
  PROVE  due'[t] # 0 /\ pending'[t] <= 2 /\ Left(t)' = Left(t) - 1
<1> USE Timing
<1>1. due[t] \in 1 .. PERIOD /\ pending[t] \in {0, 1, 2}
  BY DEF TypeOK
<1>2. /\ due'[t] = IF due[t] = 1 THEN PERIOD ELSE due[t] - 1
      /\ pending'[t] = IF due[t] = 1 THEN pending[t] + 1 ELSE pending[t]
  BY <1>1 DEF Tick, Many
<1>3. pending[t] = 2 => due[t] # 1
  BY <1>1 DEF Left
<1> QED
  BY <1>1, <1>2, <1>3 DEF Left

(* What is left is the age of the oldest expiry, counted the other way.    *)
LEMMA AgeLeft ==
  ASSUME TypeOK, NEW t \in Fds, pending[t] <= 2
  PROVE  Left(t) \in Int /\ Age(t) = - Left(t)
<1>1. due[t] \in Int /\ PERIOD \in Int
  BY Timing DEF TypeOK
<1>2. CASE pending[t] = 0
  BY <1>1, <1>2 DEF Left, Age
<1>3. CASE pending[t] = 1
  BY <1>1, <1>3 DEF Left, Age
<1>4. CASE pending[t] = 2
  <2>1. PERIOD * 2 = PERIOD + PERIOD
    BY <1>1
  <2> QED
    BY <1>1, <1>4, <2>1 DEF Left, Age
<1> QED
  BY <1>2, <1>3, <1>4 DEF TypeOK

(* A tick does not bring a timer into being.                               *)
LEMMA TickExists ==
  ASSUME TypeOK, Tick, NEW t \in Fds, due'[t] # 0
  PROVE  due[t] # 0
  BY DEF TypeOK, Tick

(* A read adds a period to what is left of the timer it reads.             *)
LEMMA ReadUp ==
  ASSUME TypeOK, ReadTimer, NEW t \in Fds, pending[t] <= 1
  PROVE  Left(t)' = IF t = Target THEN Left(t) + PERIOD ELSE Left(t)
<1>1. due[t] \in Int /\ pending[t] \in {0, 1} /\ PERIOD \in Int
  BY Timing DEF TypeOK
<1>2. due' = due /\ pending' = [pending EXCEPT ![Target] = 0] /\ Target \in Expired
  BY DEF ReadTimer, AfterRead
<1> QED
  BY <1>1, <1>2 DEF Left, TypeOK, Expired

-----------------------------------------------------------------------------
(* poll                                                                    *)

LEMMA PollStep == IInv /\ [Next]_vars => PollInv'
<1> SUFFICES ASSUME IInv, [Next]_vars, loop' = "poll" PROVE PollInv'
  BY DEF PollInv
<1> USE Timing
<1>1. TypeOK /\ BootInv /\ TypeOK' /\ BootInv'
  BY TypeStep DEF IInv
<1>2. loop = "poll"
  BY DEF Next, Main, StartTimer, NoTimer, Poll, EpollWait, Skip, ReadTimer, ReadFails,
         AfterRead, WakeUp, Tick, vars
<1>3. /\ \A t \in Fds : due[t] # 0 => pending[t] <= 1 /\ PollFloor(t) <= Left(t)
      /\ main = "read" => \A t \in ready : t >= k => pending[t] > 0
  BY <1>2 DEF IInv, PollInv
<1>4. SUFFICES /\ \A t \in Fds : due'[t] # 0 => pending'[t] <= 1 /\ PollFloor(t)' <= Left(t)'
               /\ main' = "read" => \A t \in ready' : t >= k' => pending'[t] > 0
  BY DEF PollInv
<1>t. ASSUME NEW t \in Fds
      PROVE  due[t] \in 0 .. PERIOD /\ pending[t] \in Nat /\ k \in Nat /\ t \in Nat
             /\ late \in 0 .. LATE /\ nap \in 0 .. PAUSE
  BY <1>1 DEF TypeOK, Fds
<1>5. CASE StartTimer
  BY <1>1, <1>2, <1>3, <1>5, <1>t DEF StartTimer, NextFd, First, PollFloor, Left, BootInv, TypeOK
<1>6. CASE NoTimer
  BY <1>1, <1>2, <1>3, <1>6, <1>t DEF NoTimer, NextFd, First, PollFloor, Left, BootInv
<1>7. CASE Poll
  <2>1. main = "wait" /\ main' = "read" /\ ready' = {t \in Fds : pending[t] > 0}
        /\ UNCHANGED <<k, due, pending, late>>
    BY <1>7 DEF Poll, Expired
  <2>2. ASSUME NEW t \in Fds, due'[t] # 0
        PROVE  pending'[t] <= 1 /\ PollFloor(t)' <= Left(t)'
    <3>1. due[t] # 0 /\ pending[t] <= 1 /\ 1 - PAUSE - LATE - late <= Left(t)
      BY <1>3, <2>1, <2>2 DEF PollFloor
    <3>2. Left(t)' = Left(t)
      BY <2>1 DEF Left
    <3>3. CASE pending[t] = 0
      <4>1. Left(t) = due[t] /\ t \notin ready'
        BY <2>1, <3>3 DEF Left
      <4>2. PollFloor(t)' = 1 - late
        BY <2>1, <4>1 DEF PollFloor
      <4> QED
        BY <1>t, <2>1, <3>1, <3>2, <4>1, <4>2
    <3>4. CASE pending[t] # 0
      <4>1. PollFloor(t)' \in {1 - PAUSE - LATE - late, 1 - late} /\ t \in ready'
        BY <1>t, <2>1, <3>4 DEF PollFloor
      <4>2. t >= k'
        BY <1>1, <1>t, <2>1 DEF TypeOK, Fds
      <4>3. PollFloor(t)' = 1 - PAUSE - LATE - late
        BY <2>1, <4>1, <4>2 DEF PollFloor
      <4> QED
        BY <1>t, <2>1, <3>1, <3>2, <4>3
    <3> QED
      BY <3>3, <3>4
  <2> QED
    BY <2>1, <2>2
<1>8. CASE EpollWait
  BY <1>2, <1>8 DEF EpollWait
<1>9. CASE Skip \/ ReadFails
  <2>1. main = "read" /\ ~(k \in ready /\ due[k] # 0)
    <3>1. main = "read" /\ (Target = Nothing \/ Fails(Target))
      BY <1>9 DEF Skip, ReadFails
    <3>2. k \in Nat /\ k >= 1
      BY <1>1 DEF TypeOK, Fds
    <3>3. Target = IF k \in ready THEN k ELSE 0
      BY <1>2 DEF Target, Nothing
    <3> QED
      BY <3>1, <3>2, <3>3 DEF Fails, Nothing, Stray
  <2>2. UNCHANGED <<loop, due, pending, ready>>
    BY <1>9 DEF Skip, ReadFails, AfterRead
  <2>3. \/ main' = "read" /\ k' = k + 1 /\ late' = late
        \/ main' = "sleep" /\ nap' = PAUSE /\ late' = 0 /\ k = MAXFDS
    BY <1>1, <1>9, <2>1 DEF Skip, ReadFails, AfterRead, NextFd, TypeOK, Fds
  <2>4. ASSUME NEW t \in Fds, due'[t] # 0
        PROVE  pending'[t] <= 1 /\ PollFloor(t)' <= Left(t)'
    BY <1>3, <1>t, <2>1, <2>2, <2>3, <2>4 DEF PollFloor, Left, Fds
  <2> QED
    BY <1>1, <1>3, <1>t, <2>1, <2>2, <2>3, <2>4 DEF TypeOK
<1>10. CASE ReadTimer
  <2>1. main = "read" /\ Target = k /\ k \in ready /\ k \in Fds
    BY <1>1, <1>2, <1>10 DEF ReadTimer, Target, Nothing, Expired, TypeOK, Fds
  <2>2. UNCHANGED <<loop, due, ready>> /\ pending' = [pending EXCEPT ![k] = 0]
    BY <1>10, <2>1 DEF ReadTimer, AfterRead
  <2>3. \/ main' = "read" /\ k' = k + 1 /\ late' = late
        \/ main' = "sleep" /\ nap' = PAUSE /\ late' = 0 /\ k = MAXFDS
    BY <1>1, <1>10, <2>1 DEF ReadTimer, AfterRead, NextFd, TypeOK, Fds
  <2>4. ASSUME NEW t \in Fds, due'[t] # 0
        PROVE  pending'[t] <= 1 /\ PollFloor(t)' <= Left(t)'
    <3>1. CASE t = k
      BY <1>1, <1>t, <2>1, <2>2, <2>3, <2>4, <3>1 DEF PollFloor, Left, TypeOK
    <3>2. CASE t # k
      <4>1. due[t] # 0 /\ pending[t] <= 1 /\ PollFloor(t) <= Left(t)
        BY <1>3, <2>2, <2>4
      <4>2. pending'[t] = pending[t] /\ Left(t)' = Left(t) /\ Left(t) \in Int
        BY <1>1, <1>t, <2>2, <3>2 DEF Left, TypeOK
      <4>3. t > k <=> t >= k + 1
        BY <1>t
      <4>4. CASE main' = "read"
        <5>1. PollFloor(t)' = IF t \in ready /\ t >= k + 1 THEN 1 - PAUSE - LATE - late ELSE 1 - late
          BY <2>2, <2>3, <4>4 DEF PollFloor
        <5>2. PollFloor(t) = IF t \in ready /\ t >= k THEN 1 - PAUSE - LATE - late ELSE 1 - late
          BY <2>1 DEF PollFloor
        <5>3. t >= k <=> t >= k + 1
          BY <1>t, <3>2
        <5> QED
          BY <4>1, <4>2, <5>1, <5>2, <5>3
      <4>5. CASE main' = "sleep"
        <5>1. PollFloor(t)' = 1 - LATE /\ ~(t >= k)
          <6>1. nap' = PAUSE /\ late' = 0 /\ k = MAXFDS
            BY <2>3, <4>5
          <6> QED
            BY <1>t, <3>2, <4>5, <6>1 DEF PollFloor, Fds
        <5>2. PollFloor(t) = 1 - late
          BY <2>1, <5>1 DEF PollFloor
        <5> QED
          BY <1>t, <4>1, <4>2, <5>1, <5>2
      <4> QED
        BY <2>3, <4>4, <4>5
    <3> QED
      BY <3>1, <3>2
  <2> QED
    BY <1>1, <1>3, <1>t, <2>1, <2>2, <2>3, <2>4 DEF TypeOK
<1>11. CASE WakeUp
  BY <1>1, <1>2, <1>3, <1>11, <1>t DEF WakeUp, First, PollFloor, Left
<1>12. CASE Tick
  <2>1. UNCHANGED <<loop, main, k, ready>>
    BY <1>12 DEF Tick
  <2>2. main = "read" => CanRun
    <3> SUFFICES ASSUME main = "read" PROVE CanRun
      OBVIOUS
    <3>1. Target = IF k \in ready THEN k ELSE Nothing
      BY <1>2 DEF Target
    <3>2. k \in ready => k \in Fds /\ pending[k] > 0
      BY <1>1, <1>3, <1>t DEF TypeOK, Fds
    <3> QED
      BY <3>1, <3>2 DEF CanRun, Expired
  <2>3. ASSUME NEW t \in Fds, due[t] # 0
        PROVE  PollFloor(t)' <= Left(t) - 1 /\ PollFloor(t)' > - PERIOD
    <3>1. CASE CanRun
      <4>1. late' = late + 1 /\ late' <= LATE /\ nap' = nap /\ nap \in {0, nap}
        BY <1>1, <1>12, <1>t, <3>1 DEF Tick, CanRun, BootInv
      <4> QED
        BY <1>1, <1>3, <1>t, <2>1, <2>3, <4>1 DEF PollFloor, Left, TypeOK
    <3>2. CASE main = "sleep" /\ ~CanRun
      <4>1. late' = late /\ nap' = nap - 1
        BY <1>1, <1>12, <1>t, <3>2 DEF Tick, CanRun
      <4> QED
        BY <1>1, <1>3, <1>t, <2>1, <2>3, <3>2, <4>1 DEF PollFloor, Left, TypeOK
    <3>3. CASE main = "wait" /\ ~CanRun
      <4>1. late' = late /\ pending[t] = 0
        BY <1>1, <1>12, <1>t, <3>3 DEF Tick, CanRun, Expired
      <4>2. Left(t) = due[t] /\ due[t] >= 1
        BY <1>t, <2>3, <4>1 DEF Left
      <4>3. PollFloor(t)' = 1 - PAUSE - LATE - late
        BY <2>1, <3>3, <4>1 DEF PollFloor
      <4> QED
        BY <1>t, <2>3, <4>2, <4>3
    <3> QED
      BY <1>1, <2>2, <3>1, <3>2, <3>3 DEF TypeOK, CanRun
  <2>4. ASSUME NEW t \in Fds, due'[t] # 0
        PROVE  pending'[t] <= 1 /\ PollFloor(t)' <= Left(t)'
    <3>1. due[t] # 0
      BY <1>1, <1>12, <2>4, TickExists
    <3>2. Left(t) \in Int /\ PollFloor(t)' \in Int
      BY <1>1, <1>t DEF Left, PollFloor, TypeOK
    <3> QED
      BY <1>1, <1>3, <1>12, <2>3, <3>1, <3>2, TickDown
  <2>5. \A t \in Fds : pending[t] > 0 => pending'[t] > 0
    BY <1>1, <1>12, <1>t DEF Tick, TypeOK
  <2> QED
    BY <1>1, <1>3, <2>1, <2>4, <2>5 DEF TypeOK
<1>13. CASE UNCHANGED vars
  BY <1>3, <1>13 DEF vars, PollFloor, Left
<1> QED
  BY <1>5, <1>6, <1>7, <1>8, <1>9, <1>10, <1>11, <1>12, <1>13 DEF Next, Main

-----------------------------------------------------------------------------
(* read                                                                    *)

(* A pass of the loop goes to the next timer or ends.                      *)
LEMMA PassStep ==
  ASSUME TypeOK, AfterRead
  PROVE  /\ UNCHANGED <<loop, due, ready>>
         /\ \/ main' = main /\ k' = k + 1 /\ nap' = nap /\ late' = late /\ k < MAXFDS
            \/ main' = "sleep" /\ k' = 1 /\ nap' = PAUSE /\ late' = 0 /\ k = MAXFDS
  BY Timing DEF TypeOK, AfterRead, NextFd, Fds

LEMMA ReadStep == IInv /\ [Next]_vars => ReadInv'
<1> SUFFICES ASSUME IInv, [Next]_vars, loop' = "read" PROVE ReadInv'
  BY DEF ReadInv
<1> USE Timing
<1>1. TypeOK /\ BootInv /\ TypeOK' /\ BootInv'
  BY TypeStep DEF IInv
<1>2. loop = "read" /\ main \in {"boot", "read", "sleep"}
  BY <1>1 DEF TypeOK, Next, Main, StartTimer, NoTimer, Poll, EpollWait, Skip, ReadTimer,
              ReadFails, AfterRead, WakeUp, Tick, vars
<1>3. /\ \A t \in Fds : due[t] # 0 => pending[t] <= 1 /\ ReadFloor(t) <= Phase(t)
      /\ \A t, u \in Fds :
           t < u /\ due[t] # 0 /\ due[u] # 0 => Phase(u) - Phase(t) \in 0 .. LATE
  BY <1>2 DEF IInv, ReadInv
<1>t. ASSUME NEW t \in Fds
      PROVE  /\ due[t] \in 0 .. PERIOD /\ pending[t] \in Nat /\ k \in Nat /\ t \in Nat
             /\ late \in 0 .. LATE /\ nap \in 0 .. PAUSE
             /\ Left(t) \in Int /\ Phase(t) \in Int /\ ReadFloor(t) \in Int
  <2>1. /\ due[t] \in 0 .. PERIOD /\ pending[t] \in Nat /\ k \in Nat /\ t \in Nat
        /\ late \in 0 .. LATE /\ nap \in 0 .. PAUSE
    BY <1>1 DEF TypeOK, Fds
  <2>2. Left(t) \in Int
    BY <2>1 DEF Left
  <2>3. Phase(t) \in Int
    BY <2>2 DEF Phase
  <2>4. ReadFloor(t) \in Int
    BY <1>2, <2>1 DEF ReadFloor
  <2> QED
    BY <2>1, <2>2, <2>3, <2>4
<1>4. SUFFICES
        /\ \A t \in Fds : due'[t] # 0 => pending'[t] <= 1 /\ ReadFloor(t)' <= Phase(t)'
        /\ \A t, u \in Fds :
             t < u /\ due'[t] # 0 /\ due'[u] # 0 => Phase(u)' - Phase(t)' \in 0 .. LATE
  BY DEF ReadInv
(* Once started, the timers have almost a period left, and no more.        *)
<1>5. CASE StartTimer \/ NoTimer
  <2>1. /\ main = "boot" /\ main' \in {"boot", "read"} /\ late' = late /\ pending' = pending
        /\ main' = "read" => k' = 1
    BY <1>2, <1>5 DEF StartTimer, NoTimer, NextFd, First
  <2>2. ASSUME NEW t \in Fds, due'[t] # 0
        PROVE  pending'[t] <= 1 /\ Phase(t)' \in PERIOD - late .. PERIOD
    <3>1. ~Done(t) /\ ~Done(t)'
      BY <1>t, <2>1 DEF Done, Fds
    <3>2. CASE due'[t] = due[t]
      <4>1. pending[t] <= 1 /\ PERIOD - late <= Phase(t)
        BY <1>3, <2>1, <2>2, <3>2 DEF ReadFloor
      <4> QED
        BY <1>t, <2>1, <3>1, <3>2, <4>1 DEF Phase, Left
    <3>3. CASE due'[t] # due[t]
      <4>1. t = k /\ due'[t] = PERIOD
        BY <1>1, <1>5, <3>3 DEF StartTimer, NoTimer, TypeOK
      <4>2. pending[t] = 0
        BY <1>1, <1>t, <2>1, <4>1 DEF BootInv
      <4> QED
        BY <1>t, <2>1, <3>1, <4>1, <4>2 DEF Phase, Left
    <3> QED
      BY <3>2, <3>3
  <2>3. ASSUME NEW t \in Fds
        PROVE  ReadFloor(t)' \in Int /\ ReadFloor(t)' <= PERIOD - late
    BY <1>1, <1>t, <2>1 DEF ReadFloor
  <2>4. ASSUME NEW t \in Fds, NEW u \in Fds, t < u, due'[t] # 0, due'[u] # 0
        PROVE  Phase(u)' - Phase(t)' \in 0 .. LATE
    <3>1. \A v \in Fds : ~Done(v) /\ ~Done(v)'
      BY <1>t, <2>1 DEF Done, Fds
    <3>2. CASE u = k
      <4>1. Phase(u)' = PERIOD
        <5>1. due[u] = 0 /\ pending[u] = 0
          BY <1>1, <1>t, <2>1, <3>2 DEF BootInv
        <5>2. due'[u] = PERIOD
          BY <1>1, <1>5, <2>4, <3>2, <5>1 DEF StartTimer, NoTimer, TypeOK
        <5> QED
          BY <2>1, <3>1, <5>1, <5>2 DEF Phase, Left
      <4> QED
        BY <1>t, <2>2, <2>4, <4>1
    <3>3. CASE u # k
      <4>1. due'[u] = due[u] /\ u < k
        BY <1>1, <1>5, <1>t, <2>1, <2>4, <3>3 DEF StartTimer, NoTimer, TypeOK, BootInv
      <4>2. due'[t] = due[t]
        BY <1>1, <1>5, <1>t, <2>4, <4>1 DEF StartTimer, NoTimer, TypeOK
      <4>3. Phase(u)' = Phase(u) /\ Phase(t)' = Phase(t)
        BY <2>1, <3>1, <4>1, <4>2 DEF Phase, Left
      <4> QED
        BY <1>3, <2>4, <4>1, <4>2, <4>3
    <3> QED
      BY <3>2, <3>3
  <2>5. late \in 0 .. LATE
    BY <1>1 DEF TypeOK
  <2> QED
    BY <2>2, <2>3, <2>4, <2>5
<1>6. CASE Poll \/ EpollWait
  BY <1>2, <1>6 DEF Poll, EpollWait
(* A read adds a period to what is left, and is Done.                      *)
<1>7. CASE Skip \/ ReadTimer \/ ReadFails
  <2>1. main = "read" /\ AfterRead /\ Target = k /\ k \in Fds
    BY <1>1, <1>2, <1>7 DEF Skip, ReadTimer, ReadFails, Target, TypeOK
  <2>2. /\ due' = due
        /\ \/ main' = "read" /\ k' = k + 1 /\ late' = late
           \/ main' = "sleep" /\ nap' = PAUSE /\ late' = 0 /\ k = MAXFDS
    BY <1>1, <2>1, PassStep
  <2>3. ASSUME NEW t \in Fds, due'[t] # 0
        PROVE  pending'[t] <= 1 /\ Phase(t)' = Phase(t)
    <3>1. due[t] # 0 /\ pending[t] \in {0, 1}
      BY <1>3, <1>t, <2>2, <2>3
    <3>2. Done(t)' <=> t <= k
      BY <1>t, <2>2 DEF Done, Fds
    <3>3. Done(t) <=> t < k
      BY <2>1 DEF Done
    <3>4. CASE t = k
      <4>1. ReadTimer
        BY <1>7, <1>t, <2>1, <3>1, <3>4 DEF Skip, ReadFails, Fails, Nothing, Stray, Fds
      <4>2. pending'[t] = 0 /\ pending[t] = 1
        BY <1>1, <1>t, <2>1, <3>1, <3>4, <4>1 DEF ReadTimer, Expired, TypeOK
      <4> QED
        BY <1>t, <2>2, <3>2, <3>3, <3>4, <4>2 DEF Phase, Left
    <3>5. CASE t # k
      <4>1. pending'[t] = pending[t]
        BY <1>1, <1>7, <2>1, <3>5 DEF Skip, ReadFails, ReadTimer, TypeOK
      <4>2. Done(t)' <=> Done(t)
        BY <1>t, <3>2, <3>3, <3>5
      <4> QED
        BY <2>2, <3>1, <4>1, <4>2 DEF Phase, Left
    <3> QED
      BY <3>4, <3>5
  <2>4. ASSUME NEW t \in Fds, due'[t] # 0
        PROVE  ReadFloor(t)' <= Phase(t)'
    <3>1. ReadFloor(t)' \in Int /\ ReadFloor(t)' <= ReadFloor(t)
      BY <1>t, <2>1, <2>2 DEF ReadFloor
    <3>2. ReadFloor(t) <= Phase(t)
      BY <1>3, <2>2, <2>4
    <3> QED
      BY <1>t, <2>3, <2>4, <3>1, <3>2
  <2> QED
    BY <1>3, <2>1, <2>2, <2>3, <2>4
(* All are read, then none is.                                             *)
<1>8. CASE WakeUp
  <2>1. /\ main = "sleep" /\ nap = 0 /\ main' = "read" /\ k' = 1
        /\ UNCHANGED <<due, pending, late>>
    BY <1>1, <1>2, <1>8 DEF WakeUp, First, TypeOK
  <2>2. ASSUME NEW t \in Fds
        PROVE  Phase(t)' = Phase(t) + PERIOD
    <3>1. Done(t) /\ ~Done(t)' /\ Left(t)' = Left(t)
      BY <1>t, <2>1 DEF Done, Fds, Left
    <3> QED
      BY <1>t, <3>1 DEF Phase
  <2>3. ASSUME NEW t \in Fds
        PROVE  ReadFloor(t)' = - late /\ ReadFloor(t) = 0 - PAUSE - LATE - LATE - late
    BY <1>t, <2>1 DEF ReadFloor, Fds
  <2>4. ASSUME NEW t \in Fds, due'[t] # 0
        PROVE  pending'[t] <= 1 /\ ReadFloor(t)' <= Phase(t)'
    BY <1>3, <1>t, <2>1, <2>2, <2>3, <2>4
  <2>5. ASSUME NEW t \in Fds, NEW u \in Fds, t < u, due'[t] # 0, due'[u] # 0
        PROVE  Phase(u)' - Phase(t)' \in 0 .. LATE
    <3>1. Phase(u) - Phase(t) \in 0 .. LATE
      BY <1>3, <2>1, <2>5
    <3>2. Phase(u)' - Phase(t)' = Phase(u) - Phase(t)
      BY <1>t, <2>2
    <3> QED
      BY <3>1, <3>2
  <2> QED
    BY <2>4, <2>5
(* Time passes for all alike; what it may take is what it is late, asleep, *)
(* or, while main waits for one timer, what the others are behind.         *)
<1>9. CASE Tick
  <2>1. UNCHANGED <<loop, main, k>>
    BY <1>9 DEF Tick
  <2>2. ASSUME NEW t \in Fds, due[t] # 0
        PROVE  ReadFloor(t)' <= Phase(t) - 1 /\ ReadFloor(t)' \in Int
    <3>1. CASE CanRun
      <4>1. late' = late + 1 /\ late' <= LATE /\ nap' = nap
        BY <1>1, <1>9, <1>t, <3>1 DEF Tick, CanRun, BootInv
      <4>2. ReadFloor(t)' = ReadFloor(t) - 1
        BY <1>2, <1>t, <2>1, <4>1 DEF ReadFloor
      <4> QED
        BY <1>3, <1>t, <2>2, <4>2
    <3>2. CASE main = "sleep" /\ ~CanRun
      <4>1. late' = late /\ nap' = nap - 1
        BY <1>1, <1>9, <1>t, <3>2 DEF Tick, CanRun
      <4>2. ReadFloor(t)' = ReadFloor(t) - 1
        BY <1>t, <2>1, <3>2, <4>1 DEF ReadFloor
      <4> QED
        BY <1>3, <1>t, <2>2, <4>2
    <3>3. CASE main = "read" /\ ~CanRun
      <4>1. k \in Fds /\ due[k] # 0 /\ pending[k] = 0
        BY <1>1, <1>2, <1>t, <3>3 DEF CanRun, Target, Fails, Expired, TypeOK
      <4>2. Phase(k) = due[k] /\ Phase(k) >= 1
        BY <1>t, <3>3, <4>1 DEF Phase, Done, Left
      <4>3. late' = late
        BY <1>9, <3>3 DEF Tick
      <4>4. ReadFloor(t)' = IF t >= k THEN - late ELSE - LATE - late
        BY <2>1, <3>3, <4>3 DEF ReadFloor
      <4>5. CASE t < k
        <5>1. Phase(k) - Phase(t) \in 0 .. LATE
          BY <1>3, <2>2, <4>1, <4>5
        <5> QED
          BY <1>t, <4>1, <4>2, <4>4, <4>5, <5>1
      <4>6. CASE t > k
        <5>1. Phase(t) - Phase(k) \in 0 .. LATE
          BY <1>3, <2>2, <4>1, <4>6
        <5> QED
          BY <1>t, <4>1, <4>2, <4>4, <4>6, <5>1
      <4>7. CASE t = k
        BY <1>t, <4>1, <4>2, <4>4, <4>7
      <4> QED
        BY <1>t, <4>5, <4>6, <4>7
    <3> QED
      BY <1>2, <3>1, <3>2, <3>3 DEF CanRun
  <2>3. ASSUME NEW t \in Fds, due'[t] # 0
        PROVE  due[t] # 0 /\ pending'[t] <= 1 /\ Phase(t)' = Phase(t) - 1
    <3>1. due[t] # 0
      BY <1>1, <1>9, <2>3, TickExists
    <3>2. pending[t] <= 1
      BY <1>3, <3>1
    <3>3. ReadFloor(t)' >= IF main = "sleep" THEN - PAUSE - LATE - LATE - LATE ELSE - LATE - LATE
      BY <1>1, <1>2, <1>t, <2>1 DEF ReadFloor, TypeOK
    <3>4. Left(t) - 1 > - PERIOD
      <4>1. CASE main = "sleep"
        BY <1>t, <2>2, <3>1, <3>3, <4>1 DEF Phase, Done
      <4>2. CASE main # "sleep"
        <5>1. Left(t) >= Phase(t)
          BY <1>t DEF Phase
        <5> QED
          BY <1>t, <2>2, <3>1, <3>3, <4>2, <5>1
      <4> QED
        BY <4>1, <4>2
    <3>5. pending'[t] <= 1 /\ Left(t)' = Left(t) - 1
      BY <1>1, <1>9, <3>1, <3>2, <3>4, TickDown
    <3>6. Done(t)' <=> Done(t)
      BY <2>1 DEF Done
    <3> QED
      BY <1>t, <3>1, <3>5, <3>6 DEF Phase
  <2>4. ASSUME NEW t \in Fds, NEW u \in Fds, t < u, due'[t] # 0, due'[u] # 0
        PROVE  Phase(u)' - Phase(t)' \in 0 .. LATE
    <3>1. Phase(u) - Phase(t) \in 0 .. LATE
      BY <1>3, <2>3, <2>4
    <3>2. Phase(u)' - Phase(t)' = Phase(u) - Phase(t)
      BY <1>t, <2>3, <2>4
    <3> QED
      BY <3>1, <3>2
  <2> QED
    BY <2>2, <2>3, <2>4
<1>10. CASE UNCHANGED vars
  <2>1. UNCHANGED <<main, k, due, pending, nap, late>>
    BY <1>10 DEF vars
  <2>2. ASSUME NEW t \in Fds
        PROVE  Phase(t)' = Phase(t) /\ ReadFloor(t)' = ReadFloor(t)
    BY <2>1 DEF Phase, Done, Left, ReadFloor
  <2> QED
    BY <1>3, <2>1, <2>2
<1> QED
  BY <1>5, <1>6, <1>7, <1>8, <1>9, <1>10 DEF Next, Main

-----------------------------------------------------------------------------
(* epoll                                                                   *)

(* epoll_wait names an expired timer in the first entry, and all of them   *)
(* in the two.                                                             *)
LEMMA EpollNames ==
  ASSUME MAXFDS = 2, TypeOK, EpollWait
  PROVE  /\ events'[1] \in Expired
         /\ Expired \subseteq {events'[1], events'[2]}
         /\ \A n \in Fds : events'[n] \in Expired \cup {events[n]}
<1> DEFINE ret == Cardinality(Expired)
<1>1. Fds = 1 .. 2 /\ Expired \subseteq 1 .. 2 /\ Expired # {}
  BY DEF Fds, Expired, EpollWait
<1>2. IsFiniteSet(1 .. 2) /\ Cardinality(1 .. 2) = 2
  <2>1. 1 \in Int /\ 2 \in Int /\ ~(1 > 2) /\ 2 - 1 + 1 = 2
    OBVIOUS
  <2>2. /\ IsFiniteSet(1 .. 2)
        /\ Cardinality(1 .. 2) = IF 1 > 2 THEN 0 ELSE 2 - 1 + 1
    BY <2>1, FS_Interval
  <2> QED
    BY <2>1, <2>2
<1>3. IsFiniteSet(Expired) /\ ret \in Nat /\ ret <= 2 /\ ret # 0
  <2>1. Expired \in SUBSET (1 .. 2)
    BY <1>1
  <2>2. IsFiniteSet(Expired) /\ ret <= Cardinality(1 .. 2)
    BY <1>2, <2>1, FS_Subset
  <2>3. ret \in Nat
    BY <2>2, FS_CardinalityType
  <2>4. ret # 0
    BY <1>1, <2>2, FS_EmptySet
  <2> QED
    BY <1>2, <2>2, <2>3, <2>4
<1>4. PICK order \in Bijection(1 .. ret, Expired) :
        events' = [n \in Fds |-> IF n <= ret THEN order[n] ELSE events[n]]
  BY DEF EpollWait
<1>5. /\ order \in [1 .. ret -> Expired]
      /\ \A t \in Expired : \E n \in 1 .. ret : order[n] = t
  BY <1>4 DEF Bijection, Injection, Surjection
<1> HIDE DEF ret
<1>6. \A n \in 1 .. 2 : events'[n] = IF n <= ret THEN order[n] ELSE events[n]
  BY <1>1, <1>4
<1>7. \A n \in 1 .. ret : n \in {1, 2} /\ events'[n] = order[n]
  BY <1>3, <1>6
<1>8. events'[1] \in Expired
  BY <1>3, <1>5, <1>7
<1>9. \A n \in Fds : events'[n] \in Expired \cup {events[n]}
  BY <1>1, <1>3, <1>5, <1>6
<1>10. Expired \subseteq {events'[1], events'[2]}
  <2> SUFFICES ASSUME NEW t \in Expired PROVE t \in {events'[1], events'[2]}
    OBVIOUS
  <2>1. PICK n \in 1 .. ret : order[n] = t
    BY <1>5
  <2> QED
    BY <1>7, <2>1
<1> QED
  BY <1>8, <1>9, <1>10

LEMMA EpollStep == MAXFDS = 2 /\ IInv /\ EpollInv /\ [Next]_vars => EpollInv'
<1> SUFFICES ASSUME MAXFDS = 2, IInv, EpollInv, [Next]_vars, loop' = "epoll" PROVE EpollInv'
  BY DEF EpollInv
<1> USE Timing
<1>1. TypeOK /\ BootInv /\ TypeOK' /\ BootInv'
  BY TypeStep DEF IInv
<1>2. loop = "epoll"
  BY DEF Next, Main, StartTimer, NoTimer, Poll, EpollWait, Skip, ReadTimer, ReadFails,
         AfterRead, WakeUp, Tick, vars
<1>3. /\ \A t \in Fds : due[t] # 0 => pending[t] <= 2 /\ EpollFloor(t) <= Left(t)
      /\ \A n \in Fds : events[n] # Silent
      /\ main = "read" /\ k = 1 => events[1] \in Expired
  BY <1>2 DEF EpollInv
<1>f. Fds = 1 .. 2 /\ 1 \in Fds /\ 2 \in Fds /\ k \in {1, 2}
  BY <1>1 DEF TypeOK, Fds
<1>t. ASSUME NEW t \in Fds
      PROVE  due[t] \in 0 .. PERIOD /\ pending[t] \in 0 .. 3 /\ late \in 0 .. LATE
             /\ nap \in 0 .. PAUSE /\ Left(t) \in Int
  <2>1. due[t] \in 0 .. PERIOD /\ pending[t] \in 0 .. 3 /\ late \in 0 .. LATE
        /\ nap \in 0 .. PAUSE
    BY <1>1 DEF TypeOK, Many
  <2> QED
    BY <2>1 DEF Left
<1>4. SUFFICES
        /\ \A t \in Fds : due'[t] # 0 => pending'[t] <= 2 /\ EpollFloor(t)' <= Left(t)'
        /\ \A n \in Fds : events'[n] # Silent
        /\ main' = "read" /\ k' = 1 => events'[1] \in Expired'
  BY DEF EpollInv
<1>5. CASE StartTimer \/ NoTimer
  <2>1. /\ main = "boot" /\ main' \in {"boot", "wait"} /\ UNCHANGED <<pending, events, late>>
    BY <1>2, <1>5 DEF StartTimer, NoTimer, NextFd, First
  <2>2. ASSUME NEW t \in Fds, due'[t] # 0
        PROVE  pending'[t] <= 2 /\ EpollFloor(t)' <= Left(t)'
    <3>1. EpollFloor(t)' \in Int /\ EpollFloor(t)' <= PERIOD - late
      BY <1>t, <2>1 DEF EpollFloor
    <3>2. CASE due'[t] = due[t]
      <4>1. pending[t] <= 2 /\ PERIOD - late <= Left(t)
        BY <1>3, <2>1, <2>2, <3>2 DEF EpollFloor
      <4>2. Left(t)' = Left(t)
        BY <2>1, <3>2 DEF Left
      <4> QED
        BY <1>t, <2>1, <3>1, <4>1, <4>2
    <3>3. CASE due'[t] # due[t]
      <4>1. t = k /\ due'[t] = PERIOD
        BY <1>1, <1>5, <3>3 DEF StartTimer, NoTimer, TypeOK
      <4>2. pending[t] = 0
        BY <1>1, <1>f, <2>1, <4>1 DEF BootInv
      <4>3. Left(t)' = PERIOD
        BY <2>1, <4>1, <4>2 DEF Left
      <4> QED
        BY <1>t, <2>1, <3>1, <4>2, <4>3
    <3> QED
      BY <3>2, <3>3
  <2> QED
    BY <1>3, <2>1, <2>2
<1>6. CASE Poll
  BY <1>2, <1>6 DEF Poll
(* What epoll_wait names has waited since the last pass.                   *)
<1>7. CASE EpollWait
  <2>1. /\ main = "wait" /\ main' = "read" /\ k' = 1 /\ UNCHANGED <<due, pending, late>>
        /\ Expired' = Expired
    BY <1>1, <1>7 DEF EpollWait, TypeOK, Expired
  <2>2. /\ events'[1] \in Expired /\ Expired \subseteq {events'[1], events'[2]}
        /\ \A n \in Fds : events'[n] \in Expired \cup {events[n]}
    BY <1>1, <1>7, EpollNames
  <2>3. \A n \in Fds : events'[n] # Silent
    BY <1>3, <1>f, <2>2 DEF Expired, Silent
  <2>4. ASSUME NEW t \in Fds, due'[t] # 0
        PROVE  pending'[t] <= 2 /\ EpollFloor(t)' <= Left(t)'
    <3>1. pending[t] <= 2 /\ 1 - PERIOD - PAUSE - LATE - late <= Left(t) /\ Left(t)' = Left(t)
      BY <1>3, <2>1, <2>4 DEF EpollFloor, Left
    <3>2. CASE t \in Expired
      <4>1. EpollFloor(t)' = 1 - PERIOD - PAUSE - LATE - late
        BY <2>1, <2>2, <3>2 DEF EpollFloor
      <4> QED
        BY <2>1, <3>1, <4>1
    <3>3. CASE t \notin Expired
      <4>1. EpollFloor(t)' = 1 - late
        BY <2>1, <2>2, <3>3 DEF EpollFloor
      <4>2. Left(t) >= 1
        BY <1>t, <2>1, <2>4, <3>3 DEF Left, Expired
      <4> QED
        BY <1>t, <2>1, <3>1, <4>1, <4>2
    <3> QED
      BY <3>2, <3>3
  <2> QED
    BY <2>1, <2>2, <2>3, <2>4
<1>8. CASE Skip \/ ReadTimer \/ ReadFails
  <2>1. main = "read" /\ AfterRead /\ Target = events[k]
    BY <1>2, <1>8 DEF Skip, ReadTimer, ReadFails, Target
  <2>2. UNCHANGED <<due, events>> /\ ~(main' = "read" /\ k' = 1)
    BY <1>1, <1>f, <2>1, PassStep DEF AfterRead
  (* The first entry names an expired timer, and the read takes its count. *)
  <2>3. CASE k = 1
    <3>1. main' = "read" /\ k' = 2 /\ late' = late
      BY <1>1, <2>1, <2>3, PassStep
    <3>2. Target = events[1] /\ events[1] \in Expired /\ events[1] \in Fds
      BY <1>3, <2>1, <2>3 DEF Expired
    <3>3. pending' = [pending EXCEPT ![events[1]] = 0]
      <4>1. due[events[1]] # 0
        BY <1>1, <1>t, <3>2 DEF BootInv, Expired
      <4>2. ~Skip /\ ~ReadFails
        BY <1>f, <3>2, <4>1 DEF Skip, ReadFails, Fails, Nothing, Stray
      <4> QED
        BY <1>8, <3>2, <4>2 DEF ReadTimer
    <3>4. ASSUME NEW t \in Fds, due'[t] # 0
          PROVE  pending'[t] <= 2 /\ EpollFloor(t)' <= Left(t)'
      <4>1. due[t] \in 1 .. PERIOD /\ pending[t] <= 2 /\ EpollFloor(t) <= Left(t)
        BY <1>3, <1>t, <2>2, <3>4
      <4>2. EpollFloor(t) = IF t = events[1] \/ (t = events[2] /\ t \in Expired)
                            THEN 1 - PERIOD - PAUSE - LATE - late ELSE 1 - late
        BY <2>1, <2>3 DEF EpollFloor
      <4>3. EpollFloor(t)' =
              IF Blocked' THEN 1 + due[events[2]] - PERIOD - late
              ELSE IF t = events[2] THEN 1 - PERIOD - PAUSE - LATE - late
                   ELSE 1 - PERIOD - late
        BY <2>2, <3>1 DEF EpollFloor
      <4>4. Blocked' => due[events[2]] \in 1 .. PERIOD /\ pending'[events[2]] = 0
        BY <1>t, <2>2 DEF Blocked
      <4>5. EpollFloor(t)' \in Int /\ EpollFloor(t)' <= 1 - late
        BY <1>t, <4>3, <4>4
      <4>6. CASE pending'[t] = 0
        <5>1. Left(t)' = due[t]
          BY <2>2, <4>6 DEF Left
        <5> QED
          BY <1>t, <4>1, <4>5, <4>6, <5>1
      <4>7. CASE pending'[t] # 0
        <5>1. t # events[1] /\ pending'[t] = pending[t]
          BY <1>1, <3>2, <3>3, <4>7 DEF TypeOK
        <5>2. Left(t)' = Left(t)
          BY <2>2, <5>1 DEF Left
        <5>3. CASE t = events[2]
          <6>1. EpollFloor(t)' = 1 - PERIOD - PAUSE - LATE - late
            BY <4>3, <4>4, <4>7, <5>3
          <6> QED
            BY <1>t, <4>1, <4>2, <5>1, <5>2, <6>1
        <5>4. CASE t # events[2]
          BY <1>t, <4>1, <4>2, <4>5, <5>1, <5>2, <5>4
        <5> QED
          BY <5>3, <5>4
      <4> QED
        BY <4>6, <4>7
    <3> QED
      BY <1>3, <2>2, <3>4
  (* The second is read only when that does not block.                     *)
  <2>4. CASE k = 2
    <3>1. main' = "sleep" /\ nap' = PAUSE /\ late' = 0
      BY <1>1, <2>1, <2>4, PassStep
    <3>2. Target = events[2] /\ ~Blocked
      BY <1>f, <1>8, <2>1, <2>4 DEF Blocked, Skip, ReadTimer, ReadFails, Fails, Expired, Nothing,
                                    Stray
    <3>3. ASSUME NEW t \in Fds, due'[t] # 0
          PROVE  pending'[t] <= 2 /\ EpollFloor(t)' <= Left(t)'
      <4>1. due[t] \in 1 .. PERIOD /\ pending[t] <= 2 /\ EpollFloor(t) <= Left(t)
        BY <1>3, <1>t, <2>2, <3>3
      <4>2. EpollFloor(t)' = 1 - PERIOD - LATE
        BY <3>1 DEF EpollFloor
      <4>3. CASE t = events[2]
        <5>1. pending[t] # 0
          BY <3>2, <4>1, <4>3 DEF Blocked
        <5>2. ReadTimer
          BY <1>f, <1>8, <3>2, <4>1, <4>3, <5>1 DEF Skip, ReadFails, Fails, Nothing, Stray
        <5>3. pending'[t] = 0
          BY <1>1, <3>2, <4>3, <5>2 DEF ReadTimer, TypeOK
        <5> QED
          BY <2>2, <4>1, <4>2, <5>3 DEF Left
      <4>4. CASE t # events[2]
        <5>1. pending'[t] = pending[t]
          BY <1>1, <1>8, <3>2, <4>4 DEF Skip, ReadFails, ReadTimer, TypeOK
        <5>2. Left(t)' = Left(t)
          BY <2>2, <5>1 DEF Left
        <5>3. EpollFloor(t) = 1 - PERIOD - late
          BY <2>1, <2>4, <3>2, <4>4 DEF EpollFloor
        <5> QED
          BY <1>t, <4>1, <4>2, <5>1, <5>2, <5>3
      <4> QED
        BY <4>3, <4>4
    <3> QED
      BY <1>3, <2>2, <3>3
  <2> QED
    BY <1>f, <2>3, <2>4
<1>9. CASE WakeUp
  <2>1. /\ main = "sleep" /\ nap = 0 /\ main' = "wait"
        /\ UNCHANGED <<due, pending, events, late>>
    BY <1>2, <1>9 DEF WakeUp, First
  <2>2. ASSUME NEW t \in Fds
        PROVE  EpollFloor(t)' = EpollFloor(t) /\ Left(t)' = Left(t)
    BY <1>t, <2>1 DEF EpollFloor, Left
  <2> QED
    BY <1>3, <2>1, <2>2
<1>10. CASE Tick
  <2>1. UNCHANGED <<loop, main, k, events>>
    BY <1>10 DEF Tick
  <2>2. \A t \in Fds : (pending[t] > 0 => pending'[t] > 0) /\ (due'[t] # 0 => due[t] # 0)
    BY <1>1, <1>10, <1>t, TickExists DEF Tick, Many
  <2>3. Blocked' => Blocked
    BY <1>t, <2>1, <2>2 DEF Blocked
  <2>4. main = "read" /\ ~CanRun => k = 2 /\ Blocked
    <3> SUFFICES ASSUME main = "read", ~CanRun PROVE k = 2 /\ Blocked
      OBVIOUS
    <3>1. Target = events[k] /\ events[k] \in Entry /\ events[k] # Silent
      BY <1>1, <1>2, <1>3, <1>f DEF Target, TypeOK
    <3>2. events[k] \in Fds /\ due[events[k]] # 0 /\ events[k] \notin Expired
      BY <3>1 DEF CanRun, Fails, Entry
    <3>3. k = 2
      BY <1>3, <1>f, <3>2
    <3> QED
      BY <1>t, <3>2, <3>3 DEF Blocked, Expired
  <2>5. CanRun => ~(main = "read" /\ k = 2 /\ Blocked)
    BY <1>2, <1>f DEF CanRun, Blocked, Target, Fails, Expired, Nothing, Stray
  <2>6. ASSUME NEW t \in Fds, due[t] # 0
        PROVE  /\ EpollFloor(t)' <= Left(t) - 1
               /\ EpollFloor(t)' \in Int /\ EpollFloor(t)' > - PERIOD - PERIOD
    <3>1. EpollFloor(t) <= Left(t)
      BY <1>3, <2>6
    <3>2. CASE CanRun
      <4>1. late' = late + 1 /\ late' <= LATE /\ nap' = nap /\ nap = 0
        BY <1>1, <1>10, <1>t, <3>2 DEF Tick, CanRun, BootInv
      <4>2. CASE main \in {"boot", "wait", "sleep"}
        BY <1>t, <2>1, <3>1, <4>1, <4>2 DEF EpollFloor
      <4>3. CASE main = "read" /\ k = 1
        <5>1. t \in Expired => t \in Expired'
          BY <2>2 DEF Expired
        <5>2. EpollFloor(t) = IF t = events[1] \/ (t = events[2] /\ t \in Expired)
                              THEN 1 - PERIOD - PAUSE - LATE - late ELSE 1 - late
          BY <4>3 DEF EpollFloor
        <5>3. EpollFloor(t)' = IF t = events[1] \/ (t = events[2] /\ t \in Expired')
                               THEN 1 - PERIOD - PAUSE - LATE - (late + 1) ELSE 1 - (late + 1)
          BY <2>1, <4>1, <4>3 DEF EpollFloor
        <5> QED
          BY <1>t, <3>1, <4>1, <5>1, <5>2, <5>3
      <4>4. CASE main = "read" /\ k = 2
        <5>1. ~Blocked /\ ~Blocked'
          BY <2>3, <2>5, <3>2, <4>4
        <5> QED
          BY <1>t, <2>1, <3>1, <4>1, <4>4, <5>1 DEF EpollFloor
      <4> QED
        BY <1>1, <1>f, <4>2, <4>3, <4>4 DEF TypeOK
    <3>3. CASE main = "sleep" /\ ~CanRun
      <4>1. late' = late /\ nap' = nap - 1 /\ nap >= 1
        BY <1>1, <1>10, <1>t, <3>3 DEF Tick, CanRun
      <4> QED
        BY <1>t, <2>1, <3>1, <3>3, <4>1 DEF EpollFloor
    <3>4. CASE main = "wait" /\ ~CanRun
      <4>1. late' = late /\ pending[t] = 0
        BY <1>1, <1>10, <1>t, <3>4 DEF Tick, CanRun, Expired
      <4>2. Left(t) = due[t] /\ due[t] >= 1
        BY <1>t, <2>6, <4>1 DEF Left
      <4>3. EpollFloor(t)' = 1 - PERIOD - PAUSE - LATE - late
        BY <2>1, <3>4, <4>1 DEF EpollFloor
      <4> QED
        BY <1>t, <4>2, <4>3
    <3>5. CASE main = "read" /\ ~CanRun
      <4>1. k = 2 /\ Blocked /\ late' = late
        BY <1>10, <2>4, <3>5 DEF Tick
      <4>2. EpollFloor(t) = 1 + due[events[2]] - PERIOD - late
        BY <3>5, <4>1 DEF EpollFloor
      <4>3. events[2] \in Fds /\ due[events[2]] \in 1 .. PERIOD /\ pending[events[2]] = 0
        BY <1>t, <4>1 DEF Blocked
      <4>4. /\ due'[events[2]] = IF due[events[2]] = 1 THEN PERIOD ELSE due[events[2]] - 1
            /\ pending'[events[2]] = IF due[events[2]] = 1 THEN 1 ELSE 0
        BY <1>10, <4>3 DEF Tick, Many
      <4>5. CASE due[events[2]] = 1
        <5>1. ~Blocked'
          BY <2>1, <4>4, <4>5 DEF Blocked
        <5>2. EpollFloor(t)' = IF t = events[2] THEN 1 - PERIOD - PAUSE - LATE - late
                               ELSE 1 - PERIOD - late
          BY <2>1, <3>5, <4>1, <5>1 DEF EpollFloor
        <5>3. t = events[2] => Left(t) = 1
          BY <4>3, <4>5 DEF Left
        <5> QED
          BY <1>t, <3>1, <4>2, <4>5, <5>2, <5>3
      <4>6. CASE due[events[2]] # 1
        <5>1. Blocked' /\ due'[events[2]] = due[events[2]] - 1
          BY <2>1, <4>3, <4>4, <4>6 DEF Blocked
        <5>2. EpollFloor(t)' = 1 + (due[events[2]] - 1) - PERIOD - late
          BY <2>1, <3>5, <4>1, <5>1 DEF EpollFloor
        <5> QED
          BY <1>t, <3>1, <4>2, <4>3, <5>2
      <4> QED
        BY <4>5, <4>6
    <3> QED
      BY <1>1, <3>2, <3>3, <3>4, <3>5 DEF TypeOK, CanRun
  <2>7. ASSUME NEW t \in Fds, due'[t] # 0
        PROVE  pending'[t] <= 2 /\ EpollFloor(t)' <= Left(t)'
    <3>1. due[t] # 0 /\ pending[t] <= 2
      BY <1>3, <2>2, <2>7
    <3>2. Left(t) - 1 > - PERIOD - PERIOD
      BY <1>t, <2>6, <3>1
    <3> QED
      BY <1>1, <1>10, <2>6, <3>1, <3>2, TickBack
  <2> QED
    BY <1>3, <2>1, <2>2, <2>7 DEF Expired
<1>11. CASE UNCHANGED vars
  <2>1. UNCHANGED <<main, k, due, pending, events, nap, late>>
    BY <1>11 DEF vars
  <2>2. Expired' = Expired
    BY <2>1 DEF Expired
  <2>3. ASSUME NEW t \in Fds
        PROVE  EpollFloor(t)' = EpollFloor(t) /\ Left(t)' = Left(t)
    BY <2>1, <2>2 DEF EpollFloor, Left, Blocked
  <2> QED
    BY <1>3, <2>1, <2>2, <2>3
<1> QED
  BY <1>5, <1>6, <1>7, <1>8, <1>9, <1>10, <1>11 DEF Next, Main

-----------------------------------------------------------------------------
LEMMA NextInv == IInv /\ [Next]_vars => IInv'
  BY TypeStep, PollStep, ReadStep DEF IInv

LEMMA InvCorrect == Spec => []IInv
  BY InitInv, NextInv, PTL DEF Spec

(* Type correctness of the three loops, for any number of timers and any   *)
(* periods (components2_main.c:72-178).                                    *)
THEOREM TimerTypeOK == Spec => []TypeOK
<1>1. IInv => TypeOK
  BY DEF IInv
<1> QED
  BY <1>1, InvCorrect, PTL

(* No expiry is merged with another in the loops that read and poll        *)
(* (components2_main.c:132-150, :167-174).                                 *)
THEOREM TimerKeepsUp == Spec => []KeepsUp
<1>1. IInv => KeepsUp
  <2> SUFFICES ASSUME IInv, loop \in {"read", "poll"}, NEW t \in Fds
               PROVE  pending[t] <= 1
    BY DEF KeepsUp
  <2>1. CASE due[t] = 0
    BY <2>1 DEF IInv, BootInv
  <2>2. CASE due[t] # 0
    BY <2>2 DEF IInv, PollInv, ReadInv
  <2> QED
    BY <2>1, <2>2
<1> QED
  BY <1>1, InvCorrect, PTL

(* The poll build never waits in read() (components2_main.c:138-149).      *)
THEOREM TimerPollNeverBlocks == Spec => []PollNeverBlocks
<1>1. IInv => PollNeverBlocks
  <2> SUFFICES ASSUME IInv, loop = "poll", main = "read"
               PROVE  Target \in Expired \cup {Nothing}
    BY DEF PollNeverBlocks
  <2>1. Target = IF k \in ready THEN k ELSE Nothing
    BY DEF Target
  <2>2. k \in Fds /\ k >= k
    BY DEF IInv, TypeOK, Fds
  <2>3. k \in ready => pending[k] > 0
    BY <2>2 DEF IInv, PollInv
  <2> QED
    BY <2>1, <2>2, <2>3 DEF Expired
<1> QED
  BY <1>1, InvCorrect, PTL

(* The poll build comes to an expiry within a sleep and the time that two  *)
(* passes may lose (components2_main.c:135-150).                           *)
THEOREM TimerPollResponds == Spec => []PollResponds
<1>1. IInv => PollResponds
  <2> SUFFICES ASSUME IInv, loop = "poll", NEW t \in Expired
               PROVE  Age(t) < PAUSE + 2 * LATE
    BY DEF PollResponds
  <2>1. /\ t \in Fds /\ pending[t] > 0 /\ pending[t] \in Nat /\ due[t] \in 0 .. PERIOD
        /\ late \in 0 .. LATE /\ nap \in 0 .. PAUSE
    BY DEF IInv, TypeOK, Expired
  <2>2. PollFloor(t) <= Left(t) /\ pending[t] <= 1
    BY <2>1 DEF IInv, PollInv, BootInv
  <2>3. Age(t) = - Left(t) /\ Left(t) \in Int
    BY <2>1, <2>2, AgeLeft DEF IInv
  <2>4. PollFloor(t) \in Int /\ PollFloor(t) > - PAUSE - LATE - LATE
    BY Timing, <2>1 DEF IInv, TypeOK, PollFloor
  <2> QED
    BY Timing, <2>2, <2>3, <2>4
<1> QED
  BY <1>1, InvCorrect, PTL

(* The read build, while it is awake, comes to every expiry within the     *)
(* time that one pass may lose (components2_main.c:167-174).               *)
THEOREM TimerReadResponds == Spec => []ReadResponds
<1>1. IInv => ReadResponds
  <2> SUFFICES ASSUME IInv, loop = "read", main = "read", NEW t \in Expired
               PROVE  Age(t) <= LATE
    BY DEF ReadResponds
  <2>1. /\ t \in Fds /\ pending[t] > 0 /\ pending[t] \in Nat /\ due[t] \in 0 .. PERIOD
        /\ late \in 0 .. LATE /\ t \in Nat /\ k \in Nat
    BY DEF IInv, TypeOK, Expired, Fds
  <2>2. due[t] # 0 /\ ReadFloor(t) <= Phase(t) /\ pending[t] <= 1
    BY <2>1 DEF IInv, ReadInv, BootInv
  <2>3. Age(t) = - Left(t) /\ Left(t) \in Int
    BY <2>1, <2>2, AgeLeft DEF IInv
  <2>4. Left(t) = due[t] - PERIOD
    BY <2>1, <2>2 DEF Left
  <2>5. CASE t >= k
    BY Timing, <2>1, <2>2, <2>3, <2>5 DEF ReadFloor, Phase, Done
  <2>6. CASE t < k
    BY Timing, <2>1, <2>2, <2>3, <2>4, <2>6 DEF ReadFloor, Phase, Done
  <2> QED
    BY <2>1, <2>5, <2>6
<1> QED
  BY <1>1, InvCorrect, PTL

(* The epoll build with the two timers of the code falls behind by less    *)
(* than a sleep, a period and what two passes may lose, unless memory that *)
(* nobody wrote names a descriptor that never has anything to read         *)
(* (components2_main.c:152-165).                                           *)
THEOREM TimerEpollResponds ==
  ASSUME MAXFDS = 2, Silent \notin Garbage
  PROVE  Spec => []EpollResponds
<1>1. Init => EpollInv
  <2> SUFFICES ASSUME Init PROVE EpollInv
    OBVIOUS
  <2>1. \A n \in Fds : events[n] \in Garbage /\ due[n] = 0
    BY DEF Init
  <2> QED
    BY <2>1 DEF Init, EpollInv
<1>2. IInv /\ EpollInv => EpollResponds
  <2> SUFFICES ASSUME IInv, EpollInv, loop = "epoll", NEW t \in Expired
               PROVE  Age(t) < PERIOD + PAUSE + 2 * LATE
    BY DEF EpollResponds
  <2>1. /\ t \in Fds /\ pending[t] > 0 /\ pending[t] \in Nat /\ due[t] \in 0 .. PERIOD
        /\ late \in 0 .. LATE /\ nap \in 0 .. PAUSE /\ k \in {1, 2}
        /\ main \in {"boot", "wait", "read", "sleep"}
    BY DEF IInv, TypeOK, Expired, Fds
  <2>2. EpollFloor(t) <= Left(t) /\ pending[t] <= 2
    BY <2>1 DEF IInv, EpollInv, BootInv
  <2>3. Age(t) = - Left(t) /\ Left(t) \in Int
    BY <2>1, <2>2, AgeLeft DEF IInv
  <2>4. Blocked => due[events[2]] \in 1 .. PERIOD
    BY Timing DEF Blocked, IInv, TypeOK
  <2>5. EpollFloor(t) \in Int /\ EpollFloor(t) > - PERIOD - PAUSE - LATE - LATE
    BY Timing, <2>1, <2>4 DEF EpollFloor
  <2> QED
    BY Timing, <2>2, <2>3, <2>5
<1>3. IInv /\ EpollInv /\ [Next]_vars => EpollInv'
  BY EpollStep
<1> QED
  BY <1>1, <1>2, <1>3, InvCorrect, PTL DEF Spec

=============================================================================
