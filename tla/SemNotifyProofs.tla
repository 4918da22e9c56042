---------------------------- MODULE SemNotifyProofs ----------------------------
(***************************************************************************)
(* What holds of components4_main.c whatever the capacity of a semaphore.  *)
(***************************************************************************)
EXTENDS SemNotify, TLAPS

LEMMA InitType == Init => TypeOK
  BY SemAssumption DEF Init, TypeOK, Builds

LEMMA TypeStep == TypeOK /\ [Next]_vars => TypeOK'
<1> SUFFICES ASSUME TypeOK, [Next]_vars PROVE TypeOK'
  OBVIOUS
<1> USE SemAssumption
<1>1. CASE CreateThread
  BY <1>1 DEF TypeOK, CreateThread
<1>2. CASE CreateTimer
  BY <1>2 DEF TypeOK, CreateTimer
<1>3. CASE SemWait
  BY <1>3 DEF TypeOK, SemWait
<1>4. CASE Report \/ Interrupted
  BY <1>4 DEF TypeOK, Report, Interrupted
<1>5. CASE ThreadWakes
  BY <1>5 DEF TypeOK, ThreadWakes
<1>6. CASE ThreadPosts
  BY <1>6 DEF TypeOK, ThreadPosts, SemPost
<1>7. CASE ExpireCallback
  BY <1>7 DEF TypeOK, ExpireCallback
<1>8. CASE ExpireSignal
  BY <1>8 DEF TypeOK, ExpireSignal
<1>9. CASE Callback
  BY <1>9 DEF TypeOK, Callback, SemPost
<1>10. CASE UNCHANGED vars
  BY <1>10 DEF TypeOK, vars
<1> QED
  BY <1>1, <1>2, <1>3, <1>4, <1>5, <1>6, <1>7, <1>8, <1>9, <1>10 DEF Next, Main

(* Type correctness for every capacity, and main never waits while there   *)
(* is a post (components4_main.c:48-65, :112-126).                         *)
THEOREM SemTypeOK == Spec => []TypeOK
  BY InitType, TypeStep, PTL DEF Spec

-----------------------------------------------------------------------------
(* sem_post adds one to what main has to report, or finds it full.         *)
LEMMA PostOwed ==
  ASSUME TypeOK, SemPost
  PROVE  owed' = owed + 1 \/ (owed >= SEM_VALUE_MAX /\ owed' = owed)
<1> USE SemAssumption
<1>1. CASE main = "waits"
  BY <1>1 DEF TypeOK, SemPost, owed
<1>2. CASE main # "waits"
  <2>1. main' = main /\ g_sem' = IF g_sem < SEM_VALUE_MAX THEN g_sem + 1 ELSE g_sem
    BY <1>2 DEF SemPost
  <2>2. g_sem \in 0 .. SEM_VALUE_MAX
    BY DEF TypeOK
  <2>3. CASE main = "granted"
    BY <2>1, <2>2, <2>3 DEF owed
  <2>4. CASE main # "granted"
    BY <2>1, <2>2, <2>4 DEF owed
  <2> QED
    BY <2>3, <2>4
<1> QED
  BY <1>1, <1>2

LEMMA StepImplements == TypeOK /\ [Next]_vars => [Promise!Next]_<<posting, owed>>
<1> SUFFICES ASSUME TypeOK, [Next]_vars
             PROVE  Promise!Next \/ UNCHANGED <<posting, owed>>
  OBVIOUS
<1> USE SemAssumption
<1>1. CASE CreateThread
  BY <1>1 DEF TypeOK, CreateThread, posting, owed
<1>2. CASE CreateTimer
  BY <1>2 DEF CreateTimer, posting, owed
<1>3. CASE SemWait
  BY <1>3 DEF TypeOK, SemWait, posting, owed
<1>4. CASE Report
  <2>1. owed' = owed - 1 /\ owed > 0 /\ UNCHANGED posting
    BY <1>4 DEF TypeOK, Report, posting, owed
  <2> QED
    BY <2>1 DEF Promise!Next, Promise!Report
<1>5. CASE Interrupted
  BY <1>5 DEF Interrupted, posting, owed
<1>6. CASE ThreadWakes
  <2>1. "thread" \notin posting /\ posting' = posting \cup {"thread"} /\ UNCHANGED owed
    BY <1>6 DEF ThreadWakes, posting, owed
  <2> QED
    BY <2>1 DEF Promise!Next, Promise!Begin
<1>7. CASE ThreadPosts
  <2>1. "thread" \in posting /\ posting' = posting \ {"thread"}
    BY <1>7 DEF ThreadPosts, posting
  <2>2. owed' = owed + 1 \/ (owed >= SEM_VALUE_MAX /\ owed' = owed)
    BY <1>7, PostOwed DEF ThreadPosts
  <2> QED
    BY <2>1, <2>2 DEF Promise!Next, Promise!Post
<1>8. CASE ExpireCallback
  <2>1. /\ UNCHANGED owed /\ posting' = posting \cup {"callback"}
        /\ callback = "queued" => UNCHANGED posting
        /\ callback = "idle" => "callback" \notin posting
    BY <1>8 DEF TypeOK, ExpireCallback, posting, owed
  <2> QED
    BY <2>1 DEF Promise!Next, Promise!Begin
<1>9. CASE ExpireSignal
  BY <1>9 DEF ExpireSignal, posting, owed
<1>10. CASE Callback
  <2>1. "callback" \in posting /\ posting' = posting \ {"callback"}
    BY <1>10 DEF Callback, posting
  <2>2. owed' = owed + 1 \/ (owed >= SEM_VALUE_MAX /\ owed' = owed)
    BY <1>10, PostOwed DEF Callback
  <2> QED
    BY <2>1, <2>2 DEF Promise!Next, Promise!Post
<1>11. CASE UNCHANGED vars
  BY <1>11 DEF vars, posting, owed
<1> QED
  BY <1>1, <1>2, <1>3, <1>4, <1>5, <1>6, <1>7, <1>8, <1>9, <1>10, <1>11 DEF Next, Main

(* Each post is reported once and nothing else is, whatever the capacity   *)
(* of the semaphore (components4_main.c:48-65, :112-126).                  *)
THEOREM SemImplementsNotices == Spec => ImplementsNotices
<1>1. Init => Promise!Init
  BY DEF Init, Promise!Init, posting, owed
<1> QED
  BY <1>1, SemTypeOK, StepImplements, PTL DEF Spec, ImplementsNotices, Promise!Spec

=============================================================================
