-------------------------------- MODULE Notices --------------------------------
(***************************************************************************)
(* What apps/mini_components4 promises: main reports each post of the      *)
(* semaphore once, and reports nothing else.  A post is lost only when     *)
(* CAPACITY of them wait to be reported.                                   *)
(***************************************************************************)
EXTENDS Naturals

CONSTANTS Posters, CAPACITY

VARIABLES
  posting,    \* who has a post to make
  owed        \* posts that main has not reported

Init == posting = {} /\ owed = 0

Begin(p) ==
  /\ p \notin posting
  /\ posting' = posting \cup {p}
  /\ UNCHANGED owed

Post(p) ==
  /\ p \in posting
  /\ posting' = posting \ {p}
  /\ owed' = owed + 1 \/ (owed >= CAPACITY /\ owed' = owed)

Report ==
  /\ owed > 0
  /\ owed' = owed - 1
  /\ UNCHANGED posting

Next == (\E p \in Posters : Begin(p) \/ Post(p)) \/ Report

Spec == Init /\ [][Next]_<<posting, owed>>

=============================================================================
