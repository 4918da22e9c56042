----------------------------- MODULE SharedCounter -----------------------------
(***************************************************************************)
(* What mini_components3 promises of its shared counter: it counts every   *)
(* thread once, in single steps, and main finishes only after the last.    *)
(***************************************************************************)
EXTENDS Naturals

CONSTANT Goal

VARIABLES count, finished

counterVars == <<count, finished>>

Init == count = 0 /\ finished = FALSE

Increment ==
  /\ count < Goal
  /\ count' = count + 1
  /\ UNCHANGED finished

Finish ==
  /\ count = Goal
  /\ finished' = TRUE
  /\ UNCHANGED count

Next == Increment \/ Finish

Spec == Init /\ [][Next]_counterVars

=============================================================================
