----------------------------- MODULE MCTimerWait -----------------------------
(* Two timers, as in the code, in quarters of a second. *)
EXTENDS TimerWait

(* An entry that is not POLLIN, names a timer, or makes the read fail. *)
MCGarbage == {Nothing, Stray, 2}

(* Memory that reads as "no event", so only old entries are at work. *)
CleanGarbage == {Nothing}

=============================================================================
