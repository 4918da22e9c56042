------------------------------ MODULE RemoteLamp ------------------------------
(***************************************************************************)
(* What the host may rely on: every node is a lamp with a queue of letters *)
(* of its own.  A letter asks for one of a set of states of this lamp (one *)
(* state, unless the sender did not say which) or, when the set is empty,  *)
(* is none of its business; a letter asks at most one lamp.  Letters may   *)
(* be lost when they arrive but are read in order, and nothing else moves  *)
(* the lamp, which stays as it is once the node is dead.  There are no     *)
(* identifiers, back ends, threads or frames here.                         *)
(***************************************************************************)
EXTENDS Integers, Sequences

CONSTANTS Nodes, States

VARIABLES lamp, letters, alive

lampvars == <<lamp, letters, alive>>

Init ==
  /\ lamp \in [Nodes -> States]
  /\ letters = [n \in Nodes |-> <<>>]
  /\ alive = [n \in Nodes |-> TRUE]

Letter == SUBSET States

(* One frame on the bus: each node of S gets a letter at the end of its    *)
(* queue.                                                                  *)
Arrive(S) ==
  LET new(n) == letters'[n][Len(letters[n]) + 1]
  IN  /\ \A n \in S : Len(letters'[n]) = Len(letters[n]) + 1 /\ new(n) \in Letter
      /\ \A m, n \in S : new(m) # {} /\ new(n) # {} => m = n
      /\ letters' = [n \in Nodes |-> IF n \in S THEN Append(letters[n], new(n))
                                                ELSE letters[n]]
      /\ UNCHANGED <<lamp, alive>>

(* A request may fail to move the lamp. *)
Read(n) ==
  /\ alive[n]
  /\ letters[n] # <<>>
  /\ \/ \E s \in Head(letters[n]) : lamp' = [lamp EXCEPT ![n] = s]
     \/ UNCHANGED lamp
  /\ letters' = [letters EXCEPT ![n] = Tail(@)]
  /\ UNCHANGED alive

Die(n) ==
  /\ alive' = [alive EXCEPT ![n] = FALSE]
  /\ UNCHANGED <<lamp, letters>>

Next ==
  \/ \E S \in SUBSET Nodes : Arrive(S)
  \/ \E n \in Nodes : Read(n) \/ Die(n)

Spec == Init /\ [][Next]_lampvars

=============================================================================
