----------------------------- MODULE MCSemNotify -----------------------------
(* The builds of components4, with a semaphore that fills up soon. *)
EXTENDS SemNotify

=============================================================================
