--------------------------- MODULE MCCounterThreads ---------------------------
(* The three threads of the source, in every build.                          *)
EXTENDS CounterThreads, TLC

=============================================================================
