\* A thread, a callback and a signal, and a semaphore that holds three posts.
\* The build with neither waits for ever.
SPECIFICATION FairSpec
CHECK_DEADLOCK FALSE
CONSTANTS
  SEM_VALUE_MAX = 3
INVARIANTS
  TypeOK
PROPERTIES
  ImplementsNotices
  KeepsNotifying
