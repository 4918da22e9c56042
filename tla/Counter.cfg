\* Every build, with threads that may fail to start.
SPECIFICATION FairSpec
CONSTANTS
  THREADS = 3
  GOAL = 3
INVARIANTS
  TypeOK
  NoLostUpdate
  DoneMeansAll
  NoLostWakeup
PROPERTIES
  ImplementsCounter
  Terminates
