\* The three loops: a period of 2 s, a sleep of 1 s, a quarter of a second lost.
SPECIFICATION FairSpec
CONSTANTS
  MAXFDS = 2
  PERIOD = 8
  PAUSE = 4
  LATE = 1
  Garbage <- MCGarbage
INVARIANTS
  TypeOK
  KeepsUp
  PollNeverBlocks
  PollResponds
  ReadResponds
  EpollResponds
PROPERTIES
  EveryExpiryRead
