\* The epoll loop reads an entry that epoll_wait left over.
SPECIFICATION Spec
CONSTANTS
  MAXFDS = 2
  PERIOD = 8
  PAUSE = 4
  LATE = 1
  Garbage <- CleanGarbage
INVARIANTS
  EpollNeverBlocks
