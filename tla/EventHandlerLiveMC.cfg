SPECIFICATION FairSpec
CONSTANTS
  Fds = {f1, f2, f3}
  MaxTime = 2
  Ms = 2
  wait_time_ = 1
  kEventSize = 2
  Disciplined = TRUE
INVARIANTS
  EntriesOwned
  RightCallback
  RegisteredIsWatched
PROPERTIES
  EventServed
  SocketServed
