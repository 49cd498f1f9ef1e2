CONSTANTS
  main = main
  t1 = t1
  t2 = t2
  Threads <- AllThreads
  Main = main
  FirstCallsOverlap = FALSE
  Faults = TRUE
SPECIFICATION FairSpec
INVARIANTS TypeOK Paired NothingLeftBehind NoExceptions
PROPERTIES ClientsArrive ServerEnds
