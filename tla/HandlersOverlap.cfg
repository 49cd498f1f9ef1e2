CONSTANTS
  main = main
  t1 = t1
  t2 = t2
  Threads <- AllThreads
  Main = main
  FirstCallsOverlap = TRUE
  Faults = FALSE
SPECIFICATION Spec
INVARIANT PrimaryExclusive
