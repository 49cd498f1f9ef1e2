CONSTANTS
  main = main
  t1 = t1
  t2 = t2
  Threads <- AllThreads
  Main = main
  FirstCallsOverlap = FALSE
  Faults = FALSE
SPECIFICATION Spec
INVARIANT HandlersClosedFirst
