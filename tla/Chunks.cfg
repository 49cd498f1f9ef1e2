CONSTANTS
  Threads = {t1, t2}
  Chunks = {c1, c2, c3}
  None = None
  MaxDepth = 3
SPECIFICATION Spec
SYMMETRY Symmetry
INVARIANTS TypeOK VectorExclusive NothingLeaks
PROPERTY KeptUntilCopied
