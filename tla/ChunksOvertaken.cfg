CONSTANTS
  Threads = {t1, t2}
  Chunks = {c1}
  None = None
  MaxDepth = 1
SPECIFICATION Spec
INVARIANTS CopyTargetLive
