CONSTANTS
  Tids = {i1, i2, i3}
  MaxHandlers = 4
  MaxNested = 2
SPECIFICATION Spec
SYMMETRY Symmetry
INVARIANTS TypeOK CallbacksRouted ChangesAlone
