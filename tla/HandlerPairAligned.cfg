CONSTANTS
  EffectCalls <- AlignedEffectCalls
  HostCalls <- AlignedHostCalls
  Data = {d1, d2}
  None = None
  MaxDepth = 3
  Strings <- NoStrings
  Chunks <- LargestChunk
  EventLists <- SomeEvents
SPECIFICATION Spec
SYMMETRY Symmetry
INVARIANTS TypeOK PairInv ArgumentsIntact OutputsIntact FitsRegion PointerMapped
PROPERTY ImplementsNestedCalls
