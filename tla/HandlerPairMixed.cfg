CONSTANTS
  EffectCalls <- MixedEffectCalls
  HostCalls <- MixedHostCalls
  Data = {d1}
  None = None
  MaxDepth = 3
SPECIFICATION Spec
INVARIANT PointerMapped
