CONSTANTS
  EffectCalls <- StringEffectCalls
  HostCalls <- StringHostCalls
  Data = {d1}
  None = None
  MaxDepth = 3
  MaxUnwinds = 1
SPECIFICATION FairUnwindSpec
INVARIANTS RequestsMeet ArgumentsIntact OutputsIntact
PROPERTIES CallsComplete ServerFollows
