CONSTANTS
  Strings = {3}
  Chunks = {24}
  EventLists = {}
  Bodies <- OneBody
  Results = {Null, r1}
  Null = Null
  None = None
  Used <- EachKind
  Unknown <- OutsideTheTables
  MaxDepth = 2
SPECIFICATION Spec
INVARIANTS TypeOK CalleeUnderstands ReadsMeetWrites
PROPERTY ImplementsNestedCalls
