SPECIFICATION Spec
CONSTANTS
  Processes = {p1, p2}
  AaGuids = {g1}
  Lookups = {l1, l2}
  MemoryInterval = 2
  BufferPeriod = 1
  DistributedInterval = 3
  MaxTime = 4
  MaxNumber = 2
  None = None
SYMMETRY Symmetry
INVARIANTS
  MemoryIsCurrent
  MemoryIsOfThisHour
  AnswersAreCurrent
PROPERTIES
  DistributedFallsOnlyWhenOvertaken
