CONSTANTS
  Client = {c1, c2}
  First = {c1}
  MaxFd = 2
  MaxOpen = 2
  FileName = {f1}
  Gens = 2
  None = None
SPECIFICATION Spec
INVARIANTS
  DescriptorsStable
  RefusesOnlyTheDead
  MaxOpenOnlyWhenFull
PROPERTY
  TakenIsAnswered
CHECK_DEADLOCK FALSE
