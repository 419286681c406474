SPECIFICATION Spec
CONSTANTS
  c1 = c1  c2 = c2  c3 = c3  c4 = c4
  Null = Null
  Contexts <- MCContexts
  Launchers = {l1}
  DefaultSlotSize = 1
  HandleCount = 4
  Harbors <- MCHarbors
  Names = {1, 2}
SYMMETRY Interchangeable
INVARIANTS Findable SweepComplete NameFound
PROPERTY RetiredUnnamed
