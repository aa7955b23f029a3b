SPECIFICATION Spec
CONSTANTS
  Names = {"a", "b"}
  Lods = {"lod0", "lod1"}
  Runners = {"r1", "r2"}
  Plans <- MCPlans
  Floor <- MCFloor
  Guard = 4
  Cost = 1
  MaxStarts = 3
  MaxFaults = 2
INVARIANTS
  DiskIsTold
PROPERTIES
  SpendsOnce
  PassesEnd
CHECK_DEADLOCK FALSE
