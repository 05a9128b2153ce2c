SPECIFICATION StoreSpec
CONSTANTS
  Skills = {w1}
  Experts = {y1}
  Teams = {z1}
  MaxLabel = 2
  MaxMoves = 6
  None = None
  Calls = {c1, c2}
  Callers = {c1, c2}
  Late = c3
  MaxRuns = 2
  OldSkills = {k1, k2}
  Tasks = {t1, t2}
  Names = {n1, n2}
  Seed = Seed
  MaxFaults = 1
  Squads = {x1}
  MaxPuts = 2
  Bad = Bad
  Nothing = None
  ShelfSkills = {1}
  ShelfExperts = {2}
  Scenes = {d, s1}
  Default = d
  Categories = {g1}
  MaxOps = 3
SYMMETRY Symmetric
CONSTRAINT FewDropped
INVARIANTS
   GraphsWhole  ExpertsSound 
PROPERTIES HistoryKept NothingUndone
CHECK_DEADLOCK FALSE
