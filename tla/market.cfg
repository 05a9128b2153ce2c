SPECIFICATION MarketSpec
CONSTANTS
  Calls = {c1, c2}
  Callers = {c1, c2}
  MaxSource = 2
  None = None
  NoOne = NoOne
  MaxContent = 2
  Envs = {e1, e2}
  Window = 4
  Margin = 1
  Lease = 2
  Budget = 1
  MaxTime = 4
  MaxFaults = 1
  Files = {f1, f2}
  MaxEdits = 1
  MaxStarts = 2
  s1 = s1
  s2 = s2
  x1 = x1
  x2 = x2
  NewName = NewName
  Mcps = {m1, m2}
  McpNames = {n1, n2}
  Official = {n1}
  Old = {m1}
  MaxIcons = 2
  MaxErrors = 1
  Nothing = None
  Safe = {a1}
  Unsafe = {a2}
  MaxHops = 1
  MaxEvents = 3
  Entries = {1, 2, 3, 4}
  PageTime = 3
  MaxLimit = 2
  MaxChanges = 2
  LastPage = LastPage
  Skills = {b1}
  Experts = {b2}
  Teams = {b3}
  MaxVersion = 2
  MaxSaves = 1
SYMMETRY Symmetric
CONSTRAINT FirstCallAtZero
INVARIANTS
    DefinitionFaithful     IndexSound
PROPERTIES HistoryKept
CHECK_DEADLOCK FALSE
