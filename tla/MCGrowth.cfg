CONSTANTS
  root = root
  sub = sub
  leaf = leaf
  r1 = r1
  p1 = p1
  p2 = p2
  example = example
  other = other
  Nodes <- MCNodes
  Basenames <- MCNodes
  Domains = {example, other}
  TopLevel = TopLevel
  Procs = {p1}
  Specs <- GrowthSpecs
  Options <- GrowthOptions
  Recipients = {r1}
  Plain = Plain
  Absent = Absent
  NoPair = NoPair
  IssuerNotAfter = 0
  IssuerPathLen = 1
  IssuerPermitted = {example}
  MaxRuns = 3
  MaxNow = 1
  MaxEdits = 1
SPECIFICATION Spec
CHECK_DEADLOCK FALSE
INVARIANTS
  HierarchyFitsSpec
