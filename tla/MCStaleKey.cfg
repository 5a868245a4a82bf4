CONSTANTS
  root = root
  sub = sub
  leaf = leaf
  r1 = r1
  p1 = p1
  p2 = p2
  example = example
  other = other
  Nodes <- MCNodes
  Basenames <- MCNodes
  Domains = {example}
  TopLevel = TopLevel
  Procs = {p1}
  Specs <- FormSpecs
  Options <- FormOptions
  Recipients = {r1}
  Plain = Plain
  Absent = Absent
  NoPair = NoPair
  IssuerNotAfter = 5
  IssuerPathLen <- noLimit
  IssuerPermitted = {}
  MaxRuns = 2
  MaxNow = 0
  MaxEdits = 0
SPECIFICATION Spec
CHECK_DEADLOCK FALSE
INVARIANTS
  NoStaleKey
