CONSTANTS
  root = root
  sub = sub
  leaf = leaf
  r1 = r1
  p1 = p1
  p2 = p2
  example = example
  other = other
  Nodes <- MCNodes
  Basenames <- MCNodes
  Domains = {example}
  TopLevel = TopLevel
  Procs = {p1}
  Specs <- FaultSpecs
  Options <- FaultOptions
  Recipients = {r1}
  Plain = Plain
  Absent = Absent
  NoPair = NoPair
  IssuerNotAfter = 5
  IssuerPathLen <- noLimit
  IssuerPermitted = {}
  MaxRuns = 3
  MaxNow = 1
  MaxEdits = 0
SPECIFICATION FairSpec
CHECK_DEADLOCK FALSE
INVARIANTS
  TypeOK
  DoneConsistent
  KeyOneForm
  NoPlaintextLeft
  OverwriteNeverBlocked
  RerunReuses
PROPERTIES
  RunEnds
  ExistingKept
