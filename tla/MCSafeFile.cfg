CONSTANTS
  w1 = w1
  w2 = w2
  r1 = r1
  Writers <- MCWriters
  PrivateWriters <- MCPrivate
  Readers = {r1}
  Len = 2
  Path = Path
  Old = Old
  Target = Target
  Absent = Absent
  Dir = Dir
  Link = Link
SPECIFICATION Spec
INVARIANTS
  TypeOK
  ReadsAreWhole
  PrivateStaysPrivate
  LinkTargetKept
  TempsAccountedFor
PROPERTY ImplementsAtomicFile
