SPECIFICATION MCSpec
CONSTANTS
  Reader = {r1, r2}
  Serial = {s1, s2}
  NoYubiKey = NoYubiKey
  AnySerial = AnySerial
  MaxChanges = 1
  WidthLists <- Lists
  CommonNames <- Leaves
  Organizations <- Firms
  NamePrefixes <- NamePrefixValues
  Itoa <- Decimal
  LowerCase <- Lower
  Unslugged <- Dropped
  MaxCommands = 3
  MaxEdits = 1
INVARIANT TypeOK
INVARIANT CardReleased
INVARIANT RightCard
INVARIANT OpenRefusedForCause
INVARIANT CertsFollowOptions
INVARIANT OptionsCheckedFirst
INVARIANT RefusedHarmless
INVARIANT NothingIgnored
INVARIANT ChainFilesUnique
INVARIANT ChainDepths
INVARIANT ChainRefusedForCause
PROPERTY EditsKept
PROPERTY RepeatReuses
\* The bounds on commands, edits and changes stop the model.
CHECK_DEADLOCK FALSE
