SPECIFICATION MCSpec
CONSTANTS
  Reader = {r1, r2}
  Serial = {s1, s2}
  NoYubiKey = NoYubiKey
  AnySerial = AnySerial
  MaxChanges = 1
  WidthLists <- Lists
  CommonNames <- Leaves
  Organizations <- Firms
  NamePrefixes <- NamePrefixValues
  Itoa <- Decimal
  LowerCase <- Lower
  Unslugged <- Dropped
  MaxCommands = 1
  MaxEdits = 1
\* The bounds on commands, edits and changes stop the model.
INVARIANT NoFlagIgnored
CHECK_DEADLOCK FALSE
