SPECIFICATION FairSpec
CONSTANTS
  Keycodes <- Board
  Layout <- Keysyms
  KeycodeOf <- KeyNames
  Unprintable = {127, 160, 173}
  Nodes = {1, 2, 3, 4, 5, 6}
  EditableRoles = {2}
  Texts <- SampleTexts
  PasteModes = {"auto", "shift_insert"}
  MaxCalls = 2
  Windows = {editor, terminal}
  Terminals = {terminal}
  NoWindow = NoWindow
  Injectors <- AllInjectors
  Trees <- SampleTrees
  Possible = {"focus", "foreign", "late", "key", "atspi", "sendinput"}
  MaxTrouble = 2
INVARIANT
  TypeOK
  KeysReleased
  TypedOnce
  PasteIsCurrent
  StaysInWindow
PROPERTY
  EveryCallEnds
CHECK_DEADLOCK FALSE
