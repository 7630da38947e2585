SPECIFICATION Spec
CONSTANTS
  Keycodes <- Board
  Layout <- Keysyms
  KeycodeOf <- KeyNames
  Unprintable = {127, 160, 173}
  Nodes = {1, 2, 3, 4, 5, 6}
  EditableRoles = {2}
  Texts <- Capital
  PasteModes = {"auto", "shift_insert"}
  MaxCalls = 1
  Windows = {editor, terminal}
  Terminals = {terminal}
  NoWindow = NoWindow
  Injectors <- LinuxOnly
  Trees <- SampleTrees
  Possible = {}
  MaxTrouble = 0
INVARIANT
  TypableIsTyped
CHECK_DEADLOCK FALSE
