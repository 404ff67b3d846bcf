SPECIFICATION Spec
CONSTANTS
  NL = "nl"
  Letters = {"a", "b"}
  MaxText = 4
INVARIANTS
  EditTouchesItsRange
  ConversionsInverse
