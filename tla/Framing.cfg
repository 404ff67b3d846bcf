SPECIFICATION Spec
CONSTANTS
  Requests = {hover}
  Notifications = {didSave}
  Shutdown = shutdown
  Exit = exit
  Garbage = garbage
  EOL = EOL
  OtherField = OtherField
  BadLength = BadLength
  Shapes = {"plain", "blankBefore", "blankAfter", "otherField", "lengthTwice", "badLength", "tooShort", "tooLong", "tooLarge", "empty"}
  BodySize = 2
  MaxFrame = 3
  MaxFrames = 2
  Running = Running
  NoLength = NoLength
INVARIANTS
  ServedAsSent
PROPERTY
  AllServed
