SPECIFICATION Spec
CONSTANTS
  N = 3
  Limit = 1
  Modes = {TRUE}
  Interrupts = {"timeout", "cancel"}
  MayRaise = FALSE
PROPERTIES
  NoCallAfterReturn
