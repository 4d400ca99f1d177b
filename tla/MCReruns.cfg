SPECIFICATION MCSpec
CONSTANTS
  Makes = {"cat", "note"}
  Secret = {"note"}
  Jobs = {"j1", "j2"}
  Edits = 2
CHECK_DEADLOCK FALSE
INVARIANTS
  RerunsHashAlike
