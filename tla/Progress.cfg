\* What must happen in the end.
CONSTANT
  NoRequest = NoRequest
SPECIFICATION Spec
\* the calls have been made
CHECK_DEADLOCK FALSE
PROPERTIES
  Responsive
  DestroyEnds
