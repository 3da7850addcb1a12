\* One request of any kind.
SPECIFICATION Spec
CONSTANTS
  Forms <- SmallForms
INVARIANTS
  
  GatesAgree
  LogsTellWhatHappened
PROPERTIES
  RequestsAreAnswered
CHECK_DEADLOCK FALSE
