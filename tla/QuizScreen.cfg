SPECIFICATION Spec
CONSTANTS
  Questions = {q1, q2, q3}
  Positions = {1, 2}
  None = None
  MaxPosts = 2
SYMMETRY Symmetry
INVARIANTS
  AnswersAreMeant
  OneVerdictPerShowing
