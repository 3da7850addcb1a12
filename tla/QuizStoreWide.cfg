\* Two users, a question of u1, a default question the tables do not hold and
\* an id a creation may get.
SPECIFICATION Spec
CONSTANTS
  c1 = c1  c2 = c2  c3 = c3
  u1 = u1  u2 = u2
  q1 = q1  q2 = q2  q3 = q3
  System = System
  Anonymous = Anonymous
  NoCall = NoCall
  NoQuestion = NoQuestion
  NoChoice = NoChoice
  Calls = {c1, c2}
  QuestionIds = {q1, q2, q3}
  Users = {u1, u2}
  StoredBy <- UserQuestion
  DefaultQuestions = {q1}
  NumChoices = 2
  PoolSize = 2
  CallsMayBeCut = TRUE
  DatabaseMayFail = TRUE
SYMMETRY CallSymmetry
INVARIANTS
  IndInv
  AcknowledgedAnswersAreKept
CHECK_DEADLOCK FALSE
