\* Three calls of any kind on one question that its author may edit, any of
\* them cut off between two statements.
SPECIFICATION Spec
CONSTANTS
  c1 = c1  c2 = c2  c3 = c3
  u1 = u1  u2 = u2
  q1 = q1  q2 = q2  q3 = q3
  System = System
  Anonymous = Anonymous
  NoCall = NoCall
  NoQuestion = NoQuestion
  NoChoice = NoChoice
  Calls = {c1, c2, c3}
  QuestionIds = {q2}
  Users = {u1}
  StoredBy <- UserQuestion
  DefaultQuestions = {}
  NumChoices = 2
  PoolSize = 3
  CallsMayBeCut = TRUE
  DatabaseMayFail = FALSE
SYMMETRY CallSymmetry
INVARIANTS
  ContentIsOneVersion
  StoredVerdictsStand
  AnswersAreJudgedByTheirVersion
  PagesDoNotGoBack
PROPERTIES
  AnsweredQuestionsAreFrozen
  DeletedQuestionsStay
  ImplementsLedger
CHECK_DEADLOCK FALSE
