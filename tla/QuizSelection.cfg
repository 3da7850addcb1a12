\* One call while questions appear and are deleted between its queries.
SPECIFICATION Spec
CONSTANTS
  c1 = c1  s1 = s1  s2 = s2  a = a  b = b
  NoQuestion = NoQuestion
  Calls = {c1}
  SystemIds = {s1, s2}
  UserIds = {a, b}
  DefaultQuestions <- TwoDefaults
  StoredFirst <- SeedAndOne
  Seeds = {0, 1, 2}
INVARIANTS
  NoNeedlessRepeat
  AlwaysAQuestion
PROPERTIES
  DeletedQuestionsAreNotServed
CHECK_DEADLOCK FALSE
