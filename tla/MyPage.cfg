\* One visit while two calls answer, create and edit, over two connections.
SPECIFICATION PageSpec
CONSTANTS
  c1 = c1  c2 = c2
  u1 = u1
  q2 = q2  q3 = q3
  l1 = l1
  System = System
  Anonymous = Anonymous
  NoCall = NoCall
  NoQuestion = NoQuestion
  NoChoice = NoChoice
  Calls = {c1, c2}
  QuestionIds = {q2, q3}
  Users = {u1}
  StoredBy <- UserQuestion
  DefaultQuestions = {}
  NumChoices = 2
  PoolSize = 2
  CallsMayBeCut = FALSE
  DatabaseMayFail = FALSE
  Loads = {l1}
  ListPageSize = 1
INVARIANTS
  PageTypeOK
  HistoryIsComplete
  HistoryShowsWhatWasAnswered
  StatsAreOfOneMoment
  QuestionListIsFresh
PROPERTIES
  NobodyWaitsForever
CHECK_DEADLOCK FALSE
