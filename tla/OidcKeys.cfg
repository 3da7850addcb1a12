\* Two logins over a clock of three ticks, two keys, one move.
SPECIFICATION Spec
CONSTANTS
  l1 = l1  l2 = l2
  k1 = k1  k2 = k2
  Logins = {l1, l2}
  Keys = {k1, k2}
  FirstKey = k1
  TTL = 2
  Leeway = 1
  Lifetime = 1
  MaxTime = 4
  MaxIssuer = 1
SYMMETRY LoginSymmetry
INVARIANTS
  TypeOK
  LookupsAreRecent
PROPERTIES
  LoginsAreJudgedByRecentKeys
CHECK_DEADLOCK FALSE
