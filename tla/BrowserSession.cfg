\* Two tabs whose requests and replies cross.
SPECIFICATION Spec
CONSTANTS
  t1 = t1  t2 = t2
  alice = alice  bob = bob
  Nobody = Nobody
  Tabs = {t1, t2}
  Accounts = {alice, bob}
  MaxTokens = 2
  MaxLogins = 2
SYMMETRY TabAndAccountSymmetry
INVARIANTS
  TypeOK
  FormsStayWithTheirAccount
  FormsStayGood
PROPERTIES
  LoginsAreNotMixedUp
  SessionsChangeOnPurpose
CHECK_DEADLOCK FALSE
