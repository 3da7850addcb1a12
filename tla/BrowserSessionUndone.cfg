\* A page load in one tab while another logs in or out.
SPECIFICATION Spec
CONSTANTS
  t1 = t1  t2 = t2
  alice = alice  bob = bob
  Nobody = Nobody
  Tabs = {t1, t2}
  Accounts = {alice, bob}
  MaxTokens = 2
  MaxLogins = 1
SYMMETRY TabAndAccountSymmetry
PROPERTIES
  SessionsPersist
CHECK_DEADLOCK FALSE
