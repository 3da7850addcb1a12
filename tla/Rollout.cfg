\* Three releases, the first and the last with a migration file; the first
\* cannot be repeated.  Pushes and runs by hand, of any release.
SPECIFICATION Spec
CONSTANTS
  MaxRelease = 3
  Adds = {1, 3}
  Bare = {1}
  Statements = 2
  ByHand = {TRUE, FALSE}
  MaxStarting = 2
INVARIANTS
  TypeOK
  SchemaIsOfARelease
  ClientIsNotAhead
  MainIsServed
  MigrationsComeFirst
CHECK_DEADLOCK FALSE
