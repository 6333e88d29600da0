\* Two tabs, two administrators, one of them with a second factor.
CONSTANTS
  Tab = {"t1", "t2"}
  Account = {"ada", "bob"}
  Careful = {"bob"}
  Session = {s1, s2}
  None = None
  MaxSent = 2
SPECIFICATION FairSpec
INVARIANTS
  ActsAsShown
  TokenIsShown
PROPERTIES
  LoadingEnds
CHECK_DEADLOCK FALSE
