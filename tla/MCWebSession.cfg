SPECIFICATION Spec
CONSTANTS
  t1 = t1
  t2 = t2
  Tabs = {t1, t2}
  Files <- Present
  Wishes <- Some
  MaxAsks = 4
CHECK_DEADLOCK FALSE
INVARIANTS
  ReachesGoal
  PagesAfterLogin
PROPERTIES
  RedirectsEnd
