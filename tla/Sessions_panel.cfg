\* Two tabs of one browser, the janitor and the clock, with fairness of the janitor.
SPECIFICATION LiveSpec
CONSTANTS
  t1 = t1  t2 = t2
  Tabs = {t1, t2}
  SessionIds = {a, b}
  SessionTTL = 1
  MaxClock = 2
INVARIANTS TypeOK NotServedAfterExpiry LogoutEndsTheSession
PROPERTIES EndsByLogoutOrExpiry ExpiredIsPruned
