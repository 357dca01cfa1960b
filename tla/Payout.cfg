\* Two runs that overlap, of the same period or of two; or one run and two more of:
\* a release, a retry, a review, a crash, a query that throws.
SPECIFICATION FairSpec
CONSTANTS
  d1 = d1
  o1 = o1
  o2 = o2
  p1 = p1
  None = None
  Drivers = {d1}
  Periods = {1, 2}
  Disbursed = {1}
  Operators = {o1, o2}
  Pollers = {p1}
  MaxEvents = 3
INVARIANTS TypeOK PaidWasConfirmed BonusFollowsItsPayout
PROPERTIES HeldWaitsForRelease KeepsContract EverySendEnds
CHECK_DEADLOCK FALSE
