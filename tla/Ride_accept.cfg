\* Two drivers, two acceptances at once, one fault, or the bid that comes again and
\* opens the board anew; the bid given up.
SPECIFICATION RideSpec
CONSTANTS
  Trips = {t1}
  Drivers = {d1, d2}
  None = None
  MaxCents = 1
  MaxSeq = 1
  MaxReassign = 0
  Leavers = {}
  Devices = {}
  Others = {other}
  Calls = {c1, c2}
  MaxFaults = 1
  MaxRepeats = 1
  Impatient = {t1}
  Repeating = {"bid_posted"}
SYMMETRY Symmetry
VIEW WithoutHistory
INVARIANTS DriverIsTheMatched ClosedForSomebody
CHECK_DEADLOCK FALSE
