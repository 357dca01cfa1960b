\* One driver who leaves, and is accepted again.
SPECIFICATION RideSpec
CONSTANTS
  Trips = {t1}
  Drivers = {d1}
  None = None
  MaxCents = 1
  MaxSeq = 2
  MaxReassign = 1
  Leavers = {l1}
  Devices = {}
  Others = {}
  Calls = {c1}
  MaxFaults = 0
  MaxRepeats = 0
  Impatient = {}
  Repeating = {}
INVARIANTS AcceptedIsMatched
CHECK_DEADLOCK FALSE
