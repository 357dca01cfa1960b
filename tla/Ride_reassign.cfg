\* The driver leaves, once or over the limit; the passenger bids again; an agreement
\* or a match comes again.
SPECIFICATION RideSpec
CONSTANTS
  Trips = {t1}
  Drivers = {d1}
  None = None
  MaxCents = 2
  MaxSeq = 2
  MaxReassign = 1
  Leavers = {l1}
  Devices = {v1}
  Others = {}
  Calls = {c1}
  MaxFaults = 0
  MaxRepeats = 1
  Impatient = {}
  Repeating = {"offer_accepted", "match_found"}
VIEW WithoutHistory
INVARIANTS RideTypeOK
PROPERTIES KeepsContract
CHECK_DEADLOCK FALSE
