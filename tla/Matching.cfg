\* Two drivers, three offers, two processes; one redelivery, one fault, one late write.
SPECIFICATION FairSpec
CONSTANTS
  d1 = d1
  d2 = d2
  w1 = w1
  w2 = w2
  None = None
  Drivers = {d1, d2}
  Workers = {w1, w2}
  MaxRing = 2
  MaxRequests = 2
  MaxOffers = 3
  MaxTroubles = 1
INVARIANTS TypeOK
PROPERTIES KeepsContract SearchEnds
CHECK_DEADLOCK FALSE
