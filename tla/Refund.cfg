\* A fare and a tip of two cents, two refunds, one fault.
SPECIFICATION FairSpec
CONSTANTS
  f1 = f1
  t1 = t1
  w1 = w1
  c1 = c1
  None = None
  Fares = {f1}
  Tips = {t1}
  Price = 2
  Workers = {w1}
  Receivers = {c1}
  MaxRefunds = 2
  MaxFaults = 1
INVARIANTS TypeOK NeverMoreThanCaptured BooksAddUp VerdictIsTheRails TipFollowsFare
PROPERTIES KeepsContract AcceptedReverseEnds
CHECK_DEADLOCK FALSE
