\* A request or a webhook, and the poll; two methods, two checkouts, one retry or
\* change.  No webhook need arrive.
CONSTANTS
  w1 = w1
  w2 = w2
  poll = poll
  cobro = cobro
  Yape = Yape
  Plin = Plin
  Pago = cobro
  Sondeo = poll
  Workers = {w1}
  Methods = {Yape, Plin}
  MaxCheckouts = 2
  MaxEventos = 2
SPECIFICATION FairSpec
INVARIANTS TypeOK TellsTheFate CapturedWasPaid
PROPERTIES KeepsContract PollFindsThePaid
CHECK_DEADLOCK FALSE
