\* Two bookings of one and two seats, two requests in flight, an offer of at
\* most two seats: approvals, retries, charges and captures race.
SPECIFICATION Spec
CONSTANTS
  b1 = b1
  b3 = b3
  o1 = o1
  Bookings <- TwoBookings
  Offers <- MCOffers
  OfferOf <- MCOfferOf
  AsientosOf <- MCAsientosOf
  MaxAsientos = 2
  Handlers = {w1, w2}
INVARIANTS TypeOK SeatsAddUp OfferStateTellsSeats EventsTellTheState
PROPERTIES SellsOnlyFreeSeats
CHECK_DEADLOCK FALSE
