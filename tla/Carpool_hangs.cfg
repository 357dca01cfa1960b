\* The capture is told before the reply of the charge is recorded.
SPECIFICATION CarpoolSpec
CONSTANTS
  b1 = b1
  o1 = o1
  Bookings <- MCBookings
  Offers <- MCOffers
  OfferOf <- MCOfferOf
  AsientosOf <- MCAsientosOf
  MaxAsientos = 2
  Handlers = {w1, w2}
  MaxAvisos = 2
INVARIANT NoBookingHangs
CHECK_DEADLOCK FALSE
