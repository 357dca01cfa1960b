\* Two requests in flight for one booking; its charge may fail twice before it is captured.
SPECIFICATION CarpoolFairSpec
CONSTANTS
  b1 = b1
  o1 = o1
  Bookings <- MCBookings
  Offers <- MCOffers
  OfferOf <- MCOfferOf
  AsientosOf <- MCAsientosOf
  MaxAsientos = 2
  Handlers = {w1, w2}
  MaxAvisos = 2
INVARIANTS CarpoolTypeOK ConfirmedWasCaptured WaitsForAPayment
PROPERTIES KeepsDeal SeatOrRefund
CHECK_DEADLOCK FALSE
