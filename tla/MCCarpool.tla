------------------------------ MODULE MCCarpool ------------------------------
(* One submission, for two seats, of an offer that may be edited down to one:  *)
(* the seat lock can confirm it, find it too large, or find the offer closed.  *)
EXTENDS Carpool

CONSTANTS b1, o1

MCBookings == {b1}
MCOffers == {o1}
MCOfferOf == [b \in Bookings |-> o1]
MCAsientosOf == [b \in Bookings |-> 2]
=============================================================================
