------------------------------ MODULE MCBooking ------------------------------
(* Two submissions for one offer: b1 asks for one seat, b3 for two.           *)
EXTENDS Booking

CONSTANTS b1, b3, o1

TwoBookings == {b1, b3}
MCOffers == {o1}
MCOfferOf == [b \in Bookings |-> o1]
MCAsientosOf == [b \in Bookings |-> IF b = b3 THEN 2 ELSE 1]
=============================================================================
