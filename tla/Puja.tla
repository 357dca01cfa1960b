------------------------------- MODULE Puja -------------------------------
(***************************************************************************)
(* The vocabulary trip-service and dispatch-service share in a ride whose   *)
(* price is negotiated (PUJA): the passenger bids, drivers offer, and each  *)
(* service tells the other, in one log per ride and direction, what         *)
(* happened.  A log is the outbox of its service, in the order of commit.   *)
(***************************************************************************)
EXTENDS Naturals, Sequences

CONSTANTS Trips, Drivers,
          None,       \* no driver, nothing in hand
          MaxCents,   \* techo of bids and offers
          MaxSeq      \* bound: negotiation cycles of one trip

ASSUME PujaAssumption == /\ None \notin Drivers
                         /\ MaxCents \in Nat \ {0}
                         /\ MaxSeq \in Nat \ {0}

Cents == 1..MaxCents
Unset == 0                 \* null, for a price
Prices == Cents \cup {Unset}
Seqs == 0..MaxSeq
SomeDriver == Drivers \cup {None}

\* What dispatch hears of a trip, with what the board needs of it.
TripEvents == [type : {"bid_posted", "reassigning", "cancelled", "expired",
                       "failed", "completed"},
               bid : Prices, seq : Seqs, driver : SomeDriver]

TripEvent(type) == [type |-> type, bid |-> Unset, seq |-> 0, driver |-> None]

\* An event on which a board is opened.
Opening(type, bid, seq, driver) ==
  [type |-> type, bid |-> bid, seq |-> seq, driver |-> driver]

Opens(e) == e.type \in {"bid_posted", "reassigning"}

\* What trip hears of a board.
BoardEvents == [type : {"offer_accepted", "match_found", "no_offers",
                        "bid_cancelled"},
                driver : SomeDriver, price : Prices, seq : Seqs]

BoardEvent(type, driver) ==
  [type |-> type, driver |-> driver, price |-> Unset, seq |-> 0]

Has(log, type, driver) ==
  \E i \in DOMAIN log : log[i].type = type /\ log[i].driver = driver
=============================================================================
