---------------------------- MODULE OfferBoard ----------------------------
(***************************************************************************)
(* dispatch-service: the board of a negotiated ride.  Board, offers and     *)
(* claims of drivers are keys of Redis, changed by one script each; the     *)
(* match is a row of Postgres, written with the events that tell it.  An    *)
(* acceptance walks from one to the other and back, a step per round trip,  *)
(* and may meet other acceptances, reopenings, the sweep, the end of the    *)
(* trip, failures of the database, and the death of its process.            *)
(***************************************************************************)
EXTENDS Puja

CONSTANTS Others,     \* rides outside this model that claim the same drivers
          Calls,      \* acceptances in flight
          MaxFaults   \* bound: transactions that fail, processes that die, drivers
                      \* another ride takes, bids given up

ASSUME BoardAssumption == MaxFaults \in Nat

VARIABLES board,        \* trip -> board:{tripId}
          offers,       \* trip -> driver -> board:offers:{tripId}
          claim,        \* driver -> the trip that holds it
          match,        \* trip -> driver of its ACCEPTED DispatchMatch
          dispatchLog,  \* trip -> the events trip consumes
          offering,     \* driver -> the trip and the bid its offer is checked against
          call,         \* acceptance -> where it stands
          reconciling,  \* the trips whose mark the reconciler is about to set
          faults        \* faults so far

boardVars == <<board, offers, claim, match, dispatchLog, offering, call,
              reconciling, faults>>

Boards == [status : {"none", "OPEN", "CLOSED_MATCHED", "EXPIRED", "CANCELLED"},
           bid : Prices, seq : Seqs, driver : SomeDriver, emitted : BOOLEAN]

NoBoard == [status |-> "none", bid |-> Unset, seq |-> 0, driver |-> None,
            emitted |-> FALSE]

Offers == [status : {"none", "PENDING", "ACCEPTED", "LAPSED", "STALE"},
           kind : {"ACCEPT_PRICE", "COUNTER"}, price : Prices]

NoOffer == [status |-> "none", kind |-> "ACCEPT_PRICE", price |-> Unset]
NoOffers == [d \in Drivers |-> NoOffer]

Held == {"driver", "tx", "undo", "revert", "release", "mark", "lapse"}
Steps == {"idle", "board", "gate"} \cup Held

\* What an acceptance keeps of the board it read, and the price it will commit.
CallStates == [step : Steps, trip : Trips \cup {None}, driver : SomeDriver,
               bid : Prices, seq : Seqs, price : Prices]

Idle == [step |-> "idle", trip |-> None, driver |-> None, bid |-> Unset,
         seq |-> 0, price |-> Unset]

BoardTypeOK ==
  /\ board \in [Trips -> Boards]
  /\ offers \in [Trips -> [Drivers -> Offers]]
  /\ claim \in [Drivers -> Trips \cup Others \cup {None}]
  /\ match \in [Trips -> SomeDriver]
  /\ dispatchLog \in [Trips -> Seq(BoardEvents)]
  /\ offering \in [Drivers -> [trip : Trips, bid : Prices] \cup {None}]
  /\ call \in [Calls -> CallStates]
  /\ reconciling \subseteq Trips
  /\ faults \in Nat

BoardInit ==
  /\ board = [t \in Trips |-> NoBoard]
  /\ offers = [t \in Trips |-> NoOffers]
  /\ claim = [d \in Drivers |-> None]
  /\ match = [t \in Trips |-> None]
  /\ dispatchLog = [t \in Trips |-> <<>>]
  /\ offering = [d \in Drivers |-> None]
  /\ call = [c \in Calls |-> Idle]
  /\ reconciling = {}
  /\ faults = 0

Fault == faults < MaxFaults /\ faults' = faults + 1
NoFault == UNCHANGED faults

Emit(t, events) == dispatchLog' = [dispatchLog EXCEPT ![t] = @ \o events]

-----------------------------------------------------------------------------
(* The events of trip-service.  The handler clears the offers and then saves *)
(* the board; nothing that happens in between tells the two apart.           *)

OpenBoard(t, bid, seq) ==
  /\ offers' = [offers EXCEPT ![t] = NoOffers]
  /\ board' = [board EXCEPT ![t] =
       [status |-> "OPEN", bid |-> bid, seq |-> seq, driver |-> None,
        emitted |-> FALSE]]

OnBidPosted(t, e) ==
  /\ OpenBoard(t, e.bid, e.seq)
  /\ UNCHANGED <<claim, match, dispatchLog, offering, call, faults, reconciling>>

OnReassigning(t, e) ==
  /\ claim' = IF e.driver = None THEN claim ELSE [claim EXCEPT ![e.driver] = None]
  /\ OpenBoard(t, e.bid, e.seq)
  /\ UNCHANGED <<match, dispatchLog, offering, call, faults, reconciling>>

\* driverForTrip, releaseDriver: whoever the match names, whatever it does now.
ReleaseAssigned(t) ==
  claim' = IF match[t] = None THEN claim ELSE [claim EXCEPT ![match[t]] = None]

\* cancelIfOpen; the offers go with the board.
CloseBoard(t) ==
  \/ /\ board[t].status = "OPEN"
     /\ board' = [board EXCEPT ![t].status = "CANCELLED"]
     /\ offers' = [offers EXCEPT ![t] = NoOffers]
  \/ /\ board[t].status # "OPEN"
     /\ UNCHANGED <<board, offers>>

\* trip.cancelled, trip.expired.
OnTripOver(t) ==
  /\ CloseBoard(t)
  /\ ReleaseAssigned(t)
  /\ UNCHANGED <<match, dispatchLog, offering, call, faults, reconciling>>

\* trip.completed, trip.failed.
OnTripEnded(t) ==
  /\ ReleaseAssigned(t)
  /\ UNCHANGED <<board, offers, match, dispatchLog, offering, call, faults, reconciling>>

-----------------------------------------------------------------------------
(* A driver offers: the price is checked against the board that was read.    *)

ReadToOffer(d, t) ==
  /\ offering[d] = None
  /\ board[t].status = "OPEN"
  /\ offering' = [offering EXCEPT ![d] = [trip |-> t, bid |-> board[t].bid]]
  /\ UNCHANGED <<board, offers, claim, match, dispatchLog, call, faults, reconciling>>

ValidPrice(kind, price, bid) ==
  IF kind = "ACCEPT_PRICE" THEN price = bid ELSE bid < price

\* submitOfferIfOpen; or the driver is not eligible, or the board has closed.
SubmitOffer(d, kind, price) ==
  /\ offering[d] # None
  /\ ValidPrice(kind, price, offering[d].bid)
  /\ LET t == offering[d].trip IN
     \/ /\ board[t].status = "OPEN"
        /\ offers' = [offers EXCEPT ![t][d] =
             [status |-> "PENDING", kind |-> kind, price |-> price]]
     \/ UNCHANGED offers
  /\ offering' = [offering EXCEPT ![d] = None]
  /\ UNCHANGED <<board, claim, match, dispatchLog, call, faults, reconciling>>

-----------------------------------------------------------------------------
(* The passenger accepts.                                                    *)

At(c, step) == call[c].step = step
Goto(c, step) == call' = [call EXCEPT ![c].step = step]
Done(c) == call' = [call EXCEPT ![c] = Idle]

ReadBoard(c, t, d) ==
  /\ At(c, "idle")
  /\ board[t].status # "none"
  /\ call' = [call EXCEPT ![c] =
       [step |-> "board", trip |-> t, driver |-> d,
        bid |-> board[t].bid, seq |-> board[t].seq, price |-> Unset]]
  /\ UNCHANGED <<board, offers, claim, match, dispatchLog, offering, faults, reconciling>>

\* What is not pending, or not worth the bid any more, is refused; a second tap
\* is answered ACCEPTED at once, and that is all it does.
ReadOffer(c) ==
  /\ At(c, "board")
  /\ LET offer == offers[call[c].trip][call[c].driver]
         valid == /\ offer.status = "PENDING"
                  /\ ValidPrice(offer.kind, offer.price, call[c].bid) IN
     \/ /\ valid
        /\ call' = [call EXCEPT ![c].step = "gate", ![c].price = offer.price,
                               ![c].bid = Unset]
     \/ /\ ~valid
        /\ Done(c)
  /\ UNCHANGED <<board, offers, claim, match, dispatchLog, offering, faults, reconciling>>

\* assertEligibleToOffer fails.
Ineligible(c) ==
  /\ At(c, "gate")
  /\ LET t == call[c].trip
         d == call[c].driver IN
     offers' = IF offers[t][d].status = "none" THEN offers
               ELSE [offers EXCEPT ![t][d].status = "STALE"]
  /\ Done(c)
  /\ UNCHANGED <<board, claim, match, dispatchLog, offering, faults, reconciling>>

\* claimBoardForAccept: whatever cycle the board is in by now.
ClaimBoard(c) ==
  /\ At(c, "gate")
  /\ LET t == call[c].trip IN
     \/ /\ board[t].status = "OPEN"
        /\ board' = [board EXCEPT ![t].status = "CLOSED_MATCHED",
                                  ![t].driver = call[c].driver,
                                  ![t].emitted = FALSE]
        /\ Goto(c, "driver")
     \/ /\ board[t].status # "OPEN"
        /\ Done(c)
        /\ UNCHANGED board
  /\ UNCHANGED <<offers, claim, match, dispatchLog, offering, faults, reconciling>>

\* tryClaimDriver.
ClaimDriver(c) ==
  /\ At(c, "driver")
  /\ LET t == call[c].trip
         d == call[c].driver IN
     \/ /\ claim[d] \in {None, t}
        /\ claim' = [claim EXCEPT ![d] = t]
        /\ Goto(c, "tx")
     \/ /\ claim[d] \notin {None, t}
        /\ Goto(c, "undo")
        /\ UNCHANGED claim
  /\ UNCHANGED <<board, offers, match, dispatchLog, offering, faults, reconciling>>

\* The unique index on the ACCEPTED row of a trip, and those on the dedupKeys of
\* the two events, which name the trip and the driver.
Taken(t, d) == match[t] # None \/ Has(dispatchLog[t], "match_found", d)

Accepted(c) ==
  << [type |-> "offer_accepted", driver |-> call[c].driver,
      price |-> call[c].price, seq |-> call[c].seq],
     BoardEvent("match_found", call[c].driver) >>

\* Mutant: no index allows one ACCEPTED row per trip, only the dedupKeys are unique.
CommitsAgain(c) ==
  /\ At(c, "tx")
  /\ LET t == call[c].trip IN
     IF Has(dispatchLog[t], "match_found", call[c].driver)
     THEN UNCHANGED <<match, dispatchLog>>
     ELSE /\ match' = [match EXCEPT ![t] = call[c].driver]
          /\ Emit(t, Accepted(c))
  /\ Goto(c, "mark")
  /\ UNCHANGED <<board, offers, claim, offering, faults, reconciling>>

\* Both events and the row, or, on a unique violation, none of them: the
\* acceptance goes on in either case.
Commit(c) ==
  /\ At(c, "tx")
  /\ LET t == call[c].trip IN
     \/ /\ ~Taken(t, call[c].driver)
        /\ match' = [match EXCEPT ![t] = call[c].driver]
        /\ Emit(t, Accepted(c))
     \/ /\ Taken(t, call[c].driver)
        /\ UNCHANGED <<match, dispatchLog>>
  /\ call' = [call EXCEPT ![c].step = "mark", ![c].price = Unset]
  /\ UNCHANGED <<board, offers, claim, offering, faults, reconciling>>

\* Mutant: a transaction that failed is taken for one that had been done.
FailureIsDone(c) ==
  /\ At(c, "tx")
  /\ Fault
  /\ Goto(c, "mark")
  /\ UNCHANGED <<board, offers, claim, match, dispatchLog, offering, reconciling>>

CommitFails(c) ==
  /\ At(c, "tx")
  /\ Fault
  /\ Goto(c, "revert")
  /\ UNCHANGED <<board, offers, claim, match, dispatchLog, offering, reconciling>>

\* revertClaim: any claim on the board that has not been emitted.
RevertClaim(c) ==
  /\ call[c].step \in {"undo", "revert"}
  /\ LET t == call[c].trip IN
     \/ /\ board[t].status = "CLOSED_MATCHED" /\ ~board[t].emitted
        /\ board' = [board EXCEPT ![t].status = "OPEN", ![t].driver = None]
     \/ /\ board[t].status # "CLOSED_MATCHED" \/ board[t].emitted
        /\ UNCHANGED board
  /\ IF At(c, "undo") THEN Done(c) ELSE Goto(c, "release")
  /\ UNCHANGED <<offers, claim, match, dispatchLog, offering, faults, reconciling>>

ReleaseClaim(c) ==
  /\ At(c, "release")
  /\ claim' = [claim EXCEPT ![call[c].driver] = None]
  /\ Done(c)
  /\ UNCHANGED <<board, offers, match, dispatchLog, offering, faults, reconciling>>

MarkEmitted(c) ==
  /\ At(c, "mark")
  /\ board' = [board EXCEPT ![call[c].trip].emitted = TRUE]
  /\ Goto(c, "lapse")
  /\ UNCHANGED <<offers, claim, match, dispatchLog, offering, faults, reconciling>>

\* lapseAndAccept; the passenger is answered ACCEPTED.
Lapsed(offer) ==
  IF offer.status = "PENDING" THEN [offer EXCEPT !.status = "LAPSED"] ELSE offer

Lapse(c) ==
  /\ At(c, "lapse")
  /\ offers' = [offers EXCEPT ![call[c].trip] =
       [d \in Drivers |->
         IF d = call[c].driver /\ @[d].status # "none"
         THEN [@[d] EXCEPT !.status = "ACCEPTED"] ELSE Lapsed(@[d])]]
  /\ Done(c)
  /\ UNCHANGED <<board, claim, match, dispatchLog, offering, faults, reconciling>>

Die(c) ==
  /\ ~At(c, "idle")
  /\ Fault
  /\ Done(c)
  /\ UNCHANGED <<board, offers, claim, match, dispatchLog, offering, reconciling>>

-----------------------------------------------------------------------------
\* sweepExpired: no_offers follows the script, unless the process dies.
Sweep(t) ==
  /\ board[t].status = "OPEN"
  /\ board' = [board EXCEPT ![t].status = "EXPIRED"]
  /\ offers' = [offers EXCEPT ![t] = [d \in Drivers |-> Lapsed(@[d])]]
  /\ \/ Emit(t, <<BoardEvent("no_offers", None)>>) /\ NoFault
     \/ UNCHANGED dispatchLog /\ Fault
  /\ UNCHANGED <<claim, match, offering, call, reconciling>>

\* The passenger gives the bid up, with a board or without.  Told once per trip,
\* ever, and not at all when the process dies first.
CancelBid(t) ==
  /\ Fault
  /\ CloseBoard(t)
  /\ \/ UNCHANGED dispatchLog
     \/ /\ ~Has(dispatchLog[t], "bid_cancelled", None)
        /\ Emit(t, <<BoardEvent("bid_cancelled", None)>>)
  /\ UNCHANGED <<claim, match, offering, call, reconciling>>

\* A closed board without its mark, of whose driver there is an ACCEPTED row: the
\* events were committed with that row, and their dedupKeys refuse them now.
Unmarked(t) ==
  /\ board[t].status = "CLOSED_MATCHED"
  /\ ~board[t].emitted
  /\ board[t].driver = match[t]

\* reconcileUnemittedMatches: it reads, and later marks whatever board is there.
ReadUnmarked(t) ==
  /\ t \notin reconciling
  /\ Unmarked(t)
  /\ reconciling' = reconciling \cup {t}
  /\ UNCHANGED <<board, offers, claim, match, dispatchLog, offering, call, faults>>

Reconcile(t) ==
  /\ t \in reconciling
  /\ board' = [board EXCEPT ![t].emitted = TRUE]
  /\ reconciling' = reconciling \ {t}
  /\ UNCHANGED <<offers, claim, match, dispatchLog, offering, call, faults>>

\* Another ride takes the driver, or has ended.
ClaimElsewhere(d) ==
  /\ claim[d] = None
  /\ Fault
  /\ \E other \in Others : claim' = [claim EXCEPT ![d] = other]
  /\ UNCHANGED <<board, offers, match, dispatchLog, offering, call, reconciling>>

EndElsewhere(d) ==
  /\ claim[d] \in Others
  /\ claim' = [claim EXCEPT ![d] = None]
  /\ UNCHANGED <<board, offers, match, dispatchLog, offering, call, reconciling, faults>>

AcceptStep(c) ==
  \/ \E t \in Trips, d \in Drivers : ReadBoard(c, t, d)
  \/ ReadOffer(c) \/ Ineligible(c) \/ ClaimBoard(c) \/ ClaimDriver(c)
  \/ Commit(c) \/ CommitFails(c) \/ RevertClaim(c) \/ ReleaseClaim(c)
  \/ MarkEmitted(c) \/ Lapse(c) \/ Die(c)

BoardNext ==
  \/ \E d \in Drivers, t \in Trips : ReadToOffer(d, t)
  \/ \E d \in Drivers, kind \in {"ACCEPT_PRICE", "COUNTER"}, price \in Cents :
       SubmitOffer(d, kind, price)
  \/ \E c \in Calls : AcceptStep(c)
  \/ \E d \in Drivers : ClaimElsewhere(d) \/ EndElsewhere(d)
  \/ \E t \in Trips : Sweep(t) \/ ReadUnmarked(t) \/ Reconcile(t)
=============================================================================
