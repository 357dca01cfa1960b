# VEO: TLA+ models of the ride-hailing backend

VEO is a monorepo of NestJS services (one Postgres schema each) that call each
other over REST and gRPC and, above all, tell each other events through Kafka by
way of a transactional outbox.  This directory holds TLA+ modules of the parts
whose correctness depends on interleavings, lost or repeated messages, stale
reads, crashes and timeouts; the TLC configurations that check them; and TLAPS
proofs of their main theorems.

Line numbers below are those of the repository; paths are relative to `src/`.

## 1. Inventory

The parts of the system, what each keeps and what makes it correct.  "→ Module"
says where it is modelled; the rest is in the plan (section 2) or is left out for
the reason given in `PROJECT.json`.

**Transactional outbox and relay** (`packages/database`, `packages/events`).
State: the rows of `outbox_events` (`published_at`, `failed_at`, `claimed_at`,
`attempts`); in each replica of a service, a tick in progress.  Operations:
`enqueueOutbox` inside the business transaction, `claim` (`FOR UPDATE SKIP
LOCKED`), `publishGrouped` (groups by aggregate, a worker pool, a timeout on each
publish), `ack` (three statements), `sweepPublished`.  Every service writes it,
Kafka reads it.  Hard: no lock or transaction spans the three phases; a replica
dies between any two; a timed-out send may land later; a poison event must not
block its aggregate.  Correct when nothing is marked published that is not in the
topic, poison is contained, and every event is settled.  → `OutboxRelay`

**Event consumers** (`packages/events/src/dedup.ts`, `kafka.ts`, `poison.ts`).
State: the offset, and a Redis mark per event.  Check the mark, run the handler,
set the mark, commit the offset: at-least-once, so each handler has to be
idempotent.  → in `Carpool`

**booking-service: carpooling** (ADR 014).  State: `published_trips` (state,
total and available seats, mode), `bookings` (state), its outbox.  Operations:
publish, edit, cancel an offer; reserve, approve, reject, cancel a booking;
`triggerCharge`; the seat lock on `payment.captured`; cancellation on
`payment.failed`.  REST to payment-service, Kafka from it.  Hard: the offer is read
on a replica and the seat is taken much later, at the capture; several captures
race for the last seats against edits and cancellations; the charge is outside any
transaction and its reply may be lost.  Correct when no seat is sold twice, the
counter and the state of an offer tell its seats, the events tell the booking's
fate and nobody is charged unapproved.  → `Booking`, `SeatSale`

**payment-service: charges** (ADR 022).  State: `payments`, its outbox, checkouts
at the aggregator.  Operations: `charge`, `retryCharge`, `changeMethod`, the
webhook, the status poll, capture, debt, the fare of a failed trip cancelled.  REST
from booking-service and the BFFs, Kafka from trip-service, HTTP to and from the rail.
Hard: the row is read from a replica and written in the primary; webhook, poll, retry,
change of method and failed trip race; the rail may say yes after the service gave up,
and after the fare was cancelled (`payments.repository.ts:358`).  Correct when a payment is captured
once, only if paid, and its events say so.  → `Payment`, `ChargeContract`

**The money of a booking**: the two services above.  Hard: the capture's event
overtakes the reply of the POST; a rejected charge is captured later; the refund
looks at a lagging replica.  Correct when nobody sits for free, only who paid and
lost the seat is refunded, and who paid gets one or the other.  → `Carpool`, `PaidSeat`

**payment-service: refunds**.  State: `refunds`, `payments.refunded_cents`, the
reverse at the rail.  Operations: request, approval, rejection by operators;
cancelled booking; failed trip; the tips that follow a fare; the callback.  Hard:
refunds of one payment race for its balance (`payments.service.ts:2318`); the rail
does not answer and is not idempotent (`:2265`); the callback comes before its uid is
stored (`:2617`) and a rejection races a late confirmation (`:2557`, `:2449`).  Correct
when never more goes back than was taken, a refund says what the rail did, and a
reverse the rail took ends.  → `Refund`, `RefundContract`

**payment-service: payouts to drivers**.  State: `payouts`, bonuses linked to them,
the set of drivers under review and the lock of the run in Redis.  Operations: the
run (cron or operator), disbursement, release, retry, review, the poll.  Hard: the
lock's lease expires under its holder and is deleted by key
(`utils/distributed-lock.ts:74`); every list comes from a replica; a claim and the
call to the bank are not one step (`payouts.service.ts:667`); a retry shares the
dedupKey of the first send (`payout-poll.service.ts:153`).  Correct when nothing is
paid but what the rail confirmed, a review holds the money, and every send ends.
→ `Payout`, `PayoutContract`

**payment-service: debts, commissions, credit, incentives, promotions.**  Ledgers
written in the transaction of the payment or payout they follow; not modelled apart
from the debt of a passenger (`Payment`) and the bonus of a driver (`Payout`).

**dispatch-service: the offer board** (ADR 010, 020, 021).  State: a board per trip
and an offer per driver in Redis; `dispatch_matches` in Postgres; the hot index of
drivers.  Operations: open a board on `trip.bid_posted`, submit, counter, withdraw
an offer, accept one (claim the board, claim the driver, write the match), sweep
expired boards, reconcile.  Hard: Redis and Postgres are written one after the
other (`offer-board.service.ts:625`, `:645`, `:680`); an offer is computed on one
board and submitted to the next cycle's (`:486`); a redelivered `trip.bid_posted`
resets a board (`:266`); the dedupKey of `offer_accepted` has no cycle (`:163`).
Correct when a ride gets the driver of its only match, no board counts as told
without a match, and whoever is answered ACCEPTED has one.  → `OfferBoard`

**dispatch-service: fixed-price matching**.  State: `dispatch_sessions`,
`dispatch_matches`.  One offer after another, each with its window, or a broadcast
for an emergency; the first acceptance wins.  Operations: open, offer, accept, reject,
sweep of expired offers and of narrow searches, cancel, close.  Hard: no process
owns a search, whoever ends an offer goes on with it (`matching.service.ts:404`); it
reads the session and the offers in a replica and writes later (`:128`); a session
is closed in one transaction and told in another (`:174`); siblings are retracted
after the commit (`dispatch.service.ts:164`).  Correct when a trip is matched once and
hears of that driver, the offer that won is not told withdrawn, and no offer and no
search stays for ever.  → `Matching`, `MatchingContract`

**trip-service**.  State: `trips` (status, driver, fare, `negotiationSeq`,
`reassignCount`), waypoint proposals.  Operations: create, assign, accept, arriving,
arrived, start, complete, cancel, reassign, rebid, expire, change of destination,
the watchdog, scheduled launches.  Kafka from and to dispatch, to payment.  Hard: an
`offer_accepted` of an earlier negotiation arrives after a rebid
(`trips.service.ts:1190`); cancellation races assignment and start (`:999`); one
live trip per passenger, also through a rebid (`:1440`).  Correct when the fare is
of the negotiation in force and never undone, and a trip that is over stays so.
→ `Trip`, and with the board `Ride`, `RideContract`

**packages/auth, identity-service**.  Refresh-token families in Redis: rotation
with a grace window, reuse detection (`refresh-store.ts:164`), revocation of all
families.  Users, drivers, shifts, sanctions, KYC: compare-and-set rows.  Not
modelled yet: `RefreshTokens` is next in the plan.

**audit, panic, media, fleet**.  A hash chain appended under one advisory lock
(`audit.repository.ts:97`); a deduplicated panic with acknowledgement, resolution
and evidence merged without a guard (`panic.service.ts:309`); dual control and a
render queue of recordings; documents that expire.  Small machines, last in the plan.

**rating, share, chat, notification, places, tracking (Go), biometric (Python), BFFs,
applications, supporting packages**: one writer at a time, streams, inference,
presentation or stateless code; not modelled.

## 2. Plan

In the order of what the platform stands on:

1. `OutboxContract`, `OutboxRelay`: everything else relies on its promise. *Done.*
2. `SeatSale`, `Booking`. *Done.*
3. `ChargeContract`, `Payment`. *Done.*
4. `Carpool` = `Booking` composed with one `ChargeContract` per booking, and what the
   two promise together, `PaidSeat`. *Done.*
5. `OfferBoard`: boards, offers, driver claims and matches.  *Done, but for its
   liveness.*
6. `Trip`, composed with `OfferBoard` as `Ride`, what the two promise together,
   `RideContract`, and the theorems about the driver, the boards and the fare of a
   trip.  *Done.*  Open: two trips of one passenger.
7. `PayoutContract`, `Payout`. *Done.*
8. `RefundContract`, `Refund`: the detail behind `SettleRefund` of `Carpool`. *Done.*
9. `MatchingContract`, `Matching`. *Done.*
10. `RefreshTokens`, `AuditChain`, `Panic`. *Open.*

Runs are kept to one per question: runs of a component that differed only in their
bounds were merged.  For each component: type correctness, its main invariant, and
the refinement of its abstract specification, by TLC and by proof.

## 3. Modules

| module | stands for |
|---|---|
| `OutboxContract` | what the outbox promises: committed events are delivered or, if poison, set aside |
| `OutboxRelay` | the table, the replicas, Kafka, crashes, timeouts, the retention sweep |
| `SeatSale` | the sale of seats, said without charges or approvals |
| `Booking` | booking-service; payment-service is an environment that may answer and tell anything |
| `ChargeContract` | what payment-service promises of one fare |
| `Payment` | payment-service's digital charge, with the rail, the replica and the poll |
| `Carpool` | `Booking` (by EXTENDS) and `ChargeContract` (by INSTANCE), and the messages between them |
| `PaidSeat` | what the two promise together: `SeatSale` with who paid, who was turned away and who is refunded |
| `Puja` | what trip-service and dispatch-service tell each other of a negotiated ride |
| `Trip` | trip-service: the row of a trip, its transitions, its events |
| `OfferBoard` | dispatch-service: board, offers, claims, matches, acceptance step by step |
| `Ride` | `Trip` and `OfferBoard` (by EXTENDS), and the topics between them |
| `RideContract` | what the two promise together: one deal in the life of a trip, a driver and a price only by it |
| `PayoutContract` | what payment-service promises of the payouts of drivers |
| `Payout` | the run and its lock, the disbursement, the rail, the poll, the review |
| `RefundContract` | what payment-service promises of the refunds of a trip |
| `Refund` | the three ways to a refund, the reservation, the reverse, its callback |
| `MatchingContract` | what the search of a driver at a fixed price promises |
| `Matching` | sessions and offers in Postgres, and whoever goes on with a search |
| `*_proofs` | the theorems of `OutboxRelay`, `Booking`, `Payment`, `Carpool`, `Payout`, `Refund`, `Matching`, `Ride` |
| `MC*` | instances for TLC |

A definition marked "Mutant" or "Fault" is no part of a specification: it is a
faulty form of the definition that follows it, used to see that a property
notices it.

**OutboxRelay.**  Events are numbers in the order `(created_at, seq)`.  The state is
the table (`rows`, `publishedAt`, `failedAt`, `claimAge`), each replica's tick
(`phase`, `batch`, `publishAge` per aggregate, `sent`, `failed`, `poisoned`) and
Kafka (`topic` with the first copy of each event, `late` sends that nobody waits
for).  Time is kept as ages, saturating just above `ClaimStale`.  `Claim` is
`PrismaOutboxStore.claim`; `PublishOk`, `PublishPoison`, `PublishError`,
`PublishTimesOut` are the outcomes of one publish inside `publishGrouped`, with
`Advance` and `Dispatch` its worker pool; `AckSent`, `AckFailed`, `AckPoison` are
the three statements of `ack`; `AckThrows` and `Crash` lose what a replica
remembered.  Rows of one aggregate are assumed to commit in their own order (the
business row they belong to is locked); the retention window is "any time after".

**Booking.**  `oferta` is a row of `published_trips`, `reserva` the state of a
booking, `outbox` the events its transactions enqueued, `handler` what a request
holds between two awaits.  `ReadOffer` and `CreateBooking` are the two halves of
`reserve()` (`bookings.service.ts:225`); `Approve`, `ChargeAnswered`, `RecordAnswer`
are `approve()` and `triggerCharge()` around the POST; `ConfirmCapture` is the seat
lock `confirmAndLockSeats` (`bookings.repository.ts:326`) and `PaymentFailed` its
sibling.  `Transition` is the `UPDATE ... WHERE estado` with its outbox row.  A
request can die at any await (`CrashHandler`).

**Payment.**  `pago` is the primary's row, `replica` the one `prisma.read` sees,
`outbox` the events told, `riel` the checkouts at the rail, `hilo` what each worker
holds between two awaits.  `Charge`, `CreatePayment`, `RetryCharge`,
`ClaimDebtForRetry`, `ChangeMethod`, `ClaimForMethodChange`, `GatewayAnswers`,
`PersistAggregatorCheckout`, `CaptureSuccess`, `MarkDebt`, `Webhook`, `PollOnce` are
the methods of the same names, split at their awaits.  A verdict of the rail is
decided on the replica (`ApplyWebhookResult`) and written to the primary by a
conditional update.  `RefundTripFareOnFailure` reads what a failed trip still owes and
`CancelUncapturedFares` makes it FAILED, the only way a fare gets there; a capture that
comes later takes it from there all the same.  What was captured is refunded in
`Refund`.  The payment of a booking has no trip: `Carpool` takes from `ChargeContract`
what can happen to it, which is all but `Cancel`.

**Carpool.**  Adds the POST and its reply (`OpenCharge`, `Reply`; the POST may arrive
after the request gave up; the status in the reply is the primary's or the
replica's), the payment events booking consumes (`ConsumeNews`: the handler first,
the offset then or not), and `booking.cancelled` (`ConsumeCancelled`: the filter by
`razon`, the reservation of the refund, or the skip when the replica shows nothing
to refund), with the verdict of the rail (`SettleRefund`).  Events of one payment
arrive in their order, any number of times.

**Trip.**  `trip` is the row (status, driver, fare, `agreed` for `agreedFareCents`,
`seq` for `negotiationSeq`, `reassigns`), `tripLog` the events dispatch consumes.
A transition is `Cas`, the compare-and-set of `casMoveStatus` on the sources the
table `Transitions` gives.  The departure of a driver (`ReadToLeave`, `Leave`) and
the rebid (`ReadToRebid`, `Rebid`) are two steps each, because what they read
before their transaction decides what they write; `Reassign` names the row by its
id alone (`puja-dispatch.strategy.ts:76`), `Rebid` also by the status it read.
`AssignFromDispatch`, `ApplyAgreedFare` and `CloseBid` are what the consumers call.

**OfferBoard.**  `board` and `offers` are the Redis keys of a trip, `claim` the claim
of a driver, `match` the ACCEPTED row of `dispatch_matches`, `dispatchLog` the outbox,
`call` an acceptance in flight.  A step of `call` is a round trip of `acceptOffer`:
`ReadBoard`, `ReadOffer`, `Ineligible`, `ClaimBoard`, `ClaimDriver`, `Commit` or
`CommitFails`, `RevertClaim`, `ReleaseClaim`, `MarkEmitted`, `Lapse`; the process may
`Die` at any.  `OnBidPosted`, `OnReassigning`, `OnTripOver`, `OnTripEnded` are the
handlers of `kafka-consumers.service.ts`; `Sweep`, `CancelBid`, `ReadUnmarked` and
`Reconcile` the window's end, the passenger's withdrawal and the reconciler.

**Ride.**  Each log is consumed in order and at least once.  What dispatch tells is
read by two consumer groups of trip-service, `PujaHears` (price, no offers, bid
given up) and `MatchHears` (the match), at their own pace; `DispatchHears` is the
group of dispatch-service; `Redeliver` is a consumer that dies before it commits
the offset.

**Payout.**  A payout is a driver and a period, as the unique key of its table says;
`payout` and `bonus` are the primary's rows, `replica` what `prisma.read` shows,
`rail` what the bank knows under the dedupKey, `job` what a session, the cron or the
poll holds between two awaits.  `StartRun` to `FinishRun` is `runPayouts` under its
lock (`LockExpires` takes it away from its holder, so that two runs overlap); `ListPending`, `Screen`, `Claim`,
`Disburse`, `Apply`, `Resolve` are the disbursement of a run, a release
(`StartRelease`) or a retry (`StartRetry`); `StartPoll`, `AskTheRail` the poll;
`HoldDriver`, `HoldPending` the two awaits of a review.  Amounts are left out: what a
payout is of (one bonus or not) is what the properties tell apart.

**Refund.**  `payment` and `refund` are the rows, in cents; `job` is a request, a
consumer or a callback between two awaits.  `RequestRefund`, `RejectRefund`,
`StartApprove` are the operators'; `StartCancel`, `CancelUncaptured` a cancelled
booking's; `StartFailure` and `Amount` to `Finish` the loop over the fares of a failed
trip; `ListTips` the tips that follow.  `Claim` is the transaction that reserves the
amount (`CanReserve`, with the unique key `Clash`); `AskTheRail`, `StoreUid`, `Settle`
the reverse, whose answer may be lost; `Callback` and `Apply` the provider's verdict,
retried until it gets its 2xx.

**Matching.**  `session` is the row of the search (its `round` stands for
`createdAt`), `offers` the rows in the order of their insertion, `replica` both as
they are read.  `job` is a consumer, a request or a sweep inside `offerNext`: `Look`
(the session), `Count` (the live offers), `Choose`, `Broadcast` or `FindNobody` (the
pool), `MakeOffer`, `CloseTimedOut`, `PublishNoCandidates`, each its own await.
`Accept`, `MarkMatched`, `FindSiblings`, `RetractSibling` are the driver's acceptance
and what follows it outside the transaction; `CancelSession`, `WithdrawLive` a
cancelled trip.  Which drivers are near and free is another component: any driver
not tried in this round may be, or none.

## 4. What the runs check

| run | question | result |
|---|---|---|
| `outbox` | two replicas, poison at the head of an aggregate, two crashes or failed acks, late sends: `PublishedWasSent`, `PoisonContained`, `EveryEventSettled`, refinement `ImplementsContract` | holds |
| `outbox_two_replicas` | two healthy replicas keep the order of an aggregate across batches | refuted: finding |
| `booking` | two bookings (one and two seats) on an offer of at most two, two requests in flight: seats add up, the state tells them, events tell the fate, `SeatSale` is implemented | holds |
| `payment` | a request, webhook or failed trip and the poll, two methods, two checkouts: events tell the fate, a capture was paid, `ChargeContract` is implemented, and the poll captures what was paid | holds |
| `carpool` | one booking of two seats, two requests, up to two debts before a capture: `ConfirmedWasCaptured`, `WaitsForAPayment`, refinement of `PaidSeat` (`KeepsDeal`), and `SeatOrRefund` | holds |
| `carpool_hangs` | no booking hangs in `COBRO_PENDIENTE` | refuted: finding |
| `payout` | two operators and the poll: two runs that overlap, of one period or of two that count one bonus, or a run with a release, a retry, a review or a crash: `PaidWasConfirmed`, `BonusFollowsItsPayout`, `HeldWaitsForRelease`, refinement of `PayoutContract`, `EverySendEnds` | holds |
| `refund` | a fare and its tip refunded by operators, a cancelled booking and a failed trip: `NeverMoreThanCaptured`, `BooksAddUp`, `VerdictIsTheRails`, `TipFollowsFare`, refinement of `RefundContract`, `AcceptedReverseEnds` | holds |
| `matching` | an ordinary trip or an emergency, two drivers, accepts, rejections, sweeps and a cancellation by two processes: refinement of `MatchingContract`, `SearchEnds` | holds |
| `ride_accept` | two drivers, two acceptances at once, one failed transaction, dead process or repeated `bid_posted`: `DriverIsTheMatched`, `ClosedForSomebody` | holds |
| `ride_reassign` | one driver who leaves, once or over the limit, the passenger who bids again, one repeated `offer_accepted` or `match_found`: refinement of `RideContract` (`KeepsContract`) | holds |
| `ride_rematch` | who is answered ACCEPTED has a match of that negotiation | refuted: finding |

Every property that holds has a mutant of the code it is about that TLC finds to
break it (`mutants` in `PROJECT.json`).

**Bounds.**  *Outbox:* two replicas are enough for every takeover of a claim; two
events of one aggregate, the first of them poison, for containment; two faults for a
crash in each tick; `ClaimStale = 2`, `PublishTimeout = 1` let a claim expire while its
holder still publishes.  *Booking:* two bookings that want three of two seats make
every outcome of the lock possible (sold, partly sold, full, refused), two requests
make every race of approvals and charges; the environment sends payment events at any
time, any number of times.  *Payment:* a worker and the poll give each pair of
writers; two checkouts the old and the new one; `MaxEventos` stops retries after two
events.  *Carpool:* one booking, because bookings meet only at the seats and those
are covered by `booking` (and by the theorem that the composition is a behaviour of
`Booking`); the offer can be edited down to one seat, so that the lock of the
two-seat booking also finds it full.  *Payout:* one driver and two periods, the
least for two payouts to want one bonus; two operators, so that two clicks, two runs
under an expired lock, or a run and a retry meet, and the poll.  `MaxEvents = 3` counts
what is asked for, reviews, crashes and errors together: a run and its retry, which
meets the answer about the first send, leave room for one more of them, a run and a
review for the release.  Only the first period's payout is sent (`Disbursed`), and the
run of the other one counts for two; payouts meet nowhere but at the bonus.  More of
each, and the other combinations, are in the theorems.  *Refund:* two cents, so that a refund may be a part; one worker and one
receiver of callbacks, hence each pair of writers; two refunds, so that they compete
for one balance or one follows the other; one fault.  *Matching:* two drivers and two
processes, three offers, so that a driver is offered the trip again after a new
opening; two rings; one trouble (a redelivery, a crash or a late write: with more the
same invariants are proved); a driver outside the pool is one the model does not
choose, and beyond `MaxOffers` the pool is empty.  *Ride:* one trip, since trips meet
only at the drivers and the other rides that claim a driver are in `Others`.
`ride_accept` has two drivers and two calls, every race between acceptances, and one
negotiation; `ride_reassign` has two negotiations (`MaxSeq = 2`), one over the limit of
reassignments (`MaxReassign = 1`), and two prices, the least with which one undercuts
another, and one rebid in flight; the theorems hold for any number.  `MaxFaults = 1` counts failed transactions, dead processes and redeliveries
together, `MaxRepeats = 1` redeliveries (without a repeated `match_found` no trip gets
a driver twice, which is the finding `ride_rematch`); `Repeating` says which events come again: in
`ride_accept` `trip.bid_posted`, which opens anew a board that an acceptance has just
claimed, in `ride_reassign` what the board tells; `Impatient` whose passenger may give the bid up.  Both runs
compare states by the `VIEW` `WithoutHistory` of `MCRide`: of the events every group
has heard, only what an action or a checked property still looks at, that is the one
that may come again, the bids of each cycle, the deals, and the keys the outbox refuses; of an offer that is
not pending, nothing; of a board without a match, not its mark; and of a trip that is
over, neither how it ended nor what would still be told to it.

**Fairness.**  *Outbox:* the interval timer ticks (`WF` on time and on claims), a
publish is settled by its timeout at the latest, and neither broker nor database
fails for ever (`SF` on a success that keeps being possible: the code retries
without end and can hope for no more).  *Payment:* the replica catches up, the poll
ticks, and a tick that is begun again and again is finished some time (`SF` on the
poll's continuation: a process may die in one tick, not in every one).  Nothing is
assumed of webhooks or passengers.  *Carpool:* a consumer goes on until the event is
consumed (Kafka redelivers until the offset is committed) and the replica catches
up; nothing is assumed of the rail, of requests or of drivers.  *Payout:* the poll
ticks and goes on, a call to the rail returns (its client has a timeout), a transfer
comes to an end, the replica catches up and time passes; nothing of operators, who
may never retry.  *Refund:* the replica catches up, the provider settles what it took
and repeats its callback until it is answered, and the process of the callback does
its work; nothing of operators, nor that an event is delivered.  *Matching:* each worker is idle again and again (an async call returns:
none of its steps waits for another process), the sweep comes every two seconds, the
replica catches up; nothing of drivers, passengers or requests.

**Deadlock** is checked in the outbox runs.  Elsewhere the system may really stop: an
offer that is cancelled, a payment that is captured, a ride that is over, have no
more to do.

## 5. What is proved

For every value of the constants (under the `ASSUME`s of each module, which say no
more than that the constants have their types, and for the outbox what the
relay's constructor enforces):

* `OutboxRelay_proofs`: `TypeCorrect`, `PublishedWasSentHolds`, `PoisonContainedHolds`,
  `RefinesContract`.  `PublishedWasSent` alone is not inductive: an ack writes what
  its replica remembers.  The strengthening is `RelayMemory`: what a replica counts
  as sent is in the topic and what it counts as poison is poison, whoever else has
  touched the rows meanwhile.  `OneRelayKeepsOrder` says for which deployment the order
  that the comments promise is kept: one replica that neither dies nor fails an ack
  (`Replicas = {r}`, `MaxFaults = 0`), for any errors, timeouts, late sends and expired
  claims; with a second replica it is lost, which is the finding `outbox_two_replicas`.
  (TLC agrees on that run's instance with `Replicas = {r1}`.)
  `OrderInv` relates the batch, the sends in flight and the topic; it holds because of
  `LoneRelay`: a claimed row is one that the replica still holds, and it claims only
  when it holds nothing, so a claim takes along every earlier row of each aggregate.
* `Booking_proofs`: `TypeCorrect`, `SeatsAlwaysAddUp`, `OfferStateAlwaysTells`,
  `RefinesSeatSale`, `EventsAlwaysTell`.  `SeatInv` adds to the two invariants that a draft has no seats
  sold and that the set of sold seats is finite; `StepShape` says that every step
  either leaves the sale alone, edits an offer, or is the seat lock.  The cardinality
  argument is `SeatsOfOneMore`.  The events need no strengthening: whoever writes one
  writes it with the state, in one conditional update.
* `Payment_proofs`: `TypeCorrect`, `AlwaysTellsTheFate`, `AlwaysCapturedWasPaid`,
  `ImplementsContract`, for fares of trips, failed ones too, and of bookings.  `PagoInv` adds that a worker about to capture does so for a
  checkout that was paid; `StepMoves` that row and events move together, in one of
  the ways of the contract.
* `Carpool_proofs`: `KeepsBooking` and `KeepsContracts` (the composition is a
  behaviour of each part, hence `SeatsAddUpWithMoney`), `CarpoolTypeCorrect`,
  `ConfirmedAlwaysCaptured`, `RefundsOnlyTheStranded`, `AlwaysWaitsForAPayment`.
  `FareMoves` is what happens to the payment of a booking: the contract without `Cancel`.
  `MoneyInv` says that what was told, what the replica shows and what a request was
  answered are all true of the payment for good, because a payment that exists
  goes on existing and a captured one stays captured.  `ImplementsDeal` puts the parts
  together again: `Booking` and the payment of a booking implement `PaidSeat`.  The seats
  come from `SaleMoves` (a step sells, edits or closes as in `SeatSale`, or rests), and
  `NoRoom` says that the seat lock refuses who has paid only when the offer is closed
  or too full; since a booking consumes only news that was told, whoever it seats or
  turns away has paid.

* `Payout_proofs`: `TypeCorrect`, `AlwaysPaidWasConfirmed`, `BonusAlwaysFollows`,
  `ReviewHolds`, `ImplementsContract`, `EventsAlwaysTell`.  `PayoutInv` adds what a job remembers across an
  await: a confirmed verdict in somebody's hands was given by the rail, which does not
  take it back, and a payout that does not exist counts no bonus.  `RowsMove` names the few ways a row may
  change; every action is one of them, and the contract follows.  `EventsAlwaysTell` is
  proved of the contract, where a step is one event and one status, and holds of the
  payouts because they implement it.
* `Refund_proofs`: `Invariance`, `TypeCorrect`, `VerdictAlwaysTheRails`,
  `TipAlwaysFollows`, `ImplementsContract`, `BooksAlwaysAddUp`,
  `NeverMoreSentThanCaptured`, `AlwaysToldOnce`.  `RefundInv` says that who is about to ask
  for a reverse is alone with his refund (so the rail is asked once), that the verdict
  he holds is the rail's, and that refunds of tips are only begun after some of the
  fare went back.  Again `Steps` sums up what a step does to the rows.  The sum over
  refunds that the balance is about needs no induction: the cents of the refunds are
  taken as a set of pairs (`CentsOf`), the sum is its cardinality, and a step adds or
  takes away the cents of one refund.  So `refunded_cents` is the number of cents of the
  refunds that are `APPROVED` or `COMPLETED` (`BooksAddUp`); those on their way or back
  are among them, and what is reserved never exceeds the price.  `AlwaysToldOnce`
  follows from the contract.
* `Matching_proofs`: `Invariance`, `TypeCorrect`, `ToldTheTruth`, `ImplementsContract`.
  `MatchingInv` relates the outbox to the rows (`Answers`) and says of the end of a
  search that whoever is about to tell that nobody was left is alone with an opening
  that is over and of which it was not told (`Endings`): a session is closed by one
  conditional update, and what is reopened is a later round.

* `Ride_proofs`: `TypeCorrect`, `DriverOfTheMatch`, `ToldHasAMatch`,
  `FareAlwaysOfItsCycle`, `FareNeverFalls`, `ImplementsContract`, `DealAlwaysKept`.
  `TripInv` says
  that a trip over its limit of reassignments has failed and that what was read before
  a departure or a rebid leaves room for the next cycle; `BoardInv` that every
  `match_found` in the log names the match, that no match is replaced (`MatchStays`),
  and that whoever is about to mark a board, acceptance or reconciler, has seen one.
  `KeepsDriver` says that no step of trip but `AssignFromDispatch` gives a driver.  `FareInv` follows a
  price from the board through the acceptance and its event to the row: whatever
  carries a price carries the number of a cycle in which so low a bid was made; bids
  are never taken back (`Grows`), and `KeepsFare` says that no step of trip but
  `ApplyAgreedFare` agrees on anything.  For the refinement of `RideContract` the bids
  of a trip are the events that open its boards, and its deal is the `offer_accepted` in
  the log of dispatch; `DealInv` adds that there is none without a match and, with one,
  a deal of its driver, and `RideMoves` names the few ways in which a step may move bids,
  deals and the row of a trip, each of them a step of the contract.  The two theorems
  about the fare say in the words of the services what the refinement says in those of
  the contract, and `DealAlwaysKept` is an invariant of the contract that the ride inherits.

Together, `Payment_proofs!ImplementsContract` and the theorems of `Carpool`, which
only knows the contract, give the statements about bookings for the detailed
payment-service: no `trip.failed` names a booking, and a payment that
`RefundTripFareOnFailure` leaves alone does what `FareMoves` says.

**Only model-checked:** the liveness properties (`EveryEventSettled`,
`PollFindsThePaid`, `SeatOrRefund`, `EverySendEnds`, `AcceptedReverseEnds`,
`SearchEnds`): they rest on weak and strong fairness, hence on `ENABLED`, for which the
prover has no rule.  Every other property of a passing run is a theorem.

## 6. Where code and comments disagree

Each has a run that exhibits it and is listed under `findings`:

* `outbox_two_replicas`: per-aggregate order holds inside one batch only; two
  replicas overtake each other (`outbox.ts:227`).
* `carpool_hangs`: `payment.captured` consumed before the reply of the charge is
  recorded leaves the booking in `COBRO_PENDIENTE` for good.
* `ride_rematch`: the ACCEPTED row of a trip is written once and for ever
  (`offer-board.service.ts:733`), so after a reassignment the acceptance of a new
  offer ends in a unique violation, which is taken for a repeat: the passenger is
  answered ACCEPTED, no event is written and the trip waits for its watchdog.

More are stated in the modules, are refuted by TLC when checked, and have no run of
their own.

*Outbox.*  `NoPublishOnExpiredClaim`: the timeout bounds one publish, the claim covers
a batch.

*Payment.*  `DebtToldByItsTransaction`; `SecondChargeGetsThePayment` (the recovery from
the unique violation reads the replica, `payments.service.ts:406`, and a live payment is
taken for a permanent rejection); `CheckoutIsOfTheMethod` (`payments.repository.ts:211`
writes by id alone, so the answer of a charge still in flight overwrites the cleared
checkout); `OneMethodChangeWins` (`:244`: two changes of method both win the claim).
The old checkout can be paid after a retry or a change of method (`:842`), and a crash
between the row and the gateway (`:415`) leaves a payment only `changeMethod` takes up;
no text promises otherwise.

*Carpool.*  `RefundIsNeverSkipped` (a lagging replica makes payment-service skip the
refund and mark the event as processed) and `NothingToGiveBack` (a booking cancelled
for a failed charge is captured later, and its `razon` is not refunded,
`consumers.ts:53`).  Outside the model: cancelling an offer leaves its confirmed
bookings confirmed and captured (`published-trips.service.ts:1307`).

*Payout.*  `BonusPaidOnce` (`payouts.service.ts:1056-1063`: the amount counts bonuses the
replica shows unlinked, the link that fails is not looked at, and two periods pay the
same bonus) and `FailedWasNotPaid` (`:751`: the poll's answer about the first send fails
the second, which the rail pays).

*Refund.*  `CancelledStaysUncharged` (`payments.repository.ts:268-269`: a late webhook
captures a fare that was cancelled) and `TipOnlyOfARevertedFare`
(`payments.service.ts:2627-2629`: one half of a fare confirmed takes the tips, the other
half may be rejected).  A refund whose uid was lost stays `APPROVED`: only a reverse
with a uid is in `AcceptedReverseEnds`.

*Matching.*  `OneLiveOffer` (`matching.service.ts:127`: two calls count before either
inserts), `NoGhostMatch` (`:332`: an offer made after the cancellation's withdrawal is
accepted, and `match_found` is told for a cancelled trip), `GivenUpStaysFree` (a match
after `no_offers`), `LosersOnly` (`dispatch.service.ts:162-163`: `offer_withdrawn` names
the driver and not the offer, and the winner hears one when two calls of `offerNext` had
both chosen him), `SearchEndsAnyway` (after a crash, a redelivery or a late write a
session may stay OPEN with no offer, which no sweep finds).  At a fixed price too the
ACCEPTED row outlives a reassignment, and its unique index makes every later
acceptance a 409.

*Ride.*  `AgreedOnTheLastBid` (`trips.service.ts:1467` calls the number of the cycle
monotonic, but `rebid` writes the one it read plus one wherever the status is again the
one it read: of two rebids in flight the second may find the trip expired again and open
a cycle under the number of the first, whose agreement, still in the log, it then takes,
below the bid just made; TLC finds it with `Devices = {v1, v2}`, and it takes a request
that hangs between its read and its update for a whole bid window), `ClaimHeld` (a failed transaction reopens the board before it releases the
driver, `offer-board.service.ts:778`, so a second acceptance of that driver loses its
claim), `OverIsOver` (the departure of a driver overwrites a trip that ended since it
was read, `puja-dispatch.strategy.ts:76`) and `NobodyHeldByTheDead` (a driver claimed by
an acceptance that wrote no match is released by nobody until the claim expires).

## 7. What is left out of the modelled parts

*Size.*  Most of the repository has no protocol to model: applications, screens, BFFs,
generated clients, schemas, design documents and tables are more than nine tenths of
its lines, so the share the map covers stays small however much of the services'
core is modelled.

*Charges.*  Cash and on-trip payments, commissions; the batch of the poll
(`payment-poll.service.ts:143`: one payment is modelled, so old open checkouts cannot
keep younger ones out).  *Refunds:* the clawback of the driver and the reversal of a
commission (rows written in the same transactions), a rail that cannot reverse, the
alert on old refunds, who may approve what.  *Payouts:* amounts, the minimum, the
netting of debts and credits, listings.  *Matching:* the score of candidates, the
windows of time, the busy mark and the exclusion for a panic, both in Redis.
*Carpool:* search, pricing and identity checks (they decide who may ask, not what
happens then); the states `EXPIRADO`, `EN_RUTA`, `COMPLETADO` of bookings and offers,
which are declared and which no code writes yet.  *Outbox:* the `attempts` counter (it
decides nothing), trace headers and metrics.  *Consumers:* the poison policy of Kafka
and the expiry of the Redis mark: an event may be handled again at any time anyway.

*Rides:* scheduled trips and launches, child codes, waypoints,
penalties, the ETA and money beyond the fare; the TTLs of boards and claims (a board
that expires in Redis is one nobody can accept any more, and is left to the
watchdog); `offer_made` and `offer_withdrawn`, which only screens consume; the hot
index and the busy mark; `driver.went_offline` in dispatch (it withdraws offers); the
lag of the replica trip-service reads; the order of the relay, whose own limits
are the subject of `OutboxRelay`; and the release of a driver by the late terminal
event of another ride of his.
