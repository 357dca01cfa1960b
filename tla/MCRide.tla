------------------------------ MODULE MCRide ------------------------------
(* Instances of Ride for TLC.                                                 *)
EXTENDS Ride, TLC

\* For the runs with two drivers and two calls.
Symmetry == Permutations(Drivers) \cup Permutations(Calls)

\* How a trip ended makes no difference to any action or checked property, and of
\* the events of its end dispatch tells two kinds apart (neither is in Repeating).
Row(row) == IF row.status \in Terminal THEN [row EXCEPT !.status = "COMPLETED"] ELSE row

Heard(e) ==
  CASE e.type = "cancelled" -> "expired"
    [] e.type = "completed" -> "failed"
    [] OTHER -> e.type

\* A trip that is over, and that no departure in flight may still reassign, does not
\* change any more, whatever its own consumers or a rebid in flight go on to do (an event that comes
\* again then only uses up the run's redelivery).
Over(t) == trip[t].status \in Terminal /\ \A l \in Leavers : leaving[l] = None

Rebidding(v) == IF rebidding[v] # None /\ Over(rebidding[v].trip) THEN None ELSE rebidding[v]

\* What a group still has to hear, and the last it heard if that may come again
\* (of which a run has one at most: MaxRepeats = 1).
Coming(g, t) ==
  LET last == seen[g][t]
      again == last > 0 /\ faults < MaxRepeats /\ Log(g, t)[last].type \in Repeating
      heeds(e) == Heeds(g, e)
      rest == SubSeq(Log(g, t), IF again THEN last ELSE last + 1, Len(Log(g, t)))
      events == SelectSeq(rest, heeds)
  IN IF g # "dispatch" /\ Over(t) THEN <<>> ELSE
     [again |-> again,
      events |-> [i \in DOMAIN events |-> [events[i] EXCEPT !.type = Heard(events[i])]]]

\* Of what was heard before, no action and no property looks at more than the bids,
\* the deals and the keys the outbox of dispatch refuses.
Memory(t) ==
  [bids |-> BidsOf(tripLog[t]),
   deals |-> DealsOf(dispatchLog[t]),
   keys |-> {<<dispatchLog[t][i].type, dispatchLog[t][i].driver>> :
               i \in DOMAIN dispatchLog[t]}]

\* Nor at an offer that is not pending, nor at why a board is closed to offers, nor
\* at the mark of a board that has no match.
Offered(offer) == IF offer.status = "PENDING" THEN offer ELSE NoOffer

Shown(b) ==
  CASE b.status = "CLOSED_MATCHED" -> b
    [] b.status \in {"EXPIRED", "CANCELLED"} ->
         [b EXCEPT !.status = "EXPIRED", !.emitted = FALSE]
    [] OTHER -> [b EXCEPT !.emitted = FALSE]

WithoutHistory ==
  <<[t \in Trips |-> Row(trip[t])], leaving,
    [v \in Devices |-> Rebidding(v)], [t \in Trips |-> Shown(board[t])],
    [t \in Trips |-> [d \in Drivers |-> Offered(offers[t][d])]], claim, match,
    offering, call, reconciling, faults,
    [g \in Groups |-> [t \in Trips |-> Coming(g, t)]],
    [t \in Trips |-> Memory(t)]>>
=============================================================================
