\* Two healthy replicas draining in parallel overtake each other.
CONSTANTS
  r1 = r1
  r2 = r2
  Replicas = {r1, r2}
  Events = {1, 2, 3}
  Aggregates = {"x", "y"}
  AggregateOf <- TwoAndOne
  Poison = {}
  BatchSize = 2
  Concurrency = 2
  PublishTimeout = 1
  ClaimStale = 2
  MaxFaults = 0
SPECIFICATION Spec
INVARIANT OrderPreserved
