\* Two replicas that crash or fail an ack twice; event 1 is poison at the head of
\* its aggregate.
CONSTANTS
  r1 = r1
  r2 = r2
  Replicas = {r1, r2}
  Events = {1, 2}
  Aggregates = {"x"}
  AggregateOf <- OneGroup
  Poison = {1}
  BatchSize = 2
  Concurrency = 1
  PublishTimeout = 1
  ClaimStale = 2
  MaxFaults = 2
SPECIFICATION FairSpec
INVARIANTS TypeOK PublishedWasSent PoisonContained
PROPERTIES ImplementsContract EveryEventSettled
