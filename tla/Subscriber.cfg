\* Every class of subscriber and both policies for a full queue; callbacks are fair.
CONSTANTS
  Kinds = {"batch", "oneway", "twoway", "link"}
  MaxOutstandings = {1, 2}
  RetryCounts = {0, 1}
  QueueSizeMax = 2
  Drops = {TRUE, FALSE}
  Costly = {2, 3}
  MaxEvents = 5
  MaxPublishers = 2
  MaxResets = 1
SPECIFICATION FairSpec
\* a subscriber without events stops
CHECK_DEADLOCK FALSE
INVARIANTS
  QueueMoves
PROPERTIES
  OfflineDiscards
  ImplementsChannel
  ShutdownReturns
