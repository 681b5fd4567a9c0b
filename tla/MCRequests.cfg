\* A semantic call and a lifecycle request share one permit.
CONSTANTS
  Calls = {c1, c2}
  Semantic = {c1}
  Lifecycle = {c2}
  NoCall = none
  Cancellable = {c1}
  Expirable = {c2}
  Reports = {"busy", "settled"}
  MaxConcurrent = 1
  Capacity = 1
  MaxRetries = 1
  MaxIds = 3
SPECIFICATION Spec
INVARIANTS TypeOK InFlightBounded NoneWaitsForTheDead CancelFollowsRequest
PROPERTIES FulfilsContract ReplaysOnlyTheDisowned
\* Calls settle and the transport ends: the model comes to rest.
CHECK_DEADLOCK FALSE
