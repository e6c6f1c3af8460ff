\* Cancelling the unit in production, the first of the queue.
SPECIFICATION LatencySpec
CONSTANTS
  TrainKinds = {"Vulture", "Goliath"}
  Price <- Prices
  AddonPrice = 4
  TechPrice = 2
  CancelSlots <- First
  QueueMax = 2
  Turn = 2
  Latency = 4
  Wealth = {5}
  MaxOrders = 4
  MaxCancels = 1
INVARIANT CommandsArePaid
