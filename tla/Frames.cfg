\* The frames of a match: commands and their legality, latency compensation, units
\* and searches.
SPECIFICATION MCSpec
CONSTANTS
  m1 = m1
  m2 = m2
  m3 = m3
  car = car
  tank = tank
  bar = bar
  drop = drop
  bunker = bunker
  hatch = hatch
  l1 = l1
  l2 = l2
  t1 = t1
  t2 = t2
  foe = foe
  me = me
  land = land
  here = here
  there = there
  ally = ally
  Units <- AllUnits
  Kind <- Kinds
  Armies <- ThreeArmies
  Larvae <- LarvaeOf
  Nobody = Nobody
  Enemies = {foe}
  Containers = {}
  TargetKind <- TargetKinds
  TargetPos <- Spots
  NoPos = NoPos
  Cell = 32
  GroupMax = 2
  Levels = {2, 4}
  Requests <- MixedRequests
  MaxGiven = 4
  MapUnits = {here, there}
  Thing <- SearchThings
  Owner <- SearchOwners
  Boxes <- SearchBoxes
  MaxUnitWidth = 3
  MaxUnitHeight = 2
  Rectangles <- AllRectangles
  Radii = {0, 1, 2}
  Weapons <- SearchWeapons
  Filters <- SearchFilters
  NoFilter = NoFilter
  Sorts <- SortsOf
  Traits <- TraitsOf
  Usual <- UsualOf
  MayBe <- MayBeOf
  ActorTypes <- ActorSorts
  Goals <- GoalsOf
  GoalMayBe <- FactsOfGoals
  Products <- ProductsOf
  Techs <- TechsOf
  MaxOdd = 2
  Slots = {1}
  Players <- MatchPlayers
  Self <- me
  Neutral <- land
  NoPlayer = NoPlayer
  MaxUnits = 2
  TrainKinds = {"Vulture", "Goliath"}
  Price <- Prices
  AddonPrice = 4
  TechPrice = 2
  CancelSlots <- LastAndSecond
  QueueMax = 2
  Turn = 2
  Latency = 4
  Wealth = {3, 6}
  MaxOrders = 5
  MaxCancels = 1
SYMMETRY Alikes
INVARIANTS
  OrdersWereGiven
  CommandsAreSent
  CommandsArePaid
  OutcomeIsShown
  ToldIsTrue
  InOwnersSet
  ClientAgrees
  SearchIsExact
  GroupTakesWhatUnitsTake
  LarvaIsThere
  RewritingStaysLegal
PROPERTIES
  ImplementsUnitStory
