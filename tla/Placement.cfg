SPECIFICATION PlacementSpec
CONSTANTS
  Cpu = Cpu
  memory = memory
  Dims = {Cpu, memory}
  MaxUnits = 16
  Significand = 8
  rounded <- SmallRounding
  Unbounded = Unbounded
  Ids = {1, 2, 3}
  Requirements <- SmallRequirements
  Fragments <- SmallFragments
  MaxOffers = 3
  Capacity <- SmallCapacity
  Upserts <- SmallUpserts
INVARIANTS
  TypeOK
  ExactPlan
  LifetimeCovered
  ShortageIsReal
  PlannedInOrder
  OnlyActiveOffers
  SteadyConsidered
  FabricOffersValid
