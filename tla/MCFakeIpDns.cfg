SPECIFICATION Spec
CONSTANTS
  Domain = {d1, d2, d3, d4}
  NoDomain = NoDomain
  POOL_SIZE = 3
  Address <- MCAddress
INVARIANTS
  MapsInverse
  AnswerStaysValid
PROPERTY
  ImplementsLease
