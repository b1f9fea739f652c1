\* The building as it is.
SPECIFICATION ApSpec
CONSTANT
  BUILDING_FLOORS = 3
INVARIANT
  CoverageAsEstimated
