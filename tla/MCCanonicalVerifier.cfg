\* Two runs and three launches, two recipes, one commit meanwhile, two faults.
CONSTANTS
  r1 = r1
  r2 = r2
  l1 = l1
  l2 = l2
  l3 = l3
  Runs = {r1, r2}
  Launches = {l1, l2, l3}
  NoRun = NoRun
  NoLaunch = NoLaunch
  Recipes = 2
  MaxHead = 1
  MaxFaults = 2
SPECIFICATION Spec
SYMMETRY MCSymmetry
INVARIANTS
  OneVerifier
  OrphansAreVisible
  PassedMeansTested
PROPERTY OrphansBlock
CHECK_DEADLOCK FALSE
