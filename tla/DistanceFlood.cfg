SPECIFICATION FairSpec
CONSTANTS
  Block <- MCBlock
  Master <- MCMaster
  Link <- MCLink
  MaxDistance = 3
  HopDistance <- MCHopDistance
INVARIANTS NeverUnderestimates BetterDistanceIsComing FloodIsExact
PROPERTY FloodSettles
CHECK_DEADLOCK FALSE
