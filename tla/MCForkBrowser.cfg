CONSTANTS
  b1 = b1
  b2 = b2
  b3 = b3
  Branches = {b1, b2, b3}
  Tier <- MCTwoTiers
  Rank <- MCRank
  SequentialTiers = {2}
  DialOutcomes = {"busy", "timeout"}
  ControlOutcomes = {"source_cancelled", "reroute", "answered", "declined"}
  NoBranch = NoBranch
SPECIFICATION FairForkSpec
PROPERTIES
  FirstEndpointWins
CHECK_DEADLOCK FALSE
