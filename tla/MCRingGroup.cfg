SPECIFICATION FairRingSpec
CONSTANTS
    p1 = p1
    p2 = p2
    x = x
    b1 = b1
    r1 = r1
    r2 = r2
    NoPair = NoPair
    Nobody = Nobody
    Group <- MCGroup
    Phones = {p1, p2}
    Browsers = {b1}
    Pairs = {r1, r2}
    Shared = {p1}
    MaxForeign = 2
INVARIANTS
  CustodyHolds
PROPERTIES
  AnswerIsBridged
  TeardownCompletes
CHECK_DEADLOCK FALSE
