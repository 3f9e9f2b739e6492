SPECIFICATION FairConferenceSpec
CONSTANTS
    c1 = c1
    c2 = c2
    m1 = m1
    p1 = p1
    Callers = {c1, c2}
    Members = {m1}
    Phones = {p1}
    Listeners = {c2}
    MaxLegs = 2
    MaxRooms = 2
    Setups <- MCSetups
    Nobody = Nobody
INVARIANTS
  LegsAreServed
  NobodyForgotten
PROPERTIES
  RoomEnds
CHECK_DEADLOCK FALSE
