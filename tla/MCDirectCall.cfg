SPECIFICATION FairDirectSpec
CONSTANTS
    c1 = c1
    c2 = c2
    c3 = c3
    c4 = c4
    h = h
    a = a
    b = b
    d = d
    Bridged = {c1}
    Routed = {c4}
    Placed = {c2, c3}
    Phone = h
    Ends <- MCEnds
    Dest <- MCDest
    Nobody = Nobody
    MaxCalls = 2
INVARIANTS
  NothingLeft
  PhoneShowsItsCall
PROPERTIES
  EndIsThrough
CHECK_DEADLOCK FALSE
