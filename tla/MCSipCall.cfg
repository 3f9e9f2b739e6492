\* One call over a network that loses, repeats and reorders messages.
SPECIFICATION Spec
CONSTANTS
    MaxInFlight = 2
    MaxByes = 2
    Losable <- MCLosable
INVARIANTS
  ConfirmedAgrees
PROPERTIES
  EndsAtBothEnds
CHECK_DEADLOCK FALSE
