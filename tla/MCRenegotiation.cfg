CONSTANTS
  Setups <- MCSetups
  MaxOffers = 2
  MaxFaults = 1
SPECIFICATION Spec
INVARIANTS
  ContractsAgree
  VersionsIdentify
  VideoPortsUsed
  VideoStaysDecodable
PROPERTIES
  OfferSettles
CHECK_DEADLOCK FALSE
