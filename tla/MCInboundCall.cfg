CONSTANTS
  card1 = card1
  card2 = card2
  bridge = bridge
  ports1 = ports1
  ports2 = ports2
  Tablets = {card1, card2}
  Ports = {bridge, ports1, ports2}
  BridgePorts = bridge
  NoPorts = NoPorts
  Routes = {"direct", "early", "confirmed"}
  SendOutcomes = {TRUE, FALSE}
  MaxGenerations = 2
SPECIFICATION InboundSpec
SYMMETRY MCSymmetry
INVARIANTS
  InboundTypeOK
  OneFinalResponse
  PortsAccounted
CHECK_DEADLOCK FALSE
