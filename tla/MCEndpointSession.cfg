CONSTANTS
  legA = legA
  relay = relay
  ports = ports
  w1 = w1
  w2 = w2
  svc1 = svc1
  Legs = {legA}
  Resources <- MCResources
  StageOf <- MCStageOf
  Watchers = {w1, w2}
  Awaiters = {svc1}
  NoTask = NoTask
  LivePhases = {"ringing", "established"}
  Reasons = {"bye", "shutdown"}
  NoReason = NoReason
  MaxAdmissions = 3
SPECIFICATION FairSessionSpec
INVARIANTS
  SessionTypeOK
  TeardownOrder
  NoCloseUnderRunningTask
  BarrierHolds
PROPERTIES
  ImplementsLifetime
  TerminationCompletes
CHECK_DEADLOCK FALSE
