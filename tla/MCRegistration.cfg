CONSTANTS
  Clients <- MCClients
  ContactOf <- MCContactOf
  Replaces <- MCReplaces
  LeavesWithWildcard <- MCWildcards
  Setups <- MCSetups
  Passwords <- MCPasswords
  NoAccount <- MCNoAccount
  MaxListeners = 2
SPECIFICATION Spec
INVARIANTS BindingsBelong
PROPERTIES ShownAsRegistered SequenceHolds RegistrationRecovers
CHECK_DEADLOCK FALSE
