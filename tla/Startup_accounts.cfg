CONSTANTS
  p1 = p1
  p2 = p2
  none = none
  Unset = Unset
  NoEntry = NoEntry
  NoEmail = NoEmail
  FileNames <- MCFileNames
  Procs <- MCProcs
  Invocations <- MCInvocations
  GmailAccounts <- MCGmailAccounts
  SecretPlaces <- MCSecretPlaces
SPECIFICATION Spec
SYMMETRY MCSymmetry
INVARIANTS
  TypeOK
  AccountsApart
  StoreBelowConf
  ControlShowsSettings
  ZeroMeansServed
PROPERTIES
  AuthorizedServes
