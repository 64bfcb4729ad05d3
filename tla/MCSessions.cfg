CONSTANTS
  Profile <- ProfilesDef
  Host <- HostsDef
  Key <- KeysDef
  Secret = {secret, filed}
  AlgorithmOf <- AlgorithmsDef
  Call = {callOne, callTwo}
  RowsOf <- RowsDef
  Stored <- StoredDef
  StoredKeys <- KnownDef
  Serving <- ServingDef
  Files <- FilesDef
  Bundles <- BundlesDef
  NoValue = none
  none = none
  filed = filed
  work = work
  bastion = bastion
  hostOne = hostOne
  hostTwo = hostTwo
  keyOne = keyOne
  keyTwo = keyTwo
  keyOther = keyOther
  MaxCommands = 3
  MaxFaults = 1
SPECIFICATION Spec
INVARIANTS
  ConnectsToTrusted
  SecretsWereAccepted
  DeletedIsGone
  ReconnectSparesSessions
CHECK_DEADLOCK FALSE
