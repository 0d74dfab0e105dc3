SPECIFICATION Spec
CONSTANTS
  ann = ann
  bob = bob
  arbitrum = arbitrum
  base = base
  None = None
  Users <- UsersDef
  Chains <- ChainsDef
  Wanted <- WantedDef
  Logout = TRUE
  MaxAttempts = 2
  MaxLogins = 2
  MaxWallets = 2
  MaxSwitches = 1
  MaxReloads = 1
INVARIANTS
  TypeOK
  AccountNotFollowed
  NothingRevives
PROPERTIES
  SignedOutStays
