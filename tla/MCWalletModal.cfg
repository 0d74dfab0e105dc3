SPECIFICATION Spec
CONSTANTS
  hana = hana
  phantom = phantom
  rabby = rabby
  None = None
  Connectors <- ConnectorsDef
  Lazy <- LazyDef
  Uninstalled <- UninstalledDef
  MaxAttempts = 2
  MaxReloads = 1
INVARIANTS
  TypeOK
  DisconnectSticks
PROPERTIES
  DialogIsAboutPick
  EntryIsResolved
