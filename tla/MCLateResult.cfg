SPECIFICATION Spec
CONSTANTS
  hana = hana
  phantom = phantom
  rabby = rabby
  None = None
  Connectors <- ConnectorsDef
  Lazy <- LazyDef
  Uninstalled <- UninstalledDef
  MaxAttempts = 3
  MaxReloads = 0
PROPERTIES LateResultIsDropped


