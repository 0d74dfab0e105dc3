SPECIFICATION Spec
CONSTANTS
  MaxMisses = 2
  MaxOutages = 1
PROPERTY OutageSpendsNothing
