SPECIFICATION Spec
CONSTANTS
  Addresses = {1, 2}
  InitKey = TRUE
INVARIANT BlockedBusQuiet
