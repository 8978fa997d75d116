SPECIFICATION FairSpec
CONSTANTS
  Addresses = {1, 2}
  InitKey = FALSE
INVARIANTS BlockedBusQuiet CycleUndisturbed
PROPERTIES WriteAddressStable BlockEnds
