\* A failing systemctl leaves a service nobody can reach.
SPECIFICATION Spec
CONSTANTS
  Clients = {c1}
  NoClient = NoClient
  MaxCrashes = 0
INVARIANTS ServesUntilExit
CHECK_DEADLOCK FALSE
