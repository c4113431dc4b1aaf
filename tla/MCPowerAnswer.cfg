\* systemd may stop the service before it has answered.
SPECIFICATION Spec
CONSTANTS
  Clients = {c1}
  NoClient = NoClient
  MaxCrashes = 0
PROPERTIES AnsweredBeforeStopped
CHECK_DEADLOCK FALSE
