SPECIFICATION Spec
\* A process that does what is undefined may stop.
CHECK_DEADLOCK FALSE
CONSTANTS
  Services <- CrossServices
  Ports <- CrossPorts
  Endpoint <- CrossEndpoint
  Channel <- ManyChannel
  None = None
  Stops = "early"
  Growth = {2}
  Faults = {"short", "reset"}
INVARIANT InUseKept
INVARIANT DoneMeansEmpty
INVARIANT NoOrphans
