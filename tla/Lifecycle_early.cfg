SPECIFICATION FairSpec
\* AllDown tells the end of the programs from a deadlock.
CHECK_DEADLOCK FALSE
CONSTANTS
  Services <- CrossServices
  Ports <- CrossPorts
  Endpoint <- CrossEndpoint
  Channel <- ManyChannel
  None = None
  Stops = "early"
  Growth <- NoGrowth
  Faults <- NoFaults
PROPERTY AllDown
