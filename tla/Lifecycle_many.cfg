SPECIFICATION FairSpec
CONSTANTS
  Services <- CrossServices
  Ports <- CrossPorts
  Endpoint <- SharedEndpoint
  Channel <- SharedChannel
  None = None
  Stops = "open"
  Growth <- NoGrowth
  Faults <- NoFaults
INVARIANT TypeOK
INVARIANT ServedWhileOpen
INVARIANT NeverTerminated
PROPERTY ImplementsRendezvous
PROPERTY AllDown
