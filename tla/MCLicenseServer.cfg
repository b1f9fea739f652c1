\* One datagram in the socket's buffer, one being handled, one crash.
SPECIFICATION ServerSpec
CONSTANTS
  a = a
  b = b
  c = c
  Proc <- MCProc
  PidOf <- MCPidOf
  MaxUsers = 2
  QueueCap = 1
  MaxCrashes = 1
INVARIANTS
  TypeOK
  ServerInv
  ResponseStillTrue
PROPERTIES
  LiveTicketKept
  ImplementsPool
