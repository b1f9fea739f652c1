\* Two programs at once, on one licence; the server crashes once.
SPECIFICATION Spec
CONSTANTS
  a = a
  b = b
  Proc <- MCProc
  PidOf <- MCOwnPid
  MaxUsers = 1
  QueueCap = 3
  MaxCrashes = 1
  InboxCap = 3
  MaxLate = 0
SYMMETRY Interchangeable
PROPERTY
  ByeReleasesOwnTicket
