\* Two programs at once, on two licences; one answer comes late.
SPECIFICATION Spec
CONSTANTS
  a = a
  b = b
  Proc <- MCProc
  PidOf <- MCOwnPid
  MaxUsers = 2
  QueueCap = 3
  MaxCrashes = 0
  InboxCap = 3
  MaxLate = 1
SYMMETRY Interchangeable
INVARIANT
  OneTicketPerUser
