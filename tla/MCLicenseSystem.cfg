\* Two programs at once, on two licences; no crash, no late answer.
SPECIFICATION Spec
CONSTANTS
  a = a
  b = b
  Proc <- MCProc
  PidOf <- MCOwnPid
  MaxUsers = 2
  QueueCap = 3
  MaxCrashes = 0
  InboxCap = 3
  MaxLate = 0
SYMMETRY Interchangeable
INVARIANTS
  SystemTypeOK
  RunningNeverBlocks
  OneTicketIfOnTime
PROPERTY
  RunningKeepsTicket
