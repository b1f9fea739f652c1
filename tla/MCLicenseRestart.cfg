\* Two executions after each other with one process id, on one licence;
\* the server crashes once and one answer comes late.
SPECIFICATION FairSpec
CONSTANTS
  a = a
  b = b
  Proc <- MCProc
  PidOf <- MCSamePid
  MaxUsers = 1
  QueueCap = 3
  MaxCrashes = 1
  InboxCap = 3
  MaxLate = 1
PROPERTIES
  LostTicketNoticed
  QuitExits
  DeadTicketReclaimed
  RequestAnswered
