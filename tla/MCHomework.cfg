\* Two clients with two exchanges each and one address besides the fixed one;
\* three stations; packets up to 80 bytes on paths whose links carry nothing,
\* too little, one unit, and two units with and without a rest; two
\* destinations with costs below, at and above infinity; up to four routers and
\* four roads, loops, parallel roads and roads of no length among them, and
\* paths longer than INF; two hosts with a server or none, and a packet of
\* another program; messages in buffers that hold nothing, a part and all, with
\* an index that does not fit its two digits.
\* The programs with threads have their own numbers: three stations with two
\* frames each; five packets with three tries; ten packets and windows of four.
SPECIFICATION HomeworkSpec
CONSTANTS
  c1 = c1
  c2 = c2
  Client <- MCClient
  Address = {1, 2}
  FixedIp = 2
  MaxXid = 2
  s1 = s1
  s2 = s2
  s3 = s3
  Station <- MCStation
  BC = BC
  BROADCAST = BC
  MaxLength = 80
  Mtu = {20, 27, 28, 36, 43}
  d1 = d1
  d2 = d2
  Dest <- MCDest
  Neighbour <- MCNeighbour
  RIP_INFINITY = 4
  RawCost <- MCRawCost
  Weight = {0, 2}
  INF = 5
  MaxNodes = 4
  MaxRoads = 4
  h1 = h1
  h2 = h2
  Host = {h1, h2}
  Here = h1
  MaxForeign = 1
  Source <- MCSource
  Capacity = {2, 12, 21}
  IndexBase = 2
  MaxBits = 5
  Quad <- MCQuad
  ByteBase = 2
  BUILDING_FLOORS = 3
  CsmaStation <- MCStation
  FrameCount = 2
  PacketCount = 5
  MaxRetries = 3
  SendWindowSize = 4
  RecvWindowSize = 4
  TotalPackets = 10
INVARIANTS
  ProgramsTypeOK
  FixedUnlessRemembered
  ReachesUnlessMoved
  FragmentsReassemble
  RoutesUpdated
  FrontierHolds
  ShortestPathPrinted
  DemultiplexRestores
  ToolsAgree
  CsmaTypeOK
  OneSender
  NoLostWakeup
  TriedOnce
  StopWaitTypeOK
  WindowOfOne
  WindowTypeOK
  WindowsInStep
PROPERTIES
  PathFound
  PingSettles
  StationsGetThrough
  BlockedForGood
  StopWaitDeliversInOrder
  SenderComesToEnd
  ReceiverEnds
  WindowDeliversInOrder
  WindowsEnd
