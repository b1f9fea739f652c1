\* PACKET_COUNT = 5 and max_retries = 3, as in the program.
SPECIFICATION StopWaitFairSpec
CONSTANTS
  PacketCount = 5
  MaxRetries = 3
PROPERTY
  BothEnd
