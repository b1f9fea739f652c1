\* Datagrams shorter than, as long as and longer than a packet, at times of
\* one to five bytes; no other tool is called with anything of interest.
SPECIFICATION ToolsSpec
CONSTANTS
  MaxBits = 0
  Quad = {}
  ByteBase = 2
INVARIANT
  NtpReplied
