\* Two clients with two exchanges each and one address besides the fixed one.
SPECIFICATION DhcpSpec
CONSTANTS
  c1 = c1
  c2 = c2
  Client = {c1, c2}
  Address = {1, 2}
  FixedIp = 2
  MaxXid = 2
INVARIANT
  BoundToFixedIp
