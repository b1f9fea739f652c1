\* Two hosts, each with a server or without; no other program sends anything.
SPECIFICATION PingSpec
CONSTANTS
  h1 = h1
  h2 = h2
  Host = {h1, h2}
  Here = h1
  MaxForeign = 0
INVARIANT
  ReplyAwaited
