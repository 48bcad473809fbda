CONSTANTS
  b1 = b1  b2 = b2  c1 = c1  c2 = c2  f1 = f1  f2 = f2
  NoToken = NoToken
  MaxDetails = 2
  Purposes = {"migration", "map_remote", "replay"}
  Pushes <- TwoPushes
  Channels <- MCChannels
  Flushers <- NoFlushers

SPECIFICATION Spec

INVARIANT ChannelAccounting
PROPERTY ImplementsDeferredBatches
