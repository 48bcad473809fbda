CONSTANTS
  b1 = b1  b2 = b2  c1 = c1  c2 = c2  f1 = f1  f2 = f2
  NoToken = NoToken
  MaxDetails = 1
  Purposes = {"replay"}
  Pushes <- TwoPushes
  Channels <- MCChannels
  Flushers <- TwoFlushers

SPECIFICATION Spec
SYMMETRY Symmetry

INVARIANT TypeOK
INVARIANT ChannelAccounting
INVARIANT FlushPrefixIsSnapshot
PROPERTY FlushDeliversCompleted
