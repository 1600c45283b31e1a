CONSTANTS
  ch1 = ch1
  ch2 = ch2
  k1 = k1
  k2 = k2
  None = None
  Channels <- MCChannels
  Clients <- MCClients
  MaxPub = 2
  MaxSub <- MCMaxSub
  Leaving <- MCLeaving
  MemQueueSize = 1
  Large <- MCLarge
SPECIFICATION Spec
INVARIANT OneCopyPerChannel
INVARIANT NoChannelForgotten
INVARIANT LostOnlyWithConnection
PROPERTY Drains
PROPERTY SubAnswered
CHECK_DEADLOCK FALSE
