SPECIFICATION FairSpec
CONSTANTS
  s1 = s1
  s2 = s2
  Streams <- TwoStreams
  Api = Api
  Poll = Poll
  NoStream = NoStream
  MaxQbufs = 1
  MaxPipe = 1
INVARIANTS
  NoLostUpdate
  SyncRemoved
  UnjoinedIdle
PROPERTIES
  CallersServed
