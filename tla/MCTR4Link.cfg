SPECIFICATION LiveSpec
CONSTANTS
  ChannelCount = 2
  Strings <- OneString
  Contents <- OneContent
  h1 = h1
  Handlers = {h1}
  MaxQueue = 1
INVARIANTS
  CurrentConnectionOnly
  WritesExcluded
  SocketMatches
PROPERTIES
  Reconnects
  StopsUnlessLinked
  HandlersServed
