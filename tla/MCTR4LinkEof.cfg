SPECIFICATION Spec
CONSTANTS
  ChannelCount = 2
  Strings <- OneString
  Contents <- OneContent
  h1 = h1
  Handlers = {h1}
  MaxQueue = 3
PROPERTIES
  EofDisconnects
