SPECIFICATION MCSpec
CONSTANTS
  ChannelCount = 1
  h1 = h1
  Handlers = {h1}
  MaxQueue = 1
  Strings <- OneString
  Contents <- StateOrDial
  Unspoken <- Unknown
INVARIANTS
  NothingOlder
PROPERTIES
  MirrorPromise
  Converges
  LossShown
