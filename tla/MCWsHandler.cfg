SPECIFICATION Spec
CONSTANTS
  ChannelCount = 2
  PingTurns = 2
  States <- SomeStates
  Numbers <- SomeNumbers
  Masks = {1, 3}
  MaxChanges = 1
  MaxTime = 3
INVARIANTS
  ViewFollowsLast
  NoEntryStarves
  KeepsAlive
  OnlineNumbering
PROPERTIES
  EndsByCloseOnly
