SPECIFICATION MCSpec
CONSTANTS
  Datagrams <- MCDatagrams
  Addresses = {"a", "b"}
  NumLeds = 120
  RxSlots = 2
  TxSlots = 1
  MaxArrivals = 3
  Base = 2
  BufLen = 5
  Widths = {1, 2, 4}
  Arrays = {0, 1, 3}
  MaxItems = 4
  StripLeds = 2
  ResetLen = 1
  Levels = {1, 178}
CHECK_DEADLOCK FALSE
INVARIANTS
  PartsTypeOK
  PanicsOnlyOnShortFrame
  FrameWithinDatagram
  ReplyUnderstood
  Layout
  ReadBack
  ResetKept
PROPERTIES
  PollAnswered
  FrameShown
  ImplementsStrip
