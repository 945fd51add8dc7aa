CONSTANTS
  Pages = {p1}
  Masks = {0, 1}
  MaxFrames = 5
  MaxAudio = 0
  MaxConnects = 1
  MaxOpens = 1
  Null = Null
SPECIFICATION FeedSpec
CHECK_DEADLOCK FALSE
INVARIANT EndsOnTheNewest
