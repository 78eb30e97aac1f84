SPECIFICATION MCSpec
CONSTANTS
  MaxEvents = 4
  MaxBuffered = 3
  Items = {a, b}
  Calls <- MCCalls
  MaxClicks = 2
  NoItem = NoItem
  Changes = {c, d}
  Tokens = {1, 2, 3, 4, 5, 6}
  NoToken = 0
INVARIANTS StreamSound PagesTell
PROPERTIES InOrder FeedsDeliver
