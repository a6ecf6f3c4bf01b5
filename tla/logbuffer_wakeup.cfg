\* Two subscribers share the one token: one of them can miss a line.
SPECIFICATION FairSpec
CONSTANTS
  Lines <- StreamLabels
  Subscribers = {s1, s2}
  ChanCap = 1
  MaxLines = 1
PROPERTIES
  EveryLineReachesEverySubscriber
