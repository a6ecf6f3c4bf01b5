\* Two subscribers of one buffer, a channel of one line, two writes.
SPECIFICATION FairSpec
CONSTANTS
  Lines <- StreamLabels
  Subscribers = {s1, s2}
  ChanCap = 1
  MaxLines = 2
INVARIANTS
  TypeOK
  InOrder
  CompleteAtEnd
  WakeupReachesSomeone
PROPERTIES
  CloseEndsStreams
  LoneSubscriberGetsEveryLine
  ImplementsStream
