CONSTANTS
  NodeCount = 2
  p1 = p1
  p2 = p2
  Props = {p1, p2}
  Values = {a, b}
  Messages <- TwoNodes
  MaxWrites = 2
  MaxReadFaults = 1
  MaxSendFaults = 1
  Unset = Unset
SPECIFICATION FairSpec
INVARIANT TypeOK
INVARIANT LatestIsUnderWay
PROPERTY RemoteNeverGoesBack
PROPERTY ConvergesUnlessSendFails
