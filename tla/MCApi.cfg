CONSTANTS
  Caller = {f1, f2}
  Station = {y, far}
  MaxCalls = 1
  MaxCount = 2
  Id <- OwnIds
  NoId = NoId
  ZeroIp = zero
  MaxInvocations = 3
  OutSizes = {20, 1600}
  CardStatus = {0, 5}
  None = None

SPECIFICATION MCSpec
INVARIANT Typed
INVARIANT CountedWasAnswered
INVARIANT MatchedIsCounted
INVARIANT ReplyIsOwn
PROPERTY PingEnds

\* After the last invocation of the bound nothing is left to do.
CHECK_DEADLOCK FALSE
