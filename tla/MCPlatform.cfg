CONSTANTS
  Flow = {main, api}
  MaxCommands = 4
  HeaderSize = 2
  Room = 3
  PktRoom = 1
  ReplySizes = {1, 3, 4}
  PayloadSizes = {0, 2}
  None = None
  Object = {o1, o2, o3}
  Sizes = {0, 1, 4, 12, 56, 60}
  Products <- SmallProducts
  SizeMod = 64
  Limit = 36
  Null = Null
  Char = {ca, cb}
  NUL = NUL
  Garbage = Garbage
  Capacity = 3
  MaxSource = 3
  Letters = {ca}
  Delim = {space, tab}
  MaxText = 4
  Printable = {ca, cb}
  Backspaces = {bs}
  CR = CR
  LF = LF
  Other = Other
  BufferSizes = {0, 1, 2, 3}
  MaxKeys = 4
  IntBits = 6
  LongBits = 9
  Rooms = {0, 1, 3, 8}
  Names <- LongAndSmallNames
  Dot = 46
  QueryMax = 84
  Answers <- SmallAnswers
  OptionLists <- SmallLists
  Tags = {1, 53}
  Requests <- SmallRequests
  Zero <- NoAddress
  Blocks <- SmallBlocks

SPECIFICATION MCSpec
SYMMETRY Objects
INVARIANT Typed
INVARIANT ReplyIsComing
INVARIANT InStep
INVARIANT BlocksTile
INVARIANT FreeOrHeld
INVARIANT ContentsKept
INVARIANT AllFreedIsOneBlock
INVARIANT LongestPrefix
INVARIANT TokensAreFields
INVARIANT FormatsAgree
INVARIANT LineIsTyped
INVARIANT FindsTheRecord
INVARIANT WrittenIsRead

\* After the last command of the bound nothing is left to do.
CHECK_DEADLOCK FALSE
