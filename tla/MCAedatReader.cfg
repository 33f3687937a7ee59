CONSTANTS
  FrameSize = 4
  HeaderLength = 4
  BufferSizes = {4, 9, 11}
  MinBuffer = 8
  MaxLines = 4
  MaxEvents = 6
  MaxTime = 3
  MaxFrames = 2
  Files <- MCFiles
SPECIFICATION FairParserSpec
INVARIANTS
  PacketsReadAreWritten
  OnlyAShortTailIsLost
