CONSTANTS
  Vocabs <- MCVocabs
  Stops <- MCStops
  MaxTokens = {0, 3}
  Blk = 2
  N = 3
  Zrl = 2
  Smooth = 3
  MaxPixels = 100
  Sizes = {1, 2, 3, 5, 7, 9, 13}
  FrameComps <- MCFrameComps
  Headers <- MCScans
  Intervals = {1}
  ScanFrames <- MCScanFrames
  BandMcus = 2
  MaxScans = 3
  MaxSyms = 1
  MaxLost = 2
  Byte = 2
  Ahead = 6
  MaxBits = 3
  FastBits = 1
  Lits = 2
  LenBase <- MCLenBase
  LenExtra <- MCLenExtra
  DistBase <- MCDistBase
  DistExtra <- MCDistExtra
  FixedLit <- MCFixedLit
  FixedDist <- MCFixedDist
  Shapes <- MCShapes
  MaxLit = 5
  MaxDist = 2
  DataLens = {3, 8}
  OutLens = {0, 4}
  StoredLens = {0, 1, 6}
  PngPixels = 30
  PngSizes <- MCPngSizes
  Formats <- MCFormats
  Tags <- MCTags
  MaxChunks = 4
  Patch = 2
  Merge = 2
  Temporal = 2
  MinSize = 49
  MaxSize = 130
  Ratio = 3
  Sides = {1, 3, 4, 5, 7, 10, 13, 20}
  MaxSextets = 7
SPECIFICATION FrontSpec
INVARIANT NoStopShown
INVARIANT StreamTrue
INVARIANT JpegExact
INVARIANT InflateExact
INVARIANT PixelsPlaced
INVARIANT PayloadExact
PROPERTY StreamEnds
