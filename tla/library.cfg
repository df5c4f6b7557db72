SPECIFICATION LibrarySpec
CONSTANTS
  Parts = {"diagnostics", "evaluator", "readers", "images", "identities", "laf"}
  Tree <- SomeTree
  Letters = {"a", "b", "d", "e"}
  Items = {"i", "j"}
  MaxOpen = 2
  MaxRead = 2
  MaxWrite = 1
  LabelLength = 4
  Faults = {"log", "refuse", "bad", "slow", "cut"}
  Cuttable = {"Read", "ReadDir", "Write"}
  MaxFaults = 1
  Values = {"mine"}
  Spcs <- SomeSpcs
  MaxCalls = 3
  Paths <- SomePaths
  Datas <- SomeDatas
  Expressions <- SomeExpressions
  Mantissa = 16
  LongRange = 1024
  MaxEvals = 2
  RawAttributes <- SomeRaw
  SaharaAttributes <- SomeSahara
  SectorDigits <- SomeSectors
  IntRange = 64
  MaxPerEntry = 2
  MaxReads = 5
  Word = 64
  MbnHeaders <- SomeMbnHeaders
  GptHeaders = {0, 1, 2, 9}
  FileSizes = {0, 4, 8, 10, 16, 20, 24, 28, 44}
  TableStarts <- SomeStarts
  MbrSize = 4
  GptHeaderSize = 4
  GptEntrySize = 3
  PtxtEntrySize = 4
  PtxtLimit = 4
  Header80 = 8
  Header40 = 4
  MaxHeader = 8
  ImageLast = 31
  HexBase = 4
  DecBase = 3
  MeidHex <- MeidHexDigits
  MeidDec <- MeidDecDigits
  EsnHex <- EsnHexDigits
  EsnDec <- EsnDecDigits
  EsnDigits = 4
  PartRange = 64
  LafCommands = {1}
  LafTexts = {0, 2}
  LafRoom = 4
  LafBacklog = 8
  MaxLafCalls = 3
INVARIANTS TypeOK HandlesMeanFiles ReturnsLeaveNothing ListedDirsClosed ListingIsWhole GotIsWhole ReadPathIsPrefix PutIsWritten NvReadIsPhones EvaluatesRight EntriesAreTheirAttributes RangeNeverPasses SegmentsFollow EntriesAreWhole MeidRoundTrips LafTextIsAnswers
PROPERTIES HandlesRefine
CHECK_DEADLOCK FALSE
