SPECIFICATION PartsSpec
CONSTANTS
  Parts      = {"headers", "json", "post", "log", "outcome", "request", "snippet", "debug", "objects", "symbols", "printer"}
  MaxChars   = 5
  MaxHeaders = 2
  Bytes      = {0, 8, 9, 10, 12, 13, 31, 32, 34, 65, 92, 127, 128, 195, 255}
  Signed     = {TRUE, FALSE}
  MaxLength  = 2
  Types      = {"type"}
  Causes     = {"cause"}
  Ids        = {"id"}
  PayloadLengths = {"0", "2"}
  Threads    = {t1, t2}
  Lengths    = {510, 511, 512}
  CanFail    = TRUE
  LogLevel   = 1
  MaxLines   = 2
  Objects    = {"out", "tmp", "next"}
  Values     = {"v1", "v2"}
  Width      = 5
  TicksPerMs = 3
  Texts      = {0, 1, 5, 6, 10, 11, 16, 22, 30, 31, 32, 40}
  Paths          = {"a", "b"}
  SourcePrefixes <- MCPrefixes
  Disks          <- MCDisks
  Contexts       = {5, 7}
  MaxLine        = 8
  UINT_MAX       = 255
  Programs       <- MCPrograms
  Addresses      = {0, 1, 2}
  MaxDies        = 5
  Images         <- MCImages
  Backtraces     <- MCBacktraces
  SnippetOf      <- MCSnippetOf
  Mapped         <- MCMapped
  Executable     = "exe"
  Inodes         = {1, 2, 3}
  MaxChanges     = 2
INVARIANTS
  LookupIsFirstSaid
  RoundTrip
  FramedByLength
  SaysWhatHandlerSaid
  WritesFit
  PrintedWhole
  NoLeak
  OneMemberAlive
  RequestIsTheAnswer
  DeadlineIsHonest
  ShowsItsLine
  SnippetIsOneRun
  InlinersAreAround
  UnitHasTheFunction
  SymbolsAreTheProcess
  LastResortWorks
  SymbolIsTheAddress
  ReadsAsTheCalls
  ColorsEnd
PROPERTY OutcomeIsTagged
CHECK_DEADLOCK FALSE
