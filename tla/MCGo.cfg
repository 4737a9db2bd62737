SPECIFICATION goSpec
CONSTANTS
  Programs = {"wm", "rpc", "file", "sema", "net", "poller", "sh", "edit", "tls", "ssh", "web", "files",
              "editors", "viewer", "calc", "git", "sock", "http", "dns", "ping", "rss",
              "settings", "term", "top"}
\* TabWm
  Windows = {1, 2, 3}
  MaxTabs = 3
  NavHistMax = 2
  NavPaths = {"p", "q"}
  NotifyMax = 2
  NotifyTicks = 2
  ScanLen = 9
  PaneMin = 2
  SashWidth = 2
  HostTicks = 2
  ChordHold = 1
  Catalog <- MCCatalog
  filterMax = 2
  SashReleases = {8}
  DeskScripts <- MCDeskScripts
\* WmRpc
  Callers = {1, 2}
  MaxCalls = 2
  RingSlots = 2
  WaitTicks = 1
  ScanAttempts = 2
  SeqSpace = 3
  MaxFaults = 1
  MaxForeign = 1
  MaxTargets = 1
\* FileShadow
  FileBytes = {1, 2}
  FileContents <- MCFileContents
  OldContents <- MCOldContents
  virShadowMax = 2
  virIOChunkMax = 2
  MaxPos = 3
  DevMax = 2
  DirRowsMax = 2
  DirSizes = {0, 1, 2, 3}
\* GoRuntime
  Wakers = {w1, w2}
  Fds = {1, 2}
  MaxEntries = 1
  MaxBreaks = 2
  MaxWaits = 3
  WakesEach = 2
\* Shell
  TypedLines <- MCTypedLines
  StartupLines <- MCStartupLines
  Share <- MCShare
  Images <- MCImages
  Lingering = {"slow"}
  Pids = {1,2}
  MaxTyped = 2
  MaxSpawns = 1
  maxJobs = 2
  funcMax = 3
  funcCmdsMax = 2
  chainMax = 4
  forWordMax = 2
  caseArmMax = 2
  bodyCmdsMax = 3
  runDepthMax = 4
  sourceDepthMax = 2
  whileIterMax = 3
  MaxPipe = 1
  MaxRedirect = 2
\* LineEdit
  MaxBoots = 1
  MaxSubmits = 3
  historyMax = 2
  maxSearchQuery = 2
  menuRowsPerPage = 1
  menuColumns = 2
  Candidates <- MCCandidates
  EdScripts <- MCEdScripts
\* TlsClient
  TlsServers <- MCTlsServers
  RootsDER <- MCRootsDER
  tlsHost <- MCtlsHost
  tlsNow = 2
  trustStoreMax = 2
  maxIntermediates = 2
  maxPath = 4
  maxGeneralNames = 2
  HsBufMax = 3
  StashCap = 1
  MaxTlsSends = 8
  MaxTlsFaults = 1
  MaxAppBytes = 2
  MaxTlsWrites = 1
  MaxInFlight = 2
\* Ssh
  SshConfigs <- MCSshConfigs
  SegMax = 2
  BigPackets = {"KexInit", "ECDHReply"}
\* Browser
  WebInputs <- MCWebInputs
  WebHrefs <- MCWebHrefs
  WebReplies <- MCWebReplies
  ShareFiles <- MCShareFiles
  IPHosts = {"ip"}
  maxRedirects = 2
  WebCap = 3
  MaxWebEvents = 2
\* Files
  FmNames = {40, 60}
  FmDisks <- MCFmDisks
  BodySize <- MCBodySize
  MagicOf <- MCMagicOf
  ExtOf <- MCExtOf
  TextBodies = {"l"}
  MaxDirEntries = 2
  maxPasteBytes = 3
  PathDepth = 2
  BodyRows = 2
  MaxFmKeys = 6
\* Editors
  DocBodies <- MCDocBodies
  DocKeys <- MCDocKeys
  maxBuffer = 4
  barMax = 2
  gotoDigitsMax = 1
  maxLines = 2
  Heights = {1, 2}
  MaxDocKeys = 4
\* Viewer
  VwWord = 4096
  Claims <- MCClaims
  Pictures <- MCPictures
  zoomTable <- MCzoomTable
  zoomDefaultIdx = 3
  winMax <- MCwinMax
  winMin <- MCwinMin
  winPad <- MCwinPad
  bandsH = 3
  fileMax = 2
  FileSizes = {1, 3}
  pixelsMax = 100
  WinSizes <- MCWinSizes
  DragTo <- MCDragTo
  MaxViewKeys = 4
\* Calc
  HalfRange = 16
  CalcDigits = {0, 1, 8}
  CalcOps = {"+", "-", "*", "/"}
  MaxCalcKeys = 6
\* Git
  GitServers <- MCGitServers
  LongNames = {"long"}
  GitRepos <- MCGitRepos
  maxObjSize = 4
  insMax = 1
  maxChunk = 2
  Radix = 4
  MaxVar = 90
  CodecTexts <- MCCodecTexts
  CodeLengths <- MCCodeLengths
  LogLimit = 2
  GitBytes <- MCGitBytes
  GitEdits <- MCGitEdits
  MaxGitRuns = 2
  MaxGitSteps = 3
\* Socket and NetTools
  Dialers = {1, 2}
  maxRecvPolls = 1
  MaxRx = 1
  CommandLines <- MCCommandLines
  HttpResponses <- MCHttpResponses
  PinnedFiles <- MCPinnedFiles
  headerLimit = 4
  readChunk = 2
  maxRequestBytes = 3
  MaxNetBytes = 3
  HostNames = {"a", "b"}
  MaxQueries = 2
  MaxTicks = 2
  DnsPolls = 2
  PingCount = 3
  PingPolls = 2
\* Rss
  Urls = {"sa", "sb", "hc"}
  Secure = {"sa", "sb"}
  Sites <- MCSites
  OpmlFiles <- MCOpmlFiles
  maxFeedRedirects = 1
  MaxFeeds = 2
  MaxArticles = 2
  MaxSubs = 3
  MaxKeys = 3
  MaxSessions = 2
\* Settings
  SetFiles <- MCSetFiles
  SetInputs <- MCSetInputs
  SetOutside <- MCSetOutside
  KnownKeys <- MCKnownKeys
  PaletteKeys <- MCPaletteKeys
  FontKeys <- MCFontKeys
  Trimmed <- MCTrimmed
  ValLen <- MCValLen
  Colours = {"00ff00", "ffffff"}
  MaxSettings = 6
  MaxVal = 3
  MaxBody = 10
  MaxPanelKeys = 3
  MaxPanels = 2
\* Term
  TermScripts <- MCTermScripts
  TermStartups <- MCTermStartups
  TermSettings <- MCTermSettings
  TermRead = 4
\* Top
  TopRegistries <- MCTopRegistries
  TopNames = {2}
  TopSelf = 3
  Seats = {1}
  TopKeys = 3
  TopChanges = 2
  MaxCount = 1
INVARIANTS
  DeskCoherent
  AckMatches
  DirComplete
  WakeupsArrive
  ShellSound
  LineEditorKeeps
  TlsAuthentic
  SshKeeps
  BrowserKeeps
  FilesSafe
  CalcSound
  OneSocket
  LocalKeeps
  GitKeeps
  NetToolsKeep
  RssKeeps
PROPERTIES
  FocusStays
  ImplementsPosFile
  PollWakes
CHECK_DEADLOCK FALSE
