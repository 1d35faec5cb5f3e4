CONSTANTS
  c1 = c1
  c2 = c2
  NoCaller = NoCaller
  t1 = t1
  Callers = {c1, c2}
  Tools = {t1}
  l1 = l1
  l2 = l2
  Logins = {l1, l2}
  f1 = f1
  f2 = f2
  Profiles = {f1, f2}
  MaxPolls = 1
  MaxTokens = 2
  Searched = {"windsurf", "codex"}
  Names = {1, 2}
  MaxInputs = 3
  ArgLists <- MCArgLists
  Keys = {"KEY"}
  HeaderNames <- MCHeaderNames
  Base <- MCBase
  ServerNames = {"server", "mcpway"}
  j1 = j1
  j2 = j2
  Jobs = {j1, j2}
  MaxVersion = 2
  v1 = v1
  v2 = v2
  Visits = {v1, v2}
  w1 = w1
  w2 = w2
  Writers = {w1, w2}
  MaxRecords = 3
  MaxShown = 4
  MaxLines = 1
  Lines = 2
  StreamBuffer = 1
  s1 = s1
  s2 = s2
  SessionIds = {s1, s2}
  MaxUpdates = 2
  MaxOwn = 2
  MaxRequests = 3
  MaxFrames = 2
  Channel = 1
  Buffer = 1
SPECIFICATION SideSpec
INVARIANTS
  WelcomeFirst
  AnswerIsOwn
  PendingOwned
  NotFoundIsFresh
  TokenIsOwn
  RegistryIsBest
  MetadataIsLast
  SavedRunsAlike
  LauncherRunsAlike
  MetricsAddUp
  ShownOnce
  SessionsRunLatest
  ChildServedInOrder
  BridgeKeepsOrder
PROPERTIES
  CallsEnd
  CacheStaysWhole
CHECK_DEADLOCK FALSE
