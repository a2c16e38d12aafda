SPECIFICATION ViewSpec
CONSTANTS
  Null = Null
  Unknown = Unknown
  Services = {}
  Window = 1
  cam = cam
  lan = lan
  chrome = chrome
  carol = carol
  browser = browser
  Keys = {k1,k2}
  Camera <- MCCamera
  Descs <- OneDesc
  Classified <- MCClassified
  Signallers <- MCSignallers
  Generic = {browser}
  Interval = 2
  MaxClock = 1
  Skew = 1
  Inventories <- Unwatched
  Budget <- Signals
  Limit = 2
INVARIANTS MemoryInStep NoOrphanRows PageIsARead
PROPERTIES AttributionOnlyRises EveryIntervalEnds
