SPECIFICATION Spec
CONSTANTS
  Null = Null
  Unknown = Unknown
  Services = {}
  Window = 1
  cam = cam
  lan = lan
  chrome = chrome
  carol = carol
  browser = browser
  Keys = {k1}
  Camera <- MCCamera
  Descs <- MCDescs
  Classified <- MCClassified
  Signallers = {}
  Generic = {browser}
  Interval = 2
  MaxClock = 3
  Skew = 0
  Inventories <- Watched
  Budget <- Gaps
PROPERTIES TwoMissesToEnd KeepsAuditLog
