SPECIFICATION Spec
CONSTANTS
  Null = Null
  Unknown = Unknown
  Services = {}
  Window = 1
  cam = cam
  lan = lan
  chrome = chrome
  carol = carol
  browser = browser
  Keys = {k1}
  Camera <- MCCamera
  Descs <- OneDesc
  Classified <- MCClassified
  Signallers <- MCSignallers
  Generic = {browser}
  Interval = 2
  MaxClock = 1
  Skew = 0
  Inventories <- Unwatched
  Budget <- Anonymous
INVARIANTS
  PersonReplacesGeneric
