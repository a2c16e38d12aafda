SPECIFICATION FairSpec
CONSTANTS
  Null = Null
  carol = carol
  nvr = nvr
  proxy = proxy
  lan = lan
  wan = wan
  Nobody = Nobody
  TrustedPeers = {proxy}
  Rule <- MCRule
  MaxBatchItems = 2
  Mp4 = {"clip.mp4", "a.mp4", "b.mp4"}
  Dated = {"2026-08", "2026-09", "front-door"}
  Names = {"vod", "birdseye", "hall", "front-door", "api", "custom", "clip", "start", "end", "recordings"}
  Tokens = {"1", "2", "start"}
  Callers <- MCCallers
  Procs = {p1, p2}
  People = {carol}
  Requests <- Mixed
  Budget <- Dying
  Window = 1
  Lease = 1
  BatchItems = 2
  Slow = 1
  MaxClock = 4
  Horizon = 1
INVARIANTS OwnedWhileOpen LiveIsServed GatewayContract
PROPERTIES CoversRequests EveryAccessEnds
