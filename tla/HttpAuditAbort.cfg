SPECIFICATION Spec
CONSTANTS
  Null = Null
  carol = carol
  nvr = nvr
  proxy = proxy
  lan = lan
  wan = wan
  Nobody = Nobody
  TrustedPeers = {proxy}
  Rule <- MCRule
  MaxBatchItems = 2
  Mp4 = {"clip.mp4", "a.mp4", "b.mp4"}
  Dated = {"2026-08", "2026-09", "front-door"}
  Names = {"vod", "birdseye", "hall", "front-door", "api", "custom", "clip", "start", "end", "recordings"}
  Tokens = {"1", "2", "start"}
  Callers <- MCCallers
  Procs = {p1, p2}
  People = {carol}
  Requests <- Lasting
  Budget <- Aborting
  Window = 2
  Lease = 1
  BatchItems = 2
  Slow = 1
  MaxClock = 3
  Horizon = 3
INVARIANT EndedAfterProxying
