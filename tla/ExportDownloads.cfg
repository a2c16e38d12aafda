SPECIFICATION DownloadSpec
CONSTANTS
  Null = Null
  carol = carol
  service = service
  Downloader = service
  Procs = {p1, p2}
  Files = {x1}
  People = {carol}
  Requests <- Rolled
  Budget <- Ranges
  Window = 2
  Lease = 1
  BatchItems = 2
  Slow = 1
  MaxClock = 5
  Horizon = 2
  Ttl = 2
  MaxRenamings = 1
SYMMETRY Workers
INVARIANTS NamesAreFresh RowsPerDownload OneInterval OfferedOnce
PROPERTY RollingEnd
