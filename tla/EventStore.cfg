SPECIFICATION Spec
CONSTANTS
  Null = Null
  Who = {alice, bob}
  Users = {u}
  Frac = 2
  Retention = 1
  MaxSec = 1
  MaxEvents = 2
SYMMETRY Symmetry
INVARIANTS
  TypeOK
  MigratedRowsHaveLastSeen
  NoForeignOpen
  LastSeenToTheSecond
PROPERTIES
  ClosedRowsFrozen
  IdsNotReused
  PruneSparesRecent
