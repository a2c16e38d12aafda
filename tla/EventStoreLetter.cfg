SPECIFICATION Spec
CONSTANTS
  Null = Null
  Who = {alice}
  Users = {}
  Frac = 2
  Retention = 1
  MaxSec = 1
  MaxEvents = 1
PROPERTIES
  LastSeenMonotonic
