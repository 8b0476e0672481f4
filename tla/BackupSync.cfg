SPECIFICATION ShipSpec
CONSTANTS
  MaxDumps = 2
INVARIANTS
  ArchiveKept
CHECK_DEADLOCK FALSE
