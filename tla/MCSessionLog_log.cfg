\* Two messages, two imports, two crashes or failed writes.
CONSTANTS
  MaxSaid = 2
  MaxSyncs = 2
  MaxFaults = 2
SPECIFICATION Spec
INVARIANTS
  BlocksNameTheirRow
  StoredOnce
  SyncedIsRecorded
CHECK_DEADLOCK FALSE
