SPECIFICATION SpoolSpec
CONSTANTS
  Length = 2
  RotateFrames = 1
  BatchEvents = 2
  MaxMishaps = 2
  Settings <- MCSettings
INVARIANTS NothingIsLost
PROPERTIES OutboxUntilDamaged EveryRecordIsDelivered
CHECK_DEADLOCK FALSE
