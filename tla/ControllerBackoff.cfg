\* Backoff over repeated session rejections.
CONSTANTS
    t1 = t1
    t2 = t2
    Tasks = {t1}
    Base = 1
    Max = 4
    AttemptCap = 3
    MaxCooldown = 4
    MaxDrops = 3
    Backoff <- MCBackoff
SPECIFICATION HSpec
PROPERTIES
    BackoffGrowsWithDrops
CHECK_DEADLOCK TRUE
