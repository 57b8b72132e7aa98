CONSTANTS
    Order <- McOrder
    Volume = "volume"
    Nginx = "nginx"
    NoSnapshot = NoSnapshot
    MaxDegraded = 1
    MaxChanges = 3
    MaxCrashes = 1
SPECIFICATION FairSpec
INVARIANTS WatchTypeOK StaleHealthExplained
PROPERTIES EventuallyAccurate
