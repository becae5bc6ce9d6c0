SPECIFICATION FairSpec
CONSTANTS
    MaxDrops = 2
    MaxChanges = 2
INVARIANTS TypeOK ReadyMeansAnnounced FarewellIsLast NothingOutlivesConnection
PROPERTIES CatalogCatchesUp StopEnds
CHECK_DEADLOCK FALSE
