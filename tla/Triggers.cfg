SPECIFICATION FairSpec
CONSTANTS
  Order <- ThreeTasks
  Direction <- Directions
  Root <- Roots
  Dirs <- RootAndSub
  EventCap = 1
  Starts <- FewOfEach
INVARIANT TableAgrees
PROPERTIES ChangeIsSeen WatchesReleased
