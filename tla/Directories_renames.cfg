CONSTANTS
    c1 = c1
    c2 = c2
    LongPaths <- MCLongPaths
    LongComponents = {}
    MaxComponents = {}
    Root = 2
    Nodes <- MCNodes
    Movers <- MCMovers
    NameOrder <- MCNameOrder
    Immutable = {5}
    Held <- MCHeld
    OpenRequests <- MCOpenRequests
    CloneRequests <- MCCloneRequests
    RenameSources <- MCRenameSources
    RenameTargets <- MCRenameTargets
    UnlinkNames <- MCUnlinkNames
    Listers = {c2}
    ServerDirs = {2}
    ServerNames <- MCServerNames
    Rooms = {0, 1}
    Tree <- MCTree
    Files = {4}
    First = c1
    FirstRights <- MCFirstRights
SPECIFICATION Spec
INVARIANTS RightsDoNotGrow InOnePlace WatchersNotMisled ListingMissesNothing
PROPERTIES RenameLosesNothing RenamesEnd
CHECK_DEADLOCK FALSE
