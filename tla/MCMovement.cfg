SPECIFICATION Spec
CONSTANTS
    p1 = p1
    p2 = p2
    Players = {p1, p2}
    Maps <- MCMaps
    Width <- MCWidth
    Height <- MCHeight
    MaxMove <- MCMaxMove
    Saved <- MCSaved
    Portals <- MCPortals
    Asked <- MCAsked
    Nowhere = Nowhere
CHECK_DEADLOCK FALSE
INVARIANTS
    TypeOK
    NoGhostTile
    WalkExclusion
    MoveNeverHalfDone
    PortalDepth
PROPERTIES
    NoTeleport
    RequestEnds
    ImplementsBoard
