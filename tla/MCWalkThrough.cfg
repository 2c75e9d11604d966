SPECIFICATION Spec
CONSTANTS
    p1 = p1
    p2 = p2
    Players = {p1, p2}
    Maps <- MCLane
    Width <- MCLaneWidth
    Height <- MCLaneHeight
    MaxMove <- MCMaxMove
    Saved <- MCLaneSaved
    Portals <- MCLanePortals
    Asked <- MCLaneAsked
    Nowhere = Nowhere
CHECK_DEADLOCK FALSE
PROPERTY
    NoOverlap
