CONSTANTS
    Places = {p1, p2}
    Origin = Origin
    None = None
    Unknown = Unknown
    MaxDepth = 6
    MaxQueue = 2
    MaxTouches = 2
SPECIFICATION Spec
INVARIANTS
    TypeOK
    MarkersFollow
    NewsNeverLost
    MenuNeverForgotten
PROPERTIES
    LandingAfterClosing
    MapFollowsUmbrella
    MenuClosesToLanding
