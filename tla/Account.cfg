CONSTANTS
    Accounts = {a1, a2}
    None = None
    MaxDepth = 5
    MaxCalls = 2
SPECIFICATION Spec
INVARIANTS
    TypeOK
    LoginKeepsItsPage
PROPERTIES
    WelcomeMeansMailed
    AnnouncedMeansStored
    LoginEnds
