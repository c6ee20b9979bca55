CONSTANTS
    Devices = {d1}
    Times = {t1}
    None = None
    Codes = {"1234", "4321"}
    MaxDepth = 7
    MaxPending = 2
SPECIFICATION FairSpec
PROPERTIES
    StopReachesLanding
    ConfirmReachesStatus
