CONSTANTS
    Devices = {d1, d2}
    Times = {t1}
    None = None
    Codes = {"1234", "4321"}
    MaxDepth = 7
    MaxPending = 2
SPECIFICATION NoKillSpec
INVARIANT FlagTellsRented
