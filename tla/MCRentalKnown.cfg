CONSTANTS
    Devices = {d1}
    Times = {t1}
    None = None
    Codes = {"1234", "4321"}
    MaxDepth = 5
    MaxPending = 1
SPECIFICATION Spec
INVARIANT PastLoginMeansKnown
