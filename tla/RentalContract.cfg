CONSTANTS
    Devices = {d1, d2}
    Times = {t1, t2}
    None = None
SPECIFICATION Spec
INVARIANT Honoured
