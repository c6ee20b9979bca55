CONSTANTS
    Starts = {1380}
    Naps = {}
    Formatters = {{}}
    MaxNow = 1560
SPECIFICATION Spec
INVARIANT TariffAlways
CHECK_DEADLOCK FALSE
