CONSTANTS
    Starts = {0, 719, 1380}
    Naps = {150}
    Formatters = {{}, {0}}
    MaxNow = 1860
SPECIFICATION Spec
INVARIANTS
    TypeOK
    ClockReadsBack
    TariffWithinADay
    NeverOvercharged
    LabelsAgree
PROPERTY FrozenAfterStop
CHECK_DEADLOCK FALSE
