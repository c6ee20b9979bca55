CONSTANTS
    Devices = {d1}
    Times = {t1, t2}
    None = None
    Codes = {"1234", "4321"}
    MaxDepth = 9
    MaxPending = 2
SPECIFICATION Spec
VIEW MailView
SYMMETRY Symmetry
INVARIANTS
    TypeOK
    StartKnownAtUnlock
    OnlyTopTicks
    RideNeedsCodeAndCard
    BilledFromRecordedStart
    LiveRentalPublished
    RentalInv
    StopNeverLost
PROPERTIES
    ImplementsContract
    ConfirmNeverLost
