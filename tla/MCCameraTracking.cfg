CONSTANTS
    Files = {f1}
    None = None
    Observations = {"error", "none", "partial", "open", "side", "other"}
    Trigger = 1
    HoldTicks = 1
    ResetGap = 2
    MaxTime = 5
    PatientUser = FALSE
    FinishMayFail = TRUE
SPECIFICATION Spec
INVARIANTS TypeOK FlagsNameWriter HoldXorDetect SpansOrdered
