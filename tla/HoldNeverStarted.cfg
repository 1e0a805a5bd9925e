CONSTANTS
    Files = {f1}
    None = None
    Observations = {"open", "other"}
    Trigger = 1
    HoldTicks = 2
    ResetGap = 2
    MaxTime = 5
    PatientUser = TRUE
    FinishMayFail = FALSE
SPECIFICATION SteadySpec
INVARIANT StartIsKnown
