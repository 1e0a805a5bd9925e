CONSTANTS
    Files = {f1}
    None = None
    Observations = {"none", "open"}
    Trigger = 1
    HoldTicks = 1
    ResetGap = 2
    MaxTime = 4
    PatientUser = TRUE
    FinishMayFail = FALSE
SPECIFICATION MCSpec
PROPERTY ResetAfterGap
