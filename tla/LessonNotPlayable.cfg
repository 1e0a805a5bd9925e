CONSTANTS
    Files = {f1, f2}
    None = None
    Observations = {"none"}
    Trigger = 1
    HoldTicks = 1
    ResetGap = 2
    MaxTime = 3
    PatientUser = FALSE
    FinishMayFail = FALSE
SPECIFICATION Spec
INVARIANT CatalogueNamesMovies
