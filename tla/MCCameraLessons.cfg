CONSTANTS
    Files = {f1, f2}
    None = None
    Observations = {"none", "partial", "open"}
    Trigger = 1
    HoldTicks = 1
    ResetGap = 1
    MaxTime = 3
    PatientUser = TRUE
    FinishMayFail = FALSE
SPECIFICATION FairSpec
INVARIANTS CatalogueNamesMovies EditorHasMovie SpansWithinLesson DurationCoversMovie
PROPERTIES CatalogueKeeps LessonSaved ImplementsLibrary
