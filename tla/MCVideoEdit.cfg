CONSTANTS
    Duration = 2
    MinSpace = 1
    MaxSpans = 2
    MaxActive = 2
    Drags <- MCDrags
SPECIFICATION Spec
INVARIANTS TypeOK EditorSafe PlayResumesAll SliderWindow
PROPERTY PauseStopsAll
