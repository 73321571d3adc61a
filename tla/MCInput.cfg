SPECIFICATION Spec
CONSTANTS
    Buttons = {"cross"}
    Hats = {"up"}
    Bound = {"cross", "l2"}
    Toggle = {"cross"}
    HasTap = TRUE
    HasHold = TRUE
    Reports <- SomeReports
    SwallowMode = FALSE
    Options <- SomeOptions
INVARIANTS TypeOK XiFaithful
PROPERTIES NoRefire SoloMeansSolo ClosingPressHidden
