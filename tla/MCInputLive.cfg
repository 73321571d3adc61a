SPECIFICATION FairSpec
CONSTANTS
    Buttons = {"cross"}
    Hats = {"up"}
    Bound = {"cross", "l2"}
    Toggle = {"cross"}
    HasTap = TRUE
    HasHold = TRUE
    Reports <- FewReports
    SwallowMode = FALSE
    Options <- SomeOptions
PROPERTIES LetsGo
