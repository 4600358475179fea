\* The commands of README.md again, the first application killed during its call.
SPECIFICATION FairSpec
CONSTANTS
    DevicesNb = 1
    DriversNb = 2
    Calls     = 2
    Regimes   = {"script"}
    Crashes   = TRUE
INVARIANTS RepliesOwn
\* Everything may be over, or blocked in an open nobody answers.
CHECK_DEADLOCK FALSE
