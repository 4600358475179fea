\* The two commands of README.md given twice; nobody is killed.
SPECIFICATION Spec
CONSTANTS
    DevicesNb = 2
    DriversNb = 2
    Calls     = 1
    Regimes   = {"script"}
    Crashes   = FALSE
INVARIANT PipesOpened
\* Everything may be over, or blocked in an open nobody answers.
CHECK_DEADLOCK FALSE
