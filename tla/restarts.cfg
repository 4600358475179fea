\* Two devices and two applications, any of them killed at any point, in each regime:
\* one pair after the other, a device started again under its application, and the
\* commands of README.md given twice.
SPECIFICATION FairSpec
CONSTANTS
    DevicesNb = 2
    DriversNb = 2
    Calls     = 2
    Regimes   = {"clean", "device", "script"}
    Crashes   = TRUE
INVARIANTS TypeOK NamesLead RepliesOwnOrOrphaned FreedTwiceOnlyBeside AtMostOnce
PROPERTIES OpensComplete CallReturns
\* Everything may be over, or blocked in an open nobody answers.
CHECK_DEADLOCK FALSE
