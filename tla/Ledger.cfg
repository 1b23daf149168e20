SPECIFICATION Spec
CONSTANTS
    None = None
    Client = {o1}
    Deals <- MCDeals
    Bars <- MCBars
    Core = {1}
    Days <- MCDays
    Policy <- MCPolicy
    Today = 10
    BATCH = 2
    Builds = {1}
    Left <- MCLeft
    MaxLives = 2
    MaxWrites = 4
    MaxLooks = 1

INVARIANTS LiveIsManaged ScreenAgrees SweepAsAnnounced
PROPERTIES TerminalStays
CHECK_DEADLOCK FALSE
