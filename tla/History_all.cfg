\* Two devices that compete for one place in the ranking, four events; the steps
\* make gaps below, at and above the TTL.
CONSTANTS
    d1 = d1  d2 = d2  a1 = a1  a2 = a2  b1 = b1
    Device = {d1, d2}
    Address = {a1, a2, b1}
    DeviceOf <- Owners
    DeviceId <- Ids
    Step = {5, 8}
    MaxTime = 15
    MaxEvents = 4
    Second = 2
    Short <- Inexact
    TTL = {3}
    Percent = 50
    MinRenewals = 1
    TuningLimit = 1
    Width = 10
    Retention = 9
    None = None
SPECIFICATION HistorySpec
SYMMETRY Symmetric
INVARIANTS HistoryTellsTheState ViewsAgreeOnTheLate
CHECK_DEADLOCK FALSE
