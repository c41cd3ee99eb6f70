\* One address, four events: two renewals, an expiry and the renewal after it.
CONSTANTS
    d1 = d1  a1 = a1
    Device = {d1}
    Address = {a1}
    DeviceOf <- OneDevice
    DeviceId <- OneId
    Step = {1}
    MaxTime = 2
    MaxEvents = 4
    Second = 1
    Short <- Inexact
    TTL = {1}
    Percent = 50
    MinRenewals = 1
    TuningLimit = 1
    Width = 10
    Retention = 1
    None = None
    Handler = {h1}
    Scheduler = Scheduler
    EventCap = 1
    RuleCap = 1
    NoLease = NoLease
    Never = Never
    NoRule = NoRule
SPECIFICATION LapseSpec
VIEW WithoutRuleHistory
PROPERTIES LapsesShow
CHECK_DEADLOCK FALSE
