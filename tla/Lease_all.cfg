\* One address, one handler next to the expiry job, TTLs raised and lowered.
CONSTANTS
    d1 = d1
    Device = {d1}
    Address = {a1}
    DeviceOf <- OneDevice
    Request = {r1}
    Scheduler = Scheduler
    TTL = {1, 2}
    EventCap = 2
    RuleCap = 1
    NoLease = NoLease
    Never = Never
    NoRule = NoRule
SPECIFICATION FairSpec
INVARIANTS TypeOK LeaseFollowsAddress LeasesAreBounded NoRuleNoExpiry
PROPERTIES LeasesExpire
