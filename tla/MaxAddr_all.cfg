\* Two addresses, two concurrent requests, full queues.
CONSTANTS
    d1 = d1
    Device = {d1}
    Address = {a1, a2}
    DeviceOf <- OneDevice
    Request = {r1, r2}
    Limit = {1, 2}
    EventCap = 2
    RuleCap = 1
    NoAddress = NoAddress
SPECIFICATION FairSpec
INVARIANTS TypeOK FrozenDeviceHasNoAccess CapEnforced StaleReadsCovered
PROPERTIES CapEventuallyHolds
