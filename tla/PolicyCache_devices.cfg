\* One device that changes hands between two users, two concurrent handlers.
CONSTANTS
    d1 = d1
    Device = {d1}
    Address = {a1}
    DeviceOf <- OneDevice
    Request = {r1, r2}
    User = {u1, u2}
    Group = {}
    Host = {}
    Policy = {}
    Net = {}
    Bypass = {FALSE}
SPECIFICATION Spec
INVARIANTS TypeOK CacheConverges
SYMMETRY Symmetry
