\* Groups, grants and a network policy; safety and, under fairness, the tick.
CONSTANTS
    d1 = d1
    Device = {}
    Address = {}
    DeviceOf <- OneDevice
    Request = {r1}
    User = {u1}
    Group = {g1}
    Host = {h1}
    Policy = {p1}
    Net = {n1}
    Bypass = {FALSE}
SPECIFICATION FairSpec
INVARIANTS CacheConverges AccessConverges PendingReadsConverge
PROPERTIES CacheCatchesUp
