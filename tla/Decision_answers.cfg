\* Shared addresses, overlapping networks and the trusted proxy.
CONSTANTS
    h1 = h1
    u1 = u1
    u2 = u2
    User = {u1, u2}
    Host = {h1, h2}
    Width = 2
    Text = {"zero", "mapped", "one", "mapped one", "three", "bad"}
    Stored = {"zero", "mapped", "one", "bad"}
    Mapped = {"mapped", "mapped one"}
    Request <- Requests
    Canon <- MCCanon
    RawHost = {"H1", "other"}
    NormaliseHost <- MCNormaliseHost
    TrustedProxy = 1
    CIDREntry <- Overlapping
    MaxEntries = 2
    MaxPolicies = 3
    MaxRefreshes = 1
    Invalid = Invalid
SPECIFICATION Spec
INVARIANTS DecisionIsJustified OnlyVouchedRequestsPass AuditShowsTheDecision
SYMMETRY Symmetry
