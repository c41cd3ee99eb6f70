SPECIFICATION Spec
CONSTANTS
    Request = {r1, r2}
    Fqdn = {f1, f2}
    Name = {n1, n2}
    MaxId = 2
    MaxImage = 2
    Links <- LinkSets
    SameNames = FALSE
INVARIANTS
    CatalogIsSound
PROPERTIES
    HostsConverge
    GroupsConverge
SYMMETRY Symmetric
CHECK_DEADLOCK FALSE
