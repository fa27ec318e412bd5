CONSTANTS
    n1 = n1
    n2 = n2
    v1 = v1
    v2 = v2
    Names <- MCNames
    Bodies <- MCBodies
    Garbled = Garbled
    NilMap = NilMap
    AllowExplicit = TRUE
    PolicySources = {"service", "rpc", "dir", "file", "none"}
    MaxPolicies = 2

SPECIFICATION Spec
INVARIANT TypeOK
INVARIANT SnapshotFromLastLoad
