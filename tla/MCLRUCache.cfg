CONSTANTS
    k1 = k1
    k2 = k2
    k3 = k3
    v1 = v1
    v2 = v2
    Key = {k1, k2, k3}
    Value = {v1, v2}
    Capacity = 2
    Ttl = 2
    MaxTime = 4
SPECIFICATION Spec
SYMMETRY Symmetry
INVARIANTS MapMatchesList SizeBounded
PROPERTIES MissHasReason HitIsLatest
CHECK_DEADLOCK FALSE
