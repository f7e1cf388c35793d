SPECIFICATION Spec
CONSTANTS
    Saves = {s1, s2, s3}
    Domains = {d1, d2}
    NoDomain = NoDomain
    Nobody = Nobody
INVARIANTS TypeOK PortsOwned
PROPERTY PortsFreed
CHECK_DEADLOCK FALSE
