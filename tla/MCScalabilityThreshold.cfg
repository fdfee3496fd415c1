CONSTANTS
    Accounts = {e1}
    VpcIds = {v1}
    SubnetIds = {s1}
    InstIds = {i1}
    AddrBits = 2
    Malformed = Malformed
    None = None
    ApiKey = e1
    VUs = {u1, u2}
    MaxIters = 6

SPECIFICATION Spec

INVARIANTS
    FailedRateThresholdMet
