CONSTANTS
    Accounts = {e1, e2}
    VpcIds = {v1, v2}
    SubnetIds = {s1, s2}
    InstIds = {i1, i2}
    AddrBits = 2
    Malformed = Malformed
    None = None
    VUs = {u1}
    MaxIters = 2
    PollLimit = 10
    MaxTimeouts = 0
    VpcCidr <- MCVpcCidr
    SubnetCidr <- MCSubnetCidr

SPECIFICATION Spec

INVARIANTS
    VpcDeleteCheckPasses
