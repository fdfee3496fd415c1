CONSTANTS
    Accounts = {a1, a2}
    VpcIds = {v1}
    SubnetIds = {s1, s2}
    InstIds = {i1, i2}
    AddrBits = 2
    Malformed = Malformed
    None = None
    VpcCidrIn <- MCVpcCidrIn
    SubnetCidrIn <- MCSubnetCidrIn

SPECIFICATION Spec

INVARIANTS
    TypeOK
    IpAssignmentValid

PROPERTIES
    ImplementsLifecycle
