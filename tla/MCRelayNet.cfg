SPECIFICATION NetSpec
CONSTANTS
    p1 = p1
    p2 = p2
    a1 = a1
    a2 = a2
    StartsAt <- MCStartsAt
    Peers = {p1, p2}
    NoPeer = NoPeer
    TenantOf <- MCTenantOf
    MeshIP <- MCMeshIP
    MeshIPs = {2, 3}
    Tokens = {k1, k2, k3, k4, k5, k6}
    NoToken = NoToken
    Addrs = {a1, a2, a3}
    NoAddr = NoAddr
    MaxFaults = 1
INVARIANT UpOnEvidence
PROPERTY RelayRecovers
