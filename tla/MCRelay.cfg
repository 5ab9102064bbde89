SPECIFICATION Spec
CONSTANTS
    p1 = p1
    p2 = p2
    p3 = p3
    Peers = {p1, p2, p3}
    NoPeer = NoPeer
    TenantOf <- MCTenantOf
    MeshIP <- MCMeshIP
    MeshIPs = {2, 3}
    Tokens = {k1, k2, k3, k4, k5}
    NoToken = NoToken
    Addrs = {a1, a2, a3}
    NoAddr = NoAddr
SYMMETRY Symmetry
INVARIANTS
    IndexesAgree
    NoMisdelivery
PROPERTIES
    SessionsLast
    RefinesTable
CHECK_DEADLOCK FALSE
