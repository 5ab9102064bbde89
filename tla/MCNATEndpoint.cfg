SPECIFICATION Spec
CONSTANTS
    a1 = a1
    a2 = a2
    Addrs = {a1, a2}
    NoAddr = NoAddr
    IPOf <- MCIPOf
    Nonces = {n1, n2}
    NoNonce = NoNonce
    MaxChanges = 2
    MaxFaults = 1
INVARIANTS
    ReceiverNeverBlocks
    MappingFresh
PROPERTY Settles
