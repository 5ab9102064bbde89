SPECIFICATION Spec
CONSTANTS
    Tenants = {t1, t2}
    NoTenant = NoTenant
    Blocks <- MCBlocks
    NoBlock = NoBlock
    Tokens = {k1, k2}
    NoToken = NoToken
    UsesLimit = 2
    Requests = {r1, r2, r3}
    Keys = {pk1, pk2}
    NoKey = NoKey
SYMMETRY Symmetry
INVARIANTS
    TokenAccounting
    PoolDiscipline
    AnswersAreTrue
    SomeoneProceeds
PROPERTY RefinesRegistry
CHECK_DEADLOCK FALSE
