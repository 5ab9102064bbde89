SPECIFICATION Spec
CONSTANTS
    t1 = t1
    t2 = t2
    u1 = u1
    u2 = u2
    u3 = u3
    Tenants = {t1, t2}
    NoTenant = NoTenant
    Users = {u1, u2, u3}
    NoUser = NoUser
    Invites = {i1}
    NoInvite = NoInvite
    UsesLimit = 1
    Requests = {r1, r2}
    Eligible <- MCEligible
INVARIANTS
    OwnersFirst
    ClaimsOnlyVacant
    InvitesWithinLimit
    OnlyScansDeadlock
PROPERTIES
    OwnerRemains
    RolesKept
    RefinesTenancy
    RequestsAnswered
CHECK_DEADLOCK FALSE
