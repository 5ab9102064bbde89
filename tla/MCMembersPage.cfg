SPECIFICATION PageSpec
CONSTANTS
    TenantIds = {t1, t2}
    Owned = {t1, t2}
    People = {me, p}
    Me = me
    None = None
    MaxOps = 1
    MaxChanges = 1
INVARIANTS
    LinkMatchesTitle
PROPERTY RemovedDisappears
CHECK_DEADLOCK FALSE
