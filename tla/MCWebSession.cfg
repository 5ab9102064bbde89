SPECIFICATION Spec
CONSTANTS
    Tabs = {t1, t2}
    Pages = {machines, members}
    DefaultPage = machines
    None = None
    MaxLogins = 2
    MaxSends = 2
    MaxFaults = 1
INVARIANTS
    OnePerLogin
    UndisturbedLoginsWork
    ComesBack
PROPERTY GetsSomewhere
CHECK_DEADLOCK FALSE
