SPECIFICATION Spec
CONSTANTS
    NULL = NULL
    tab = tab
    kim = kim
    boss = boss
    Tabs = {tab}
    Emails = {kim}
    Whitelists <- Lists
    Reads = {"stats", "orders"}
    Ttl = 1
    MaxTime = 2
    MaxFaults = 1
    MaxOpen = 2
INVARIANT
    TypeOK
PROPERTIES
    OnlyRecentAdminsServed
    
    BackToLogin
