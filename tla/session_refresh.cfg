CONSTANTS
    Slots = {s1, s2}
    Logins = {1}
    Attempts = {1, 2}
    None = None
    Untouched = Untouched
    AccessLife = 1
    Leeway = 1
    FallbackLife = 1
    RefreshCookieLife = 3
    LoginCookieLife = 9
    StateTTL = 1
    MaxTime = 3
    MaxRequests = 4
    Faults = FALSE
SPECIFICATION Spec
PROPERTIES RefreshedTransparently
