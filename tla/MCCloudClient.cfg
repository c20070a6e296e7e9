CONSTANTS
    gz = gz  sh = sh  nameless = nameless
    Regions <- MCRegions
    NamedRegions <- MCNamed
    Configured = gz
    DefaultRetryCnt = 1
    Burst = 1
    MaxFailures = 4
SPECIFICATION FairSpec
INVARIANTS NoSendAfterClose GoroutinesAccounted
PROPERTIES FanOutReturns
CHECK_DEADLOCK FALSE
