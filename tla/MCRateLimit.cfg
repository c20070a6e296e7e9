CONSTANTS
    r1 = r1  r2 = r2  r3 = r3  r4 = r4
    Requests <- MCRequests
    maxInFlight = 2
SPECIFICATION LimiterFairSpec
INVARIANTS IInv LimitKept
PROPERTIES BlockedIsServed ImplementsSemaphore
