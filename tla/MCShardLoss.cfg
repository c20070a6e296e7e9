CONSTANTS
    metricserver = metricserver  prom = prom  qcloudmonitor = qcloudmonitor
    full = full  gappy = gappy
    Keys = {full, gappy}
    MaxEnd = 7
    maxPointsPerTimeSeries = 3
    Windows <- MCWindows
    Histories <- MCHistories
    Names <- MCNames
SPECIFICATION ProxySpec
INVARIANT ShardedEqualsDirect
