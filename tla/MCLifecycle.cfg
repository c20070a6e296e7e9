CONSTANTS
    r1 = r1  r2 = r2
    Replicas <- MCReplicas
    Nobody = Nobody  Former = Former
    LeaseDuration = 4
    RenewDeadline = 2
    RetryPeriod = 1
    ShutdownTimeout = 3
    MaxFaults = 5
SPECIFICATION FairSpec
INVARIANTS IInv OneExporter
PROPERTIES GracefulShutdown ExportingResumes
