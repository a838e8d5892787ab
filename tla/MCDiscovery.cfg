SPECIFICATION NearbyFairSpec
CONSTANTS
    None = None
    Devices = {d1}
    ScanRetries <- MCScanRetries
    Threads = {t1, t2}
INVARIANTS
    NearbyTypeOK
    PollerIsReachable
PROPERTIES
    VisibleDeviceIsScanned
    InterruptEndsPoller
    NewDeviceIsReported
