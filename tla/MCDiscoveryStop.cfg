SPECIFICATION NearbySpec
CONSTANTS
    None = None
    Devices = {d1}
    ScanRetries <- MCScanRetries
    Threads = {t1}
PROPERTY StopTurnsDiscoveryOff
