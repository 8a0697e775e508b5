CONSTANTS
    BiosHdds = 2
    BiosFdds = 1
    DriveArgs = {0, 128, 255}
    MaxDevices = 2
    MaxCount = 4
SPECIFICATION Spec
INVARIANTS ChainIsSound CountsCoverDrives CallerToldOfDrives DriveServed DisksReachable
