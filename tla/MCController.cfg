CONSTANT MaxRegions = 14
SPECIFICATION FairSpec
INVARIANTS DeviceTouchesOwned OpenIsUsable NoIdentifyLeak
PROPERTY OpenReturns
