CONSTANT MaxRegions = 6
SPECIFICATION Spec
INVARIANT FreesMatchAllocator
