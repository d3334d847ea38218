SPECIFICATION Spec
INVARIANT ChannelRegsInRegion
INVARIANT FifoWindowsDisjoint
