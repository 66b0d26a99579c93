SPECIFICATION Spec
CONSTANT WindowSize = 5
INVARIANTS MonotoneInOneSource ClockOnlyMattersWhenFull
PROPERTY NoSwingOnOneResult
