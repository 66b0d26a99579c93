SPECIFICATION Spec
CONSTANTS
    Service = {s1, s2}
    s1 = s1
    s2 = s2
INVARIANTS PageAgreesWhenCalm BannerTellsTheWorst
PROPERTY NoFalseAllClear
