\* Texts of all short forms, tokenized up to twice, two profiles and seconds.
CONSTANTS
    Words = {"x"}
    Templates <- MCTemplates
    Profiles = {k1, k2}
    Seconds = {1, 2}
    CacheLimit = 3
    MaxRounds = 2
    None = None
SPECIFICATION Spec
CHECK_DEADLOCK FALSE
INVARIANTS
    RenderedFresh
    
