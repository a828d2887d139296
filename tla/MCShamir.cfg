SPECIFICATION Spec
CONSTANTS
    PRIME = 5
    Base = 2
    BytesPerInteger = 2
    Split <- MCSplit
INVARIANTS
    AnyTresholdDecodes
    FewSharesTellNothing
    DamageShows
