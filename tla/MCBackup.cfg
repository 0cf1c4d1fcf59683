CONSTANTS
    MaxKeep = 1
    MaxVersion = 2
    MaxDay = 1
SPECIFICATION Spec
INVARIANTS
    RestorableAlone
PROPERTIES
    NeverGoesBack
    RenameTakes
    PruneKeepsNewest
