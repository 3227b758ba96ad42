SPECIFICATION Spec
CONSTANTS
    MaxProcessed = 1
    NoThread = NoThread
    NoRequest = NoRequest
    Default = Default
    Halves = {model, effort}
    MaxMessages = 2
    MaxResets = 2
    MaxRepeats = 1
    MaxFaults = 2
    MaxEnds = 1
INVARIANT TypeOK
INVARIANT ResetIsHonoured
INVARIANT ResetOnce
INVARIANT OneTurnPerMessage
INVARIANT OnlyAnEndLosesMessages
INVARIANT ResetClearsOverrides
CONSTRAINT FewOthers
SYMMETRY Symmetry
