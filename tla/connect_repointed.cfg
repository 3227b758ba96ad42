SPECIFICATION Spec
CONSTANTS
    Threads = {t1}
    Files = {f1, f2}
    ConfigFile = f1
    Keys <- MCKeys
    Managed <- MCManaged
    Url = "url"
    Versions = {v1, v2}
    Choices = {c1, c2}
    MaxEdits = 2
    MaxFaults = 2
INVARIANT RepointedIsLeftAlone
SYMMETRY Symmetry
