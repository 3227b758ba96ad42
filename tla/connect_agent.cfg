SPECIFICATION Spec
CONSTANTS
    Threads = {t1, t2}
    Files = {f1, f2}
    ConfigFile = f1
    Keys <- MCKeys
    Managed <- MCManaged
    Url = "url"
    Versions = {v1, v2}
    Choices = {c1, c2}
    MaxEdits = 1
    MaxFaults = 1
INVARIANT TypeOK
 
 
CONSTRAINT Apart
CONSTRAINT Alike
CONSTRAINT OneByOne
SYMMETRY Symmetry
