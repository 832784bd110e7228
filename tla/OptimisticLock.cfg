SPECIFICATION Spec
CONSTANTS
    Client = {c1, c2}
    NoClient = NoClient
    Preset = {0, 1}
    MaxGen = 4
    MaxVer = 4
SYMMETRY MCSymmetry
INVARIANTS NoLostUpdate VersionMeansCurrent
