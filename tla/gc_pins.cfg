\* A template switched to another ISO under an install.
SPECIFICATION Spec
CONSTANTS
    Isos = {1, 2}
    Templates = {t1}
    Machines = {m1}
    NoIso = NoIso
    Kinds = {"casper", "live", "plain"}
    MaxRev = 2
    MaxFile = 2
    MaxEdits = 1
    Hazards = {"switch"}
PROPERTIES
    CollectionKeepsPins
