\* Every hazard: what still holds.
SPECIFICATION FairSpec
CONSTANTS
    Isos = {1}
    Templates = {t1}
    Machines = {m1}
    NoIso = NoIso
    Kinds = {"live", "plain"}
    MaxRev = 2
    MaxFile = 2
    MaxEdits = 1
    Hazards = {"overlap", "reuse", "switch", "vanish", "sweep"}
INVARIANTS
    JobStaysInProgress
PROPERTIES
    ExtractionEnds
