\* Two ISOs, two machines, careful operators: re-extraction under installs.
SPECIFICATION Spec
CONSTANTS
    Isos = {1, 2}
    Templates = {t1}
    Machines = {m1, m2}
    NoIso = NoIso
    Kinds = {"casper", "plain"}
    MaxRev = 2
    MaxFile = 2
    MaxEdits = 1
    Hazards = {}
SYMMETRY MachineSymmetry
INVARIANTS
    TypeOK
    PinnedMediaKept
    DeployableIsServable
    TemplatesMirrorIsos
