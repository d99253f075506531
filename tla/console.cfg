SPECIFICATION Spec
CONSTANTS
    RowIds = {1, 2, 3}
    Macs = {"a", "b", "c"}
    Uuids = {"u", "v"}
    BootHandlers = {"h1", "h2"}
    MaxBoots = 4
    SeededIds = {1}
    ImageIds = {1}
    Savers = {c1, c2}
    Instances = {1, 2}
    MaxBorn = 3
    MaxEdits = 1
    Seeds <- MCSeeds
    Edits <- MCEdits
    YamlEdits <- MCYamlEdits
    InstallerEdits <- MCInstallerEdits
    InstallerYamlEdits <- MCInstallerYamlEdits
    MaxFieldEdits = 2
    MaxApplies = 1
SYMMETRY TwoSavers
INVARIANTS
    TypeOK
    LoneBootsFit
    ServesPinnedSeed
    SeedsHaveOwners
PROPERTIES
    NoLiteralWritten
    StaysSavable
    EditsKeepTheRest
CHECK_DEADLOCK FALSE
