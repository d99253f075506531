\* A seed with user-data as text, opened and applied without an edit.
SPECIFICATION EditorSpec
CONSTANTS
    Seeds <- UserDataSeeds
    Edits = {}
    YamlEdits = {}
    InstallerEdits = {}
    InstallerYamlEdits = {}
    MaxFieldEdits = 0
    MaxApplies = 1
PROPERTY
    NoOpReturnsSeed
CHECK_DEADLOCK FALSE
