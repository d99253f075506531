\* One request at a time: long sequences of legal edits.
SPECIFICATION Spec
CONSTANTS
    Ids = {1, 2, 3}
    Images = {1, 2}
    Names <- FolderNames
    Home = "Tools"
    Seeds <- DefaultFolders
    MaxDepth = 2
    MaxSort = 3
    MaxPlace = 2
    Requests = {r1}
INVARIANTS
    TypeOK
    MenuIsReachable
    DepthBounded
    SiblingsDiffer
