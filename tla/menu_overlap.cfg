\* Two requests edit folders at once.
SPECIFICATION Spec
CONSTANTS
    Ids = {1, 2, 3}
    Images = {1}
    Names <- FolderNames
    Home = "Tools"
    Seeds <- DefaultFolders
    MaxDepth = 3
    MaxSort = 3
    MaxPlace = 2
    Requests = {r1, r2}
INVARIANTS
    NoFolderInsideItself
