CONSTANTS
    top = top
    sub = sub
    Dirs = {top, sub}
    Root = top
    Names = {1, 2, 3, 4}
    SubDir <- OneFolder
    PageSize = 2
    MaxChanges = 2
SPECIFICATION Spec
INVARIANTS
    TypeOK
    NothingStableMissed
    NothingStableTwice
