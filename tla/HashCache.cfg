\* Executables and hash files that change while three goroutines hash them.
SPECIFICATION Spec
CONSTANTS
    NumPaths = 2
    CacheSize = 1
    BaseHashes <- TheBase
    HashFiles = 2
    ListContents <- TheLists
    FirstLists <- TheFirstLists
    Changing = {1}
    MaxChanges = 2
    MaxOthers = 1
INVARIANTS TypeOK EntriesFaithful AnswerWasCurrent
PROPERTIES  ListedIsMatched
CHECK_DEADLOCK FALSE
