CONSTANTS
    None = None
    Absent = Absent
    Doc <- MCDoc
    Dir <- MCDir
    DirOf <- MCDirOf
    Ancestors <- MCAncestors
    RootFile <- MCRootFile
    VarsFile <- MCVarsFile
    Beneath <- MCBeneath
    Text <- MCText
    Disk <- MCDisk
    Editable = {"vars", "web"}
    Cursor <- MCCursor
    MaxSteps = 4
SPECIFICATION Spec
INVARIANTS
    TypeOK
    StoreFollowsTheEditor
    ShownIsOfTheText
    VariablesAreOfTheText
    OffersFitTheBlock
    UnsavedNamesAreOffered
PROPERTIES
    EveryQuestionIsAnswered
    RealTimeDiagnostics
CHECK_DEADLOCK FALSE
