CONSTANTS
    None = None
    Dashed <- MCDashed
    Alphabet <- MCAlphabet
    Variable = {"flag", "tenants"}
    Value = {"yes", "no", "pair", "nobody"}
    True = {"yes"}
    Elements <- MCElements
    Dir = {"root", "app", "tools", "gone"}
    RootDir = "root"
    Env = {"prod", "stage"}
    Project <- MCProject
SPECIFICATION RenderSpec
INVARIANTS
    TypeOK
    NothingDeclaredIsLost
    CompletedByTheNearest
    SuccessIsSound
    DistinctManifests
    BlocksSurvive
    ReferencesAreAccountedFor
    MountsResolve
    PrerequisitesFirst
    Reproducible
    AccountsForWorkloads
    RoutesReachTheService
