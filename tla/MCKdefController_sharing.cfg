CONSTANTS
    r1 = r1
    r2 = r2
    v1 = v1
    v2 = v2
    bad = bad
    n1 = n1
    n2 = n2
    cm = cm
    web = web
    job1 = job1
    role = role
    None = None
    Release = {r1, r2}
    Revision = {v1}
    Broken = {}
    Object = {web, job1}
    Namespace = {n1}
    Kind <- MCKind
    Render <- MCRenderOne
    Interval <- MCInterval
    MaxGeneration = 1
    Editable = {}
    StaleReads = FALSE
SPECIFICATION FairSpec
INVARIANT
    IInv
PROPERTY
    Converges
CHECK_DEADLOCK
    FALSE
