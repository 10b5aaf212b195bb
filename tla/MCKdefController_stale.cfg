CONSTANTS
    r1 = r1
    r2 = r2
    v1 = v1
    v2 = v2
    bad = bad
    n1 = n1
    n2 = n2
    cm = cm
    web = web
    job1 = job1
    role = role
    None = None
    Release = {r1}
    Revision = {v1, v2}
    Broken = {}
    Object = {cm, web}
    Namespace = {n1}
    Kind <- MCKind
    Render <- MCRender
    Interval <- MCInterval
    MaxGeneration = 1
    Editable = {}
    StaleReads = TRUE
SPECIFICATION Spec
INVARIANT
    MarkedWhileReconciling
