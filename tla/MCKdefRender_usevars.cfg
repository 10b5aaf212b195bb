CONSTANTS
    None = None
    Dashed <- MCDashed
    Alphabet <- MCAlphabet
    Variable = {"flag", "tenants"}
    Value = {"yes", "no", "pair", "nobody"}
    True = {"yes"}
    Elements <- MCElements
    Dir = {"root", "app", "tools", "gone"}
    RootDir = "root"
    Env = {"prod", "stage"}
    Project <- MCProject
SPECIFICATION RenderSpec
INVARIANT
    UseVarsReachTheBlocks
