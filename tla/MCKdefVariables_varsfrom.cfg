CONSTANTS
    base = base
    other = other
    typed = typed
    importing = importing
    reversed = reversed
    nested = nested
    dangling = dangling
    missing = missing
    x = x
    web = web
    tagA = tagA
    tagB = tagB
    inFile = inFile
    inVars = inVars
    word = word
    numeral = numeral
    one = one
    two = two
    strWord = strWord
    strNumeral = strNumeral
    given = given
    Unreadable = Unreadable
    None = None
    Depth = 2
    Variable = {x}
    Image = {web}
    Reference = {tagA, tagB}
    File = {base, other, typed, importing, reversed, nested, dangling, missing}
    Broken = {missing}
    Imports <- MCImports
    Declares <- MCDeclares
    Defaults = {inFile, inVars}
    DefaultsOf <- MCDefaultsOf
    Text = {word, numeral}
    Value = {one, two, strWord, strNumeral, given}
    Converted <- MCConverted
    Project <- MCProject
SPECIFICATION Spec
INVARIANT
    VarsFromApplies
