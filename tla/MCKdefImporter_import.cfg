CONSTANTS
    None = None
    Dashed <- MCDashed
    Alphabet <- MCAlphabet
    Contents <- MCContents
    Arrivals <- MCArrivals
    MaxChanges = 1
SPECIFICATION ImportSpec
INVARIANTS
    TypeOK
    StableObjectsAreImported
    LoadsBack
    RoundTrip
    MountsReturn
