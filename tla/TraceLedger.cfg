SPECIFICATION Spec
CONSTANTS
    Spellings <- MCSpellings
    Clip <- MCClip
    Norm <- MCNorm
    NoKey = "none"
    Others = {"node"}
    Slots = {c1, c2}
    Principals = {p1}
    Budget = 1
    Window = 1
    DayLength = 2
    Retention = 1
    TraceCap = 1
    DigCap = 1
    MaxNow = 2
    MaxTraces = 2
    MaxDigs = 2
INVARIANTS
    TypeOK
    BucketsCoverRows
    ForgottenStaysForgotten
    TraceNamesItsDig
    BudgetBounded
PROPERTIES
    MemorySpec
    CapKeepsNewest
SYMMETRY Symmetry
