SPECIFICATION Spec
CONSTANTS
    Handler = {h1, h2}
    Conversion = {c1, c2}
    Provider = {p1}
    EventId = {e1, e2, e3, e4}
    Ref = {r1, r2}
    Message <- Everything
    None = None
    c1 = c1
    c2 = c2
    p1 = p1
    e1 = e1
    e2 = e2
    e3 = e3
    e4 = e4
    r1 = r1
    r2 = r2
SYMMETRY Interchangeable
INVARIANTS
    TypeOK
    OneEffectPerMessage
    RowIsExplained
    AckedIsRecorded
PROPERTIES
    SuccessesMoveForward
