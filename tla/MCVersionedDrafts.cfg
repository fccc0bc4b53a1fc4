SPECIFICATION Spec
CONSTANTS
    m1 = m1
    m2 = m2
    c1 = c1
    None = None
    Members = {m1, m2}
    Contracts = {c1}
    MaxSeqno = 5
    MaxView = 2
    MaxWrites = 3
SYMMETRY MCSymmetry
CHECK_DEADLOCK FALSE
INVARIANTS
    TypeOK
    AcceptedWasSeen
    ConfirmedStays
PROPERTY
    ImplementsRegister
