\* Three runs, one after the other, in any order; a stop at any point.
SPECIFICATION Spec
CONSTANTS
    r1 = r1
    r2 = r2
    r3 = r3
    c1 = c1
    c2 = c2
    c3 = c3
    Runs = {r1, r2, r3}
    Runner <- MCRunner
    Ranked <- MCRanked
    Overlap = FALSE
    Nobody = Nobody
    Kinds <- MCKinds
    Payloads <- MCPayloads
    SECRET_KEYS = {"token"}
    Garbage = Garbage
INVARIANTS
    TypeOK
    SummaryAttests
    LedgerIsOwnersPrefix
PROPERTY
    AcceptsItsOwnLedger
CHECK_DEADLOCK FALSE
