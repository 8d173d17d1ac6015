\* Two campaigns that overlap in one output directory.
SPECIFICATION Spec
CONSTANTS
    r1 = r1
    r2 = r2
    r3 = r3
    c1 = c1
    c2 = c2
    c3 = c3
    Runs = {r1, r3}
    Runner <- MCRunner
    Ranked <- MCRanked
    Overlap = TRUE
    Nobody = Nobody
    Kinds <- MCKinds
    Payloads <- MCPayloads
    SECRET_KEYS = {"token"}
    Garbage = Garbage
PROPERTY
    NeverMixesCampaigns
CHECK_DEADLOCK FALSE
