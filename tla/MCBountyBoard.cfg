\* Three leads of which a board holds two, a report one, three runs, stops and torn
\* files.
SPECIFICATION Spec
CONSTANTS
    Leads = {a, b, c}
    a = a
    b = b
    c = c
    MaxLeads = 2
    ReportSize = 1
    MaxRuns = 3
    Faults = TRUE
    Absent = Absent
    Torn = Torn
    Undecodable = Undecodable
SYMMETRY LeadSymmetry
INVARIANTS
    TypeOK
    DoneRunAgrees
    SeenWasAnnounced
CHECK_DEADLOCK FALSE
