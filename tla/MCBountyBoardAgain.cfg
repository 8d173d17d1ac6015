\* Three runs that all complete are enough to announce a lead twice.
SPECIFICATION Spec
CONSTANTS
    Leads = {a, b}
    a = a
    b = b
    MaxLeads = 2
    ReportSize = 2
    MaxRuns = 3
    Faults = FALSE
    Absent = Absent
    Torn = Torn
    Undecodable = Undecodable
PROPERTY
    AnnouncedOnce
CHECK_DEADLOCK FALSE
