\* A profile named anonymous whose role was left out.
SPECIFICATION Spec
CONSTANTS
    Refused = Refused
    SensitiveKeys <- MCSensitiveKeys
    DenialTexts <- MCDenialTexts
    PrivilegedNames <- MCPrivilegedNames
    Inputs <- MCNamedInputs
    Bodies <- MCBodies
    MaxRequests = 4
INVARIANTS
    AnonymousExposureIsReported
CHECK_DEADLOCK FALSE
