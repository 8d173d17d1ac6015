\* Fixtures of up to three identities; at most four requests; the target answers
\* each cell as it likes.
SPECIFICATION Spec
CONSTANTS
    Refused = Refused
    SensitiveKeys <- MCSensitiveKeys
    DenialTexts <- MCDenialTexts
    PrivilegedNames <- MCPrivilegedNames
    Inputs <- MCInputs
    Bodies <- MCBodies
    MaxRequests = 4
INVARIANTS
    TypeOK
    FindingsRestOnAnswers
    EveryIdentityTriesEveryObject
    ExposedObjectIsReported
    CrossedTenantIsReported
    AnonymousExposureIsReported
CHECK_DEADLOCK FALSE
