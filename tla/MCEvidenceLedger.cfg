\* Two processes, stops at every point of a write, rebuilds; no append starts on a file of two lines,
\* which lets the file reach three.
SPECIFICATION Spec
CONSTANTS
    Kinds = {start}
    start = start
    Payloads <- MCPayloads
    SECRET_KEYS <- MCSecretKeys
    Garbage = Garbage
    Writers = {w1, w2}
    w1 = w1
    w2 = w2
    MaxLines = 3
SYMMETRY WriterSymmetry
INVARIANTS
    TypeOK
    VerifyIsExact
    NoReturnedEventLost
PROPERTY
    ImplementsVerifiableLog
