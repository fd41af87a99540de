SPECIFICATION FairSpec
CONSTANTS
    None = None
    Sessions = {s1, s2, s3}
    Events = {e1, e2}
    MaxAppends = 2
    MaxSeq = 5
INVARIANTS
    TypeOK
    ChainIntact
    VerifierAgrees
PROPERTIES
    AppendOnly
    WriterIsServed
CHECK_DEADLOCK FALSE
