\* Decisions and verifications on a node that changes chains between requests.
CONSTANTS
    g = g  a1 = a1  b1 = b1  d1 = d1  a2 = a2  b2 = b2  c2 = c2
    None = None
    Blocks = {g, a1, b1, d1, a2, b2, c2}
    Chain <- TheTree
    Num <- Numbers
    Time <- Times
    Anchors <- TheAnchors
    State <- TheStates
    Policies <- PolicySet
    Bundles <- TheBundles
    Local <- LocalBatch
    MaxReads = 1
    MaxMoves = 2
    MaxOps = 2
SPECIFICATION Spec
INVARIANTS EvidenceTrue OneChain HonestAccepted
CHECK_DEADLOCK FALSE
