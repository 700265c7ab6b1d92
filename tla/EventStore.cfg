SPECIFICATION Spec
CONSTANTS
    Runs = {r1, r2}
    Conns = {c1, c2}
    Verifiers = {v1}
    created = created
    note = note
    Drafts <- MCDrafts
    Created = created
    Legacy = {r2}
    NULL = NULL
    MaxSeq = 3
    MaxDamage = 1
SYMMETRY Symmetry
INVARIANTS TypeOK LogIsWhole ChainHolds TxIsCurrent
PROPERTY IntactRowsWereRecorded
