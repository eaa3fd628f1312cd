CONSTANTS
    MaxSeq = 3
    MaxUploads = 2
    MaxReissue = 1
    k1 = k1
    r1 = r1
    r2 = r2
    Keys = {k1}
    Ranges = {r1, r2}
SPECIFICATION Spec
SYMMETRY Symmetry
INVARIANTS
    AcknowledgedBytesStay
