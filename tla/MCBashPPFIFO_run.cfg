CONSTANTS
    r1 = r1
    r2 = r2
    w1 = w1
    p1 = p1
    k1 = k1
    Openers = {r1, r2, w1}
    Publishers = {p1}
    Copies = {k1}
    Reading = {r1, r2}
    Writing = {w1, p1}
SPECIFICATION FairSpec
INVARIANTS Paired
PROPERTY NotStranded
CHECK_DEADLOCK FALSE
