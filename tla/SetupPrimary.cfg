CONSTANTS
    d1 = d1
    d2 = d2
    o1 = o1
    n1 = n1
    p1 = p1
    p2 = p2
    p3 = p3
    p4 = p4
    p5 = p5
    p6 = p6
    q = q
    None = None
    Fqdns = {d1, d2}
    Orgs = {o1}
    Names = {n1}
    Procs = {p1, p2, q}
    Op <- TwoWizards
    EnvZone = None
    Choices <- ManualOnly
    MaxRestarts = 0
    Faults = {}
SPECIFICATION Spec
INVARIANT OnboardedPrimaryVerified
