CONSTANTS
    b1 = b1
    b2 = b2
    k1 = k1
    p1 = p1
    p2 = p2
    u1 = u1
    u2 = u2
    f1 = f1
    f2 = f2
    boot = boot
    None = None
    Keys = {k1}
    Procs = {p1, p2}
    LoginMaxFails = 1
    Window = 0
    MaxNow = 1
    Browsers = {b1, b2}
    Addr <- OneAddress
    Users = {u1, u2}
    Bootstrap = boot
    Flows = {f1, f2}
    SessionTTL = 1
    MaxAnswers = 2
SYMMETRY Interchangeable
SPECIFICATION LoginSpec
INVARIANTS
    LoginTypeOK
    FailsBounded
    SessionVouched
    LateBootstrapsBounded
