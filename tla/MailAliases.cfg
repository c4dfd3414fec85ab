CONSTANTS
    a1 = a1
    x = x
    l1 = l1
    l2 = l2
    p1 = p1
    p2 = p2
    p3 = p3
    p4 = p4
    p5 = p5
    p6 = p6
    p7 = p7
    w = w
    None = None
    Seed = Seed
    Addrs = {a1}
    SeedAddrs = {a1}
    Sisters = {}
    Foreign = {x}
    Locals = {l1, l2}
    Procs = {p1, p2, p3, p4, w}
    Op <- AliasesAndGroup
    Faults = {"lost", "abort"}
SPECIFICATION FairSpec
INVARIANT RoutesStayInside
PROPERTIES
    AliasesHeal
    MissingIsFlagged
