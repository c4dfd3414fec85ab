CONSTANTS
    a1 = a1
    x = x
    l1 = l1
    l2 = l2
    p1 = p1
    p2 = p2
    p3 = p3
    p4 = p4
    p5 = p5
    p6 = p6
    p7 = p7
    w = w
    None = None
    Seed = Seed
    Addrs = {a1}
    SeedAddrs = {}
    Sisters = {}
    Foreign = {}
    Locals = {}
    Procs = {p1, p2, p3, p4, p5, p6, p7}
    Op <- DomainAndMailboxes
    Faults = {"store", "agent"}
SYMMETRY Interchangeable
SPECIFICATION Spec
INVARIANTS
    TypeOK
    SecretShownWorks
    ActiveDomainInstalled
PROPERTY LifecycleForward
