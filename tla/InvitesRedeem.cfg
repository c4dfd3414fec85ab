CONSTANTS
    root = root
    ada = ada
    bob = bob
    o1 = o1
    r1 = r1
    r2 = r2
    r3 = r3
    r4 = r4
    r5 = r5
    None = None
    Users = {root, bob}
    Orgs = {o1}
    Reqs = {r1, r2, r3, r4, r5}
    Op <- TwoLinksTwoAccepts
    Actors = {root}
    AdminSeed = {root}
    SeedRole <- AdaAdmin
    Faults = {}
    TTL = 1
    MaxNow = 1
SPECIFICATION Spec
INVARIANTS
    InvitesTypeOK
    SettledOnce
    ReinviteSupersedes
PROPERTY LinksImplemented
SYMMETRY LinksAndAccepts
