CONSTANTS
    root = root
    rex = rex
    bob = bob
    o1 = o1
    r1 = r1
    r2 = r2
    r3 = r3
    r4 = r4
    r5 = r5
    r6 = r6
    None = None
    Users = {root, rex}
    Orgs = {o1}
    Reqs = {r1, r2}
    Op <- Demotions
    Actors = {root, rex}
    AdminSeed = {root, rex}
    SeedRole <- NobodyJoined
    Faults = {}
SPECIFICATION AccountsSpec
INVARIANT LastAdminRemains
