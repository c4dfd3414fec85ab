CONSTANTS
    root = root
    rex = rex
    bob = bob
    o1 = o1
    r1 = r1
    r2 = r2
    r3 = r3
    r4 = r4
    r5 = r5
    r6 = r6
    None = None
    Users = {root, bob}
    Orgs = {o1}
    Reqs = {r1, r2, r3, r4, r5}
    Op <- Lifecycle
    Actors = {root}
    AdminSeed = {root}
    SeedRole <- NobodyJoined
    Faults = {"store", "idp"}
VIEW LiveState
SPECIFICATION AccountsSpec
INVARIANTS
    AccountsTypeOK
    LinkedAccountsExist
