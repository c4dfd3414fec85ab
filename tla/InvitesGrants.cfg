CONSTANTS
    root = root
    ada = ada
    bob = bob
    o1 = o1
    r1 = r1
    r2 = r2
    r3 = r3
    r4 = r4
    r5 = r5
    None = None
    Users = {root, ada, bob}
    Orgs = {o1}
    Reqs = {r1, r2, r3, r4}
    Op <- InvitesAndGrants
    Actors = {ada, bob}
    AdminSeed = {root}
    SeedRole <- AdaAdmin
    Faults = {"abort", "idp"}
    TTL = 1
    MaxNow = 0
SPECIFICATION Spec
INVARIANTS
    MembershipBacked
    NoEscalation
