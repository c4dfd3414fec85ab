CONSTANTS
    p1 = p1
    p2 = p2
    o1 = o1
    d1 = d1
    h1 = h1
    h2 = h2
    n1 = n1
    s1 = s1
    None = None
    Installs = {p1, p2}
    Catalog <- OIDCAndForwardAuth
    Orgs = {o1}
    Domains = {d1}
    Hosts = {h1, h2}
    Within <- InOneDomain
    Names = {n1}
    Slug <- OneSlug
    Faults = {"idp", "lost", "abort", "db", "page"}
SPECIFICATION Spec
INVARIANTS
    TypeOK
    LinksMatch
    ClientsHoldTheirHostname
    FailedOnlyIfGone
SYMMETRY Interchangeable
