------------------------------- MODULE MCApps -------------------------------
\* An instance of Apps for TLC: two installs p1 and p2 of an OIDC application
\* or a forward-auth one with mail, under one name n1 and so one slug s1, in
\* organization o1, which owns the domain d1 of the hostnames h1 and h2.
EXTENDS Apps, TLC

CONSTANTS p1, p2, o1, d1, h1, h2, n1, s1

OIDCAndForwardAuth ==
    {[mode |-> "oidc", email |-> FALSE], [mode |-> "forward-auth", email |-> TRUE]}

InOneDomain == [h \in Hosts |-> d1]
\* Installs and hostnames differ in nothing but their names.
Interchangeable == Permutations(Installs) \cup Permutations(Hosts)

OneSlug == [n \in Names |-> s1]
=============================================================================
