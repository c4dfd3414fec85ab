------------------------------ MODULE MCSetup -------------------------------
\* Instances of Setup for TLC: d1 and d2 are domain names, o1 an organization,
\* n1 a hostname, q the poller.
EXTENDS Setup

CONSTANTS d1, d2, o1, n1, p1, p2, p3, p4, p5, p6, q

Calls(a, b, c, d, e) ==
    [p \in Procs |-> CASE p = p1 -> a [] p = p2 -> b [] p = p3 -> c [] p = p4 -> d [] p = p5 -> e
                       [] p = p6 -> "verifySetup" [] OTHER -> "poll"]

DomainsAndWizard == Calls("createDomain", "verifyDomain", "addHostname", "deleteDomain", "setup")
TwoWizards == Calls("setup", "setup", "setup", "deleteOrg", "setup")

ManualOnly == {Manual}
ManualOrZone == {Manual, d1}
=============================================================================
