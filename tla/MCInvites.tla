----------------------------- MODULE MCInvites ------------------------------
\* Instances of Invites for TLC: root is a platform admin, ada an admin of o1,
\* bob is invited.
EXTENDS Invites, TLC

CONSTANTS root, ada, bob, o1, r1, r2, r3, r4, r5

AdaAdmin == [m \in Orgs \X Users |-> IF m[2] = ada THEN "admin" ELSE NoRole]

Calls(a, b, c, d, e) ==
    [r \in Reqs |-> CASE r = r1 -> a [] r = r2 -> b [] r = r3 -> c [] r = r4 -> d [] OTHER -> e]

\* The two invitations, and the two redemptions, are interchangeable.
LinksAndAccepts == Permutations({r1, r2}) \cup Permutations({r3, r4})

TwoLinksTwoAccepts == Calls("invite", "invite", "accept", "accept", "deleteOrg")
InvitesAndGrants == Calls("invite", "accept", "onboard", "addMember", "addMember")
=============================================================================
