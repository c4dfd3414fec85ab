------------------------------ MODULE MCLogins ------------------------------
\* Two browsers behind one address, two overlapping bootstrap attempts with a
\* limit of one failure, and two OIDC logins of two users.
EXTENDS Logins, TLC

CONSTANTS b1, b2, k1, p1, p2, u1, u2, f1, f2, boot

Interchangeable ==
    UNION {Permutations(Browsers), Permutations(Procs), Permutations(Users), Permutations(Flows)}

OneAddress == [b \in Browsers |-> k1]
=============================================================================
