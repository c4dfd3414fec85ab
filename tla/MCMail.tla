------------------------------- MODULE MCMail -------------------------------
\* Instances of Mail for TLC: a1 is an address of the domain, x is a mailbox of
\* another organization, l1 and l2 are alias names, w is the worker.
EXTENDS Mail, TLC

CONSTANTS a1, x, l1, l2, p1, p2, p3, p4, p5, p6, p7, w

DomainAndMailboxes ==
    [p \in Procs |-> CASE p \in {p1, p2} -> "create" [] p = p3 -> "rotate" [] p = p4 -> "reconcile"
                       [] p = p5 -> "enable" [] p = p6 -> "disable" [] p = p7 -> "delete"]

AliasesAndGroup ==
    [p \in Procs |-> CASE p = p1 -> "alias" [] p = p2 -> "groupAlias" [] p = p3 -> "regroup"
                       [] p = p4 -> "delete" [] p = w -> "worker"]

\* The two creations are not told apart.
Interchangeable == Permutations({p1, p2})
=============================================================================
