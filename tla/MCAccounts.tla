----------------------------- MODULE MCAccounts -----------------------------
\* Instances of Accounts for TLC: root (and rex) are platform admins, bob is new.
EXTENDS Accounts

CONSTANTS root, rex, bob, o1, r1, r2, r3, r4, r5, r6

NobodyJoined == [m \in Orgs \X Users |-> NoRole]
RootOwner == [m \in Orgs \X Users |-> IF m[2] = root THEN "owner" ELSE NoRole]

\* The handlers that r1, r2, ... call, in that order.
Calls(ops) ==
    [r \in Reqs |-> ops[CHOOSE i \in DOMAIN ops : <<r1, r2, r3, r4, r5, r6>>[i] = r]]

Lifecycle == Calls(<<"createUser", "disable", "enable", "createOrg", "addGroup">>)
AdminsAndGrants ==
    Calls(<<"promote", "demote", "login", "addMember", "onboard", "deleteOrg">>)
Demotions == Calls(<<"demote", "demote">>)

\* What the actions read: the locals of a request that has ended are dead, its
\* role once the membership is written, its actor once it is admitted (no action
\* of Accounts reads them again, and none of the properties of these runs).
LiveLoc(r) ==
    IF pc[r] \in Ended THEN NoLoc
    ELSE [loc[r] EXCEPT !.actor = None,
                        !.role = IF pc[r] \in {"group", "mailbox"} THEN NoRole ELSE @]

LiveState ==
    <<dbVars, extVars, pc, [r \in Reqs |-> LiveLoc(r)],
      [r \in Reqs |-> IF pc[r] \in Ended THEN "" ELSE pk[r]]>>
=============================================================================
