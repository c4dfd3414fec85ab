--------------------------- MODULE InvitesProofs ----------------------------
(***************************************************************************)
(* Proofs about Invites for every set of users, organizations and          *)
(* requests, every assignment of handlers to requests and every fault.     *)
(***************************************************************************)
EXTENDS Invites, TLAPS

-----------------------------------------------------------------------------
\* Type correctness.

(***************************************************************************)
(* The values a request was admitted with, as far as typing needs them: a  *)
(* request about to touch a user names one, and a createInvite request,    *)
(* the only one at createInvite's labels, names the whole offer.           *)
(***************************************************************************)
UserLabels == PC \ {"start", "createOrg", "deleteOrg", "done", "failed"}

LocOKFor(r) ==
    /\ pc[r] \in UserLabels => loc[r].user \in Users
    /\ pc[r] \in {"checkMember", "expire", "insertInvite"} => Op[r] = "invite"
    /\ Op[r] = "invite" /\ pc[r] # "start" =>
          loc[r].org \in Orgs /\ loc[r].user \in Users /\ loc[r].role \in OrgRole

LocOK == \A r \in Reqs : LocOKFor(r)

AccountsInv == AccountsTypeOK /\ LocOK

\* Request r, and no other, has left a label that is not final for a new one; the
\* rest of the requests' state is typed and as before.
Moved(r) ==
    /\ pc[r] \notin Ended
    /\ pc' \in [Reqs -> PC] /\ pc'[r] # "start"
    /\ \A s \in Reqs \ {r} : pc'[s] = pc[s] /\ loc'[s] = loc[s]
    /\ loc' \in [Reqs -> Loc]
    /\ pc[r] # "start" => loc'[r] = loc[r]
    /\ why' \in [Reqs -> Why]

\* Typing of the labels r may move to is all that LocOK asks of a move.
LEMMA MovedLocOK ==
    ASSUME AccountsInv, NEW r \in Reqs, Moved(r), LocOKFor(r)'
    PROVE  LocOK'
<1> SUFFICES ASSUME NEW s \in Reqs PROVE LocOKFor(s)'
  BY DEF LocOK
<1>1. CASE s = r
  BY <1>1
<1>2. CASE s # r
  BY <1>2 DEF AccountsInv, LocOK, LocOKFor, Moved
<1> QED BY <1>1, <1>2

\* Goto between labels is a move.
LEMMA GotoMoves ==
    ASSUME AccountsInv, NEW r \in Reqs, NEW label \in PC \ {"start"}, Goto(r, label),
           pc[r] \notin Ended \cup {"start"}, pc[r] \in UserLabels \/ label \in Ended,
           label \in {"checkMember", "expire", "insertInvite"} => Op[r] = "invite"
    PROVE  Moved(r) /\ LocOK'
<1>1. pc' = [pc EXCEPT ![r] = label] /\ loc' = loc /\ why' = why
  BY DEF Goto
<1>2. Moved(r)
  BY <1>1 DEF AccountsInv, AccountsTypeOK, Moved, Ended
<1>3. LocOKFor(r)'
  BY <1>1 DEF AccountsInv, AccountsTypeOK, LocOK, LocOKFor, UserLabels, Ended
<1> QED BY <1>2, <1>3, MovedLocOK

\* So is an error answer.
LEMMA FailMoves ==
    ASSUME AccountsInv, NEW r \in Reqs, NEW reason \in Why, Fail(r, reason),
           pc[r] \notin Ended \cup {"start"}
    PROVE  Moved(r) /\ LocOK'
<1>1. pc' = [pc EXCEPT ![r] = "failed"] /\ loc' = loc /\ why' = [why EXCEPT ![r] = reason]
  BY DEF Fail
<1>2. Moved(r)
  BY <1>1 DEF AccountsInv, AccountsTypeOK, Moved, PC
<1>3. LocOKFor(r)'
  BY <1>1 DEF AccountsInv, AccountsTypeOK, LocOK, LocOKFor, UserLabels
<1> QED BY <1>2, <1>3, MovedLocOK

\* So is an admission, with values that fit the first label.
LEMMA AdmitMoves ==
    ASSUME AccountsInv, NEW r \in Reqs, NEW label \in PC \ {"start", "checkMember", "expire", "insertInvite"},
           NEW l \in Loc, Admit(r, label, l), l.user \in Users \/ label \notin UserLabels,
           Op[r] = "invite" => l.org \in Orgs /\ l.user \in Users /\ l.role \in OrgRole
    PROVE  Moved(r) /\ LocOK' /\ pk' = pk
<1>1. /\ pc[r] = "start" /\ pc' = [pc EXCEPT ![r] = label] /\ loc' = [loc EXCEPT ![r] = l]
      /\ why' = why /\ pk' = pk
  BY DEF Admit
<1>2. Moved(r)
  BY <1>1 DEF AccountsInv, AccountsTypeOK, Moved, Ended
<1>3. LocOKFor(r)'
  BY <1>1 DEF AccountsInv, AccountsTypeOK, LocOKFor
<1> QED BY <1>1, <1>2, <1>3, MovedLocOK

\* Where a handler goes on once its user exists.
LEMMA AfterUserLabel ==
    ASSUME NEW r \in Reqs
    PROVE  /\ AfterUser(r) \in {"checkMember", "done", "grant"}
           /\ AfterUser(r) = "checkMember" => Op[r] = "invite"
BY DEF AfterUser

(***************************************************************************)
(* Every Accounts step keeps the accounts well typed.                      *)
(***************************************************************************)
LEMMA AccountStepType ==
    ASSUME AccountsInv, NEW r \in Reqs, AccountStep(r)
    PROVE  AccountsInv' /\ Moved(r)
<1> USE DEF dbVars, extVars, AccountsInv
<1>1. CASE StartOrg(r)
  <2>1. PICK a \in Session \cap admins, o \in Orgs :
            /\ Op[r] \in {"createOrg", "deleteOrg"}
            /\ Admit(r, Op[r], [NoLoc EXCEPT !.actor = a, !.org = o])
            /\ UNCHANGED <<dbVars, extVars>>
    BY <1>1 DEF StartOrg
  <2>2. [NoLoc EXCEPT !.actor = a, !.org = o] \in Loc
    BY AccountsAssumption DEF Loc, NoLoc, Session
  <2>3. Moved(r) /\ LocOK' /\ pk' = pk
    BY <2>1, <2>2, AdmitMoves DEF PC, UserLabels, NoLoc, Loc
  <2> QED BY <2>1, <2>3 DEF AccountsTypeOK, Moved
<1>2. CASE StartAddMember(r)
  <2>1. PICK a \in Session, o \in Orgs, u \in Users, role \in OrgRole :
            /\ Op[r] = "addMember"
            /\ Admit(r, "grant", [actor |-> a, org |-> o, user |-> u, role |-> role, inv |-> None])
            /\ UNCHANGED <<dbVars, extVars>>
    BY <1>2 DEF StartAddMember
  <2>2. [actor |-> a, org |-> o, user |-> u, role |-> role, inv |-> None] \in Loc
    BY AccountsAssumption DEF Loc, NoLoc, Session
  <2>3. Moved(r) /\ LocOK' /\ pk' = pk
    BY <2>1, <2>2, AdmitMoves DEF PC, UserLabels, NoLoc, Loc
  <2> QED BY <2>1, <2>3 DEF AccountsTypeOK, Moved
<1>3. CASE StartOnboard(r)
  <2>1. PICK a \in Session, o \in Orgs, u \in Users, role \in OrgRole :
            /\ Op[r] = "onboard"
            /\ Admit(r, "lookup", [actor |-> a, org |-> o, user |-> u, role |-> role, inv |-> None])
            /\ UNCHANGED <<dbVars, extVars>>
    BY <1>3 DEF StartOnboard
  <2>2. [actor |-> a, org |-> o, user |-> u, role |-> role, inv |-> None] \in Loc
    BY AccountsAssumption DEF Loc, NoLoc, Session
  <2>3. Moved(r) /\ LocOK' /\ pk' = pk
    BY <2>1, <2>2, AdmitMoves DEF PC, UserLabels, NoLoc, Loc
  <2> QED BY <2>1, <2>3 DEF AccountsTypeOK, Moved
<1>4. CASE StartCreateUser(r)
  <2>1. PICK a \in Session \cap admins, o \in Orgs \cup {None}, u \in Users, role \in OrgRole :
            /\ Op[r] = "createUser"
            /\ Admit(r, "idp", [actor |-> a, org |-> o, user |-> u, role |-> role, inv |-> None])
            /\ UNCHANGED <<dbVars, extVars>>
    BY <1>4 DEF StartCreateUser
  <2>2. [actor |-> a, org |-> o, user |-> u, role |-> role, inv |-> None] \in Loc
    BY AccountsAssumption DEF Loc, NoLoc, Session
  <2>3. Moved(r) /\ LocOK' /\ pk' = pk
    BY <2>1, <2>2, AdmitMoves DEF PC, UserLabels, NoLoc, Loc
  <2> QED BY <2>1, <2>3 DEF AccountsTypeOK, Moved
<1>5. CASE StartUserStatus(r)
  <2>1. PICK a \in Session \cap admins, u \in Users :
            /\ Op[r] \in {"disable", "enable"}
            /\ Admit(r, "idpSet", [NoLoc EXCEPT !.actor = a, !.user = u])
            /\ UNCHANGED <<dbVars, extVars>>
    BY <1>5 DEF StartUserStatus
  <2>2. [NoLoc EXCEPT !.actor = a, !.user = u] \in Loc
    BY AccountsAssumption DEF Loc, NoLoc, Session
  <2>3. Moved(r) /\ LocOK' /\ pk' = pk
    BY <2>1, <2>2, AdmitMoves DEF PC, UserLabels, NoLoc, Loc
  <2> QED BY <2>1, <2>3 DEF AccountsTypeOK, Moved
<1>6. CASE StartSetUserAdmin(r)
  <2>1. PICK a \in Session \cap admins, u \in Users :
            /\ Op[r] \in {"promote", "demote"}
            /\ Admit(r, IF Op[r] = "demote" THEN "count" ELSE "flag", [NoLoc EXCEPT !.actor = a, !.user = u])
            /\ UNCHANGED <<dbVars, extVars>>
    BY <1>6 DEF StartSetUserAdmin
  <2>2. [NoLoc EXCEPT !.actor = a, !.user = u] \in Loc
    BY AccountsAssumption DEF Loc, NoLoc, Session
  <2>3. Moved(r) /\ LocOK' /\ pk' = pk
    BY <2>1, <2>2, AdmitMoves DEF PC, UserLabels, NoLoc, Loc
  <2> QED BY <2>1, <2>3 DEF AccountsTypeOK, Moved
<1>7. CASE StartLogin(r)
  <2>1. PICK u \in Users :
            /\ Op[r] = "login"
            /\ Admit(r, "upsert", [NoLoc EXCEPT !.user = u])
            /\ UNCHANGED <<dbVars, extVars>>
    BY <1>7 DEF StartLogin
  <2>2. [NoLoc EXCEPT !.user = u] \in Loc
    BY AccountsAssumption DEF Loc, NoLoc, Session
  <2>3. Moved(r) /\ LocOK' /\ pk' = pk
    BY <2>1, <2>2, AdmitMoves DEF PC, UserLabels, NoLoc, Loc
  <2> QED BY <2>1, <2>3 DEF AccountsTypeOK, Moved
<1>8. CASE CreateOrganization(r)
  <2>1. Moved(r) /\ LocOK'
    <3>1. CASE Goto(r, "done")
      BY <1>8, <3>1, GotoMoves DEF CreateOrganization, PC, UserLabels, Ended
    <3>2. CASE Fail(r, "other")
      BY <1>8, <3>2, FailMoves DEF CreateOrganization, Why, Ended
    <3> QED BY <1>8, <3>1, <3>2 DEF CreateOrganization
  <2>2. loc[r] \in Loc
    BY <1>8 DEF CreateOrganization, AccountsTypeOK, LocOK, LocOKFor, UserLabels, PC
  <2>3. orgs' \in [Orgs -> {"unused", "live", "deleted"}]
    <3>1. orgs' = orgs \/ orgs' = [orgs EXCEPT ![loc[r].org] = "live"]
      BY <1>8 DEF CreateOrganization
    <3> QED BY <3>1 DEF AccountsTypeOK
  <2> QED BY <1>8, <2>1, <2>3 DEF CreateOrganization, AccountsTypeOK, Moved
<1>9. CASE GetUserByEmail(r)
  <2>1. Moved(r) /\ LocOK'
    <3>1. CASE Goto(r, "idp")
      BY <1>9, <3>1, GotoMoves DEF GetUserByEmail, PC, UserLabels, Ended
    <3>2. CASE Goto(r, AfterUser(r))
      BY <1>9, <3>2, GotoMoves, AfterUserLabel DEF GetUserByEmail, PC, UserLabels, Ended
    <3> QED BY <1>9, <3>1, <3>2 DEF GetUserByEmail
  <2> QED BY <1>9, <2>1 DEF GetUserByEmail, AccountsTypeOK, Moved
<1>10. CASE EnsureUser(r)
  <2>1. Moved(r) /\ LocOK'
    <3>1. CASE Goto(r, "insert")
      BY <1>10, <3>1, GotoMoves DEF EnsureUser, PC, UserLabels, Ended
    <3>2. CASE Fail(r, "other")
      BY <1>10, <3>2, FailMoves DEF EnsureUser, Why, Ended
    <3> QED BY <1>10, <3>1, <3>2 DEF EnsureUser
  <2>2. loc[r] \in Loc /\ loc[r].user \in Users
    BY <1>10 DEF EnsureUser, AccountsTypeOK, LocOK, LocOKFor, UserLabels, PC
  <2>3. idp' \in [Users -> {"absent", "active", "inactive"}] /\ pk' \in [Reqs -> {"", "pk"}]
    <3> DEFINE u == loc[r].user
               ensured == [idp EXCEPT ![u] = IF @ = "absent" THEN "active" ELSE @]
    <3>1. /\ idp' = idp \/ idp' = ensured
          /\ pk' = pk \/ pk' = [pk EXCEPT ![r] = "pk"]
      BY <1>10 DEF EnsureUser
    <3>2. ensured \in [Users -> {"absent", "active", "inactive"}]
      BY <2>2 DEF AccountsTypeOK
    <3> QED BY <3>1, <3>2 DEF AccountsTypeOK
  <2> QED BY <1>10, <2>1, <2>3 DEF EnsureUser, AccountsTypeOK, Moved
<1>11. CASE CreateUser(r)
  <2>1. Moved(r) /\ LocOK'
    <3>1. CASE Goto(r, "link")
      BY <1>11, <3>1, GotoMoves DEF CreateUser, PC, UserLabels, Ended
    <3>2. CASE Goto(r, AfterUser(r))
      BY <1>11, <3>2, GotoMoves, AfterUserLabel DEF CreateUser, PC, UserLabels, Ended
    <3>3. CASE Fail(r, "email")
      BY <1>11, <3>3, FailMoves DEF CreateUser, Why, Ended
    <3>4. CASE Fail(r, "identity")
      BY <1>11, <3>4, FailMoves DEF CreateUser, Why, Ended
    <3> QED BY <1>11, <3>1, <3>2, <3>3, <3>4 DEF CreateUser
  <2>2. loc[r] \in Loc /\ loc[r].user \in Users
    BY <1>11 DEF CreateUser, AccountsTypeOK, LocOK, LocOKFor, UserLabels, PC
  <2>3. users' \in [Users -> {"absent", "active", "disabled"}] /\ identity' \in [Users -> {"", "pk", "sub"}]
    <3>1. \/ users' = users /\ identity' = identity
          \/ /\ users' = [users EXCEPT ![loc[r].user] = "active"]
             /\ identity' = [identity EXCEPT ![loc[r].user] = pk[r]]
      BY <1>11 DEF CreateUser
    <3>2. pk[r] \in {"", "pk"}
      BY DEF AccountsTypeOK
    <3>3. /\ users \in [Users -> {"absent", "active", "disabled"}]
          /\ identity \in [Users -> {"", "pk", "sub"}]
      BY DEF AccountsTypeOK
    <3> HIDE DEF AccountsInv
    <3> QED BY <3>1, <3>2, <3>3
  <2> QED BY <1>11, <2>1, <2>3 DEF CreateUser, AccountsTypeOK, Moved
<1>12. CASE UpsertExternalResource(r)
  <2>1. Moved(r) /\ LocOK'
    BY <1>12, GotoMoves, AfterUserLabel DEF UpsertExternalResource, PC, UserLabels, Ended
  <2>2. loc[r] \in Loc /\ loc[r].user \in Users
    BY <1>12 DEF UpsertExternalResource, AccountsTypeOK, LocOK, LocOKFor, UserLabels, PC
  <2>3. linked' \subseteq Users
    <3>1. linked' = linked \/ linked' = linked \cup {loc[r].user}
      BY <1>12 DEF UpsertExternalResource
    <3>2. linked \subseteq Users
      BY DEF AccountsTypeOK
    <3> HIDE DEF AccountsInv
    <3> QED BY <3>1, <3>2, <2>2
  <2> QED BY <1>12, <2>1, <2>3 DEF UpsertExternalResource, AccountsTypeOK, Moved
<1>13. CASE SetMembership(r)
  <2>1. Moved(r) /\ LocOK'
    <3>0. AfterGrant(r) \subseteq {"done", "group", "mailbox"}
      BY DEF AfterGrant
    <3>1. ASSUME NEW label \in AfterGrant(r), Goto(r, label) PROVE Moved(r) /\ LocOK'
      BY <1>13, <3>0, <3>1, GotoMoves DEF SetMembership, PC, UserLabels, Ended
    <3>2. CASE Fail(r, "other")
      BY <1>13, <3>2, FailMoves DEF SetMembership, Why, Ended
    <3> QED BY <1>13, <3>1, <3>2 DEF SetMembership
  <2>2. loc[r] \in Loc /\ loc[r].user \in Users
    BY <1>13 DEF SetMembership, AccountsTypeOK, LocOK, LocOKFor, UserLabels, PC
  <2>3. member' \in [Orgs \X Users -> OrgRole \cup {NoRole}]
    BY <1>13, <2>2 DEF SetMembership, AccountsTypeOK, Loc
  <2> QED BY <1>13, <2>1, <2>3 DEF SetMembership, AccountsTypeOK, Moved
<1>14. CASE SetUserActive(r)
  <2>1. Moved(r) /\ LocOK'
    BY <1>14, GotoMoves DEF SetUserActive, PC, UserLabels, Ended
  <2>2. loc[r] \in Loc /\ loc[r].user \in Users
    BY <1>14 DEF SetUserActive, AccountsTypeOK, LocOK, LocOKFor, UserLabels, PC
  <2>3. idp' \in [Users -> {"absent", "active", "inactive"}]
    BY <1>14, <2>2 DEF SetUserActive, AccountsTypeOK, Loc
  <2> QED BY <1>14, <2>1, <2>3 DEF SetUserActive, AccountsTypeOK, Moved
<1>15. CASE SetUserStatus(r)
  <2>1. Moved(r) /\ LocOK'
    <3>1. CASE Goto(r, "strip")
      BY <1>15, <3>1, GotoMoves DEF SetUserStatus, PC, UserLabels, Ended
    <3>2. CASE Goto(r, "done")
      BY <1>15, <3>2, GotoMoves DEF SetUserStatus, PC, UserLabels, Ended
    <3>3. CASE Fail(r, "other")
      BY <1>15, <3>3, FailMoves DEF SetUserStatus, Why, Ended
    <3> QED BY <1>15, <3>1, <3>2, <3>3 DEF SetUserStatus
  <2>2. loc[r] \in Loc /\ loc[r].user \in Users
    BY <1>15 DEF SetUserStatus, AccountsTypeOK, LocOK, LocOKFor, UserLabels, PC
  <2>3. users' \in [Users -> {"absent", "active", "disabled"}]
    BY <1>15, <2>2 DEF SetUserStatus, AccountsTypeOK, Loc
  <2> QED BY <1>15, <2>1, <2>3 DEF SetUserStatus, AccountsTypeOK, Moved
<1>16. CASE RemoveAllMemberships(r)
  <2>1. Moved(r) /\ LocOK'
    BY <1>16, GotoMoves DEF RemoveAllMemberships, PC, UserLabels, Ended
  <2>2. loc[r] \in Loc /\ loc[r].user \in Users
    BY <1>16 DEF RemoveAllMemberships, AccountsTypeOK, LocOK, LocOKFor, UserLabels, PC
  <2>3. member' \in [Orgs \X Users -> OrgRole \cup {NoRole}]
    <3> DEFINE stripped == [m \in Orgs \X Users |-> IF m[2] = loc[r].user THEN NoRole ELSE member[m]]
    <3>1. member' = member \/ member' = stripped
      BY <1>16 DEF RemoveAllMemberships
    <3>2. stripped \in [Orgs \X Users -> OrgRole \cup {NoRole}]
      BY DEF AccountsTypeOK
    <3> QED BY <3>1, <3>2 DEF AccountsTypeOK
  <2> QED BY <1>16, <2>1, <2>3 DEF RemoveAllMemberships, AccountsTypeOK, Moved
<1>17. CASE AdminCount(r)
  <2>1. Moved(r) /\ LocOK'
    <3>1. CASE Goto(r, "flag")
      BY <1>17, <3>1, GotoMoves DEF AdminCount, PC, UserLabels, Ended
    <3>2. CASE Fail(r, "other")
      BY <1>17, <3>2, FailMoves DEF AdminCount, Why, Ended
    <3> QED BY <1>17, <3>1, <3>2 DEF AdminCount
  <2> QED BY <1>17, <2>1 DEF AdminCount, AccountsTypeOK, Moved
<1>18. CASE SetUserAdmin(r)
  <2>1. Moved(r) /\ LocOK'
    BY <1>18, GotoMoves DEF SetUserAdmin, PC, UserLabels, Ended
  <2>2. loc[r] \in Loc /\ loc[r].user \in Users
    BY <1>18 DEF SetUserAdmin, AccountsTypeOK, LocOK, LocOKFor, UserLabels, PC
  <2>3. admins' \subseteq Users
    BY <1>18, <2>2 DEF SetUserAdmin, AccountsTypeOK, Loc
  <2> QED BY <1>18, <2>1, <2>3 DEF SetUserAdmin, AccountsTypeOK, Moved
<1>19. CASE UpsertFromOIDC(r)
  <2>1. Moved(r) /\ LocOK'
    <3>1. CASE Goto(r, "bootstrap")
      BY <1>19, <3>1, GotoMoves DEF UpsertFromOIDC, PC, UserLabels, Ended
    <3>2. CASE Goto(r, "done")
      BY <1>19, <3>2, GotoMoves DEF UpsertFromOIDC, PC, UserLabels, Ended
    <3> QED BY <1>19, <3>1, <3>2 DEF UpsertFromOIDC
  <2>2. loc[r] \in Loc /\ loc[r].user \in Users
    BY <1>19 DEF UpsertFromOIDC, AccountsTypeOK, LocOK, LocOKFor, UserLabels, PC
  <2>3. users' \in [Users -> {"absent", "active", "disabled"}] /\ identity' \in [Users -> {"", "pk", "sub"}]
    BY <1>19, <2>2 DEF UpsertFromOIDC, AccountsTypeOK, Loc
  <2> QED BY <1>19, <2>1, <2>3 DEF UpsertFromOIDC, AccountsTypeOK, Moved
<1>20. CASE BootstrapCheck(r)
  <2>1. Moved(r) /\ LocOK'
    <3>1. CASE Goto(r, "grantAdmin")
      BY <1>20, <3>1, GotoMoves DEF BootstrapCheck, PC, UserLabels, Ended
    <3>2. CASE Fail(r, "noRows")
      BY <1>20, <3>2, FailMoves DEF BootstrapCheck, Why, Ended
    <3> QED BY <1>20, <3>1, <3>2 DEF BootstrapCheck
  <2> QED BY <1>20, <2>1 DEF BootstrapCheck, AccountsTypeOK, Moved
<1>21. CASE GrantAdmin(r)
  <2>1. Moved(r) /\ LocOK'
    BY <1>21, GotoMoves DEF GrantAdmin, PC, UserLabels, Ended
  <2>2. loc[r] \in Loc /\ loc[r].user \in Users
    BY <1>21 DEF GrantAdmin, AccountsTypeOK, LocOK, LocOKFor, UserLabels, PC
  <2>3. admins' \subseteq Users
    BY <1>21, <2>2 DEF GrantAdmin, AccountsTypeOK, Loc
  <2> QED BY <1>21, <2>1, <2>3 DEF GrantAdmin, AccountsTypeOK, Moved
<1>22. CASE StartAddGroupMember(r)
  <2>1. PICK a \in Session, o \in Orgs, u \in Users :
            /\ Op[r] = "addGroup"
            /\ Admit(r, "group", [NoLoc EXCEPT !.actor = a, !.org = o, !.user = u])
            /\ UNCHANGED <<dbVars, extVars>>
    BY <1>22 DEF StartAddGroupMember
  <2>2. [NoLoc EXCEPT !.actor = a, !.org = o, !.user = u] \in Loc
    BY AccountsAssumption DEF Loc, NoLoc, Session
  <2>3. Moved(r) /\ LocOK' /\ pk' = pk
    BY <2>1, <2>2, AdmitMoves DEF PC, UserLabels, NoLoc, Loc
  <2> QED BY <2>1, <2>3 DEF AccountsTypeOK, Moved
<1>23. CASE AddGroupMember(r)
  <2>1. Moved(r) /\ LocOK'
    <3>1. CASE Goto(r, "done")
      BY <1>23, <3>1, GotoMoves DEF AddGroupMember, PC, UserLabels, Ended
    <3>2. CASE Goto(r, "mailbox")
      BY <1>23, <3>2, GotoMoves DEF AddGroupMember, PC, UserLabels, Ended
    <3>3. CASE Fail(r, "late")
      BY <1>23, <3>3, FailMoves DEF AddGroupMember, Why, Ended
    <3>4. CASE Fail(r, "other")
      BY <1>23, <3>4, FailMoves DEF AddGroupMember, Why, Ended
    <3> QED BY <1>23, <3>1, <3>2, <3>3, <3>4 DEF AddGroupMember
  <2>2. loc[r] \in Loc /\ loc[r].user \in Users
    BY <1>23 DEF AddGroupMember, AccountsTypeOK, LocOK, LocOKFor, UserLabels, PC
  <2>3. grouped' \subseteq Orgs \X Users
    <3>1. grouped' = grouped \/ \E o \in Orgs : grouped' = grouped \cup {<<o, loc[r].user>>}
      BY <1>23 DEF AddGroupMember
    <3>2. grouped \subseteq Orgs \X Users
      BY DEF AccountsTypeOK
    <3> HIDE DEF AccountsInv
    <3> QED BY <3>1, <3>2, <2>2
  <2> QED BY <1>23, <2>1, <2>3 DEF AddGroupMember, AccountsTypeOK, Moved
<1>24. CASE ProvisionMailbox(r)
  <2>1. Moved(r) /\ LocOK'
    <3>1. CASE Goto(r, "done")
      BY <1>24, <3>1, GotoMoves DEF ProvisionMailbox, PC, UserLabels, Ended
    <3>2. CASE Fail(r, "late")
      BY <1>24, <3>2, FailMoves DEF ProvisionMailbox, Why, Ended
    <3> QED BY <1>24, <3>1, <3>2 DEF ProvisionMailbox
  <2> QED BY <1>24, <2>1 DEF ProvisionMailbox, AccountsTypeOK, Moved
<1>25. CASE RemoveAllGroupMemberships(r)
  <2>1. Moved(r) /\ LocOK'
    BY <1>25, GotoMoves DEF RemoveAllGroupMemberships, PC, UserLabels, Ended
  <2>2. grouped' \subseteq Orgs \X Users
    <3>1. grouped' \subseteq grouped
      BY <1>25 DEF RemoveAllGroupMemberships
    <3>2. grouped \subseteq Orgs \X Users
      BY DEF AccountsTypeOK
    <3> HIDE DEF AccountsInv
    <3> QED BY <3>1, <3>2
  <2> QED BY <1>25, <2>1, <2>2 DEF RemoveAllGroupMemberships, AccountsTypeOK, Moved
<1> QED
  BY <1>1, <1>2, <1>3, <1>4, <1>5, <1>6, <1>7, <1>8, <1>9, <1>10, <1>11, <1>12, <1>13, <1>14,
     <1>15, <1>16, <1>17, <1>18, <1>19, <1>20, <1>21, <1>22, <1>23, <1>24, <1>25 DEF AccountStep

\* So does deleteOrganization, with its cascade.
LEMMA DeleteAccountsType ==
    ASSUME AccountsInv, NEW r \in Reqs, DeleteOrganization(r)
    PROVE  AccountsInv' /\ Moved(r)
<1> USE DEF dbVars, extVars, AccountsInv
<1>1. Moved(r) /\ LocOK'
  <2>1. CASE Goto(r, "done")
    BY <2>1, GotoMoves DEF DeleteOrganization, PC, UserLabels, Ended
  <2>2. CASE Fail(r, "other")
    BY <2>2, FailMoves DEF DeleteOrganization, Why, Ended
  <2> QED BY <2>1, <2>2 DEF DeleteOrganization
<1>2. orgs' \in [Orgs -> {"unused", "live", "deleted"}]
  <2>1. orgs' = orgs \/ orgs' = [orgs EXCEPT ![loc[r].org] = "deleted"]
    BY DEF DeleteOrganization
  <2> QED BY <2>1 DEF AccountsTypeOK
<1>3. member' \in [Orgs \X Users -> OrgRole \cup {NoRole}]
  <2> DEFINE left == [m \in Orgs \X Users |-> IF m[1] = loc[r].org THEN NoRole ELSE member[m]]
  <2>1. member' = member \/ member' = left
    BY DEF DeleteOrganization
  <2>2. left \in [Orgs \X Users -> OrgRole \cup {NoRole}]
    BY DEF AccountsTypeOK
  <2> QED BY <2>1, <2>2 DEF AccountsTypeOK
<1>4. grouped' \subseteq Orgs \X Users
  <2>1. grouped' \subseteq grouped
    BY DEF DeleteOrganization
  <2>2. grouped \subseteq Orgs \X Users
    BY DEF AccountsTypeOK
  <2> HIDE DEF AccountsInv
  <2> QED BY <2>1, <2>2
<1> QED BY <1>1, <1>2, <1>3, <1>4 DEF DeleteOrganization, AccountsTypeOK, Moved

\* A request that dies between two statements changes no data, and authentik's
\* coming and going nothing of the requests.
LEMMA AbortAccountsType ==
    ASSUME AccountsInv, NEW r \in Reqs, Abort(r)
    PROVE  AccountsInv' /\ Moved(r)
<1>1. Moved(r) /\ LocOK'
  BY FailMoves DEF Abort, Why, Ended
<1> QED BY <1>1 DEF Abort, AccountsInv, AccountsTypeOK, Moved, dbVars, extVars

LEMMA IdpToggleType ==
    ASSUME AccountsInv, IdpToggle
    PROVE  AccountsInv'
<1>1. idpUp' \in BOOLEAN
  BY Zenon DEF IdpToggle
<1>2. AccountsTypeOK'
  BY <1>1 DEF IdpToggle, AccountsInv, AccountsTypeOK, dbVars
<1>3. LocOK'
  BY DEF IdpToggle, AccountsInv, LocOK, LocOKFor
<1> QED BY <1>2, <1>3 DEF AccountsInv

\* The initial accounts are well typed.
LEMMA AccountsInitType == AccountsInit => AccountsInv
<1> SUFFICES ASSUME AccountsInit PROVE AccountsInv
  OBVIOUS
<1> USE AccountsAssumption DEF AccountsInit
<1>1. /\ orgs \in [Orgs -> {"unused", "live", "deleted"}]
      /\ users \in [Users -> {"absent", "active", "disabled"}]
      /\ identity \in [Users -> {"", "pk", "sub"}]
  OBVIOUS
<1>2. idp \in [Users -> {"absent", "active", "inactive"}]
  <2>1. PICK X \in SUBSET (Users \ SeedUsers) :
            idp = [u \in Users |-> IF u \in SeedUsers \cup X THEN "active" ELSE "absent"]
    OBVIOUS
  <2> QED BY <2>1
<1>3. admins \subseteq Users /\ linked \subseteq Users
  BY DEF SeedUsers
<1>4. NoLoc \in Loc
  BY DEF NoLoc, Loc
<1>5. /\ pc \in [Reqs -> PC] /\ loc \in [Reqs -> Loc]
      /\ pk \in [Reqs -> {"", "pk"}] /\ why \in [Reqs -> Why]
  BY <1>4 DEF PC, Why
<1>6. AccountsTypeOK
  BY <1>1, <1>2, <1>3, <1>5 DEF AccountsTypeOK
<1>7. LocOK
  BY DEF LocOK, LocOKFor, UserLabels
<1> QED BY <1>6, <1>7 DEF AccountsInv

InvitesInv == InvitesTypeOK /\ LocOK

\* The invites' invariant contains the accounts'.
LEMMA TypesOf == InvitesInv => AccountsInv
BY DEF InvitesInv, InvitesTypeOK, AccountsInv

\* An issued invite's row.
LEMMA IssuedTyped ==
    ASSUME InvitesInv, NEW i \in Issued
    PROVE  i \in Reqs /\ invites[i] \in Invite
BY DEF InvitesInv, InvitesTypeOK, Issued

(***************************************************************************)
(* Every createInvite and acceptInvite step keeps the state well typed.    *)
(***************************************************************************)
LEMMA InviteStepType ==
    ASSUME InvitesInv, NEW r \in Reqs, InviteStep(r)
    PROVE  InvitesInv' /\ Moved(r)
<1> USE DEF dbVars, extVars, InvitesInv, InvitesTypeOK
<1>a. AccountsInv
  BY TypesOf
<1>1. CASE StartInvite(r)
  <2>1. PICK a \in Session, o \in Orgs, u \in Users, role \in OrgRole :
            /\ Op[r] = "invite"
            /\ Admit(r, "lookup", [actor |-> a, org |-> o, user |-> u, role |-> role, inv |-> None])
            /\ UNCHANGED <<dbVars, extVars, now, invites, password, won, burnt>>
    BY <1>1 DEF StartInvite
  <2>2. [actor |-> a, org |-> o, user |-> u, role |-> role, inv |-> None] \in Loc
    BY AccountsAssumption DEF Loc, NoLoc, Session
  <2>3. Moved(r) /\ LocOK' /\ pk' = pk
    BY <1>a, <2>1, <2>2, AdmitMoves DEF PC, UserLabels, NoLoc, Loc
  <2>4. AccountsTypeOK'
    BY <2>1, <2>3 DEF AccountsTypeOK, Moved
  <2>5. older' \in [Reqs -> SUBSET Reqs]
    BY <1>1 DEF StartInvite, Issued
  <2> QED BY <2>1, <2>3, <2>4, <2>5
<1>2. CASE CheckNotMember(r)
  <2>1. Moved(r) /\ LocOK'
    <3>0. Op[r] = "invite" /\ pc[r] = "checkMember"
      BY <1>2 DEF CheckNotMember, LocOK, LocOKFor
    <3>1. CASE Goto(r, "expire")
      BY <1>a, <3>0, <3>1, GotoMoves DEF PC, UserLabels, Ended
    <3>2. CASE Fail(r, "other")
      BY <1>a, <3>0, <3>2, FailMoves DEF Why, Ended
    <3> QED BY <1>2, <3>1, <3>2 DEF CheckNotMember
  <2>2. AccountsTypeOK'
    BY <1>2, <2>1 DEF CheckNotMember, AccountsTypeOK, Moved
  <2> QED BY <1>2, <2>1, <2>2 DEF CheckNotMember, inviteVars
<1>3. CASE ExpirePendingInvites(r)
  <2>0. Op[r] = "invite" /\ pc[r] = "expire"
    BY <1>3 DEF ExpirePendingInvites, LocOK, LocOKFor
  <2>1. Moved(r) /\ LocOK'
    BY <1>a, <1>3, <2>0, GotoMoves DEF ExpirePendingInvites, PC, UserLabels, Ended
  <2>2. AccountsTypeOK'
    BY <1>3, <2>1 DEF ExpirePendingInvites, AccountsTypeOK, Moved
  <2>3. invites' \in [Reqs -> Invite \cup {NoInvite}]
    <3> DEFINE hit == {i \in Issued : /\ Pending(i) /\ invites[i].org = loc[r].org
                                      /\ invites[i].user = loc[r].user}
               burn(i) == IF i \in hit THEN [invites[i] EXCEPT !.accepted = TRUE] ELSE invites[i]
    <3>1. invites' = [i \in Reqs |-> burn(i)]
      BY <1>3 DEF ExpirePendingInvites
    <3>2. ASSUME NEW i \in Reqs PROVE burn(i) \in Invite \cup {NoInvite}
      <4>1. CASE i \in hit
        BY <4>1, IssuedTyped DEF Invite
      <4>2. CASE i \notin hit
        BY <4>2
      <4> QED BY <4>1, <4>2
    <3> QED BY <3>1, <3>2
  <2>4. burnt' \subseteq Reqs
    BY <1>3 DEF ExpirePendingInvites, Issued
  <2> QED BY <1>3, <2>1, <2>2, <2>3, <2>4 DEF ExpirePendingInvites
<1>4. CASE CreateInvite(r)
  <2>0. Op[r] = "invite" /\ pc[r] = "insertInvite"
    BY <1>4 DEF CreateInvite, LocOK, LocOKFor
  <2>1. Moved(r) /\ LocOK'
    <3>1. CASE Goto(r, "done")
      BY <1>a, <2>0, <3>1, GotoMoves DEF PC, UserLabels, Ended
    <3>2. CASE Fail(r, "other")
      BY <1>a, <2>0, <3>2, FailMoves DEF Why, Ended
    <3> QED BY <1>4, <3>1, <3>2 DEF CreateInvite
  <2>2. AccountsTypeOK'
    BY <1>4, <2>1 DEF CreateInvite, AccountsTypeOK, Moved
  <2>3. invites' \in [Reqs -> Invite \cup {NoInvite}]
    <3> DEFINE row == [org |-> loc[r].org, user |-> loc[r].user, role |-> loc[r].role,
                       expires |-> now + TTL, accepted |-> FALSE]
    <3>1. invites' = invites \/ invites' = [invites EXCEPT ![r] = row]
      BY <1>4 DEF CreateInvite
    <3>2. loc[r].org \in Orgs /\ loc[r].user \in Users /\ loc[r].role \in OrgRole
      BY <2>0 DEF LocOK, LocOKFor
    <3>3. now + TTL \in Nat
      BY InvitesAssumption
    <3>4. row \in Invite
      BY <3>2, <3>3 DEF Invite
    <3> QED BY <3>1, <3>4
  <2> QED BY <1>4, <2>1, <2>2, <2>3 DEF CreateInvite
<1>5. CASE GetInviteByTokenHash(r)
  <2>1. PICK i \in Issued :
            /\ Op[r] = "accept"
            /\ Admit(r, "linked", [actor |-> None, org |-> invites[i].org, user |-> invites[i].user,
                                   role |-> invites[i].role, inv |-> i])
            /\ UNCHANGED <<dbVars, extVars, inviteVars>>
    BY <1>5 DEF GetInviteByTokenHash
  <2> DEFINE l == [actor |-> None, org |-> invites[i].org, user |-> invites[i].user,
                   role |-> invites[i].role, inv |-> i]
  <2>2. l \in Loc /\ l.user \in Users
    BY IssuedTyped DEF Loc, Invite
  <2>3. Moved(r) /\ LocOK' /\ pk' = pk
    BY <1>a, <2>1, <2>2, AdmitMoves DEF PC, UserLabels
  <2>4. AccountsTypeOK'
    BY <2>1, <2>3 DEF AccountsTypeOK, Moved
  <2> QED BY <2>1, <2>3, <2>4 DEF inviteVars
<1>6. CASE GetExternalResource(r)
  <2>1. Moved(r) /\ LocOK'
    <3>1. CASE Goto(r, "password")
      BY <1>a, <1>6, <3>1, GotoMoves DEF GetExternalResource, PC, UserLabels, Ended
    <3>2. CASE Fail(r, "other")
      BY <1>a, <1>6, <3>2, FailMoves DEF GetExternalResource, Why, Ended
    <3> QED BY <1>6, <3>1, <3>2 DEF GetExternalResource
  <2>2. AccountsTypeOK'
    BY <1>6, <2>1 DEF GetExternalResource, AccountsTypeOK, Moved
  <2> QED BY <1>6, <2>1, <2>2 DEF GetExternalResource, inviteVars
<1>7. CASE SetUserPassword(r)
  <2>1. Moved(r) /\ LocOK'
    <3>1. CASE Goto(r, "consume")
      BY <1>a, <1>7, <3>1, GotoMoves DEF SetUserPassword, PC, UserLabels, Ended
    <3>2. CASE Fail(r, "other")
      BY <1>a, <1>7, <3>2, FailMoves DEF SetUserPassword, Why, Ended
    <3> QED BY <1>7, <3>1, <3>2 DEF SetUserPassword
  <2>2. AccountsTypeOK'
    BY <1>7, <2>1 DEF SetUserPassword, AccountsTypeOK, Moved
  <2>3. password' = password \/ password' = [password EXCEPT ![loc[r].user] = r]
    BY <1>7 DEF SetUserPassword
  <2>4. password' \in [Users -> Reqs \cup {None}]
    BY <2>3
  <2> QED BY <1>7, <2>1, <2>2, <2>4 DEF SetUserPassword
<1>8. CASE ConsumeInvite(r)
  <2>1. Moved(r) /\ LocOK'
    <3>1. CASE Goto(r, "grant")
      BY <1>a, <1>8, <3>1, GotoMoves DEF ConsumeInvite, PC, UserLabels, Ended
    <3>2. CASE Fail(r, "other")
      BY <1>a, <1>8, <3>2, FailMoves DEF ConsumeInvite, Why, Ended
    <3> QED BY <1>8, <3>1, <3>2 DEF ConsumeInvite
  <2>2. AccountsTypeOK'
    BY <1>8, <2>1 DEF ConsumeInvite, AccountsTypeOK, Moved
  <2>3. invites' \in [Reqs -> Invite \cup {NoInvite}] /\ won' \subseteq Reqs
    <3> DEFINE i == loc[r].inv
    <3>1. CASE invites' = invites /\ won' = won
      BY <3>1
    <3>2. CASE /\ i \in Issued
               /\ invites' = [invites EXCEPT ![i].accepted = TRUE] /\ won' = won \cup {r}
      <4>1. i \in Reqs /\ [invites[i] EXCEPT !.accepted = TRUE] \in Invite
        BY <3>2, IssuedTyped DEF Invite
      <4> QED BY <3>2, <4>1
    <3> QED BY <1>8, <3>1, <3>2 DEF ConsumeInvite, Pending
  <2> QED BY <1>8, <2>1, <2>2, <2>3 DEF ConsumeInvite
<1> QED BY <1>1, <1>2, <1>3, <1>4, <1>5, <1>6, <1>7, <1>8 DEF InviteStep

\* Deleting an organization, with its cascade, keeps the state well typed.
LEMMA DeleteOrganizationType ==
    ASSUME InvitesInv, NEW r \in Reqs, DeleteOrganizationAndInvites(r)
    PROVE  InvitesInv' /\ Moved(r)
<1> USE DEF InvitesInv, InvitesTypeOK
<1>1. AccountsInv' /\ Moved(r)
  BY TypesOf, DeleteAccountsType DEF DeleteOrganizationAndInvites
<1>2. invites' \in [Reqs -> Invite \cup {NoInvite}]
  BY DEF DeleteOrganizationAndInvites
<1> QED BY <1>1, <1>2 DEF DeleteOrganizationAndInvites, AccountsInv

\* So does a request that dies between two statements.
LEMMA AbortType ==
    ASSUME InvitesInv, NEW r \in Reqs, Abort(r), UNCHANGED inviteVars
    PROVE  InvitesInv' /\ Moved(r)
<1>1. AccountsInv' /\ Moved(r)
  BY TypesOf, AbortAccountsType
<1> QED BY <1>1 DEF InvitesInv, InvitesTypeOK, AccountsInv, inviteVars

\* The initial states are well typed.
LEMMA InitType == Init => InvitesInv
<1> SUFFICES ASSUME Init PROVE InvitesInv
  OBVIOUS
<1>1. now \in 0..MaxNow
  BY InvitesAssumption DEF Init
<1>2. AccountsInv
  BY AccountsInitType DEF Init
<1>3. /\ invites \in [Reqs -> Invite \cup {NoInvite}]
      /\ password \in [Users -> Reqs \cup {None}]
      /\ older \in [Reqs -> SUBSET Reqs]
  BY DEF Init
<1> QED BY <1>1, <1>2, <1>3 DEF Init, InvitesInv, InvitesTypeOK, AccountsInv

(***************************************************************************)
(* One step of the whole system keeps the state well typed.                *)
(***************************************************************************)
LEMMA NextType == InvitesInv /\ [Next]_vars => InvitesInv'
<1> SUFFICES ASSUME InvitesInv, [Next]_vars PROVE InvitesInv'
  OBVIOUS
<1>1. ASSUME NEW r \in Reqs, RequestStep(r) PROVE InvitesInv'
  <2>1. CASE AccountStep(r) /\ UNCHANGED inviteVars
    BY <2>1, TypesOf, AccountStepType DEF InvitesInv, InvitesTypeOK, AccountsInv, inviteVars
  <2> QED BY <1>1, <2>1, InviteStepType, DeleteOrganizationType DEF RequestStep
<1>2. ASSUME NEW r \in Reqs, Abort(r), UNCHANGED inviteVars PROVE InvitesInv'
  BY <1>2, AbortType
<1>3. CASE IdpToggle /\ UNCHANGED inviteVars
  BY <1>3, TypesOf, IdpToggleType DEF InvitesInv, InvitesTypeOK, AccountsInv, inviteVars
<1>4. CASE Tick
  <2>1. now' \in 0..MaxNow
    BY <1>4, InvitesAssumption DEF Tick, InvitesInv, InvitesTypeOK
  <2> QED BY <1>4, <2>1
          DEF Tick, InvitesInv, InvitesTypeOK, AccountsTypeOK, LocOK, LocOKFor, accountVars
<1>5. CASE UNCHANGED vars
  BY <1>5 DEF InvitesInv, InvitesTypeOK, AccountsTypeOK, LocOK, LocOKFor, vars, accountVars, inviteVars
<1> QED BY <1>1, <1>2, <1>3, <1>4, <1>5 DEF Next, Idle

(***************************************************************************)
(* Type correctness of the accounts, the invites and every request's       *)
(* values: no interleaving of handlers and faults stores a value a column  *)
(* does not take.                                                          *)
(***************************************************************************)
THEOREM TypeCorrect == Spec => []InvitesTypeOK
<1>1. InvitesInv => InvitesTypeOK
  BY DEF InvitesInv
<1> QED BY <1>1, InitType, NextType, PTL DEF Spec

-----------------------------------------------------------------------------
\* An invite is settled once.

(***************************************************************************)
(* SettledOnce is not inductive: a new row could take the name of an       *)
(* invite that is already settled.  It cannot, because an invite is named  *)
(* after its createInvite request, and every issued, burnt or redeemed     *)
(* invite's request has ended.                                             *)
(***************************************************************************)
SettledInv ==
    /\ InvitesInv
    /\ \A i \in Issued \cup burnt : pc[i] = "done"
    /\ \A r \in won : pc[r] # "start" /\ loc[r].inv \in Reqs /\ pc[loc[r].inv] = "done"
    /\ SettledOnce

\* What every step leaves alone: requests that are done, and what the winners
\* presented.
Kept ==
    /\ \A i \in Reqs : pc[i] = "done" => pc'[i] = "done"
    /\ \A r \in won : loc'[r] = loc[r] /\ pc'[r] # "start"

\* A move of one request leaves alone what Kept says.
LEMMA MovedKept ==
    ASSUME SettledInv, NEW r \in Reqs, Moved(r)
    PROVE  Kept
<1>1. won \subseteq Reqs
  BY DEF SettledInv, InvitesInv, InvitesTypeOK
<1> QED BY <1>1 DEF SettledInv, Moved, Kept, Ended

\* A step that settles nothing, makes pending no invite of a request that is
\* done, and issues only under the name of one that is.
LEMMA SettledKept ==
    ASSUME SettledInv, Kept, InvitesInv', won' = won, burnt' = burnt,
           \A i \in Reqs : Pending(i)' => Pending(i) \/ pc[i] # "done",
           \A i \in Reqs : (i \in Issued)' => pc'[i] = "done"
    PROVE  SettledInv'
<1>1. won \subseteq Reqs /\ burnt \subseteq Reqs
  BY DEF SettledInv, InvitesInv, InvitesTypeOK
<1>2. \A i \in (Issued \cup burnt)' : pc'[i] = "done"
  BY <1>1 DEF SettledInv, Kept, Issued
<1>3. \A r \in won : loc'[r].inv = loc[r].inv /\ pc'[loc[r].inv] = "done"
  BY DEF SettledInv, Kept
<1>4. \A r, s \in won : loc[r].inv = loc[s].inv => r = s
  BY DEF SettledInv, SettledOnce
<1>5. \A r \in won : loc[r].inv \notin burnt
  BY DEF SettledInv, SettledOnce
<1>6. ASSUME NEW i \in burnt \cup {loc[r].inv : r \in won} PROVE ~Pending(i)'
  BY <1>1 DEF SettledInv, SettledOnce
<1>7. SettledOnce'
  BY <1>3, <1>4, <1>5, <1>6 DEF SettledOnce
<1>8. \A r \in won : pc'[r] # "start" /\ loc'[r].inv \in Reqs /\ pc'[loc'[r].inv] = "done"
  BY <1>3 DEF SettledInv, Kept
<1> QED BY <1>2, <1>7, <1>8 DEF SettledInv

\* A step that leaves the table alone.
LEMMA SettledFrame ==
    ASSUME SettledInv, Kept, InvitesInv', UNCHANGED <<invites, won, burnt>>
    PROVE  SettledInv'
<1>1. \A i \in Reqs : (i \in Issued)' => i \in Issued
  BY DEF Issued
<1>2. \A i \in Reqs : Pending(i)' => Pending(i)
  BY <1>1 DEF Pending
<1>3. \A i \in Reqs : (i \in Issued)' => pc'[i] = "done"
  BY <1>1 DEF SettledInv, Kept
<1> QED BY <1>2, <1>3, SettledKept

\* Every createInvite and acceptInvite step keeps the invites settled.
LEMMA InviteStepSettled ==
    ASSUME SettledInv, NEW r \in Reqs, InviteStep(r)
    PROVE  SettledInv'
<1>a. InvitesInv' /\ Moved(r)
  BY InviteStepType DEF SettledInv
<1>b. Kept
  BY <1>a, MovedKept
<1>c. /\ invites \in [Reqs -> Invite \cup {NoInvite}]
      /\ won \subseteq Reqs /\ burnt \subseteq Reqs
  BY DEF SettledInv, InvitesInv, InvitesTypeOK
<1>d. \A i \in Issued : i \in Reqs /\ pc[i] = "done" /\ pc'[i] = "done"
  BY <1>b DEF SettledInv, Kept, Issued
<1>1. CASE UNCHANGED <<invites, won, burnt>>
  BY <1>a, <1>b, <1>1, SettledFrame
<1>2. CASE ExpirePendingInvites(r)
  <2> DEFINE hit == {i \in Issued : /\ Pending(i) /\ invites[i].org = loc[r].org
                                    /\ invites[i].user = loc[r].user}
  <2>1. /\ invites' = [i \in Reqs |-> IF i \in hit THEN [invites[i] EXCEPT !.accepted = TRUE]
                                                   ELSE invites[i]]
        /\ burnt' = burnt \cup hit /\ won' = won
    BY <1>2 DEF ExpirePendingInvites
  <2>2. \A i \in hit : i \in Reqs /\ Pending(i) /\ i \in Issued
    BY <1>d
  <2>3. \A i \in hit : invites[i] \in Invite /\ invites'[i] = [invites[i] EXCEPT !.accepted = TRUE]
    BY <2>1, <2>2, IssuedTyped DEF SettledInv
  <2>4. \A i \in hit : invites'[i].accepted
    BY <2>3 DEF Invite
  <2>5. \A i \in Reqs \ hit : invites'[i] = invites[i]
    BY <2>1
  <2>6. \A i \in Reqs : (i \in Issued)' => i \in Issued
    BY <2>2, <2>5 DEF Issued
  <2>7. \A i \in Reqs : Pending(i)' => Pending(i) /\ i \notin hit
    BY <2>4, <2>5, <2>6 DEF Pending
  <2>8. \A s \in won : loc'[s].inv = loc[s].inv /\ loc[s].inv \in Reqs /\ pc'[loc[s].inv] = "done" /\ pc'[s] # "start"
    BY <1>b DEF SettledInv, Kept
  <2>9. \A s \in won : loc[s].inv \notin hit
    BY <2>2 DEF SettledInv, SettledOnce
  <2>10. \A i \in burnt \cup hit : i \in Reqs /\ ~Pending(i)' /\ pc'[i] = "done"
    BY <1>b, <1>c, <1>d, <2>2, <2>7 DEF SettledInv, SettledOnce, Kept
  <2>11. \A s \in won : ~Pending(loc[s].inv)'
    BY <2>7, <2>8 DEF SettledInv, SettledOnce
  <2>12. SettledOnce'
    BY <2>1, <2>8, <2>9, <2>10, <2>11 DEF SettledInv, SettledOnce
  <2>13. \A i \in (Issued \cup burnt)' : pc'[i] = "done"
    BY <1>d, <2>1, <2>6, <2>10 DEF Issued
  <2> QED BY <1>a, <2>1, <2>8, <2>12, <2>13 DEF SettledInv
<1>3. CASE CreateInvite(r)
  <2>1. pc[r] = "insertInvite" /\ won' = won /\ burnt' = burnt
    BY <1>3 DEF CreateInvite
  <2>2. \A i \in Reqs \ {r} : invites'[i] = invites[i]
    BY <1>3, <1>c DEF CreateInvite
  <2>3. \A i \in Reqs : Pending(i)' => Pending(i) \/ pc[i] # "done"
    BY <2>1, <2>2 DEF Pending, Issued
  <2>4. (r \in Issued)' => pc'[r] = "done"
    <3>1. CASE invites' = invites
      BY <3>1, <1>d DEF Issued
    <3>2. CASE Goto(r, "done")
      <4>1. pc \in [Reqs -> PC]
        BY DEF SettledInv, InvitesInv, InvitesTypeOK, AccountsTypeOK
      <4> QED BY <3>2, <4>1 DEF Goto
    <3> QED BY <1>3, <3>1, <3>2 DEF CreateInvite
  <2>5. \A i \in Reqs : (i \in Issued)' => pc'[i] = "done"
    BY <1>d, <2>2, <2>4 DEF Issued
  <2> QED BY <1>a, <1>b, <2>1, <2>3, <2>5, SettledKept
<1>4. CASE /\ ConsumeInvite(r)
           /\ ~UNCHANGED <<invites, won, burnt>>
  <2> DEFINE i == loc[r].inv
  <2>1. /\ Pending(i) /\ pc[r] = "consume"
        /\ invites' = [invites EXCEPT ![i].accepted = TRUE]
        /\ won' = won \cup {r} /\ burnt' = burnt
    BY <1>4 DEF ConsumeInvite
  <2>2. i \in Issued /\ i \in Reqs /\ pc'[i] = "done" /\ invites[i] \in Invite
    BY <1>d, <2>1, IssuedTyped DEF Pending, SettledInv
  <2>3. invites'[i].accepted /\ invites'[i] # NoInvite
    BY <1>c, <2>1, <2>2 DEF Invite, NoInvite
  <2>4. \A j \in Reqs \ {i} : invites'[j] = invites[j]
    BY <1>c, <2>1
  <2>5. \A j \in Reqs : (j \in Issued)' => j \in Issued
    BY <2>2, <2>4 DEF Issued
  <2>6. \A j \in Reqs : Pending(j)' => Pending(j) /\ j # i
    BY <2>3, <2>4, <2>5 DEF Pending
  <2>7. loc'[r] = loc[r] /\ pc'[r] # "start"
    BY <1>a, <2>1 DEF Moved
  <2>8. \A s \in won : /\ loc'[s].inv = loc[s].inv /\ loc[s].inv \in Reqs /\ loc[s].inv # i
                       /\ pc'[loc[s].inv] = "done" /\ pc'[s] # "start"
    BY <1>b, <2>1 DEF SettledInv, SettledOnce, Kept
  <2>9. i \notin burnt /\ \A s \in won : loc[s].inv \notin burnt
    BY <2>1 DEF SettledInv, SettledOnce
  <2>10. \A j \in burnt : j \in Reqs /\ ~Pending(j)' /\ pc'[j] = "done"
    BY <1>b, <1>c, <2>6 DEF SettledInv, SettledOnce, Kept
  <2>11. \A s \in won : ~Pending(loc[s].inv)'
    BY <2>6, <2>8 DEF SettledInv, SettledOnce
  <2>12. \A s \in won' : /\ pc'[s] # "start" /\ loc'[s].inv \in Reqs /\ pc'[loc'[s].inv] = "done"
                         /\ loc'[s].inv \notin burnt' /\ ~Pending(loc[s].inv)'
    <3>0. won' = won \cup {r} /\ burnt' = burnt
      BY <2>1
    <3> SUFFICES ASSUME NEW s \in won \cup {r}
                 PROVE  /\ pc'[s] # "start" /\ loc'[s].inv \in Reqs /\ pc'[loc'[s].inv] = "done"
                        /\ loc'[s].inv \notin burnt /\ ~Pending(loc[s].inv)'
      BY <3>0
    <3>1. CASE s = r
      <4>1. loc'[s].inv = i
        BY <2>7, <3>1
      <4>2. ~Pending(loc[s].inv)'
        BY <4>1, <2>2, <2>6 DEF Pending, Issued
      <4> QED BY <3>1, <4>1, <4>2, <2>2, <2>7, <2>9
    <3>2. CASE s \in won
      <4>1. loc'[s].inv = loc[s].inv
        BY <2>8, <3>2
      <4> QED BY <3>2, <4>1, <2>8, <2>9, <2>11
    <3> QED BY <3>1, <3>2
  <2>13. \A s, t \in won' : loc'[s].inv = loc'[t].inv => s = t
    <3>1. won' = won \cup {r}
      BY <2>1
    <3>2. \A s, t \in won : loc[s].inv = loc[t].inv => s = t
      BY DEF SettledInv, SettledOnce
    <3> QED BY <2>7, <2>8, <3>1, <3>2
  <2>14. SettledOnce'
    <3>1. burnt' = burnt
      BY <2>1
    <3> QED BY <2>10, <2>12, <2>13, <3>1 DEF SettledOnce
  <2>15. \A j \in (Issued \cup burnt)' : pc'[j] = "done"
    BY <1>d, <2>1, <2>5, <2>10 DEF Issued
  <2> QED BY <1>a, <2>12, <2>14, <2>15 DEF SettledInv
<1> QED
  BY <1>1, <1>2, <1>3, <1>4
     DEF InviteStep, StartInvite, CheckNotMember, GetInviteByTokenHash, GetExternalResource,
         SetUserPassword, inviteVars

\* One step of the whole system keeps the invites settled.
LEMMA NextSettled == SettledInv /\ [Next]_vars => SettledInv'
<1> SUFFICES ASSUME SettledInv, [Next]_vars PROVE SettledInv'
  OBVIOUS
<1>a. InvitesInv /\ InvitesInv'
  BY NextType DEF SettledInv
<1>1. ASSUME NEW r \in Reqs, RequestStep(r) PROVE SettledInv'
  <2>1. CASE AccountStep(r) /\ UNCHANGED inviteVars
    <3>1. Kept
      BY <1>a, <2>1, TypesOf, AccountStepType, MovedKept
    <3> QED BY <1>a, <2>1, <3>1, SettledFrame DEF inviteVars
  <2>2. CASE DeleteOrganizationAndInvites(r)
    <3>1. Kept
      BY <1>a, <2>2, DeleteOrganizationType, MovedKept
    <3>2. won' = won /\ burnt' = burnt
      BY <2>2 DEF DeleteOrganizationAndInvites
    <3>3. \A i \in Reqs : (i \in Issued)' => i \in Issued /\ invites'[i] = invites[i]
      BY <2>2 DEF DeleteOrganizationAndInvites, Issued
    <3>4. \A i \in Reqs : Pending(i)' => Pending(i)
      BY <3>3 DEF Pending
    <3>5. \A i \in Reqs : (i \in Issued)' => pc'[i] = "done"
      BY <3>1, <3>3 DEF SettledInv, Kept
    <3> QED BY <1>a, <3>1, <3>2, <3>4, <3>5, SettledKept
  <2> QED BY <1>1, <2>1, <2>2, InviteStepSettled DEF RequestStep
<1>2. ASSUME NEW r \in Reqs, Abort(r), UNCHANGED inviteVars PROVE SettledInv'
  <2>1. Kept
    BY <1>a, <1>2, AbortType, MovedKept
  <2> QED BY <1>a, <1>2, <2>1, SettledFrame DEF inviteVars
<1>3. CASE pc' = pc /\ loc' = loc /\ UNCHANGED <<invites, won, burnt>>
  <2>1. Kept
    BY <1>3 DEF SettledInv, Kept
  <2> QED BY <1>a, <1>3, <2>1, SettledFrame
<1> QED
  BY <1>1, <1>2, <1>3 DEF Next, IdpToggle, Tick, Idle, vars, accountVars, inviteVars

(***************************************************************************)
(* However many requests present a token, overlap with re-invites and with *)
(* deletions of the organization, or die half way, ConsumeInvite succeeds  *)
(* at most once per invite and never for one a re-invite burnt.            *)
(***************************************************************************)
THEOREM InvitesSettleOnce == Spec => []SettledOnce
<1>1. Init => SettledInv
  BY InitType DEF Init, SettledInv, SettledOnce, Issued, Pending
<1>2. SettledInv => SettledOnce
  BY DEF SettledInv
<1> QED BY <1>1, <1>2, NextSettled, PTL DEF Spec
=============================================================================
