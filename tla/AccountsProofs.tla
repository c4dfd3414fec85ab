--------------------------- MODULE AccountsProofs ---------------------------
(***************************************************************************)
(* Proofs about accounts, organizations, roles and admins, alone and with  *)
(* invitations running beside them, for every set of users, organizations  *)
(* and requests, every assignment of handlers to requests and every fault. *)
(***************************************************************************)
EXTENDS InvitesProofs, FiniteSetTheorems

-----------------------------------------------------------------------------
\* Types, for the accounts alone.

\* A step of request r of the accounts.
AnyStep(r) == AccountStep(r) \/ DeleteOrganization(r) \/ Abort(r)

LEMMA AnyStepType ==
    ASSUME AccountsInv, NEW r \in Reqs, AnyStep(r)
    PROVE  AccountsInv' /\ Moved(r)
BY AccountStepType, DeleteAccountsType, AbortAccountsType DEF AnyStep

LEMMA AccountsNextType == AccountsInv /\ [AccountsNext]_accountVars => AccountsInv'
<1> SUFFICES ASSUME AccountsInv, [AccountsNext]_accountVars PROVE AccountsInv'
  OBVIOUS
<1>1. CASE UNCHANGED accountVars
  BY <1>1 DEF AccountsInv, AccountsTypeOK, LocOK, LocOKFor, accountVars
<1> QED
  BY <1>1, AnyStepType, IdpToggleType DEF AccountsNext, AccountsIdle, AnyStep

LEMMA AccountsTypeInvariant == AccountsSpec => []AccountsInv
BY AccountsInitType, AccountsNextType, PTL DEF AccountsSpec

(***************************************************************************)
(* Every column and every request's values have their type, whatever       *)
(* account handlers overlap and fail.                                      *)
(***************************************************************************)
THEOREM AccountsTyped == AccountsSpec => []AccountsTypeOK
<1>1. AccountsInv => AccountsTypeOK
  BY DEF AccountsInv
<1> QED BY <1>1, AccountsTypeInvariant, PTL

\* With the invitations beside them the accounts are typed, too.
LEMMA InvitesTypeInvariant == Spec => []InvitesInv
BY InitType, NextType, PTL DEF Spec

-----------------------------------------------------------------------------
\* Which handler statements write which column.

LEMMA Writers ==
    ASSUME NEW r \in Reqs, AccountStep(r)
    PROVE  /\ users' # users => CreateUser(r) \/ SetUserStatus(r) \/ UpsertFromOIDC(r)
           /\ idp' # idp => EnsureUser(r) \/ SetUserActive(r)
           /\ admins' # admins => SetUserAdmin(r) \/ GrantAdmin(r)
           /\ member' # member => SetMembership(r) \/ RemoveAllMemberships(r)
           /\ grouped' # grouped => AddGroupMember(r) \/ RemoveAllGroupMemberships(r)
           /\ linked' # linked => UpsertExternalResource(r)
           /\ orgs' # orgs => CreateOrganization(r)
           /\ pk' # pk => EnsureUser(r)
<1> USE DEF dbVars, extVars
<1>1. CASE \/ StartOrg(r) \/ StartAddMember(r) \/ StartOnboard(r) \/ StartCreateUser(r)
           \/ StartUserStatus(r) \/ StartSetUserAdmin(r) \/ StartLogin(r) \/ StartAddGroupMember(r)
  BY <1>1 DEF StartOrg, StartAddMember, StartOnboard, StartCreateUser, StartUserStatus,
              StartSetUserAdmin, StartLogin, StartAddGroupMember, Admit
<1>2. CASE \/ CreateOrganization(r) \/ GetUserByEmail(r) \/ EnsureUser(r) \/ CreateUser(r)
           \/ UpsertExternalResource(r) \/ SetMembership(r) \/ AddGroupMember(r)
  BY <1>2 DEF CreateOrganization, GetUserByEmail, EnsureUser, CreateUser, UpsertExternalResource,
              SetMembership, AddGroupMember
<1>3. CASE \/ ProvisionMailbox(r) \/ SetUserActive(r) \/ SetUserStatus(r)
           \/ RemoveAllMemberships(r) \/ RemoveAllGroupMemberships(r)
  BY <1>3 DEF ProvisionMailbox, SetUserActive, SetUserStatus, RemoveAllMemberships,
              RemoveAllGroupMemberships
<1>4. CASE \/ AdminCount(r) \/ SetUserAdmin(r) \/ UpsertFromOIDC(r) \/ BootstrapCheck(r)
           \/ GrantAdmin(r)
  BY <1>4 DEF AdminCount, SetUserAdmin, UpsertFromOIDC, BootstrapCheck, GrantAdmin
<1> QED BY <1>1, <1>2, <1>3, <1>4 DEF AccountStep

\* No user row and no authentik account goes away again.
UsersKept == \A u \in Users : users[u] # "absent" => users'[u] # "absent"
IdpKept == \A u \in Users : idp[u] # "absent" => idp'[u] # "absent"

LEMMA NothingVanishes ==
    ASSUME AccountsInv, NEW r \in Reqs, AnyStep(r)
    PROVE  UsersKept /\ IdpKept
<1> USE DEF AccountsInv, AccountsTypeOK, UsersKept, IdpKept
<1>1. CASE AccountStep(r)
  <2>1. CASE CreateUser(r)
    BY <2>1 DEF CreateUser, extVars
  <2>2. CASE SetUserStatus(r)
    BY <2>2 DEF SetUserStatus, extVars
  <2>3. CASE UpsertFromOIDC(r)
    BY <2>3 DEF UpsertFromOIDC, extVars
  <2>4. CASE EnsureUser(r)
    BY <2>4 DEF EnsureUser, dbVars
  <2>5. CASE SetUserActive(r)
    BY <2>5 DEF SetUserActive, dbVars
  <2>6. CASE users' = users /\ idp' = idp
    BY <2>6
  <2> QED BY <1>1, <2>1, <2>2, <2>3, <2>4, <2>5, <2>6, Writers
<1>2. CASE DeleteOrganization(r) \/ Abort(r)
  BY <1>2 DEF DeleteOrganization, Abort, dbVars, extVars
<1> QED BY <1>1, <1>2 DEF AnyStep

\* What createInvite's and acceptInvite's own statements leave alone.
LEMMA InviteStepFrame ==
    ASSUME NEW r \in Reqs, InviteStep(r)
    PROVE  UNCHANGED <<dbVars, extVars, pk>>
<1>1. CASE StartInvite(r) \/ GetInviteByTokenHash(r)
  BY <1>1 DEF StartInvite, GetInviteByTokenHash, Admit
<1>2. CASE CheckNotMember(r) \/ ExpirePendingInvites(r) \/ CreateInvite(r)
  BY <1>2 DEF CheckNotMember, ExpirePendingInvites, CreateInvite
<1>3. CASE GetExternalResource(r) \/ SetUserPassword(r) \/ ConsumeInvite(r)
  BY <1>3 DEF GetExternalResource, SetUserPassword, ConsumeInvite
<1> QED BY <1>1, <1>2, <1>3 DEF InviteStep

\* What a step of the accounts means for the invitations.
BesideInvites(r) == UNCHANGED inviteVars \/ DeleteOrganizationAndInvites(r)

\* A step of the whole system is one of the accounts, one of the invitations,
\* or leaves the database and the requests alone.
LEMMA NextKinds ==
    ASSUME [Next]_vars
    PROVE  \/ \E r \in Reqs : AnyStep(r) /\ BesideInvites(r)
           \/ \E r \in Reqs : InviteStep(r)
           \/ UNCHANGED <<dbVars, idp, pc, loc, pk, why, invites, won, older>>
<1>1. CASE \E r \in Reqs : RequestStep(r)
  BY <1>1 DEF RequestStep, DeleteOrganizationAndInvites, AnyStep, BesideInvites
<1>2. CASE \E r \in Reqs : Abort(r) /\ UNCHANGED inviteVars
  BY <1>2 DEF AnyStep, BesideInvites
<1>3. CASE (IdpToggle /\ UNCHANGED inviteVars) \/ Tick \/ Idle \/ UNCHANGED vars
  BY <1>3 DEF IdpToggle, Tick, Idle, vars, accountVars, inviteVars, dbVars
<1> QED BY <1>1, <1>2, <1>3 DEF Next

LEMMA AccountsNextKinds ==
    ASSUME [AccountsNext]_accountVars
    PROVE  \/ \E r \in Reqs : AnyStep(r)
           \/ UNCHANGED <<dbVars, idp, pc, loc, pk, why>>
BY DEF AccountsNext, AnyStep, IdpToggle, AccountsIdle, accountVars, dbVars

-----------------------------------------------------------------------------
\* The control flow of the handlers: where each statement is and leads.

\* Admission.
LEMMA Admissions ==
    ASSUME AccountsInv, NEW r \in Reqs
    PROVE  /\ StartOrg(r) => pc'[r] = Op[r] /\ Op[r] \in {"createOrg", "deleteOrg"}
           /\ StartAddMember(r) => pc'[r] = "grant" /\ Op[r] = "addMember"
           /\ StartOnboard(r) => pc'[r] = "lookup" /\ Op[r] = "onboard"
           /\ StartCreateUser(r) => pc'[r] = "idp" /\ Op[r] = "createUser"
           /\ StartUserStatus(r) => pc'[r] = "idpSet" /\ Op[r] \in {"disable", "enable"}
           /\ StartSetUserAdmin(r) =>
                 \/ pc'[r] = "count" /\ Op[r] = "demote"
                 \/ pc'[r] = "flag" /\ Op[r] = "promote"
           /\ StartLogin(r) => pc'[r] = "upsert" /\ Op[r] = "login"
           /\ StartAddGroupMember(r) => pc'[r] = "group" /\ Op[r] = "addGroup"
<1>0. ASSUME NEW label, NEW l, Admit(r, label, l) PROVE pc'[r] = label
  BY <1>0 DEF Admit, AccountsInv, AccountsTypeOK
<1>1. StartOrg(r) => pc'[r] = Op[r] /\ Op[r] \in {"createOrg", "deleteOrg"}
  BY <1>0 DEF StartOrg
<1>2. StartAddMember(r) => pc'[r] = "grant" /\ Op[r] = "addMember"
  BY <1>0 DEF StartAddMember
<1>3. StartOnboard(r) => pc'[r] = "lookup" /\ Op[r] = "onboard"
  BY <1>0 DEF StartOnboard
<1>4. StartCreateUser(r) => pc'[r] = "idp" /\ Op[r] = "createUser"
  BY <1>0 DEF StartCreateUser
<1>5. StartUserStatus(r) => pc'[r] = "idpSet" /\ Op[r] \in {"disable", "enable"}
  BY <1>0 DEF StartUserStatus
<1>6. StartSetUserAdmin(r) => \/ pc'[r] = "count" /\ Op[r] = "demote"
                              \/ pc'[r] = "flag" /\ Op[r] = "promote"
  BY <1>0 DEF StartSetUserAdmin
<1>7. StartLogin(r) => pc'[r] = "upsert" /\ Op[r] = "login"
  BY <1>0 DEF StartLogin
<1>8. StartAddGroupMember(r) => pc'[r] = "group" /\ Op[r] = "addGroup"
  BY <1>0 DEF StartAddGroupMember
<1> QED BY <1>1, <1>2, <1>3, <1>4, <1>5, <1>6, <1>7, <1>8

\* The statements after it.
LEMMA Flow ==
    ASSUME AccountsInv, NEW r \in Reqs
    PROVE  /\ CreateOrganization(r) => pc[r] = "createOrg" /\ pc'[r] \in Ended
           /\ GetUserByEmail(r) => pc[r] = "lookup" /\ pc'[r] \in {"idp", AfterUser(r)}
           /\ EnsureUser(r) => pc[r] = "idp" /\ pc'[r] \in {"insert", "failed"}
           /\ CreateUser(r) => pc[r] = "insert" /\ pc'[r] \in {"link", AfterUser(r), "failed"}
           /\ UpsertExternalResource(r) => pc[r] = "link" /\ pc'[r] = AfterUser(r)
           /\ SetMembership(r) => pc[r] = "grant" /\ pc'[r] \in AfterGrant(r) \cup {"failed"}
           /\ AddGroupMember(r) =>
                 /\ pc[r] = "group" /\ pc'[r] \in Ended \cup {"mailbox"}
                 /\ pc'[r] = "mailbox" => Op[r] = "onboard"
           /\ ProvisionMailbox(r) => pc[r] = "mailbox" /\ pc'[r] \in Ended
           /\ SetUserActive(r) => pc[r] = "idpSet" /\ pc'[r] = "status"
           /\ SetUserStatus(r) =>
                 /\ pc[r] = "status" /\ pc'[r] \in Ended \cup {"strip"}
                 /\ pc'[r] = "strip" => Op[r] = "disable"
           /\ RemoveAllMemberships(r) => pc[r] = "strip" /\ pc'[r] = "stripGroups"
           /\ RemoveAllGroupMemberships(r) => pc[r] = "stripGroups" /\ pc'[r] = "done"
           /\ AdminCount(r) => pc[r] = "count" /\ pc'[r] \in {"flag", "failed"}
           /\ SetUserAdmin(r) => pc[r] = "flag" /\ pc'[r] = "done"
           /\ UpsertFromOIDC(r) => pc[r] = "upsert" /\ pc'[r] \in {"bootstrap", "done"}
           /\ BootstrapCheck(r) => pc[r] = "bootstrap" /\ pc'[r] \in {"grantAdmin", "failed"}
           /\ GrantAdmin(r) => pc[r] = "grantAdmin" /\ pc'[r] = "done"
           /\ DeleteOrganization(r) => pc[r] = "deleteOrg" /\ pc'[r] \in Ended
           /\ Abort(r) => pc[r] \notin Ended \cup {"start"} /\ pc'[r] = "failed"
<1>0. ASSUME NEW label, Goto(r, label) PROVE pc'[r] = label
  BY <1>0 DEF Goto, AccountsInv, AccountsTypeOK
<1>f. ASSUME NEW reason, Fail(r, reason) PROVE pc'[r] = "failed"
  BY <1>f DEF Fail, AccountsInv, AccountsTypeOK
<1> USE DEF Ended
<1>1. CreateOrganization(r) => pc[r] = "createOrg" /\ pc'[r] \in Ended
  BY <1>0, <1>f DEF CreateOrganization
<1>2. GetUserByEmail(r) => pc[r] = "lookup" /\ pc'[r] \in {"idp", AfterUser(r)}
  BY <1>0 DEF GetUserByEmail
<1>3. EnsureUser(r) => pc[r] = "idp" /\ pc'[r] \in {"insert", "failed"}
  BY <1>0, <1>f DEF EnsureUser
<1>4. CreateUser(r) => pc[r] = "insert" /\ pc'[r] \in {"link", AfterUser(r), "failed"}
  BY <1>0, <1>f DEF CreateUser
<1>5. UpsertExternalResource(r) => pc[r] = "link" /\ pc'[r] = AfterUser(r)
  BY <1>0 DEF UpsertExternalResource
<1>6. SetMembership(r) => pc[r] = "grant" /\ pc'[r] \in AfterGrant(r) \cup {"failed"}
  BY <1>0, <1>f DEF SetMembership
<1>7. AddGroupMember(r) =>
          /\ pc[r] = "group" /\ pc'[r] \in Ended \cup {"mailbox"}
          /\ pc'[r] = "mailbox" => Op[r] = "onboard"
  BY <1>0, <1>f DEF AddGroupMember
<1>8. ProvisionMailbox(r) => pc[r] = "mailbox" /\ pc'[r] \in Ended
  BY <1>0, <1>f DEF ProvisionMailbox
<1>9. SetUserActive(r) => pc[r] = "idpSet" /\ pc'[r] = "status"
  BY <1>0 DEF SetUserActive
<1>10. SetUserStatus(r) =>
          /\ pc[r] = "status" /\ pc'[r] \in Ended \cup {"strip"}
          /\ pc'[r] = "strip" => Op[r] = "disable"
  BY <1>0, <1>f DEF SetUserStatus
<1>11. RemoveAllMemberships(r) => pc[r] = "strip" /\ pc'[r] = "stripGroups"
  BY <1>0 DEF RemoveAllMemberships
<1>12. RemoveAllGroupMemberships(r) => pc[r] = "stripGroups" /\ pc'[r] = "done"
  BY <1>0 DEF RemoveAllGroupMemberships
<1>13. AdminCount(r) => pc[r] = "count" /\ pc'[r] \in {"flag", "failed"}
  BY <1>0, <1>f DEF AdminCount
<1>14. SetUserAdmin(r) => pc[r] = "flag" /\ pc'[r] = "done"
  BY <1>0 DEF SetUserAdmin
<1>15. UpsertFromOIDC(r) => pc[r] = "upsert" /\ pc'[r] \in {"bootstrap", "done"}
  BY <1>0 DEF UpsertFromOIDC
<1>16. BootstrapCheck(r) => pc[r] = "bootstrap" /\ pc'[r] \in {"grantAdmin", "failed"}
  BY <1>0, <1>f DEF BootstrapCheck
<1>17. GrantAdmin(r) => pc[r] = "grantAdmin" /\ pc'[r] = "done"
  BY <1>0 DEF GrantAdmin
<1>18. DeleteOrganization(r) => pc[r] = "deleteOrg" /\ pc'[r] \in Ended
  BY <1>0, <1>f DEF DeleteOrganization
<1>19. Abort(r) => pc[r] \notin Ended \cup {"start"} /\ pc'[r] = "failed"
  BY <1>f DEF Abort
<1> QED BY <1>1, <1>2, <1>3, <1>4, <1>5, <1>6, <1>7, <1>8, <1>9, <1>10, <1>11, <1>12, <1>13,
           <1>14, <1>15, <1>16, <1>17, <1>18, <1>19

\* Which of them lead to a label.
LEMMA Arrivals ==
    ASSUME AccountsInv, NEW r \in Reqs, AnyStep(r)
    PROVE  /\ pc'[r] = "link" => CreateUser(r)
           /\ pc'[r] = "grant" => \/ StartAddMember(r) \/ GetUserByEmail(r) \/ CreateUser(r)
                                  \/ UpsertExternalResource(r)
           /\ pc'[r] = "count" => StartSetUserAdmin(r)
           /\ pc'[r] = "flag" => StartSetUserAdmin(r) \/ AdminCount(r)
           /\ pc'[r] = "bootstrap" => UpsertFromOIDC(r)
           /\ pc'[r] = "grantAdmin" => BootstrapCheck(r)
           /\ pc'[r] \notin {"expire", "insertInvite", "linked", "password", "consume"}
BY Admissions, Flow, AfterUserLabel DEF AnyStep, AccountStep, AfterGrant, Ended

(***************************************************************************)
(* Each label belongs to the handlers whose code it stands for.            *)
(***************************************************************************)
LaneFor(r) ==
    /\ pc[r] = "lookup" => Op[r] \in {"invite", "onboard"}
    /\ pc[r] \in {"idp", "insert", "link"} => Op[r] \in {"invite", "onboard", "createUser"}
    /\ pc[r] = "grant" => Op[r] \in {"addMember", "onboard", "createUser", "accept"}
    /\ pc[r] = "group" => Op[r] \in {"addGroup", "onboard", "createUser"}
    /\ pc[r] = "mailbox" => Op[r] = "onboard"
    /\ pc[r] = "createOrg" => Op[r] = "createOrg"
    /\ pc[r] = "deleteOrg" => Op[r] = "deleteOrg"
    /\ pc[r] \in {"idpSet", "status", "strip", "stripGroups"} => Op[r] \in {"disable", "enable"}
    /\ pc[r] = "count" => Op[r] = "demote"
    /\ pc[r] = "flag" => Op[r] \in {"promote", "demote"}
    /\ pc[r] \in {"upsert", "bootstrap", "grantAdmin"} => Op[r] = "login"
    /\ pc[r] \in {"checkMember", "expire", "insertInvite"} => Op[r] = "invite"
    /\ pc[r] \in {"linked", "password", "consume"} => Op[r] = "accept"

Lanes == \A r \in Reqs : LaneFor(r)

LEMMA LaneStep ==
    ASSUME AccountsInv, Lanes, NEW r \in Reqs, AnyStep(r)
    PROVE  Lanes'
<1>0. Moved(r)
  BY AnyStepType
<1>1. LaneFor(r)
  BY DEF Lanes
<1>2. LaneFor(r)'
  <2> USE DEF Ended
  <2>1. CASE \/ StartOrg(r) \/ StartAddMember(r) \/ StartOnboard(r) \/ StartCreateUser(r)
             \/ StartUserStatus(r) \/ StartSetUserAdmin(r) \/ StartLogin(r) \/ StartAddGroupMember(r)
    BY <2>1, Admissions DEF LaneFor
  <2>2. CASE GetUserByEmail(r) \/ CreateUser(r) \/ UpsertExternalResource(r)
    BY <1>1, <2>2, Flow DEF LaneFor, AfterUser
  <2>3. CASE SetMembership(r)
    BY <1>1, <2>3, Flow DEF LaneFor, AfterGrant
  <2>4. CASE \/ CreateOrganization(r) \/ EnsureUser(r) \/ AddGroupMember(r) \/ ProvisionMailbox(r)
             \/ SetUserActive(r) \/ SetUserStatus(r)
             \/ RemoveAllMemberships(r) \/ RemoveAllGroupMemberships(r)
    BY <1>1, <2>4, Flow DEF LaneFor
  <2>5. CASE \/ AdminCount(r) \/ SetUserAdmin(r) \/ UpsertFromOIDC(r) \/ BootstrapCheck(r)
             \/ GrantAdmin(r) \/ DeleteOrganization(r) \/ Abort(r)
    BY <1>1, <2>5, Flow DEF LaneFor
  <2> QED BY <2>1, <2>2, <2>3, <2>4, <2>5 DEF AnyStep, AccountStep
<1> SUFFICES ASSUME NEW s \in Reqs, s # r PROVE LaneFor(s)'
  BY <1>2 DEF Lanes
<1>3. pc'[s] = pc[s]
  BY <1>0 DEF Moved
<1> QED BY <1>3 DEF Lanes, LaneFor

\* createInvite's and acceptInvite's own statements.
LEMMA InviteFlow ==
    ASSUME AccountsInv, NEW r \in Reqs
    PROVE  /\ StartInvite(r) => pc'[r] = "lookup" /\ Op[r] = "invite"
           /\ CheckNotMember(r) => pc[r] = "checkMember" /\ pc'[r] \in {"expire", "failed"}
           /\ ExpirePendingInvites(r) => pc[r] = "expire" /\ pc'[r] = "insertInvite"
           /\ CreateInvite(r) => pc[r] = "insertInvite" /\ pc'[r] \in Ended
           /\ GetInviteByTokenHash(r) => pc[r] = "start" /\ pc'[r] = "linked" /\ Op[r] = "accept"
           /\ GetExternalResource(r) => pc[r] = "linked" /\ pc'[r] \in {"password", "failed"}
           /\ SetUserPassword(r) => pc[r] = "password" /\ pc'[r] \in {"consume", "failed"}
           /\ ConsumeInvite(r) => pc[r] = "consume" /\ pc'[r] \in {"grant", "failed"}
<1>0. ASSUME NEW label, Goto(r, label) PROVE pc'[r] = label
  BY <1>0 DEF Goto, AccountsInv, AccountsTypeOK
<1>f. ASSUME NEW reason, Fail(r, reason) PROVE pc'[r] = "failed"
  BY <1>f DEF Fail, AccountsInv, AccountsTypeOK
<1>a. ASSUME NEW label, NEW l, Admit(r, label, l) PROVE pc[r] = "start" /\ pc'[r] = label
  BY <1>a DEF Admit, AccountsInv, AccountsTypeOK
<1> USE DEF Ended
<1>1. StartInvite(r) => pc'[r] = "lookup" /\ Op[r] = "invite"
  BY <1>a DEF StartInvite
<1>2. CheckNotMember(r) => pc[r] = "checkMember" /\ pc'[r] \in {"expire", "failed"}
  BY <1>0, <1>f DEF CheckNotMember
<1>3. ExpirePendingInvites(r) => pc[r] = "expire" /\ pc'[r] = "insertInvite"
  BY <1>0 DEF ExpirePendingInvites
<1>4. CreateInvite(r) => pc[r] = "insertInvite" /\ pc'[r] \in Ended
  BY <1>0, <1>f DEF CreateInvite
<1>5. GetInviteByTokenHash(r) => pc[r] = "start" /\ pc'[r] = "linked" /\ Op[r] = "accept"
  BY <1>a DEF GetInviteByTokenHash
<1>6. GetExternalResource(r) => pc[r] = "linked" /\ pc'[r] \in {"password", "failed"}
  BY <1>0, <1>f DEF GetExternalResource
<1>7. SetUserPassword(r) => pc[r] = "password" /\ pc'[r] \in {"consume", "failed"}
  BY <1>0, <1>f DEF SetUserPassword
<1>8. ConsumeInvite(r) => pc[r] = "consume" /\ pc'[r] \in {"grant", "failed"}
  BY <1>0, <1>f DEF ConsumeInvite
<1> QED BY <1>1, <1>2, <1>3, <1>4, <1>5, <1>6, <1>7, <1>8

LEMMA InviteLaneStep ==
    ASSUME InvitesInv, Lanes, NEW r \in Reqs, InviteStep(r)
    PROVE  Lanes'
<1>0. Moved(r) /\ AccountsInv
  BY InviteStepType, TypesOf
<1>1. LaneFor(r)
  BY DEF Lanes
<1>2. LaneFor(r)'
  BY <1>0, <1>1, InviteFlow DEF InviteStep, LaneFor, Ended
<1> SUFFICES ASSUME NEW s \in Reqs, s # r PROVE LaneFor(s)'
  BY <1>2 DEF Lanes
<1>3. pc'[s] = pc[s]
  BY <1>0 DEF Moved
<1> QED BY <1>3 DEF Lanes, LaneFor

LEMMA AccountsLanes == AccountsSpec => []Lanes
<1>1. AccountsInit => Lanes
  BY DEF AccountsInit, Lanes, LaneFor
<1>2. AccountsInv /\ Lanes /\ [AccountsNext]_accountVars => Lanes'
  BY LaneStep, AccountsNextKinds DEF Lanes, LaneFor
<1> QED BY <1>1, <1>2, AccountsTypeInvariant, PTL DEF AccountsSpec

LEMMA InvitesLanes == Spec => []Lanes
<1>1. AccountsInit => Lanes
  BY DEF AccountsInit, Lanes, LaneFor
<1>2. InvitesInv /\ Lanes /\ [Next]_vars => Lanes'
  BY LaneStep, InviteLaneStep, NextKinds, TypesOf DEF Lanes, LaneFor
<1> QED BY <1>1, <1>2, InvitesTypeInvariant, PTL DEF Spec, Init

-----------------------------------------------------------------------------
\* Memberships.

\* What a statement may write into a membership.
LEMMA MemberWrites ==
    ASSUME AccountsInv, NEW r \in Reqs, AnyStep(r)
    PROVE  \A m \in Orgs \X Users : member'[m] \in {member[m], NoRole, loc[r].role}
<1> USE DEF AccountsInv, AccountsTypeOK, dbVars
<1>1. CASE member' = member
  BY <1>1
<1>2. CASE SetMembership(r)
  <2>1. member' = member \/ member' = [member EXCEPT ![<<loc[r].org, loc[r].user>>] = loc[r].role]
    BY <1>2 DEF SetMembership
  <2> QED BY <1>1, <2>1
<1>3. CASE RemoveAllMemberships(r)
  <2>1. \/ member' = member
        \/ member' = [m \in Orgs \X Users |-> IF m[2] = loc[r].user THEN NoRole ELSE member[m]]
    BY <1>3 DEF RemoveAllMemberships
  <2>2. CASE member' = [m \in Orgs \X Users |-> IF m[2] = loc[r].user THEN NoRole ELSE member[m]]
    BY <2>2
  <2> QED BY <1>1, <2>1, <2>2
<1>4. CASE DeleteOrganization(r)
  <2>1. \/ member' = member
        \/ member' = [m \in Orgs \X Users |-> IF m[1] = loc[r].org THEN NoRole ELSE member[m]]
    BY <1>4 DEF DeleteOrganization
  <2>2. CASE member' = [m \in Orgs \X Users |-> IF m[1] = loc[r].org THEN NoRole ELSE member[m]]
    BY <2>2
  <2> QED BY <1>1, <2>1, <2>2
<1> QED BY <1>1, <1>2, <1>3, <1>4, Writers DEF AnyStep, Abort

\* Only SetMembership grants, and it grants what its request named.
LEMMA MemberWritten ==
    ASSUME AccountsInv, NEW r \in Reqs, AnyStep(r), NEW o \in Orgs, NEW u \in Users,
           member'[<<o, u>>] \notin {member[<<o, u>>], NoRole}
    PROVE  /\ SetMembership(r) /\ o = loc[r].org /\ u = loc[r].user
           /\ member'[<<o, u>>] = loc[r].role /\ pc'[r] \in AfterGrant(r)
<1> USE DEF AccountsInv, AccountsTypeOK, dbVars
<1>0. <<o, u>> \in Orgs \X Users
  OBVIOUS
<1>1. SetMembership(r)
  <2>1. ~RemoveAllMemberships(r)
    <3>1. ASSUME member' = [m \in Orgs \X Users |-> IF m[2] = loc[r].user THEN NoRole ELSE member[m]]
          PROVE  FALSE
      BY <1>0, <3>1
    <3> QED BY <3>1 DEF RemoveAllMemberships
  <2>2. ~DeleteOrganization(r)
    <3>1. ASSUME member' = [m \in Orgs \X Users |-> IF m[1] = loc[r].org THEN NoRole ELSE member[m]]
          PROVE  FALSE
      BY <1>0, <3>1
    <3> QED BY <3>1 DEF DeleteOrganization
  <2> QED BY <2>1, <2>2, Writers DEF AnyStep, Abort
<1>2. /\ member' = [member EXCEPT ![<<loc[r].org, loc[r].user>>] = loc[r].role]
      /\ \E label \in AfterGrant(r) : Goto(r, label)
  BY <1>1 DEF SetMembership
<1>3. pc'[r] \in AfterGrant(r)
  BY <1>2 DEF Goto
<1>4. <<o, u>> = <<loc[r].org, loc[r].user>>
  BY <1>0, <1>2
<1>5. member'[<<o, u>>] = loc[r].role
  BY <1>0, <1>2, <1>4
<1> QED BY <1>1, <1>3, <1>4, <1>5

LEMMA MembersStep ==
    ASSUME AccountsInv, MembersOfLiveOrgs, NEW r \in Reqs, AnyStep(r)
    PROVE  MembersOfLiveOrgs'
<1>0. UsersKept
  BY NothingVanishes
<1> USE DEF AccountsInv, AccountsTypeOK, dbVars
\* All that a step has to show, unless it ends an organization.
<1>a. ASSUME \A o \in Orgs : orgs[o] = "live" => orgs'[o] = "live",
             \A o \in Orgs, u \in Users :
                member'[<<o, u>>] # NoRole \/ <<o, u>> \in grouped' =>
                   \/ member[<<o, u>>] # NoRole \/ <<o, u>> \in grouped
                   \/ orgs[o] = "live" /\ users[u] # "absent"
      PROVE  MembersOfLiveOrgs'
  BY <1>0, <1>a DEF MembersOfLiveOrgs, UsersKept
<1>1. CASE CreateOrganization(r)
  <2>1. /\ orgs' = orgs \/ orgs' = [orgs EXCEPT ![loc[r].org] = "live"]
        /\ UNCHANGED <<member, grouped>>
    BY <1>1 DEF CreateOrganization
  <2> QED BY <1>a, <2>1
<1>2. CASE SetMembership(r)
  <2>1. CASE member' = member
    BY <1>2, <1>a, <2>1 DEF SetMembership
  <2>2. CASE /\ orgs[loc[r].org] = "live" /\ users[loc[r].user] # "absent"
             /\ member' = [member EXCEPT ![<<loc[r].org, loc[r].user>>] = loc[r].role]
    <3>1. \A o \in Orgs, u \in Users : \/ member'[<<o, u>>] = member[<<o, u>>]
                                       \/ o = loc[r].org /\ u = loc[r].user
      BY <2>2
    <3>2. UNCHANGED <<orgs, grouped>>
      BY <1>2 DEF SetMembership
    <3>3. \A o \in Orgs, u \in Users : \/ member'[<<o, u>>] = member[<<o, u>>]
                                       \/ orgs[o] = "live" /\ users[u] # "absent"
      BY <2>2, <3>1
    <3> HIDE DEF AccountsInv, AccountsTypeOK
    <3> QED BY <1>a, <3>2, <3>3
  <2> QED BY <1>2, <2>1, <2>2 DEF SetMembership
<1>3. CASE AddGroupMember(r)
  <2>0. UNCHANGED <<orgs, member>>
    BY <1>3 DEF AddGroupMember
  <2>1. CASE grouped' = grouped
    BY <1>a, <2>0, <2>1
  <2>2. ASSUME NEW o \in Orgs, orgs[o] = "live", users[loc[r].user] # "absent",
               grouped' = grouped \cup {<<o, loc[r].user>>}
        PROVE  MembersOfLiveOrgs'
    <3>1. \A p \in Orgs, u \in Users : <<p, u>> \in grouped' =>
              <<p, u>> \in grouped \/ (p = o /\ u = loc[r].user)
      BY <2>2
    <3> QED BY <1>a, <2>0, <2>2, <3>1
  <2> QED BY <1>3, <2>1, <2>2 DEF AddGroupMember
<1>4. CASE RemoveAllMemberships(r)
  <2>1. UNCHANGED <<orgs, users, grouped>>
    BY <1>4 DEF RemoveAllMemberships
  <2>2. \/ member' = member
        \/ member' = [m \in Orgs \X Users |-> IF m[2] = loc[r].user THEN NoRole ELSE member[m]]
    BY <1>4 DEF RemoveAllMemberships
  <2>3. \A m \in Orgs \X Users : member'[m] \in {NoRole, member[m]}
    <3>1. CASE member' = member
      BY <3>1
    <3>2. CASE member' = [m \in Orgs \X Users |-> IF m[2] = loc[r].user THEN NoRole ELSE member[m]]
      BY <3>2
    <3> QED BY <2>2, <3>1, <3>2
  <2>4. \A o \in Orgs, u \in Users : <<o, u>> \in Orgs \X Users
    OBVIOUS
  <2>5. \A o \in Orgs, u \in Users : member'[<<o, u>>] \in {NoRole, member[<<o, u>>]}
    BY <2>3, <2>4
  <2> QED BY <1>a, <2>1, <2>5
<1>5. CASE RemoveAllGroupMemberships(r)
  BY <1>5, <1>a DEF RemoveAllGroupMemberships
<1>6. CASE DeleteOrganization(r)
  <2>1. UNCHANGED users
    BY <1>6 DEF DeleteOrganization
  <2>2. CASE UNCHANGED <<orgs, member, grouped>>
    BY <1>a, <2>2
  <2>3. CASE /\ orgs' = [orgs EXCEPT ![loc[r].org] = "deleted"]
             /\ member' = [m \in Orgs \X Users |->
                             IF m[1] = loc[r].org THEN NoRole ELSE member[m]]
             /\ grouped' = {m \in grouped : m[1] # loc[r].org}
    <3>1. \A o \in Orgs, u \in Users :
            member'[<<o, u>>] = IF o = loc[r].org THEN NoRole ELSE member[<<o, u>>]
      BY <2>3
    <3>2. \A o \in Orgs, u \in Users : <<o, u>> \in grouped' => <<o, u>> \in grouped /\ o # loc[r].org
      BY <2>3
    <3>3. \A o \in Orgs : o # loc[r].org => orgs'[o] = orgs[o]
      BY <2>3
    <3> SUFFICES ASSUME NEW o \in Orgs, NEW u \in Users,
                        member'[<<o, u>>] # NoRole \/ <<o, u>> \in grouped'
                 PROVE  orgs'[o] = "live" /\ users'[u] # "absent"
      BY DEF MembersOfLiveOrgs
    <3>4. o # loc[r].org /\ orgs'[o] = orgs[o] /\ users' = users
      BY <2>1, <3>1, <3>2, <3>3
    <3>5. member[<<o, u>>] # NoRole \/ <<o, u>> \in grouped
      BY <3>1, <3>2, <3>4
    <3> QED BY <3>4, <3>5 DEF MembersOfLiveOrgs
  <2> QED BY <1>6, <2>2, <2>3 DEF DeleteOrganization
<1>7. CASE Abort(r)
  BY <1>7, <1>a DEF Abort
<1>8. CASE UNCHANGED <<orgs, member, grouped>>
  BY <1>a, <1>8
<1> QED BY <1>1, <1>2, <1>3, <1>4, <1>5, <1>6, <1>7, <1>8, Writers DEF AnyStep

LEMMA MembersInit == AccountsInit => MembersOfLiveOrgs
<1> SUFFICES ASSUME AccountsInit, NEW o \in Orgs, NEW u \in Users,
                    member[<<o, u>>] # NoRole \/ <<o, u>> \in grouped
             PROVE  orgs[o] = "live" /\ users[u] # "absent"
  BY DEF MembersOfLiveOrgs
<1>1. SeedRole[<<o, u>>] # NoRole
  BY DEF AccountsInit
<1>2. orgs[o] = "live"
  <2>1. orgs[o] \in {"unused", "live"}
    BY DEF AccountsInit
  <2> QED BY <1>1, <2>1 DEF AccountsInit
<1>3. u \in SeedUsers
  BY <1>1 DEF SeedUsers
<1> QED BY <1>2, <1>3 DEF AccountsInit

(***************************************************************************)
(* A membership, of an organization or of its group, joins an existing     *)
(* user to a live organization, for any number of grants, deletions and    *)
(* disablings that overlap: the row is checked when it is written, users   *)
(* are never deleted, and deleting an organization takes the rows with it. *)
(***************************************************************************)
THEOREM MembersLive == AccountsSpec => []MembersOfLiveOrgs
<1>1. AccountsInv /\ MembersOfLiveOrgs /\ [AccountsNext]_accountVars => MembersOfLiveOrgs'
  BY MembersStep, AccountsNextKinds DEF MembersOfLiveOrgs, dbVars
<1> QED BY <1>1, MembersInit, AccountsTypeInvariant, PTL DEF AccountsSpec

(***************************************************************************)
(* The same with invitations running beside the account handlers.          *)
(***************************************************************************)
THEOREM InvitedMembersLive == Spec => []MembersOfLiveOrgs
<1>1. InvitesInv /\ MembersOfLiveOrgs /\ [Next]_vars => MembersOfLiveOrgs'
  BY MembersStep, NextKinds, InviteStepFrame, TypesOf DEF MembersOfLiveOrgs, dbVars
<1> QED BY <1>1, MembersInit, InvitesTypeInvariant, PTL DEF Spec, Init

-----------------------------------------------------------------------------
\* Authentik mappings.

(***************************************************************************)
(* A pk is held only by a request whose user's account exists, and a       *)
(* request about to record one has inserted the user's row.                *)
(***************************************************************************)
LinkedInv ==
    /\ LinkedAccountsExist
    /\ \A r \in Reqs : pk[r] = "pk" =>
          pc[r] # "start" /\ loc[r].user \in Users /\ idp[loc[r].user] # "absent"
    /\ \A r \in Reqs : pc[r] = "link" => pk[r] = "pk" /\ users[loc[r].user] # "absent"

LEMMA LinkedStep ==
    ASSUME AccountsInv, LinkedInv, NEW r \in Reqs, AnyStep(r)
    PROVE  LinkedInv'
<1>0. UsersKept /\ IdpKept /\ Moved(r) /\ AccountsInv'
  BY NothingVanishes, AnyStepType
<1> USE DEF AccountsInv, AccountsTypeOK, UsersKept, IdpKept
\* The mapping.
<1>1. LinkedAccountsExist'
  <2>1. CASE UpsertExternalResource(r)
    <3>1. loc[r].user \in Users /\ idp[loc[r].user] # "absent" /\ users[loc[r].user] # "absent"
      BY <2>1 DEF UpsertExternalResource, LinkedInv, LocOK, LocOKFor, UserLabels, PC
    <3>2. linked' \subseteq linked \cup {loc[r].user} /\ UNCHANGED <<users, idp>>
      BY <2>1 DEF UpsertExternalResource, extVars
    <3> QED BY <3>1, <3>2 DEF LinkedInv, LinkedAccountsExist
  <2>2. CASE linked' = linked
    BY <1>0, <2>2 DEF LinkedInv, LinkedAccountsExist
  <2> QED BY <2>1, <2>2, Writers DEF AnyStep, DeleteOrganization, Abort, dbVars
\* The pk.
<1>2. ASSUME NEW s \in Reqs, pk'[s] = "pk" 
      PROVE  pc'[s] # "start" /\ loc'[s].user \in Users /\ idp'[loc'[s].user] # "absent"
  <2>1. CASE pk[s] = "pk"
    <3>1. /\ pc'[s] # "start" /\ loc'[s] = loc[s]
          /\ loc[s].user \in Users /\ idp[loc[s].user] # "absent"
      <4>1. pc[s] # "start" /\ loc[s].user \in Users /\ idp[loc[s].user] # "absent"
        BY <2>1 DEF LinkedInv
      <4>2. CASE s = r
        BY <1>0, <4>1, <4>2 DEF Moved
      <4>3. CASE s # r
        BY <1>0, <4>1, <4>3 DEF Moved
      <4> QED BY <4>1, <4>2, <4>3
    <3> QED BY <1>0, <3>1
  <2>2. CASE pk[s] # "pk"
    <3>1. EnsureUser(r) /\ s = r /\ idpUp /\ pc[r] = "idp"
      <4>1. EnsureUser(r)
        BY <1>2, <2>2, Writers DEF AnyStep, DeleteOrganization, Abort
      <4> QED BY <1>2, <2>2, <4>1 DEF EnsureUser
    <3>2. loc[r].user \in Users /\ loc'[r] = loc[r] /\ pc'[r] # "start"
      BY <1>0, <3>1 DEF LocOK, LocOKFor, UserLabels, PC, Moved
    <3>3. idp'[loc[r].user] # "absent"
      BY <1>2, <2>2, <3>1, <3>2 DEF EnsureUser
    <3> QED BY <3>1, <3>2, <3>3
  <2> QED BY <2>1, <2>2
\* The request about to record it.
<1>3. ASSUME NEW s \in Reqs, pc'[s] = "link" PROVE pk'[s] = "pk" /\ users'[loc'[s].user] # "absent"
  <2>1. CASE pc[s] = "link" /\ s # r
    <3>1. loc'[s] = loc[s] /\ pk[s] = "pk" /\ users[loc[s].user] # "absent" /\ loc[s].user \in Users
      BY <1>0, <2>1 DEF LinkedInv, Moved, LocOK, LocOKFor, UserLabels, PC
    <3>2. pk'[s] = pk[s]
      BY <2>1, Writers DEF AnyStep, DeleteOrganization, Abort, EnsureUser
    <3> QED BY <1>0, <3>1, <3>2
  <2>2. CASE s = r
    <3>1. CreateUser(r) /\ pk[r] = "pk" /\ users' = [users EXCEPT ![loc[r].user] = "active"]
      <4>1. CreateUser(r)
        BY <1>3, <2>2, Arrivals
      <4> QED BY <1>3, <2>2, <4>1 DEF CreateUser, AfterUser, Goto, Fail
    <3>2. loc[r].user \in Users /\ loc'[r] = loc[r] /\ pk' = pk
      BY <1>0, <3>1 DEF CreateUser, Moved, LocOK, LocOKFor, UserLabels, PC
    <3> QED BY <2>2, <3>1, <3>2
  <2> QED BY <1>0, <1>3, <2>1, <2>2 DEF Moved
<1> QED BY <1>1, <1>2, <1>3 DEF LinkedInv

LEMMA LinkedInit == AccountsInit => LinkedInv
<1> SUFFICES ASSUME AccountsInit PROVE LinkedInv
  OBVIOUS
<1>1. SeedUsers \subseteq Users
  BY AccountsAssumption DEF SeedUsers
<1>2. \A u \in SeedUsers : idp[u] = "active" /\ users[u] = "active"
  BY <1>1 DEF AccountsInit
<1> QED BY <1>2 DEF AccountsInit, LinkedInv, LinkedAccountsExist

(***************************************************************************)
(* A mapping is to an authentik account that exists, of a user that        *)
(* exists, whatever calls fail half way and whoever else ensures,          *)
(* disables or inserts the same user meanwhile.                            *)
(***************************************************************************)
THEOREM LinkedExist == AccountsSpec => []LinkedAccountsExist
<1>1. AccountsInv /\ LinkedInv /\ [AccountsNext]_accountVars => LinkedInv'
  BY LinkedStep, AccountsNextKinds DEF LinkedInv, LinkedAccountsExist, dbVars
<1>2. LinkedInv => LinkedAccountsExist
  BY DEF LinkedInv
<1> QED BY <1>1, <1>2, LinkedInit, AccountsTypeInvariant, PTL DEF AccountsSpec

\* createInvite's and acceptInvite's own statements neither record a mapping nor
\* reach the one that does.
LEMMA LinkedInviteStep ==
    ASSUME InvitesInv, LinkedInv, NEW r \in Reqs, InviteStep(r)
    PROVE  LinkedInv'
<1>0. Moved(r) /\ AccountsInv /\ UNCHANGED <<dbVars, extVars, pk>>
  BY InviteStepType, TypesOf, InviteStepFrame
<1>1. LinkedAccountsExist'
  BY <1>0 DEF LinkedInv, LinkedAccountsExist, dbVars, extVars
<1>2. pc'[r] # "link"
  BY <1>0, InviteFlow DEF InviteStep, Ended
<1>3. \A s \in Reqs : pc[s] # "start" => loc'[s] = loc[s] /\ pc'[s] # "start"
  BY <1>0 DEF Moved
<1>4. ASSUME NEW s \in Reqs, pc'[s] = "link" PROVE pc[s] = "link" /\ loc'[s] = loc[s]
  BY <1>0, <1>2, <1>4 DEF Moved
<1> QED BY <1>0, <1>1, <1>3, <1>4 DEF LinkedInv, dbVars, extVars

(***************************************************************************)
(* The same with invitations: the mapping acceptInvite reads to set the    *)
(* invitee's password leads to an account.                                 *)
(***************************************************************************)
THEOREM InvitedLinkedExist == Spec => []LinkedAccountsExist
<1>1. InvitesInv /\ LinkedInv /\ [Next]_vars => LinkedInv'
  <2> SUFFICES ASSUME InvitesInv, LinkedInv, [Next]_vars PROVE LinkedInv'
    OBVIOUS
  <2>1. CASE UNCHANGED <<dbVars, idp, pc, loc, pk, why, invites, won, older>>
    BY <2>1 DEF LinkedInv, LinkedAccountsExist, dbVars
  <2> QED BY <2>1, LinkedStep, LinkedInviteStep, NextKinds, TypesOf
<1>2. LinkedInv => LinkedAccountsExist
  BY DEF LinkedInv
<1> QED BY <1>1, <1>2, LinkedInit, InvitesTypeInvariant, PTL DEF Spec, Init

-----------------------------------------------------------------------------
\* Platform admins.

(***************************************************************************)
(* The seeded users stay, so that a login that inserted its user's row is  *)
(* none of theirs.                                                         *)
(***************************************************************************)
SeedInv ==
    /\ \A u \in SeedUsers : users[u] # "absent"
    /\ \A r \in Reqs : pc[r] \in {"bootstrap", "grantAdmin"} => loc[r].user \notin SeedUsers

LEMMA SeedAreUsers == SeedUsers \subseteq Users
BY AccountsAssumption DEF SeedUsers

\* A step may have to show it for the request that moves, only.
LEMMA SeedMoved ==
    ASSUME AccountsInv, SeedInv, NEW r \in Reqs, Moved(r), UsersKept,
           pc'[r] \in {"bootstrap", "grantAdmin"} => loc'[r].user \notin SeedUsers
    PROVE  SeedInv'
<1>1. \A u \in SeedUsers : users'[u] # "absent"
  BY SeedAreUsers DEF SeedInv, UsersKept
<1>2. ASSUME NEW s \in Reqs, pc'[s] \in {"bootstrap", "grantAdmin"} PROVE loc'[s].user \notin SeedUsers
  <2>1. CASE s = r
    BY <1>2, <2>1
  <2>2. CASE s # r
    BY <1>2, <2>2 DEF Moved, SeedInv
  <2> QED BY <2>1, <2>2
<1> QED BY <1>1, <1>2 DEF SeedInv

LEMMA SeedStep ==
    ASSUME AccountsInv, SeedInv, NEW r \in Reqs, AnyStep(r)
    PROVE  SeedInv'
<1>0. Moved(r) /\ UsersKept
  BY AnyStepType, NothingVanishes
<1>1. CASE UpsertFromOIDC(r)
  <2>1. pc[r] = "upsert" /\ loc'[r] = loc[r]
    BY <1>0, <1>1 DEF UpsertFromOIDC, Moved
  <2>2. pc'[r] = "bootstrap" => users[loc[r].user] = "absent"
    BY <1>1 DEF UpsertFromOIDC, Goto, AccountsInv, AccountsTypeOK
  <2>3. pc'[r] \in {"bootstrap", "done"}
    BY <1>1, Flow
  <2> QED BY <1>0, <2>1, <2>2, <2>3, SeedMoved DEF SeedInv
<1>2. CASE BootstrapCheck(r)
  <2>1. pc[r] = "bootstrap" /\ loc'[r] = loc[r]
    BY <1>0, <1>2 DEF BootstrapCheck, Moved
  <2> QED BY <1>0, <2>1, SeedMoved DEF SeedInv
<1>3. CASE pc'[r] \notin {"bootstrap", "grantAdmin"}
  BY <1>0, <1>3, SeedMoved
<1> QED BY <1>1, <1>2, <1>3, Arrivals

LEMMA SeedInit == AccountsInit => SeedInv
BY SeedAreUsers DEF AccountsInit, SeedInv

LEMMA AccountsSeed == AccountsSpec => []SeedInv
<1>1. AccountsInv /\ SeedInv /\ [AccountsNext]_accountVars => SeedInv'
  BY SeedStep, AccountsNextKinds DEF SeedInv, dbVars
<1> QED BY <1>1, SeedInit, AccountsTypeInvariant, PTL DEF AccountsSpec

(***************************************************************************)
(* The one demotion finds a second admin when it counts, and that admin    *)
(* stays, since nobody else demotes.  Until the demotion is over the       *)
(* seeded admins are there; afterwards a login that finds no other admin   *)
(* can only be the user who is the last one.                               *)
(***************************************************************************)
DemotionOver == \E d \in Reqs : Op[d] = "demote" /\ pc[d] \in Ended

AdminInv ==
    AdminSeed # {} /\ OneDemotion =>
        /\ admins # {}
        /\ ~DemotionOver => AdminSeed \subseteq admins
        /\ \A r \in Reqs : Op[r] = "demote" /\ pc[r] = "flag" => \E v \in admins : v # loc[r].user
        /\ \A r \in Reqs : pc[r] = "grantAdmin" => loc[r].user \in admins /\ DemotionOver

\* AdminCount's answer is enough, although it counts the active admins only.
LEMMA CountedTwo ==
    ASSUME NEW r \in Reqs, ~(Cardinality({u \in admins : users[u] = "active"}) <= 1)
    PROVE  \E v \in admins : v # loc[r].user
<1> DEFINE active == {u \in admins : users[u] = "active"}
<1> SUFFICES ASSUME \A v \in admins : v = loc[r].user PROVE FALSE
  OBVIOUS
<1>1. active = {} \/ active = {loc[r].user}
  OBVIOUS
<1>2. Cardinality({}) = 0 /\ Cardinality({loc[r].user}) = 1
  BY FS_EmptySet, FS_Singleton
<1> QED BY <1>1, <1>2

LEMMA AdminStep ==
    ASSUME AccountsInv, Lanes, SeedInv, AdminInv, NEW r \in Reqs, AnyStep(r)
    PROVE  AdminInv'
<1> SUFFICES ASSUME AdminSeed # {}, OneDemotion
             PROVE  /\ admins' # {}
                    /\ ~DemotionOver' => AdminSeed \subseteq admins'
                    /\ \A s \in Reqs : Op[s] = "demote" /\ pc'[s] = "flag" =>
                          \E v \in admins' : v # loc'[s].user
                    /\ \A s \in Reqs : pc'[s] = "grantAdmin" =>
                          loc'[s].user \in admins' /\ DemotionOver'
  BY DEF AdminInv, OneDemotion
<1>0. Moved(r)
  BY AnyStepType
<1>1. /\ admins # {}
      /\ ~DemotionOver => AdminSeed \subseteq admins
      /\ \A s \in Reqs : Op[s] = "demote" /\ pc[s] = "flag" => \E v \in admins : v # loc[s].user
      /\ \A s \in Reqs : pc[s] = "grantAdmin" => loc[s].user \in admins /\ DemotionOver
  BY DEF AdminInv
<1>2. DemotionOver => DemotionOver'
  BY <1>0 DEF DemotionOver, Moved, Ended
\* A step that demotes nobody.
<1>3. CASE admins \subseteq admins'
  <2>1. ASSUME NEW s \in Reqs, Op[s] = "demote", pc'[s] = "flag" PROVE \E v \in admins : v # loc'[s].user
    <3>1. CASE s # r
      BY <1>0, <1>1, <2>1, <3>1 DEF Moved
    <3>2. CASE s = r
      <4>1. AdminCount(r)
        BY <2>1, <3>2, Arrivals, Admissions
      <4>2. loc'[r] = loc[r] /\ pc'[r] = "flag"
        BY <2>1, <3>2, <4>1 DEF AdminCount, Goto, Fail
      <4>3. ~(Cardinality({u \in admins : users[u] = "active"}) <= 1)
        BY <4>1, <4>2 DEF AdminCount, Fail, AccountsInv, AccountsTypeOK
      <4> QED BY <3>2, <4>2, <4>3, CountedTwo
    <3> QED BY <3>1, <3>2
  <2>2. ASSUME NEW s \in Reqs, pc'[s] = "grantAdmin" PROVE loc'[s].user \in admins /\ DemotionOver
    <3>1. CASE s # r
      BY <1>0, <1>1, <2>2, <3>1 DEF Moved
    <3>2. CASE s = r
      <4>1. BootstrapCheck(r) /\ pc[r] = "bootstrap"
        BY <2>2, <3>2, Arrivals, Flow
      <4>2. admins \ {loc[r].user} = {}
        BY <2>2, <3>2, <4>1 DEF BootstrapCheck, Fail, AccountsInv, AccountsTypeOK
      <4>3. loc[r].user \in admins /\ loc'[r] = loc[r]
        BY <1>0, <1>1, <4>1, <4>2 DEF Moved
      <4>4. loc[r].user \notin AdminSeed
        BY <4>1 DEF SeedInv, SeedUsers
      <4>5. DemotionOver
        BY <1>1, <4>2, <4>4
      <4> QED BY <3>2, <4>3, <4>5
    <3> QED BY <3>1, <3>2
  <2> QED BY <1>1, <1>2, <1>3, <2>1, <2>2
\* The demotion.
<1>4. CASE ~(admins \subseteq admins')
  <2>1. SetUserAdmin(r) /\ Op[r] = "demote" /\ admins' = admins \ {loc[r].user}
    <3>1. SetUserAdmin(r) \/ GrantAdmin(r)
      BY <1>4, Writers DEF AnyStep, DeleteOrganization, Abort, dbVars
    <3>2. SetUserAdmin(r)
      BY <1>4, <3>1 DEF GrantAdmin
    <3>3. Op[r] \in {"promote", "demote"}
      BY <3>2, Flow DEF Lanes, LaneFor
    <3> QED BY <1>4, <3>2, <3>3 DEF SetUserAdmin
  <2>2. pc[r] = "flag" /\ pc'[r] = "done"
    BY <2>1, Flow
  <2>3. \A s \in Reqs : Op[s] = "demote" => s = r
    BY <2>1 DEF OneDemotion
  <2>4. ~DemotionOver /\ DemotionOver'
    BY <2>1, <2>2, <2>3 DEF DemotionOver, Ended
  <2>5. admins' # {}
    BY <1>1, <2>1, <2>2
  <2>6. \A s \in Reqs : ~(Op[s] = "demote" /\ pc'[s] = "flag")
    BY <2>2, <2>3
  <2>7. \A s \in Reqs : pc'[s] # "grantAdmin"
    BY <1>0, <1>1, <2>2, <2>4 DEF Moved
  <2> QED BY <2>4, <2>5, <2>6, <2>7
<1> QED BY <1>3, <1>4

(***************************************************************************)
(* On a platform that starts with an admin, and while demotions do not     *)
(* race each other, an admin remains, and no login is taken for the        *)
(* bootstrap login of an empty platform, for any number of logins,         *)
(* promotions and disablings beside the demotion.                          *)
(***************************************************************************)
THEOREM LoginsFindAdmin == AccountsSpec => []LoginsFindAnAdmin
<1>1. AccountsInit => AdminInv
  BY DEF AccountsInit, AdminInv
<1>2. AccountsInv /\ Lanes /\ SeedInv /\ AdminInv /\ [AccountsNext]_accountVars => AdminInv'
  BY AdminStep, AccountsNextKinds DEF AdminInv, OneDemotion, DemotionOver, dbVars
<1>3. AdminInv => LoginsFindAnAdmin
  BY DEF AdminInv, LoginsFindAnAdmin
<1> QED BY <1>1, <1>2, <1>3, AccountsTypeInvariant, AccountsLanes, AccountsSeed, PTL DEF AccountsSpec

-----------------------------------------------------------------------------
\* The invite_tokens rows.

Row(i) == <<invites[i].org, invites[i].user, invites[i].role>>

\* A row is what its createInvite request named, is never rewritten, and never
\* becomes pending again.
RowKept(i) == i \in Issued /\ Row(i)' = Row(i) /\ (Pending(i)' => Pending(i))

LEMMA RowStep ==
    ASSUME InvitesInv, NEW r \in Reqs, (AnyStep(r) /\ BesideInvites(r)) \/ InviteStep(r),
           NEW i \in Reqs, (i \in Issued)'
    PROVE  \/ RowKept(i)
           \/ i = r /\ CreateInvite(r) /\ pc'[r] = "done" /\ Row(r)' = Grant(r)
<1>a. invites \in [Reqs -> Invite \cup {NoInvite}] /\ pc \in [Reqs -> PC]
  BY DEF InvitesInv, InvitesTypeOK, AccountsTypeOK
<1>b. ASSUME invites'[i] = invites[i] PROVE RowKept(i)
  BY <1>b DEF RowKept, Row, Pending, Issued
<1>c. ASSUME i \in Issued, invites'[i] = [invites[i] EXCEPT !.accepted = TRUE] PROVE RowKept(i)
  <2>1. invites[i] \in Invite
    BY <1>c, IssuedTyped
  <2>2. invites'[i].accepted /\ Row(i)' = Row(i)
    BY <1>c, <2>1 DEF Row, Invite
  <2> QED BY <1>c, <2>2 DEF RowKept, Pending
<1>1. CASE UNCHANGED invites
  BY <1>1, <1>b
<1>2. CASE DeleteOrganizationAndInvites(r)
  <2>1. invites'[i] \in {invites[i], NoInvite}
    BY <1>2 DEF DeleteOrganizationAndInvites
  <2> QED BY <1>b, <2>1 DEF Issued
<1>3. CASE ExpirePendingInvites(r)
  <2> DEFINE hit == {j \in Issued : /\ Pending(j) /\ invites[j].org = loc[r].org
                                    /\ invites[j].user = loc[r].user}
  <2>1. invites' = [j \in Reqs |-> IF j \in hit THEN [invites[j] EXCEPT !.accepted = TRUE]
                                                ELSE invites[j]]
    BY <1>3 DEF ExpirePendingInvites
  <2>2. CASE i \in hit
    BY <1>c, <2>1, <2>2
  <2>3. CASE i \notin hit
    BY <1>b, <2>1, <2>3
  <2> QED BY <2>2, <2>3
<1>4. CASE CreateInvite(r)
  <2>1. CASE i # r \/ UNCHANGED invites
    BY <1>4, <1>a, <1>b, <2>1 DEF CreateInvite
  <2>2. CASE i = r /\ ~UNCHANGED invites
    <3>1. /\ invites' = [invites EXCEPT ![r] =
                               [org |-> loc[r].org, user |-> loc[r].user, role |-> loc[r].role,
                                expires |-> now + TTL, accepted |-> FALSE]]
          /\ Goto(r, "done")
      BY <1>4, <2>2 DEF CreateInvite
    <3>2. pc'[r] = "done"
      BY <1>a, <3>1 DEF Goto
    <3>3. Row(r)' = Grant(r)
      BY <1>a, <3>1 DEF Row, Grant
    <3> QED BY <1>4, <2>2, <3>2, <3>3
  <2> QED BY <2>1, <2>2
<1>5. CASE ConsumeInvite(r)
  <2>1. CASE UNCHANGED invites
    BY <1>1, <2>1
  <2>2. CASE loc[r].inv \in Issued /\ invites' = [invites EXCEPT ![loc[r].inv].accepted = TRUE]
    <3>1. CASE i = loc[r].inv
      BY <1>a, <1>c, <2>2, <3>1
    <3>2. CASE i # loc[r].inv
      BY <1>a, <1>b, <2>2, <3>2
    <3> QED BY <3>1, <3>2
  <2> QED BY <1>5, <2>1, <2>2 DEF ConsumeInvite, Pending
<1> QED
  BY <1>1, <1>2, <1>3, <1>4, <1>5
     DEF BesideInvites, inviteVars, InviteStep, StartInvite, CheckNotMember, GetInviteByTokenHash,
         GetExternalResource, SetUserPassword

-----------------------------------------------------------------------------
\* No escalation.

LEMMA InvitesSeed == Spec => []SeedInv
<1>1. ASSUME InvitesInv, SeedInv, NEW r \in Reqs, InviteStep(r) PROVE SeedInv'
  <2>1. Moved(r) /\ UsersKept /\ AccountsInv
    BY <1>1, InviteStepType, InviteStepFrame, TypesOf DEF UsersKept, dbVars
  <2>2. pc'[r] \notin {"bootstrap", "grantAdmin"}
    BY <1>1, <2>1, InviteFlow DEF InviteStep, Ended
  <2> QED BY <1>1, <2>1, <2>2, SeedMoved
<1>2. InvitesInv /\ SeedInv /\ [Next]_vars => SeedInv'
  BY <1>1, SeedStep, NextKinds, TypesOf DEF SeedInv, dbVars
<1> QED BY <1>2, SeedInit, InvitesTypeInvariant, PTL DEF Spec, Init

(***************************************************************************)
(* The role of owner is nowhere to be found, so nobody can hand it on: no  *)
(* request carries it, no invite offers it, and no request changes admins. *)
(***************************************************************************)
EscalationInv ==
    NoneActsAsOwner =>
        /\ admins = AdminSeed
        /\ \A m \in Orgs \X Users : member[m] # "owner"
        /\ \A r \in Reqs : loc[r].role # "owner" /\ pc[r] \notin {"count", "flag", "grantAdmin"}
        /\ \A i \in Issued : invites[i].role # "owner"

\* Only an owner or a platform admin may hand out the role of owner.
LEMMA OfferOwner ==
    ASSUME NEW a \in Users, NEW o \in Orgs, NEW role \in OrgRole, a \notin admins,
           member[<<o, a>>] # "owner", MayOffer(a, o, role) \/ MayAdd(a, o, role)
    PROVE  role # "owner"
BY DEF MayOffer, MayAdd, CanManage, Rank, OrgRole

LEMMA EscalationAccounts ==
    ASSUME AccountsInv, SeedInv, EscalationInv, NoneActsAsOwner, NEW r \in Reqs, AnyStep(r)
    PROVE  /\ admins' = AdminSeed
           /\ \A m \in Orgs \X Users : member'[m] # "owner"
           /\ \A s \in Reqs : loc'[s].role # "owner" /\ pc'[s] \notin {"count", "flag", "grantAdmin"}
<1>0. Moved(r)
  BY AnyStepType
<1>1. /\ admins = AdminSeed
      /\ \A m \in Orgs \X Users : member[m] # "owner"
      /\ \A s \in Reqs : loc[s].role # "owner" /\ pc[s] \notin {"count", "flag", "grantAdmin"}
  BY DEF EscalationInv
<1>2. Session \cap admins = {} /\ Session \subseteq Users /\ AdminSeed # {}
  BY <1>1, AccountsAssumption DEF NoneActsAsOwner, Session
\* Promotions, demotions and bootstrap logins do not get under way.
<1>3. pc'[r] \notin {"count", "flag", "grantAdmin"}
  <2>1. ~StartSetUserAdmin(r)
    BY <1>2 DEF StartSetUserAdmin
  <2>2. ~AdminCount(r)
    BY <1>1 DEF AdminCount
  <2>3. BootstrapCheck(r) => pc'[r] # "grantAdmin"
    <3> SUFFICES ASSUME BootstrapCheck(r) PROVE pc'[r] # "grantAdmin"
      OBVIOUS
    <3>1. loc[r].user \notin AdminSeed
      BY DEF BootstrapCheck, SeedInv, SeedUsers
    <3>2. admins \ {loc[r].user} # {}
      BY <1>1, <1>2, <3>1
    <3> QED BY <3>2 DEF BootstrapCheck, Fail, AccountsInv, AccountsTypeOK
  <2> QED BY <2>1, <2>2, <2>3, Arrivals
<1>4. admins' = admins
  <2>1. ~SetUserAdmin(r) /\ ~GrantAdmin(r)
    BY <1>1 DEF SetUserAdmin, GrantAdmin
  <2> QED BY <2>1, Writers DEF AnyStep, DeleteOrganization, Abort, dbVars
\* No request is admitted with the role.
<1>5. loc'[r].role # "owner"
  <2>1. CASE pc[r] # "start"
    BY <1>0, <1>1, <2>1 DEF Moved
  <2>2. CASE StartAddMember(r) \/ StartOnboard(r)
    <3>1. PICK a \in Session, o \in Orgs, u \in Users, role \in OrgRole, label \in PC :
              /\ MayOffer(a, o, role) \/ MayAdd(a, o, role)
              /\ Admit(r, label, [actor |-> a, org |-> o, user |-> u, role |-> role, inv |-> None])
      BY <2>2 DEF StartAddMember, StartOnboard, PC
    <3>2. a \in Users /\ a \notin admins /\ member[<<o, a>>] # "owner"
      BY <1>1, <1>2
    <3>3. role # "owner"
      BY <3>1, <3>2, OfferOwner
    <3> QED BY <3>1, <3>3 DEF Admit, AccountsInv, AccountsTypeOK
  <2>3. CASE StartLogin(r)
    <3>1. PICK u \in Users : Admit(r, "upsert", [NoLoc EXCEPT !.user = u])
      BY <2>3 DEF StartLogin
    <3> QED BY <3>1 DEF Admit, AccountsInv, AccountsTypeOK, NoLoc, NoRole
  <2>4. CASE StartAddGroupMember(r)
    <3>1. PICK a \in Session, o \in Orgs, u \in Users :
              Admit(r, "group", [NoLoc EXCEPT !.actor = a, !.org = o, !.user = u])
      BY <2>4 DEF StartAddGroupMember
    <3> QED BY <3>1 DEF Admit, AccountsInv, AccountsTypeOK, NoLoc, NoRole
  <2>5. ~StartOrg(r) /\ ~StartCreateUser(r) /\ ~StartUserStatus(r) /\ ~StartSetUserAdmin(r)
    BY <1>2 DEF StartOrg, StartCreateUser, StartUserStatus, StartSetUserAdmin
  <2> QED BY <2>1, <2>2, <2>3, <2>4, <2>5, Flow DEF AnyStep, AccountStep
<1>6. \A s \in Reqs : loc'[s].role # "owner" /\ pc'[s] \notin {"count", "flag", "grantAdmin"}
  BY <1>0, <1>1, <1>3, <1>5 DEF Moved
\* So none is written.
<1>7. \A m \in Orgs \X Users : member'[m] \in {member[m], NoRole, loc[r].role}
  BY MemberWrites
<1>8. \A m \in Orgs \X Users : member'[m] # "owner"
  BY <1>1, <1>7 DEF NoRole
<1> QED BY <1>1, <1>4, <1>6, <1>8

LEMMA EscalationInvites ==
    ASSUME InvitesInv, EscalationInv, NoneActsAsOwner, NEW r \in Reqs, InviteStep(r)
    PROVE  /\ admins' = AdminSeed
           /\ \A m \in Orgs \X Users : member'[m] # "owner"
           /\ \A s \in Reqs : loc'[s].role # "owner" /\ pc'[s] \notin {"count", "flag", "grantAdmin"}
<1>0. Moved(r) /\ AccountsInv
  BY InviteStepType, TypesOf
<1>1. /\ admins = AdminSeed
      /\ \A m \in Orgs \X Users : member[m] # "owner"
      /\ \A s \in Reqs : loc[s].role # "owner" /\ pc[s] \notin {"count", "flag", "grantAdmin"}
      /\ \A i \in Issued : invites[i].role # "owner"
  BY DEF EscalationInv
<1>2. Session \cap admins = {} /\ Session \subseteq Users
  BY <1>1, AccountsAssumption DEF NoneActsAsOwner, Session
<1>3. pc'[r] \notin {"count", "flag", "grantAdmin"}
  BY <1>0, InviteFlow DEF InviteStep, Ended
<1>4. loc'[r].role # "owner"
  <2>1. CASE pc[r] # "start"
    BY <1>0, <1>1, <2>1 DEF Moved
  <2>2. CASE StartInvite(r)
    <3>1. PICK a \in Session, o \in Orgs, u \in Users, role \in OrgRole :
              /\ MayOffer(a, o, role)
              /\ Admit(r, "lookup", [actor |-> a, org |-> o, user |-> u, role |-> role, inv |-> None])
      BY <2>2 DEF StartInvite
    <3>2. a \in Users /\ a \notin admins /\ member[<<o, a>>] # "owner"
      BY <1>1, <1>2
    <3>3. role # "owner"
      BY <3>1, <3>2, OfferOwner
    <3> QED BY <1>0, <3>1, <3>3 DEF Admit, AccountsInv, AccountsTypeOK
  <2>3. CASE GetInviteByTokenHash(r)
    <3>1. PICK i \in Issued : Admit(r, "linked", [actor |-> None, org |-> invites[i].org,
                  user |-> invites[i].user, role |-> invites[i].role, inv |-> i])
      BY <2>3 DEF GetInviteByTokenHash
    <3> QED BY <1>0, <1>1, <3>1 DEF Admit, AccountsInv, AccountsTypeOK
  <2> QED BY <1>0, <2>1, <2>2, <2>3, InviteFlow DEF InviteStep
<1> QED BY <1>0, <1>1, <1>3, <1>4, InviteStepFrame DEF Moved, dbVars

(***************************************************************************)
(* With admins and owners who do not act, no interleaving of the other     *)
(* users' invitations, onboardings, acceptances and logins makes a new     *)
(* platform admin or an organization owner, however many organizations     *)
(* and users there are and whatever fails on the way.                      *)
(***************************************************************************)
THEOREM NobodyEscalates == Spec => []NoEscalation
<1>1. Init => EscalationInv
  <2> SUFFICES ASSUME Init, NoneActsAsOwner PROVE EscalationInv
    BY DEF EscalationInv
  <2>1. \A m \in Orgs \X Users : member[m] # "owner"
    <3>1. \A m \in Orgs \X Users : \E o \in Orgs, u \in Users : m = <<o, u>>
      OBVIOUS
    <3>2. member = SeedRole
      BY DEF Init, AccountsInit
    <3>3. \A o \in Orgs, u \in Users : SeedRole[<<o, u>>] # "owner"
      BY DEF NoneActsAsOwner
    <3> QED BY <3>1, <3>2, <3>3
  <2>2. \A r \in Reqs : loc[r].role # "owner" /\ pc[r] = "start"
    BY DEF Init, AccountsInit, NoLoc, NoRole
  <2>3. admins = AdminSeed /\ Issued = {}
    BY DEF Init, AccountsInit, Issued
  <2> QED BY <2>1, <2>2, <2>3 DEF EscalationInv
<1>2. ASSUME InvitesInv, SeedInv, EscalationInv, [Next]_vars, NoneActsAsOwner PROVE EscalationInv'
  <2>1. ASSUME NEW r \in Reqs, (AnyStep(r) /\ BesideInvites(r)) \/ InviteStep(r)
        PROVE  EscalationInv'
    <3>1. \A i \in Reqs : (i \in Issued)' => invites'[i].role # "owner"
      <4> SUFFICES ASSUME NEW i \in Reqs, (i \in Issued)' PROVE invites'[i].role # "owner"
        OBVIOUS
      <4>1. CASE RowKept(i)
        BY <1>2, <4>1 DEF RowKept, Row, EscalationInv
      <4>2. CASE i = r /\ Row(r)' = Grant(r)
        BY <1>2, <4>2 DEF Row, Grant, EscalationInv
      <4> QED BY <1>2, <2>1, <4>1, <4>2, RowStep
    <3>2. \A i \in Issued' : i \in Reqs /\ (i \in Issued)'
      BY DEF Issued
    <3> QED BY <1>2, <2>1, <3>1, <3>2, EscalationAccounts, EscalationInvites, TypesOf
            DEF EscalationInv
  <2>2. CASE UNCHANGED <<dbVars, idp, pc, loc, pk, why, invites, won, older>>
    BY <1>2, <2>2 DEF EscalationInv, dbVars, Issued
  <2> QED BY <1>2, <2>1, <2>2, NextKinds
<1>3. InvitesInv /\ SeedInv /\ EscalationInv /\ [Next]_vars => EscalationInv'
  <2>1. ~NoneActsAsOwner => EscalationInv'
    BY DEF EscalationInv, NoneActsAsOwner
  <2> QED BY <1>2, <2>1
<1>4. EscalationInv => NoEscalation
  BY DEF EscalationInv, NoEscalation
<1> QED BY <1>1, <1>3, <1>4, InvitesTypeInvariant, InvitesSeed, PTL DEF Spec

-----------------------------------------------------------------------------
\* A re-invite supersedes.

(***************************************************************************)
(* A createInvite request that has burnt the older links need not look     *)
(* back: the invites it saw belong to requests that had ended, so that no  *)
(* row can take their name, and a row is never pending twice.              *)
(***************************************************************************)
Superseded(r) ==
    \A i \in older[r] : Pending(i) =>
        <<invites[i].org, invites[i].user>> # <<loc[r].org, loc[r].user>>

SupersedeInv ==
    /\ \A r \in Reqs : \A i \in older[r] : i \in Reqs /\ pc[i] = "done"
    /\ \A r \in Reqs : Op[r] = "invite" /\ pc[r] \in {"insertInvite", "done"} => Superseded(r)

\* createInvite answers 201 only after its own INSERT.
LEMMA InviteArrivals ==
    ASSUME InvitesInv, Lanes, NEW r \in Reqs, AnyStep(r) \/ InviteStep(r), Op[r] = "invite"
    PROVE  /\ pc'[r] = "done" => CreateInvite(r)
           /\ pc'[r] = "insertInvite" => ExpirePendingInvites(r)
<1>0. AccountsInv /\ LaneFor(r)
  BY TypesOf DEF Lanes
<1>1. CASE InviteStep(r)
  BY <1>0, <1>1, InviteFlow DEF InviteStep, LaneFor, Ended
<1>2. CASE AnyStep(r)
  BY <1>0, <1>2, Admissions, Flow DEF AnyStep, AccountStep, LaneFor, AfterUser, Ended
<1> QED BY <1>1, <1>2

\* Whom older[r] holds.
LEMMA OlderStep ==
    ASSUME SettledInv, SupersedeInv, NEW r \in Reqs,
           (AnyStep(r) /\ BesideInvites(r)) \/ InviteStep(r)
    PROVE  /\ \A s \in Reqs : \A i \in older'[s] : i \in Reqs /\ pc[i] = "done" /\ pc'[i] = "done"
           /\ \A s \in Reqs : older'[s] # older[s] => s = r /\ StartInvite(r)
<1>0. Moved(r) /\ older \in [Reqs -> SUBSET Reqs]
  BY InviteStepType, AnyStepType, TypesOf DEF SettledInv, InvitesInv, InvitesTypeOK
<1>1. \A i \in Reqs : pc[i] = "done" => pc'[i] = "done"
  BY <1>0 DEF Moved, Ended
<1>2. CASE older' = older
  BY <1>1, <1>2 DEF SupersedeInv
<1>3. CASE StartInvite(r)
  <2>1. older' = [older EXCEPT ![r] = Issued]
    BY <1>3 DEF StartInvite
  <2>2. \A i \in Issued : i \in Reqs /\ pc[i] = "done"
    BY DEF SettledInv, Issued
  <2> QED BY <1>0, <1>1, <1>3, <2>1, <2>2 DEF SupersedeInv
<1> QED BY <1>2, <1>3
        DEF BesideInvites, inviteVars, DeleteOrganizationAndInvites, InviteStep, CheckNotMember,
            ExpirePendingInvites, CreateInvite, GetInviteByTokenHash, GetExternalResource,
            SetUserPassword, ConsumeInvite

LEMMA SupersedeStep ==
    ASSUME SettledInv, Lanes, SupersedeInv, NEW r \in Reqs,
           (AnyStep(r) /\ BesideInvites(r)) \/ InviteStep(r)
    PROVE  SupersedeInv'
<1>0. Moved(r) /\ InvitesInv
  BY InviteStepType, AnyStepType, TypesOf DEF SettledInv
<1>1. \A s \in Reqs : \A i \in older'[s] : i \in Reqs /\ pc[i] = "done" /\ pc'[i] = "done"
  BY OlderStep
\* An invite r is superseded by stays so.
<1>2. ASSUME NEW s \in Reqs, Superseded(s), older'[s] = older[s], loc'[s] = loc[s]
      PROVE  Superseded(s)'
  <2> SUFFICES ASSUME NEW i \in older[s], Pending(i)'
               PROVE  <<invites'[i].org, invites'[i].user>> # <<loc[s].org, loc[s].user>>
    BY <1>2 DEF Superseded
  <2>1. i \in Reqs /\ pc[i] = "done"
    BY <1>1, <1>2
  <2>2. RowKept(i)
    <3>1. (i \in Issued)'
      BY DEF Pending
    <3>2. ~(i = r /\ CreateInvite(r))
      BY <2>1 DEF CreateInvite
    <3> QED BY <1>0, <2>1, <3>1, <3>2, RowStep
  <2> QED BY <1>2, <2>2 DEF RowKept, Row, Superseded
<1>3. ASSUME NEW s \in Reqs, Op[s] = "invite", pc'[s] \in {"insertInvite", "done"}
      PROVE  Superseded(s)'
  <2>1. CASE s # r
    <3>1. pc'[s] = pc[s] /\ loc'[s] = loc[s] /\ older'[s] = older[s]
      BY <1>0, <2>1, OlderStep DEF Moved
    <3> QED BY <1>2, <1>3, <3>1 DEF SupersedeInv
  <2>2. CASE s = r
    <3>1. CASE CreateInvite(r)
      <4>1. pc[r] = "insertInvite" /\ older' = older /\ loc'[r] = loc[r]
        BY <1>0, <3>1 DEF CreateInvite, Moved
      <4> QED BY <1>2, <1>3, <2>2, <4>1 DEF SupersedeInv
    <3>2. CASE ExpirePendingInvites(r)
      <4> DEFINE hit == {i \in Issued : /\ Pending(i) /\ invites[i].org = loc[r].org
                                        /\ invites[i].user = loc[r].user}
      <4>1. /\ invites' = [i \in Reqs |-> IF i \in hit THEN [invites[i] EXCEPT !.accepted = TRUE]
                                                       ELSE invites[i]]
            /\ older' = older /\ pc[r] = "expire"
        BY <3>2 DEF ExpirePendingInvites
      <4>2. loc'[r] = loc[r]
        BY <1>0, <4>1 DEF Moved
      <4>3. \A i \in hit : i \in Reqs /\ invites[i] \in Invite
        BY <1>0, IssuedTyped
      <4>4. \A i \in hit : invites'[i].accepted
        BY <4>1, <4>3 DEF Invite
      <4>5. \A i \in Reqs \ hit : invites'[i] = invites[i]
        BY <4>1
      <4> SUFFICES ASSUME NEW i \in older[r], Pending(i)'
                   PROVE  <<invites'[i].org, invites'[i].user>> # <<loc[r].org, loc[r].user>>
        BY <2>2, <4>1, <4>2 DEF Superseded
      <4>6. i \in Reqs \ hit
        BY <1>1, <4>1, <4>4 DEF Pending
      <4>7. Pending(i)
        BY <4>5, <4>6 DEF Pending, Issued
      <4> QED BY <4>5, <4>6, <4>7 DEF Pending
    <3> QED BY <1>0, <1>3, <2>2, <3>1, <3>2, InviteArrivals
  <2> QED BY <2>1, <2>2
<1> QED BY <1>1, <1>3 DEF SupersedeInv

LEMMA InvitesSettled == Spec => []SettledInv
<1>1. Init => SettledInv
  BY InitType DEF Init, SettledInv, SettledOnce, Issued, Pending
<1> QED BY <1>1, NextSettled, PTL DEF Spec

(***************************************************************************)
(* Once a createInvite has answered, no older invite for its organization  *)
(* and user can be redeemed, for any number of invitations that overlap.   *)
(* (One that was not there yet when the request was admitted may be.)      *)
(***************************************************************************)
THEOREM ReinvitesSupersede == Spec => []ReinviteSupersedes
<1>1. Init => SupersedeInv
  BY DEF Init, AccountsInit, SupersedeInv
<1>2. SettledInv /\ Lanes /\ SupersedeInv /\ [Next]_vars => SupersedeInv'
  <2> SUFFICES ASSUME SettledInv, Lanes, SupersedeInv, [Next]_vars PROVE SupersedeInv'
    OBVIOUS
  <2>1. CASE UNCHANGED <<dbVars, idp, pc, loc, pk, why, invites, won, older>>
    BY <2>1 DEF SupersedeInv, Superseded, Pending, Issued
  <2> QED BY <2>1, NextKinds, SupersedeStep
<1>3. SupersedeInv => ReinviteSupersedes
  BY DEF SupersedeInv, Superseded, ReinviteSupersedes
<1> QED BY <1>1, <1>2, <1>3, InvitesSettled, InvitesLanes, PTL DEF Spec

-----------------------------------------------------------------------------
\* Every membership is backed.

\* What a step does to the errors: only the request that moves gets one, with its
\* error answer; once the membership is granted that error is "late".
LEMMA WhyStep ==
    ASSUME AccountsInv, NEW r \in Reqs, AnyStep(r) \/ InviteStep(r)
    PROVE  /\ \A s \in Reqs \ {r} : why'[s] = why[s]
           /\ why'[r] = why[r] \/ pc'[r] = "failed"
<1> DEFINE W == /\ \A s \in Reqs \ {r} : why'[s] = why[s]
                /\ why'[r] = why[r] \/ pc'[r] = "failed"
<1>g. ASSUME NEW label, Goto(r, label) PROVE W
  BY <1>g DEF Goto
<1>f. ASSUME NEW reason, Fail(r, reason) PROVE W
  BY <1>f DEF Fail, AccountsInv, AccountsTypeOK
<1>a. ASSUME NEW label, NEW l, Admit(r, label, l) PROVE W
  BY <1>a DEF Admit
<1> SUFFICES W
  OBVIOUS
<1> HIDE DEF W
<1>1. CASE \/ StartOrg(r) \/ StartAddMember(r) \/ StartOnboard(r) \/ StartCreateUser(r)
           \/ StartUserStatus(r) \/ StartSetUserAdmin(r) \/ StartLogin(r) \/ StartAddGroupMember(r)
           \/ StartInvite(r) \/ GetInviteByTokenHash(r)
  BY <1>1, <1>a DEF StartOrg, StartAddMember, StartOnboard, StartCreateUser, StartUserStatus,
              StartSetUserAdmin, StartLogin, StartAddGroupMember, StartInvite, GetInviteByTokenHash
<1>2. CASE \/ CreateOrganization(r) \/ GetUserByEmail(r) \/ EnsureUser(r) \/ CreateUser(r)
           \/ UpsertExternalResource(r) \/ SetMembership(r) \/ AddGroupMember(r)
  BY <1>2, <1>g, <1>f DEF CreateOrganization, GetUserByEmail, EnsureUser, CreateUser,
              UpsertExternalResource, SetMembership, AddGroupMember
<1>3. CASE \/ ProvisionMailbox(r) \/ SetUserActive(r) \/ SetUserStatus(r)
           \/ RemoveAllMemberships(r) \/ RemoveAllGroupMemberships(r)
  BY <1>3, <1>g, <1>f DEF ProvisionMailbox, SetUserActive, SetUserStatus, RemoveAllMemberships,
              RemoveAllGroupMemberships
<1>4. CASE \/ AdminCount(r) \/ SetUserAdmin(r) \/ UpsertFromOIDC(r) \/ BootstrapCheck(r)
           \/ GrantAdmin(r) \/ DeleteOrganization(r) \/ Abort(r)
  BY <1>4, <1>g, <1>f DEF AdminCount, SetUserAdmin, UpsertFromOIDC, BootstrapCheck, GrantAdmin,
              DeleteOrganization, Abort
<1>5. CASE \/ CheckNotMember(r) \/ ExpirePendingInvites(r) \/ CreateInvite(r)
           \/ GetExternalResource(r) \/ SetUserPassword(r) \/ ConsumeInvite(r)
  BY <1>5, <1>g, <1>f DEF CheckNotMember, ExpirePendingInvites, CreateInvite, GetExternalResource,
              SetUserPassword, ConsumeInvite
<1> QED BY <1>1, <1>2, <1>3, <1>4, <1>5 DEF AnyStep, AccountStep, InviteStep

LEMMA LateStep ==
    ASSUME InvitesInv, Lanes, NEW r \in Reqs, AnyStep(r) \/ InviteStep(r),
           pc[r] \in {"group", "mailbox"}, Op[r] # "addGroup"
    PROVE  pc'[r] \in {"done", "mailbox"} \/ why'[r] = "late"
<1>0. AccountsInv
  BY TypesOf
<1>1. ASSUME NEW label, Goto(r, label) PROVE pc'[r] = label
  BY <1>0, <1>1 DEF Goto, AccountsInv, AccountsTypeOK
<1>2. ASSUME Fail(r, "late") PROVE why'[r] = "late"
  BY <1>0, <1>2 DEF Fail, AccountsInv, AccountsTypeOK
<1>3. CASE AddGroupMember(r)
  <2>1. Op[r] \in {"onboard", "createUser"}
    BY <1>3 DEF AddGroupMember, Lanes, LaneFor
  <2> QED BY <1>1, <1>2, <1>3, <2>1 DEF AddGroupMember
<1>4. CASE ProvisionMailbox(r)
  BY <1>1, <1>2, <1>4 DEF ProvisionMailbox
<1>5. CASE Abort(r)
  BY <1>2, <1>5 DEF Abort
<1>6. pc[r] # "start"
  OBVIOUS
<1> QED BY <1>0, <1>3, <1>4, <1>5, <1>6, Flow, InviteFlow
        DEF AnyStep, AccountStep, InviteStep, Admit, StartOrg, StartAddMember, StartOnboard,
            StartCreateUser, StartUserStatus, StartSetUserAdmin, StartLogin, StartAddGroupMember,
            StartInvite

(***************************************************************************)
(* An invite says what its createInvite request named; an acceptInvite     *)
(* request carries what its invite says, and gets to the grant only by     *)
(* redeeming it.                                                           *)
(***************************************************************************)
Presents(r) ==
    /\ loc[r].inv \in Reqs /\ Op[loc[r].inv] = "invite" /\ pc[loc[r].inv] = "done"
    /\ Grant(loc[r].inv) = Grant(r)

BackedInv ==
    /\ \A i \in Issued : Op[i] = "invite" /\ pc[i] = "done" /\ Row(i) = Grant(i)
    /\ \A r \in Reqs : Op[r] = "accept" /\ pc[r] # "start" => Presents(r)
    /\ \A r \in Reqs : Op[r] = "accept" /\ pc[r] \in {"grant", "done"} => r \in won
    /\ \A r \in won : r \in Reqs /\ Op[r] = "accept" /\ pc[r] # "start"
    /\ \A r \in Reqs : why[r] = "late" => pc[r] = "failed"
    /\ MembershipBacked

\* The requests that won.
LEMMA WonStep ==
    ASSUME InvitesInv, Lanes, NEW r \in Reqs, (AnyStep(r) /\ BesideInvites(r)) \/ InviteStep(r)
    PROVE  /\ won \subseteq won' /\ won' \subseteq won \cup {r}
           /\ r \in won' \ won => ConsumeInvite(r) /\ Op[r] = "accept"
           /\ ConsumeInvite(r) /\ pc'[r] = "grant" => r \in won'
<1>1. CASE ConsumeInvite(r)
  <2>1. pc \in [Reqs -> PC]
    BY DEF InvitesInv, InvitesTypeOK, AccountsTypeOK
  <2>2. Op[r] = "accept"
    BY <1>1 DEF ConsumeInvite, Lanes, LaneFor
  <2> QED BY <1>1, <2>1, <2>2 DEF ConsumeInvite, Fail
<1>2. CASE ~ConsumeInvite(r)
  <2>1. won' = won
    BY <1>2 DEF BesideInvites, inviteVars, DeleteOrganizationAndInvites, InviteStep, StartInvite,
                CheckNotMember, ExpirePendingInvites, CreateInvite, GetInviteByTokenHash,
                GetExternalResource, SetUserPassword
  <2> QED BY <1>2, <2>1
<1> QED BY <1>1, <1>2

\* What backs a membership goes on backing it.
LEMMA BacksKept ==
    ASSUME InvitesInv, Lanes, BackedInv, NEW r \in Reqs,
           (AnyStep(r) /\ BesideInvites(r)) \/ InviteStep(r), NEW q \in Reqs, NEW g, Backs(q, g)
    PROVE  Backs(q, g)'
<1>0. Moved(r) /\ AccountsInv
  BY InviteStepType, AnyStepType, TypesOf
<1>1. pc[q] # "start"
  BY DEF Backs, BackedInv
<1>2. \A j \in Reqs : pc[j] # "start" => loc'[j] = loc[j]
  BY <1>0 DEF Moved
<1>3. Grant(q)' = g
  BY <1>1, <1>2 DEF Backs, Grant
<1>4. \/ Op[q] \in {"addMember", "onboard", "createUser"}
      \/ q \in won' /\ Op[loc'[q].inv] = "invite" /\ Grant(loc[q].inv)' = g
  <2>1. CASE Op[q] \in {"addMember", "onboard", "createUser"}
    BY <2>1
  <2>2. CASE q \in won /\ Op[loc[q].inv] = "invite" /\ Grant(loc[q].inv) = g
    <3>1. loc[q].inv \in Reqs /\ pc[loc[q].inv] = "done"
      BY <2>2 DEF BackedInv, Presents
    <3>2. loc'[loc[q].inv] = loc[loc[q].inv] /\ loc'[q] = loc[q]
      BY <1>1, <1>2, <3>1
    <3>3. q \in won'
      BY <2>2, WonStep
    <3>4. Grant(loc[q].inv)' = g
      BY <2>2, <3>2 DEF Grant
    <3> QED BY <2>2, <3>2, <3>3, <3>4
  <2> QED BY <2>1, <2>2 DEF Backs
<1>5. pc'[q] \in {"done", "group", "mailbox"} \/ why'[q] = "late"
  <2>1. CASE q # r
    BY <1>0, <2>1, WhyStep DEF Moved, Backs
  <2>2. CASE q = r
    <3>1. pc[r] \in {"group", "mailbox"}
      BY <1>0, <2>2 DEF Moved, Ended, Backs, BackedInv
    <3>2. Op[r] # "addGroup"
      BY <2>2 DEF Backs, BackedInv
    <3> QED BY <2>2, <3>1, <3>2, LateStep
  <2> QED BY <2>1, <2>2
<1> QED BY <1>3, <1>4, <1>5 DEF Backs

LEMMA BackedStep ==
    ASSUME InvitesInv, Lanes, BackedInv, NEW r \in Reqs,
           (AnyStep(r) /\ BesideInvites(r)) \/ InviteStep(r)
    PROVE  BackedInv'
<1>0. Moved(r) /\ AccountsInv /\ LaneFor(r)
  BY InviteStepType, AnyStepType, TypesOf DEF Lanes
<1>a. \A j \in Reqs : pc[j] # "start" => loc'[j] = loc[j] /\ Grant(j)' = Grant(j)
  BY <1>0 DEF Moved, Grant
<1>b. \A j \in Reqs : pc[j] = "done" => pc'[j] = "done"
  BY <1>0 DEF Moved, Ended
\* The rows.
<1>1. ASSUME NEW i \in Reqs, (i \in Issued)'
      PROVE  Op[i] = "invite" /\ pc'[i] = "done" /\ Row(i)' = Grant(i)'
  <2>1. CASE RowKept(i)
    BY <1>a, <1>b, <2>1 DEF RowKept, BackedInv
  <2>2. CASE i = r /\ CreateInvite(r) /\ pc'[r] = "done" /\ Row(r)' = Grant(r)
    <3>1. pc[r] = "insertInvite"
      BY <2>2 DEF CreateInvite
    <3> QED BY <1>0, <1>a, <2>2, <3>1 DEF LaneFor
  <2> QED BY <1>1, <2>1, <2>2, RowStep
\* The requests that present one.
<1>2. ASSUME NEW s \in Reqs, Op[s] = "accept", pc'[s] # "start" PROVE Presents(s)'
  <2>1. CASE pc[s] # "start"
    <3>1. Presents(s) /\ loc'[s] = loc[s]
      BY <1>2, <1>a, <2>1 DEF BackedInv
    <3>2. loc'[loc[s].inv] = loc[loc[s].inv] /\ pc'[loc[s].inv] = "done"
      BY <1>a, <1>b, <3>1 DEF Presents
    <3> QED BY <3>1, <3>2 DEF Presents, Grant
  <2>2. CASE pc[s] = "start"
    <3>1. s = r /\ GetInviteByTokenHash(r)
      <4>1. s = r
        BY <1>0, <1>2, <2>2 DEF Moved
      <4> QED BY <1>0, <1>2, <2>2, <4>1, Admissions, Flow, InviteFlow
              DEF AnyStep, AccountStep, InviteStep
    <3>2. PICK i \in Issued : Admit(r, "linked", [actor |-> None, org |-> invites[i].org,
                  user |-> invites[i].user, role |-> invites[i].role, inv |-> i])
      BY <3>1 DEF GetInviteByTokenHash
    <3>3. loc'[r] = [actor |-> None, org |-> invites[i].org, user |-> invites[i].user,
                     role |-> invites[i].role, inv |-> i]
      BY <1>0, <3>2 DEF Admit, AccountsInv, AccountsTypeOK
    <3>4. i \in Reqs /\ Op[i] = "invite" /\ pc[i] = "done" /\ Row(i) = Grant(i)
      BY DEF BackedInv, Issued
    <3>5. Grant(i)' = Grant(i) /\ pc'[i] = "done"
      BY <1>a, <1>b, <3>4
    <3>6. loc'[r].inv = i /\ Grant(r)' = Row(i)
      BY <3>3 DEF Grant, Row
    <3> QED BY <3>1, <3>4, <3>5, <3>6 DEF Presents, Grant
  <2> QED BY <2>1, <2>2
\* The redemptions.
<1>3. ASSUME NEW s \in Reqs, Op[s] = "accept", pc'[s] \in {"grant", "done"} PROVE s \in won'
  <2>1. CASE s # r
    BY <1>0, <1>3, <2>1, WonStep DEF Moved, BackedInv
  <2>2. CASE s = r /\ pc[r] = "grant"
    BY <1>3, <2>2, WonStep DEF BackedInv
  <2>3. CASE s = r /\ pc[r] # "grant"
    <3>1. ConsumeInvite(r) /\ pc'[r] = "grant"
      <4>1. CASE InviteStep(r)
        BY <1>0, <1>3, <2>3, <4>1, InviteFlow DEF InviteStep, LaneFor, Ended
      <4>2. CASE AnyStep(r)
        BY <1>0, <1>3, <2>3, <4>2, Admissions, Flow DEF AnyStep, AccountStep, LaneFor, Ended
      <4> QED BY <4>1, <4>2
    <3> QED BY <2>3, <3>1, WonStep
  <2> QED BY <2>1, <2>2, <2>3
<1>4. \A s \in won' : s \in Reqs /\ Op[s] = "accept" /\ pc'[s] # "start"
  BY <1>0, WonStep DEF BackedInv, Moved
\* The errors.
<1>5. ASSUME NEW s \in Reqs, why'[s] = "late" PROVE pc'[s] = "failed"
  <2>1. CASE s # r
    BY <1>0, <1>5, <2>1, WhyStep DEF Moved, BackedInv
  <2>2. CASE s = r
    BY <1>0, <1>5, <2>2, WhyStep DEF Moved, BackedInv, Ended
  <2> QED BY <2>1, <2>2
\* The memberships.
<1>6. MembershipBacked'
  <2> SUFFICES ASSUME NEW o \in Orgs, NEW u \in Users,
                      member'[<<o, u>>] \notin {NoRole, SeedRole[<<o, u>>]}
               PROVE  \E q \in Reqs : Backs(q, <<o, u, member[<<o, u>>]>>)'
    BY DEF MembershipBacked
  <2>1. CASE member'[<<o, u>>] = member[<<o, u>>]
    <3> DEFINE g == <<o, u, member[<<o, u>>]>>
    <3>1. PICK q \in Reqs : Backs(q, g)
      BY <2>1 DEF BackedInv, MembershipBacked
    <3> QED BY <2>1, <3>1, BacksKept
  <2>2. CASE member'[<<o, u>>] # member[<<o, u>>]
    <3>1. /\ SetMembership(r) /\ o = loc[r].org /\ u = loc[r].user
          /\ member'[<<o, u>>] = loc[r].role /\ pc'[r] \in AfterGrant(r)
      BY <1>0, <2>2, MemberWritten, InviteStepFrame DEF dbVars
    <3>2. pc[r] = "grant" /\ pc'[r] \in {"done", "group", "mailbox"}
      BY <1>0, <3>1, Flow DEF AfterGrant
    <3>3. loc'[r] = loc[r] /\ Grant(r)' = <<o, u, member'[<<o, u>>]>>
      BY <1>a, <3>1, <3>2 DEF Grant
    <3>4. \/ Op[r] \in {"addMember", "onboard", "createUser"}
          \/ /\ r \in won' /\ Op[loc'[r].inv] = "invite"
             /\ Grant(loc[r].inv)' = <<o, u, member'[<<o, u>>]>>
      <4>1. CASE Op[r] = "accept"
        <5>1. Presents(r) /\ r \in won'
          BY <3>2, <4>1, WonStep DEF BackedInv
        <5>2. loc'[loc[r].inv] = loc[loc[r].inv]
          BY <1>a, <5>1 DEF Presents
        <5> QED BY <3>3, <5>1, <5>2 DEF Presents, Grant
      <4> QED BY <1>0, <3>2, <4>1 DEF LaneFor
    <3>5. Grant(loc[r].inv)' = <<loc'[loc'[r].inv].org, loc'[loc'[r].inv].user, loc'[loc'[r].inv].role>>
      BY DEF Grant
    <3> QED BY <3>2, <3>3, <3>4, <3>5 DEF Backs
  <2> QED BY <2>1, <2>2
<1>7. \A i \in Issued' : i \in Reqs /\ (i \in Issued)'
  BY DEF Issued
<1> QED BY <1>1, <1>2, <1>3, <1>4, <1>5, <1>6, <1>7 DEF BackedInv

(***************************************************************************)
(* Whatever handlers overlap and fail, a membership that was not there     *)
(* from the start was granted by a request that named its organization,    *)
(* its user and its role: directly, or by redeeming an invite whose        *)
(* createInvite request named the same three.                              *)
(***************************************************************************)
THEOREM MembershipsBacked == Spec => []MembershipBacked
<1>1. Init => BackedInv
  <2> SUFFICES ASSUME Init PROVE BackedInv
    OBVIOUS
  <2>1. MembershipBacked
    BY DEF Init, AccountsInit, MembershipBacked
  <2>2. Issued = {} /\ won = {}
    BY DEF Init, Issued
  <2>3. \A r \in Reqs : pc[r] = "start" /\ why[r] = ""
    BY DEF Init, AccountsInit
  <2> QED BY <2>1, <2>2, <2>3 DEF BackedInv
<1>2. InvitesInv /\ Lanes /\ BackedInv /\ [Next]_vars => BackedInv'
  <2> SUFFICES ASSUME InvitesInv, Lanes, BackedInv, [Next]_vars PROVE BackedInv'
    OBVIOUS
  <2>1. CASE UNCHANGED <<dbVars, idp, pc, loc, pk, why, invites, won, older>>
    BY <2>1 DEF BackedInv, Issued, Row, Presents, MembershipBacked, Backs, Grant, dbVars
  <2> QED BY <2>1, NextKinds, BackedStep
<1>3. BackedInv => MembershipBacked
  BY DEF BackedInv
<1> QED BY <1>1, <1>2, <1>3, InvitesTypeInvariant, InvitesLanes, PTL DEF Spec
=============================================================================
