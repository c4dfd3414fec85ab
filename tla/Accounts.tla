------------------------------ MODULE Accounts ------------------------------
(***************************************************************************)
(* Platform users, organizations, memberships and platform admins: the     *)
(* handlers of internal/httpapi that create, grant, disable and promote,   *)
(* over PostgreSQL and authentik.                                          *)
(*                                                                         *)
(* The store runs every statement in its own transaction, so a handler is  *)
(* a sequence of steps any other request may come between.  A request      *)
(* r \in Reqs is one HTTP call: pc[r] is the statement or external call it *)
(* makes next, loc[r] the values decoded and read when it was admitted.    *)
(***************************************************************************)
EXTENDS Integers, FiniteSets

CONSTANTS
    Users,      \* platform users; a user stands for an e-mail address too
    Orgs,       \* organization ids, never reused once deleted
    Reqs,       \* the HTTP requests made
    Op,         \* the handler each request calls
    Actors,     \* users whose sessions issue the authenticated requests
    AdminSeed,  \* users that start as platform admins
    SeedRole,   \* the memberships that exist at the start
    Faults,     \* the failures that happen: "store", "idp", "abort"
    None        \* the absent user, organization or request

OrgRole == {"owner", "admin", "member"}
NoRole == "none"
Ops == {"createOrg", "deleteOrg", "addMember", "createUser", "onboard", "disable",
        "enable", "promote", "demote", "login", "addGroup", "invite", "accept"}

(***************************************************************************)
(* The users that exist at the start: the seeded admins and members.       *)
(***************************************************************************)
SeedUsers == AdminSeed \cup {u \in Users : \E o \in Orgs : SeedRole[<<o, u>>] # NoRole}

ASSUME AccountsAssumption ==
    /\ Op \in [Reqs -> Ops]
    /\ Actors \subseteq Users
    /\ AdminSeed \subseteq Users
    /\ SeedRole \in [Orgs \X Users -> OrgRole \cup {NoRole}]
    /\ None \notin Users \cup Orgs \cup Reqs
    /\ Faults \subseteq {"store", "idp", "abort"}

VARIABLES
    orgs,      \* orgs[o]: "unused", "live" or "deleted"
    users,     \* users[u]: "absent", "active" or "disabled" (users.status)
    identity,  \* users.auth_identity_id: authentik pk, OIDC subject, or ""
    admins,    \* users.is_admin
    member,    \* member[o, u]: the organization_memberships role
    grouped,   \* group_memberships, <<o, u>>: of the group organization o has
    linked,    \* users with an authentik_user row in external_resources
    idp,       \* idp[u]: the authentik account, "absent", "active", "inactive"
    idpUp,     \* authentik answers
    pc, loc, pk, why

dbVars == <<orgs, users, identity, admins, member, grouped, linked>>
extVars == <<idp, idpUp>>
accountVars == <<orgs, users, identity, admins, member, grouped, linked, idp, idpUp, pc, loc, pk, why>>

Loc == [actor: Users \cup {None}, org: Orgs \cup {None}, user: Users \cup {None},
        role: OrgRole \cup {NoRole}, inv: Reqs \cup {None}]
NoLoc == [actor |-> None, org |-> None, user |-> None, role |-> NoRole, inv |-> None]

PC == {"start", "createOrg", "deleteOrg", "lookup", "idp", "insert", "link", "grant",
       "group", "mailbox", "idpSet", "status", "strip", "stripGroups", "count", "flag",
       "upsert", "bootstrap", "grantAdmin",
       "checkMember", "expire", "insertInvite", "linked", "password", "consume",
       "done", "failed"}
Ended == {"done", "failed"}

\* The error a failed request ended with, where a property tells them apart;
\* "late" is one after the membership was granted.
Why == {"", "abort", "email", "identity", "noRows", "late", "other"}

AccountsTypeOK ==
    /\ orgs \in [Orgs -> {"unused", "live", "deleted"}]
    /\ users \in [Users -> {"absent", "active", "disabled"}]
    /\ identity \in [Users -> {"", "pk", "sub"}]
    /\ admins \subseteq Users
    /\ member \in [Orgs \X Users -> OrgRole \cup {NoRole}]
    /\ grouped \subseteq Orgs \X Users
    /\ linked \subseteq Users
    /\ idp \in [Users -> {"absent", "active", "inactive"}]
    /\ idpUp \in BOOLEAN
    /\ pc \in [Reqs -> PC]
    /\ loc \in [Reqs -> Loc]
    /\ pk \in [Reqs -> {"", "pk"}]
    /\ why \in [Reqs -> Why]

-----------------------------------------------------------------------------
\* Role order (internal/domain).

Rank(role) == IF role = "owner" THEN 3 ELSE IF role = "admin" THEN 2
              ELSE IF role = "member" THEN 1 ELSE 0

CanManage(role, required) == role \in OrgRole /\ Rank(role) >= Rank(required)

\* requireOrgRole: platform admins bypass the membership check.
RequireOrgRole(a, o, required) == a \in admins \/ CanManage(member[<<o, a>>], required)

\* Mutant: any organization admin may offer any role.
MayOfferAnyRole(a, o, role) == RequireOrgRole(a, o, "admin")

\* The admission check of onboardUser and createInvite.
MayOffer(a, o, role) ==
    /\ RequireOrgRole(a, o, "admin")
    /\ role = "owner" => a \in admins \/ CanManage(member[<<o, a>>], "owner")

\* The admission check of addOrganizationMember: the actor's own role is read
\* without the platform-admin bypass, so a non-member admin is refused.
MayAdd(a, o, role) ==
    /\ RequireOrgRole(a, o, "admin")
    /\ member[<<o, a>>] # NoRole
    /\ role \in {"owner", "admin"} => CanManage(member[<<o, a>>], role)

-----------------------------------------------------------------------------
\* Request plumbing.

Goto(r, label) == pc' = [pc EXCEPT ![r] = label] /\ UNCHANGED <<loc, why>>

Fail(r, reason) ==
    /\ pc' = [pc EXCEPT ![r] = "failed"]
    /\ why' = [why EXCEPT ![r] = reason]
    /\ UNCHANGED loc

\* Admission: the session is resolved, the body decoded, the checks passed.
\* A session is not re-checked against users.status.
Admit(r, label, l) ==
    /\ pc[r] = "start"
    /\ pc' = [pc EXCEPT ![r] = label]
    /\ loc' = [loc EXCEPT ![r] = l]
    /\ UNCHANGED <<pk, why>>

Session == {a \in Actors : users[a] # "absent"}

\* The platform has a user; what each handler does with it next.
AfterUser(r) == IF Op[r] = "invite" THEN "checkMember"
                ELSE IF Op[r] = "createUser" /\ loc[r].org = None THEN "done" ELSE "grant"

AccountsInit ==
    /\ orgs \in [Orgs -> {"unused", "live"}]
    /\ \A o \in Orgs : orgs[o] = "unused" => \A u \in Users : SeedRole[<<o, u>>] = NoRole
    /\ users = [u \in Users |-> IF u \in SeedUsers THEN "active" ELSE "absent"]
    /\ identity = [u \in Users |-> IF u \in SeedUsers THEN "sub" ELSE ""]
    /\ admins = AdminSeed
    /\ member = SeedRole
    /\ grouped = {}
    /\ linked = SeedUsers
    /\ idp \in {[u \in Users |-> IF u \in SeedUsers \cup X THEN "active" ELSE "absent"] :
                    X \in SUBSET (Users \ SeedUsers)}
    /\ idpUp = TRUE
    /\ pc = [r \in Reqs |-> "start"]
    /\ loc = [r \in Reqs |-> NoLoc]
    /\ pk = [r \in Reqs |-> ""]
    /\ why = [r \in Reqs |-> ""]

-----------------------------------------------------------------------------
\* Admission of each handler.

StartOrg(r) ==
    \E a \in Session \cap admins, o \in Orgs :
        /\ Op[r] \in {"createOrg", "deleteOrg"}
        /\ Admit(r, Op[r], [NoLoc EXCEPT !.actor = a, !.org = o])
        /\ UNCHANGED <<dbVars, extVars>>

StartAddMember(r) ==
    \E a \in Session, o \in Orgs, u \in Users, role \in OrgRole :
        /\ Op[r] = "addMember"
        /\ MayAdd(a, o, role)
        /\ Admit(r, "grant", [actor |-> a, org |-> o, user |-> u, role |-> role, inv |-> None])
        /\ UNCHANGED <<dbVars, extVars>>

\* addGroupMember.
StartAddGroupMember(r) ==
    \E a \in Session, o \in Orgs, u \in Users :
        /\ Op[r] = "addGroup"
        /\ RequireOrgRole(a, o, "admin")
        /\ Admit(r, "group", [NoLoc EXCEPT !.actor = a, !.org = o, !.user = u])
        /\ UNCHANGED <<dbVars, extVars>>

StartOnboard(r) ==
    \E a \in Session, o \in Orgs, u \in Users, role \in OrgRole :
        /\ Op[r] = "onboard"
        /\ MayOffer(a, o, role)
        /\ Admit(r, "lookup", [actor |-> a, org |-> o, user |-> u, role |-> role, inv |-> None])
        /\ UNCHANGED <<dbVars, extVars>>

StartCreateUser(r) ==
    \E a \in Session \cap admins, o \in Orgs \cup {None}, u \in Users, role \in OrgRole :
        /\ Op[r] = "createUser"
        /\ Admit(r, "idp", [actor |-> a, org |-> o, user |-> u, role |-> role, inv |-> None])
        /\ UNCHANGED <<dbVars, extVars>>

StartUserStatus(r) ==
    \E a \in Session \cap admins, u \in Users :
        /\ Op[r] \in {"disable", "enable"}
        /\ Admit(r, "idpSet", [NoLoc EXCEPT !.actor = a, !.user = u])
        /\ UNCHANGED <<dbVars, extVars>>

StartSetUserAdmin(r) ==
    \E a \in Session \cap admins, u \in Users :
        /\ Op[r] \in {"promote", "demote"}
        /\ Op[r] = "demote" => u # a
        /\ Admit(r, IF Op[r] = "demote" THEN "count" ELSE "flag",
                 [NoLoc EXCEPT !.actor = a, !.user = u])
        /\ UNCHANGED <<dbVars, extVars>>

\* The OIDC callback: authentik vouches for an active account.
StartLogin(r) ==
    \E u \in Users :
        /\ Op[r] = "login"
        /\ idpUp /\ idp[u] = "active"
        /\ Admit(r, "upsert", [NoLoc EXCEPT !.user = u])
        /\ UNCHANGED <<dbVars, extVars>>

-----------------------------------------------------------------------------
\* Organizations.

CreateOrganization(r) ==
    LET o == loc[r].org IN
    /\ pc[r] = "createOrg"
    /\ IF orgs[o] = "unused"
       THEN orgs' = [orgs EXCEPT ![o] = "live"] /\ Goto(r, "done")
       ELSE Fail(r, "other") /\ UNCHANGED orgs
    /\ UNCHANGED <<users, identity, admins, member, linked, grouped, extVars, pk>>

\* The row goes and its memberships and group with it (ON DELETE CASCADE).
DeleteOrganization(r) ==
    LET o == loc[r].org IN
    /\ pc[r] = "deleteOrg"
    /\ IF orgs[o] = "live"
       THEN /\ orgs' = [orgs EXCEPT ![o] = "deleted"]
            /\ member' = [m \in Orgs \X Users |-> IF m[1] = o THEN NoRole ELSE member[m]]
            /\ grouped' = {m \in grouped : m[1] # o}
            /\ Goto(r, "done")
       ELSE Fail(r, "other") /\ UNCHANGED <<orgs, member, grouped>>
    /\ UNCHANGED <<users, identity, admins, linked, extVars, pk>>

-----------------------------------------------------------------------------
\* Users: look up by e-mail, provision in authentik, insert, record the mapping.

GetUserByEmail(r) ==
    /\ pc[r] = "lookup"
    /\ Goto(r, IF users[loc[r].user] = "absent" THEN "idp" ELSE AfterUser(r))
    /\ UNCHANGED <<dbVars, extVars, pk>>

\* Mutant: the pk of a failed call is used as if authentik had returned it.
EnsureUserIgnoringErrors(r) ==
    /\ pc[r] = "idp"
    /\ idp' \in {idp, [idp EXCEPT ![loc[r].user] = IF @ = "absent" THEN "active" ELSE @]}
    /\ pk' = [pk EXCEPT ![r] = "pk"]
    /\ Goto(r, "insert")
    /\ UNCHANGED <<dbVars, idpUp>>

\* authentik's EnsureUser: find by e-mail or create.  While authentik does not
\* answer the call fails, and the account may have been created nevertheless.
\* Only createUser gives up; onboardUser and createInvite go on without a pk.
EnsureUser(r) ==
    LET u == loc[r].user
        ensured == [idp EXCEPT ![u] = IF @ = "absent" THEN "active" ELSE @]
    IN
    /\ pc[r] = "idp"
    /\ \/ /\ idpUp
          /\ idp' = ensured
          /\ pk' = [pk EXCEPT ![r] = "pk"]
          /\ Goto(r, "insert")
       \/ /\ ~idpUp
          /\ idp' \in {idp, ensured}
          /\ IF Op[r] = "createUser" THEN Fail(r, "other") ELSE Goto(r, "insert")
          /\ UNCHANGED pk
    /\ UNCHANGED <<dbVars, idpUp>>

\* users_email_key and users_identity_key: an empty auth_identity_id is a value
\* like any other, so only one user at a time can hold it.
CreateUser(r) ==
    LET u == loc[r].user
        taken == pk[r] = "" /\ \E v \in Users : users[v] # "absent" /\ identity[v] = ""
    IN
    /\ pc[r] = "insert"
    /\ IF users[u] # "absent" \/ taken
       THEN /\ Fail(r, IF users[u] # "absent" THEN "email" ELSE "identity")
            /\ UNCHANGED <<users, identity>>
       ELSE /\ users' = [users EXCEPT ![u] = "active"]
            /\ identity' = [identity EXCEPT ![u] = pk[r]]
            /\ Goto(r, IF pk[r] = "pk" THEN "link" ELSE AfterUser(r))
    /\ UNCHANGED <<orgs, admins, member, linked, grouped, extVars, pk>>

\* A failed insert of the mapping is logged and ignored by every caller.
UpsertExternalResource(r) ==
    /\ pc[r] = "link"
    /\ linked' \in {linked \cup {loc[r].user}} \cup (IF "store" \in Faults THEN {linked} ELSE {})
    /\ Goto(r, AfterUser(r))
    /\ UNCHANGED <<orgs, users, identity, admins, member, grouped, extVars, pk>>

-----------------------------------------------------------------------------
\* Memberships.

\* Mutant: no foreign key to the organization.
SetMembershipUnchecked(r) ==
    /\ pc[r] = "grant"
    /\ member' = [member EXCEPT ![<<loc[r].org, loc[r].user>>] = loc[r].role]
    /\ Goto(r, "done")
    /\ UNCHANGED <<orgs, users, identity, admins, linked, grouped, extVars, pk>>

\* createUser and onboardUser go on with the groups and the mailbox asked for.
AfterGrant(r) ==
    {"done"} \cup (IF Op[r] = "onboard" THEN {"group", "mailbox"} ELSE {})
             \cup (IF Op[r] = "createUser" THEN {"group"} ELSE {})

\* The upsert takes the request's role whatever the old one was; it needs both
\* rows it references.  createUser ignores its failure.
SetMembership(r) ==
    LET o == loc[r].org
        u == loc[r].user
    IN
    /\ pc[r] = "grant"
    /\ \/ /\ orgs[o] = "live" /\ users[u] # "absent"
          /\ member' = [member EXCEPT ![<<o, u>>] = loc[r].role]
          /\ \E label \in AfterGrant(r) : Goto(r, label)
       \/ /\ orgs[o] # "live" \/ users[u] = "absent" \/ "store" \in Faults
          /\ \/ Op[r] = "createUser" /\ \E label \in AfterGrant(r) : Goto(r, label)
             \/ Op[r] # "createUser" /\ Fail(r, "other")
          /\ UNCHANGED member
    /\ UNCHANGED <<orgs, users, identity, admins, linked, grouped, extVars, pk>>

\* The user need not be a member of the organization.  createUser takes any
\* organization's group and ignores errors; onboardUser refuses a group that is
\* not the organization's, as addGroupMember one that does not exist.
AddGroupMember(r) ==
    LET u == loc[r].user IN
    /\ pc[r] = "group"
    /\ \/ \E o \in Orgs :
             /\ Op[r] # "createUser" => o = loc[r].org
             /\ orgs[o] = "live" /\ users[u] # "absent"
             /\ grouped' = grouped \cup {<<o, u>>}
             /\ \E label \in {"done"} \cup (IF Op[r] = "onboard" THEN {"mailbox"} ELSE {}) :
                   Goto(r, label)
       \/ /\ IF Op[r] = "createUser" THEN Goto(r, "done")
             ELSE Fail(r, IF Op[r] = "onboard" THEN "late" ELSE "other")
          /\ UNCHANGED grouped
    /\ UNCHANGED <<orgs, users, identity, admins, member, linked, extVars, pk>>

\* The mailbox of an onboarding (module Mailboxes) may fail to be provisioned.
ProvisionMailbox(r) ==
    /\ pc[r] = "mailbox"
    /\ Goto(r, "done") \/ Fail(r, "late")
    /\ UNCHANGED <<dbVars, extVars, pk>>

\* disableUser and enableUser: authentik first, best effort and only when the
\* mapping is known.
SetUserActive(r) ==
    LET u == loc[r].user
        flipped == [idp EXCEPT ![u] = IF Op[r] = "disable" THEN "inactive" ELSE "active"]
    IN
    /\ pc[r] = "idpSet"
    /\ idp' \in (IF u \notin linked THEN {idp} ELSE IF idpUp THEN {flipped} ELSE {idp, flipped})
    /\ Goto(r, "status")
    /\ UNCHANGED <<dbVars, idpUp, pk>>

\* Mutant: authentik's word for the status instead of the platform's.
SetUserStatusInactive(r) ==
    /\ pc[r] = "status"
    /\ users' = [users EXCEPT ![loc[r].user] = "inactive"]
    /\ Goto(r, "done")
    /\ UNCHANGED <<orgs, identity, admins, member, linked, grouped, extVars, pk>>

SetUserStatus(r) ==
    LET u == loc[r].user IN
    /\ pc[r] = "status"
    /\ IF users[u] = "absent"
       THEN Fail(r, "other") /\ UNCHANGED users
       ELSE /\ users' = [users EXCEPT ![u] = IF Op[r] = "disable" THEN "disabled" ELSE "active"]
            /\ Goto(r, IF Op[r] = "disable" THEN "strip" ELSE "done")
    /\ UNCHANGED <<orgs, identity, admins, member, linked, grouped, extVars, pk>>

\* Its failure is logged and ignored.
RemoveAllMemberships(r) ==
    LET u == loc[r].user
        stripped == [m \in Orgs \X Users |-> IF m[2] = u THEN NoRole ELSE member[m]]
    IN
    /\ pc[r] = "strip"
    /\ member' \in {stripped} \cup (IF "store" \in Faults THEN {member} ELSE {})
    /\ Goto(r, "stripGroups")
    /\ UNCHANGED <<orgs, users, identity, admins, linked, grouped, extVars, pk>>

\* So is this one's.
RemoveAllGroupMemberships(r) ==
    LET stripped == {m \in grouped : m[2] # loc[r].user} IN
    /\ pc[r] = "stripGroups"
    /\ grouped' \in {stripped} \cup (IF "store" \in Faults THEN {grouped} ELSE {})
    /\ Goto(r, "done")
    /\ UNCHANGED <<orgs, users, identity, admins, member, linked, extVars, pk>>

-----------------------------------------------------------------------------
\* Platform admins.

AdminCount(r) ==
    /\ pc[r] = "count"
    /\ IF Cardinality({u \in admins : users[u] = "active"}) <= 1
       THEN Fail(r, "other")
       ELSE Goto(r, "flag")
    /\ UNCHANGED <<dbVars, extVars, pk>>

SetUserAdmin(r) ==
    LET u == loc[r].user IN
    /\ pc[r] = "flag"
    /\ admins' = IF users[u] = "absent" THEN admins
                 ELSE IF Op[r] = "promote" THEN admins \cup {u} ELSE admins \ {u}
    /\ Goto(r, "done")
    /\ UNCHANGED <<orgs, users, identity, member, linked, grouped, extVars, pk>>

\* The OIDC upsert inserts, or reactivates and relinks, the row of the e-mail.
UpsertFromOIDC(r) ==
    LET u == loc[r].user IN
    /\ pc[r] = "upsert"
    /\ users' = [users EXCEPT ![u] = "active"]
    /\ identity' = [identity EXCEPT ![u] = "sub"]
    /\ Goto(r, IF users[u] = "absent" THEN "bootstrap" ELSE "done")
    /\ UNCHANGED <<orgs, admins, member, linked, grouped, extVars, pk>>

\* Mutant: the new row's own flag is all the NOT EXISTS looks at.
BootstrapAlways(r) ==
    /\ pc[r] = "bootstrap"
    /\ Goto(r, IF loc[r].user \notin admins THEN "grantAdmin" ELSE "done")
    /\ UNCHANGED <<dbVars, extVars, pk>>

\* grantAdminIfNone for a new row.  Under READ COMMITTED the NOT EXISTS reads a
\* snapshot that lacks the concurrent statement's write, hence two steps.  When
\* another admin exists no row comes back, and Scan reports that as an error.
BootstrapCheck(r) ==
    /\ pc[r] = "bootstrap"
    /\ IF admins \ {loc[r].user} = {} THEN Goto(r, "grantAdmin") ELSE Fail(r, "noRows")
    /\ UNCHANGED <<dbVars, extVars, pk>>

GrantAdmin(r) ==
    /\ pc[r] = "grantAdmin"
    /\ admins' = admins \cup {loc[r].user}
    /\ Goto(r, "done")
    /\ UNCHANGED <<orgs, users, identity, member, linked, grouped, extVars, pk>>

-----------------------------------------------------------------------------
\* The environment: authentik goes away and comes back; a request dies between
\* two statements (store error, cancelled context, killed process).

IdpToggle ==
    /\ "idp" \in Faults
    /\ idpUp' = ~idpUp
    /\ UNCHANGED <<dbVars, idp, pc, loc, pk, why>>

Abort(r) ==
    /\ "abort" \in Faults
    /\ pc[r] \notin Ended \cup {"start"}
    /\ Fail(r, IF pc[r] \in {"group", "mailbox"} THEN "late" ELSE "abort")
    /\ UNCHANGED <<dbVars, extVars, pk>>

\* Everything but deleteOrganization, whose cascade other components extend.
AccountStep(r) ==
    \/ StartOrg(r) \/ StartAddMember(r) \/ StartOnboard(r) \/ StartCreateUser(r)
    \/ StartUserStatus(r) \/ StartSetUserAdmin(r) \/ StartLogin(r) \/ StartAddGroupMember(r)
    \/ CreateOrganization(r)
    \/ GetUserByEmail(r) \/ EnsureUser(r) \/ CreateUser(r) \/ UpsertExternalResource(r)
    \/ SetMembership(r) \/ AddGroupMember(r) \/ ProvisionMailbox(r)
    \/ SetUserActive(r) \/ SetUserStatus(r)
    \/ RemoveAllMemberships(r) \/ RemoveAllGroupMemberships(r)
    \/ AdminCount(r) \/ SetUserAdmin(r)
    \/ UpsertFromOIDC(r) \/ BootstrapCheck(r) \/ GrantAdmin(r)

\* With no request in flight the server waits.
NoneInFlight == \A r \in Reqs : pc[r] \in Ended \cup {"start"}
AccountsIdle == NoneInFlight /\ UNCHANGED accountVars

AccountsNext ==
    \/ \E r \in Reqs : AccountStep(r) \/ DeleteOrganization(r) \/ Abort(r)
    \/ IdpToggle
    \/ AccountsIdle

AccountsSpec == AccountsInit /\ [][AccountsNext]_accountVars

-----------------------------------------------------------------------------
\* Properties.

(***************************************************************************)
(* Every membership, of an organization or of its group, joins an existing *)
(* user to a live organization: a grant that races deleteOrganization      *)
(* never leaves a membership behind.                                       *)
(***************************************************************************)
MembersOfLiveOrgs ==
    \A o \in Orgs, u \in Users :
        member[<<o, u>>] # NoRole \/ <<o, u>> \in grouped =>
            orgs[o] = "live" /\ users[u] # "absent"

(***************************************************************************)
(* external_resources never maps a user to an authentik account that does  *)
(* not exist, whatever fails: a pk is recorded only after authentik        *)
(* returned it.                                                            *)
(***************************************************************************)
LinkedAccountsExist == \A u \in linked : idp[u] # "absent" /\ users[u] # "absent"

(***************************************************************************)
(* No escalation: when the platform has admins and owners that do not act, *)
(* no interleaving of the other users' requests makes a new platform admin *)
(* or an organization owner.                                               *)
(***************************************************************************)
NoneActsAsOwner ==
    /\ AdminSeed # {}
    /\ AdminSeed \cap Actors = {}
    /\ \A o \in Orgs, u \in Users : SeedRole[<<o, u>>] # "owner"

NoEscalation ==
    NoneActsAsOwner =>
        /\ admins = AdminSeed
        /\ \A o \in Orgs, u \in Users : member[<<o, u>>] # "owner"

(***************************************************************************)
(* A platform that has an admin keeps one as long as demotions do not race *)
(* each other, so no login is taken for the bootstrap login and makes its  *)
(* user an admin, whatever promotions, demotions and logins overlap.       *)
(***************************************************************************)
OneDemotion == \A r, s \in Reqs : Op[r] = "demote" /\ Op[s] = "demote" => r = s

LoginsFindAnAdmin ==
    AdminSeed # {} /\ OneDemotion =>
        /\ admins # {}
        /\ \A r \in Reqs : pc[r] = "grantAdmin" => loc[r].user \in admins

(***************************************************************************)
(* setUserAdmin: "the last remaining admin cannot be demoted", so as long  *)
(* as nobody is disabled some active platform admin remains.               *)
(***************************************************************************)
LastAdminRemains == (\A u \in Users : users[u] # "disabled") => admins # {}
=============================================================================
