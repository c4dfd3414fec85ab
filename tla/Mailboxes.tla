----------------------------- MODULE Mailboxes ------------------------------
(***************************************************************************)
(* Mail for one verified domain: enabling and disabling it, provisioning a *)
(* mailbox (provision.Provisioner) and rotating its SMTP secret            *)
(* (provision.Rotate), over PostgreSQL and the chasquid-agent sidecar.     *)
(*                                                                         *)
(* A process p runs one handler; pc[p] is the store statement or agent     *)
(* call it makes next.  A secret is named after the request that drew it,  *)
(* and a credential row by its identity and secret.  The callers are       *)
(* admins of the domain's organization (RequireOrgRole in Accounts).       *)
(*                                                                         *)
(* Deleting the domain, or its organization, deletes the mail rows with it *)
(* and chasquid is not told.  The name may then be registered again, by    *)
(* the same or another organization.  A handler knows the rows it works on *)
(* by the ids it has read: after the deletion its UPDATEs find no row, and *)
(* its INSERTs fail, although the addresses may be in use again.           *)
(***************************************************************************)
EXTENDS Integers, FiniteSets

CONSTANTS
    Addrs,      \* mail addresses of the domain
    SeedAddrs,  \* the ones that are active mailboxes at the start
    Procs,      \* API requests and the worker
    Op,         \* what each process runs
    Faults,     \* the failures that happen: "store", "agent", "abort", "lost"
    Seed,       \* the secret of the seeded mailboxes
    None        \* no address, no chasquid user

Ops == {"enable", "disable", "create", "rotate", "alias", "groupAlias", "regroup",
        "reconcile", "worker", "delete"}

ASSUME MailboxesAssumption ==
    /\ SeedAddrs \subseteq Addrs
    /\ Op \in [Procs -> Ops]
    /\ Seed \notin Procs /\ None \notin Procs \cup Addrs \cup {Seed}
    /\ Faults \subseteq {"store", "agent", "abort", "lost"}

Secrets == Procs \cup {Seed}

VARIABLES
    reg,        \* which registration of the domain's name the rows are of
    mdomain,    \* the mail_domains row's status, or "none"
    dkim,       \* its dkim_status is "configured"
    installed,  \* what chasquid has of the domain: "dir", "served", "key"
    ident,      \* ident[a]: the mail_identities row's status, or "none"
    cred,       \* cred[a, s]: the mail_credentials row's status, or "none"
    sendAs,     \* addresses with a mail_submission_policies row
    userdb,     \* userdb[a]: the secret chasquid accepts for a, or None
    policy,     \* addresses with a policy file for the post-data hook
    pc, addr,
    regOf       \* regOf[p]: the registration whose ids p has read

mailDb == <<reg, mdomain, dkim, ident, cred, sendAs>>
mta == <<installed, userdb, policy>>
mailVars == <<mailDb, mta, pc, addr, regOf>>

IdentStatus == {"none", "requested", "active", "suspended", "deleted"}
MailPC == {"start", "createDomain", "ensureDomain", "giveUp", "restart", "dkim", "dkimRow",
           "setActive", "setDisabled", "insert", "cred", "addUser", "markDeleted", "policy",
           "policyRow", "activate", "pwRemove", "pwAdd", "revoke",
           "aliasCheck", "aliasRead", "aliasTrunc", "aliasWrite", "aliasRow", "recList",
           "recAlias", "recUpdate", "recUser", "suspend", "done", "failed"}
Ended == {"done", "failed"}

MailTypeOK ==
    /\ reg \in Nat
    /\ mdomain \in {"none", "provisioning", "active", "disabled"}
    /\ dkim \in BOOLEAN
    /\ installed \subseteq {"dir", "served", "key"}
    /\ ident \in [Addrs -> IdentStatus]
    /\ cred \in [Addrs \X Secrets -> {"none", "active", "revoked"}]
    /\ sendAs \subseteq Addrs
    /\ userdb \in [Addrs -> Secrets \cup {None}]
    /\ policy \subseteq Addrs
    /\ pc \in [Procs -> MailPC]
    /\ addr \in [Procs -> Addrs \cup {None}]
    /\ regOf \in [Procs -> Nat]

MailInit ==
    /\ reg = 0
    /\ mdomain \in {"none", "active"} /\ (SeedAddrs # {} => mdomain = "active")
    /\ dkim = (mdomain = "active")
    /\ installed = IF mdomain = "active" THEN {"dir", "served", "key"} ELSE {}
    /\ ident = [a \in Addrs |-> IF a \in SeedAddrs THEN "active" ELSE "none"]
    /\ cred = [c \in Addrs \X Secrets |->
                  IF c[1] \in SeedAddrs /\ c[2] = Seed THEN "active" ELSE "none"]
    /\ sendAs = SeedAddrs
    /\ userdb = [a \in Addrs |-> IF a \in SeedAddrs THEN Seed ELSE None]
    /\ policy = SeedAddrs
    /\ pc = [p \in Procs |-> "start"]
    /\ addr = [p \in Procs |-> None]
    /\ regOf = [p \in Procs |-> 0]

-----------------------------------------------------------------------------
\* Plumbing.

Goto(p, label) == pc' = [pc EXCEPT ![p] = label] /\ UNCHANGED <<addr, regOf>>

At(p, op, a, label) ==
    /\ Op[p] = op /\ pc[p] = "start"
    /\ pc' = [pc EXCEPT ![p] = label]
    /\ addr' = [addr EXCEPT ![p] = a]
    /\ regOf' = [regOf EXCEPT ![p] = reg]
    /\ UNCHANGED <<mailDb, mta>>

\* The rows whose ids p holds still exist.
Current(p) == regOf[p] = reg

\* The outcomes of a store statement whose error the code ignores.
Ignored(old, new) == {new} \cup (IF "store" \in Faults THEN {old} ELSE {})

\* An agent call that failed: it never arrived, or only its answer was lost.
AgentError == "agent" \in Faults

-----------------------------------------------------------------------------
\* enableMail and disableMail.

StartEnable(p) == mdomain = "none" /\ At(p, "enable", None, "createDomain")

StartDisable(p) == mdomain # "none" /\ At(p, "disable", None, "setDisabled")

CreateMailDomain(p) ==
    /\ pc[p] = "createDomain"
    /\ IF Current(p) /\ mdomain = "none"
       THEN mdomain' = "provisioning" /\ Goto(p, "ensureDomain")
       ELSE Goto(p, "failed") /\ UNCHANGED mdomain
    /\ UNCHANGED <<reg, dkim, ident, cred, sendAs, mta>>

\* Mutant: the error of EnsureDomain is logged like the ones after it.
EnsureDomainBestEffort(p) ==
    /\ pc[p] = "ensureDomain"
    /\ installed' \in {installed \cup {"dir"}} \cup (IF AgentError THEN {installed} ELSE {})
    /\ Goto(p, "restart")
    /\ UNCHANGED <<mailDb, userdb, policy>>

EnsureDomain(p) ==
    /\ pc[p] = "ensureDomain"
    /\ \/ installed' = installed \cup {"dir"} /\ Goto(p, "restart")
       \/ /\ AgentError
          /\ installed' \in {installed, installed \cup {"dir"}}
          /\ Goto(p, "giveUp")
    /\ UNCHANGED <<mailDb, userdb, policy>>

\* Best effort: chasquid registers a new domain when it restarts.
Restart(p) ==
    /\ pc[p] = "restart"
    /\ installed' \in {installed \cup {"served"}} \cup (IF AgentError THEN {installed} ELSE {})
    /\ Goto(p, "dkim")
    /\ UNCHANGED <<mailDb, userdb, policy>>

\* The key is generated once.
EnsureDKIM(p) ==
    /\ pc[p] = "dkim"
    /\ \/ installed' = installed \cup {"key"} /\ Goto(p, "dkimRow")
       \/ AgentError /\ installed' \in {installed, installed \cup {"key"}} /\ Goto(p, "setActive")
    /\ UNCHANGED <<mailDb, userdb, policy>>

SetMailDomainDKIM(p) ==
    /\ pc[p] = "dkimRow"
    /\ dkim' \in Ignored(dkim, IF Current(p) THEN TRUE ELSE dkim)
    /\ Goto(p, "setActive")
    /\ UNCHANGED <<reg, mdomain, ident, cred, sendAs, mta>>

\* An unconditional UPDATE.  enableMail ignores its error, disableMail's error
\* is a failed request (Abort).
SetMailDomainStatus(p) ==
    LET set(status) == IF Current(p) THEN status ELSE mdomain IN
    /\ \/ /\ pc[p] = "giveUp"
          /\ mdomain' \in Ignored(mdomain, set("disabled")) /\ Goto(p, "failed")
       \/ /\ pc[p] = "setActive"
          /\ mdomain' \in Ignored(mdomain, set("active")) /\ Goto(p, "done")
       \/ /\ pc[p] = "setDisabled"
          /\ mdomain' = set("disabled") /\ Goto(p, "done")
    /\ UNCHANGED <<reg, dkim, ident, cred, sendAs, mta>>

-----------------------------------------------------------------------------
\* Provisioner, and the agent's users and sender policies.

StartCreate(p) == mdomain = "active" /\ \E a \in Addrs : At(p, "create", a, "insert")

\* The address is unique; a failed creation's row stays.
CreateMailIdentity(p) ==
    LET a == addr[p] IN
    /\ pc[p] = "insert"
    /\ IF Current(p) /\ ident[a] = "none"
       THEN ident' = [ident EXCEPT ![a] = "requested"] /\ Goto(p, "cred")
       ELSE Goto(p, "failed") /\ UNCHANGED ident
    /\ UNCHANGED <<reg, mdomain, dkim, cred, sendAs, mta>>

CreateMailCredential(p) ==
    /\ pc[p] = "cred"
    /\ IF Current(p)
       THEN /\ cred' = [cred EXCEPT ![<<addr[p], p>>] = "active"]
            /\ Goto(p, IF Op[p] = "create" THEN "addUser" ELSE "done")
       ELSE Goto(p, "failed") /\ UNCHANGED cred
    /\ UNCHANGED <<reg, mdomain, dkim, ident, sendAs, mta>>

\* Mutant: user-add replaces an existing user.
AddUserAnyway(p) ==
    /\ pc[p] = "addUser"
    /\ userdb' = [userdb EXCEPT ![addr[p]] = p]
    /\ Goto(p, "policy")
    /\ UNCHANGED <<mailDb, installed, policy>>

\* chasquid-util user-add refuses an existing user.
AddUser(p) ==
    LET a == addr[p]
        added == [userdb EXCEPT ![a] = p]
    IN
    /\ pc[p] = "addUser"
    /\ \/ userdb[a] = None /\ userdb' = added /\ Goto(p, "policy")
       \/ /\ userdb[a] # None \/ AgentError
          /\ userdb' \in IF userdb[a] = None THEN {userdb, added} ELSE {userdb}
          /\ Goto(p, "markDeleted")
    /\ UNCHANGED <<mailDb, installed, policy>>

\* The policy file, whose failure is ignored.
EnsureSenderPolicy(p) ==
    /\ pc[p] = "policy"
    /\ policy' \in {policy \cup {addr[p]}} \cup (IF AgentError THEN {policy} ELSE {})
    /\ Goto(p, "policyRow")
    /\ UNCHANGED <<mailDb, installed, userdb>>

CreateMailSubmissionPolicy(p) ==
    /\ pc[p] = "policyRow"
    /\ sendAs' \in Ignored(sendAs, IF Current(p) THEN sendAs \cup {addr[p]} ELSE sendAs)
    /\ Goto(p, "activate")
    /\ UNCHANGED <<reg, mdomain, dkim, ident, cred, mta>>

\* Mutant: a user's status is written where a mail identity's belongs.
SetMailIdentityDisabled(p) ==
    LET set(status) == [ident EXCEPT ![addr[p]] = status] IN
    /\ \/ pc[p] = "markDeleted" /\ ident' = set("disabled") /\ Goto(p, "failed")
       \/ pc[p] = "activate" /\ ident' = set("active") /\ Goto(p, "done")
       \/ pc[p] = "suspend" /\ ident' = set("disabled") /\ Goto(p, "recUser")
    /\ UNCHANGED <<reg, mdomain, dkim, cred, sendAs, mta>>

\* Mutant: the UPDATE goes by the address.
SetMailIdentityByAddress(p) ==
    LET set(status) == [ident EXCEPT ![addr[p]] = status] IN
    /\ \/ pc[p] = "markDeleted" /\ ident' \in Ignored(ident, set("deleted")) /\ Goto(p, "failed")
       \/ pc[p] = "activate" /\ ident' \in Ignored(ident, set("active")) /\ Goto(p, "done")
       \/ pc[p] = "suspend" /\ ident' \in Ignored(ident, set("suspended")) /\ Goto(p, "recUser")
    /\ UNCHANGED <<reg, mdomain, dkim, cred, sendAs, mta>>

\* An UPDATE by id whatever the status is, its error ignored by every caller.
SetMailIdentityStatus(p) ==
    LET set(status) == IF Current(p) THEN [ident EXCEPT ![addr[p]] = status] ELSE ident IN
    /\ \/ pc[p] = "markDeleted" /\ ident' \in Ignored(ident, set("deleted")) /\ Goto(p, "failed")
       \/ pc[p] = "activate" /\ ident' \in Ignored(ident, set("active")) /\ Goto(p, "done")
       \/ pc[p] = "suspend" /\ ident' \in Ignored(ident, set("suspended")) /\ Goto(p, "recUser")
    /\ UNCHANGED <<reg, mdomain, dkim, cred, sendAs, mta>>

-----------------------------------------------------------------------------
\* Rotate.  The identity's status is not looked at.

StartRotate(p) == \E a \in Addrs : ident[a] # "none" /\ At(p, "rotate", a, "pwRemove")

\* handleChangePassword: user-remove, whose outcome is ignored, and user-add.
ChangePasswordRemove(p) ==
    /\ pc[p] = "pwRemove"
    /\ userdb' \in {[userdb EXCEPT ![addr[p]] = None]} \cup (IF AgentError THEN {userdb} ELSE {})
    /\ Goto(p, "pwAdd")
    /\ UNCHANGED <<mailDb, installed, policy>>

ChangePasswordAdd(p) ==
    LET a == addr[p]
        added == [userdb EXCEPT ![a] = p]
    IN
    /\ pc[p] = "pwAdd"
    /\ \/ userdb[a] = None /\ userdb' = added /\ Goto(p, "revoke")
       \/ /\ userdb[a] # None \/ AgentError
          /\ userdb' \in IF userdb[a] = None THEN {userdb, added} ELSE {userdb}
          /\ Goto(p, "failed")
    /\ UNCHANGED <<mailDb, installed, policy>>

RevokeCredentialsByIdentity(p) ==
    /\ pc[p] = "revoke"
    /\ cred' = [c \in Addrs \X Secrets |->
                   IF Current(p) /\ c[1] = addr[p] /\ cred[c] = "active"
                   THEN "revoked" ELSE cred[c]]
    /\ Goto(p, "cred")
    /\ UNCHANGED <<reg, mdomain, dkim, ident, sendAs, mta>>

-----------------------------------------------------------------------------
\* deleteDomain and deleteOrganization, as far as the tables of this module go
\* (the hostnames counted first are in Domains).  A name that is registered
\* anew has no mail row yet, which tells it from a name nobody has in nothing.

DeleteMailRows(p) ==
    /\ Op[p] = "delete" /\ pc[p] = "start"
    /\ reg' = reg + 1
    /\ mdomain' = "none" /\ dkim' = FALSE
    /\ ident' = [a \in Addrs |-> "none"]
    /\ cred' = [c \in Addrs \X Secrets |-> "none"]
    /\ sendAs' = {}
    /\ Goto(p, "done")
    /\ UNCHANGED mta

-----------------------------------------------------------------------------
\* The environment: a handler's statement fails and ends it, or the process
\* dies; a chasquid user is lost outside the platform's control.

Abort(p) ==
    /\ "abort" \in Faults
    /\ Op[p] # "worker" /\ pc[p] \notin Ended \cup {"start"}
    /\ Goto(p, "failed")
    /\ UNCHANGED <<mailDb, mta>>

UserLost ==
    /\ "lost" \in Faults
    /\ \E a \in Addrs : userdb[a] # None /\ userdb' = [userdb EXCEPT ![a] = None]
    /\ UNCHANGED <<mailDb, installed, policy, pc, addr, regOf>>

MailStep(p) ==
    \/ StartEnable(p) \/ StartDisable(p) \/ StartCreate(p) \/ StartRotate(p)
    \/ CreateMailDomain(p) \/ EnsureDomain(p) \/ Restart(p) \/ EnsureDKIM(p)
    \/ SetMailDomainDKIM(p) \/ SetMailDomainStatus(p)
    \/ CreateMailIdentity(p) \/ CreateMailCredential(p) \/ AddUser(p)
    \/ EnsureSenderPolicy(p) \/ CreateMailSubmissionPolicy(p) \/ SetMailIdentityStatus(p)
    \/ ChangePasswordRemove(p) \/ ChangePasswordAdd(p) \/ RevokeCredentialsByIdentity(p)

NoneInFlight == \A p \in Procs : pc[p] \in Ended \cup {"start"}
=============================================================================
