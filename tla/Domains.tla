------------------------------ MODULE Domains -------------------------------
(***************************************************************************)
(* Domains of organizations: registration, ownership verification by a DNS *)
(* TXT token, hostnames under verified domains, deletion.                  *)
(*                                                                         *)
(* A process p runs one handler and pc[p] names the store statement or DNS *)
(* call it makes next.  A domains row, and the token drawn for it, is named *)
(* after the request that inserts it.  Callers are admins of the           *)
(* organization (RequireOrgRole in Accounts); the audit trail and the log  *)
(* of verification attempts are left out.                                  *)
(***************************************************************************)
EXTENDS Integers, FiniteSets

CONSTANTS
    Fqdns,      \* domain names
    Orgs,       \* organizations that exist at the start
    Names,      \* hostnames, relative to their domain
    Procs,      \* API requests and the poller
    Op,         \* what each process runs
    EnvZone,    \* the Cloudflare zone in the environment, or None
    Faults,     \* the failures that happen: "dns", "abort"
    None        \* no row, no organization

Ops == {"createDomain", "verifyDomain", "deleteDomain", "addHostname", "deleteOrg",
        "setup", "verifySetup", "poll"}

ASSUME DomainsAssumption ==
    /\ Op \in [Procs -> Ops]
    /\ EnvZone \in Fqdns \cup {None}
    /\ Faults \subseteq {"dns", "abort"}
    /\ Orgs \cap Fqdns = {} /\ None \notin Procs \cup Orgs \cup Fqdns \cup Names

VARIABLES
    orgs,     \* organizations that exist; the wizard's is named after its fqdn
    dom,      \* dom[r]: the domains row r, or NoDomain
    hosts,    \* hosts: the hostnames rows, <<r, name>>
    zone,     \* rows whose token is published under the row's fqdn
    loaded,   \* the access provider this process of the API was started with
    pc,
    loc       \* loc[p]: the row a request works on, with what it was asked for

domVars == <<orgs, dom, hosts, zone>>

\* Cloudflare credentials are good for one zone, named here by its fqdn.
Manual == "manual"
Loadable == {Manual} \cup Fqdns

AllOrgs == Orgs \cup Fqdns
Row == [org: AllOrgs, fqdn: Fqdns, status: {"pending", "verified"}]
NoDomain == [status |-> "none"]

\* row: the row read earlier; org and fqdn: of the row to insert; name: the
\* hostname to bind.
Loc == [row: Procs \cup {None}, org: AllOrgs \cup {None}, fqdn: Fqdns \cup {None},
        name: Names \cup {None}]
NoLoc == [row |-> None, org |-> None, fqdn |-> None, name |-> None]

DomainPC == {"start", "insert", "setTXT", "lookup", "status", "count", "delete", "bind",
             "org", "owner", "provider", "primary", "runVerify", "getDomain", "onboard",
             "done", "failed", "stopped"}
Ended == {"done", "failed", "stopped"}

DomainsTypeOK ==
    /\ orgs \subseteq AllOrgs
    /\ dom \in [Procs -> Row \cup {NoDomain}]
    /\ hosts \subseteq Procs \X Names
    /\ zone \subseteq Procs
    /\ loaded \in Loadable
    /\ pc \in [Procs -> DomainPC]
    /\ loc \in [Procs -> Loc]

DomainsInit ==
    /\ orgs = Orgs
    /\ dom = [r \in Procs |-> NoDomain]
    /\ hosts = {}
    /\ zone = {}
    /\ loaded = IF EnvZone # None THEN EnvZone ELSE Manual
    /\ pc = [p \in Procs |-> "start"]
    /\ loc = [p \in Procs |-> NoLoc]

-----------------------------------------------------------------------------
\* Plumbing.

Rows == {r \in Procs : dom[r] # NoDomain}

Goto(p, label) == pc' = [pc EXCEPT ![p] = label] /\ UNCHANGED loc

\* The end of an attempt: the poller waits for its next tick.
Finish(p, label) == Goto(p, IF Op[p] = "poll" THEN "start" ELSE label)

Enter(p, label, l) == pc' = [pc EXCEPT ![p] = label] /\ loc' = [loc EXCEPT ![p] = l]

Admit(p, op, label, l) ==
    /\ Op[p] = op /\ pc[p] = "start"
    /\ Enter(p, label, l)
    /\ UNCHANGED domVars

On(r) == [NoLoc EXCEPT !.row = r]

-----------------------------------------------------------------------------
\* createDomain.

StartCreateDomain(p) ==
    \E o \in orgs, f \in Fqdns :
        Admit(p, "createDomain", "insert", [NoLoc EXCEPT !.org = o, !.fqdn = f])

\* domains_org_fqdn_key, and the reference to the organization.
CreateDomain(p) ==
    LET l == loc[p] IN
    /\ pc[p] = "insert"
    /\ IF l.org \in orgs /\ \A r \in Rows : dom[r].org # l.org \/ dom[r].fqdn # l.fqdn
       THEN /\ dom' = [dom EXCEPT ![p] = [org |-> l.org, fqdn |-> l.fqdn, status |-> "pending"]]
            /\ Goto(p, "setTXT")
       ELSE Goto(p, "failed") /\ UNCHANGED dom
    /\ UNCHANGED <<orgs, hosts, zone>>

\* The manual provider always fails; nobody minds.  Cloudflare lists the
\* records, then posts the missing one into its own zone whatever the name: in
\* another zone than the domain's it answers no lookup.
SetTXT(p) ==
    /\ pc[p] = "setTXT"
    /\ \/ loaded = loc[p].fqdn /\ zone' = zone \cup {p}
       \/ (loaded # loc[p].fqdn \/ "dns" \in Faults) /\ UNCHANGED zone
    /\ Goto(p, IF Op[p] = "setup" THEN "provider" ELSE "done")
    /\ UNCHANGED <<orgs, dom, hosts>>

\* The operator publishes the record the answer asked for.
PublishTXT ==
    /\ \E r \in Rows \ zone : zone' = zone \cup {r}
    /\ UNCHANGED <<orgs, dom, hosts, pc, loc>>

-----------------------------------------------------------------------------
\* verifyDomain; the wizard's verification shares its second half.

StartVerifyDomain(p) == \E r \in Rows : Admit(p, "verifyDomain", "lookup", On(r))

\* Mutant: any platform token under the name will do.
AnyToken(p) ==
    /\ pc[p] = "lookup"
    /\ \/ (\E r \in zone \cap Rows : dom[r].fqdn = dom[loc[p].row].fqdn) /\ Goto(p, "status")
       \/ Finish(p, "done")
    /\ UNCHANGED domVars

\* The lookup fails, or the resolver has not seen the record yet, or the token
\* of the row read before is there.
TXTLookup(p) ==
    /\ pc[p] = "lookup"
    /\ \/ loc[p].row \in zone /\ Goto(p, "status")
       \/ (loc[p].row \notin zone \/ "dns" \in Faults) /\ Finish(p, "done")
    /\ UNCHANGED domVars

\* Mutant: a status the table does not know.
SetDomainActive(p) ==
    LET r == loc[p].row IN
    /\ pc[p] = "status"
    /\ dom' = [dom EXCEPT ![r] = IF @ = NoDomain THEN @ ELSE [@ EXCEPT !.status = "active"]]
    /\ Goto(p, "done")
    /\ UNCHANGED <<orgs, hosts, zone>>

\* UPDATE by id: ErrNotFound when the row went away meanwhile.
SetDomainStatus(p) ==
    LET r == loc[p].row IN
    /\ pc[p] = "status"
    /\ IF r \in Rows
       THEN /\ dom' = [dom EXCEPT ![r].status = "verified"]
            /\ Goto(p, IF Op[p] = "verifyDomain" THEN "done" ELSE "onboard")
       ELSE Finish(p, "failed") /\ UNCHANGED dom
    /\ UNCHANGED <<orgs, hosts, zone>>

-----------------------------------------------------------------------------
\* addHostname.

\* Mutant: the verified check is left to the caller.
StartHostnameUnchecked(p) ==
    \E r \in Rows, n \in Names : Admit(p, "addHostname", "bind", [On(r) EXCEPT !.name = n])

StartAddHostname(p) ==
    \E r \in Rows, n \in Names :
        /\ dom[r].status = "verified"
        /\ Admit(p, "addHostname", "bind", [On(r) EXCEPT !.name = n])

\* The reference to the domain, and hostnames_org_domain_key.
AddHostname(p) ==
    LET h == <<loc[p].row, loc[p].name>> IN
    /\ pc[p] = "bind"
    /\ IF h[1] \in Rows /\ h \notin hosts
       THEN hosts' = hosts \cup {h} /\ Goto(p, "done")
       ELSE Goto(p, "failed") /\ UNCHANGED hosts
    /\ UNCHANGED <<orgs, dom, zone>>

-----------------------------------------------------------------------------
\* deleteDomain and deleteOrganization.

StartDeleteDomain(p) == \E r \in Rows : Admit(p, "deleteDomain", "count", On(r))

CountHostnames(p) ==
    /\ pc[p] = "count"
    /\ Goto(p, IF \E h \in hosts : h[1] = loc[p].row THEN "failed" ELSE "delete")
    /\ UNCHANGED domVars

\* ON DELETE CASCADE for hostnames.
Remove(gone) ==
    /\ dom' = [r \in Procs |-> IF r \in gone THEN NoDomain ELSE dom[r]]
    /\ hosts' = {h \in hosts : h[1] \notin gone}

DeleteDomain(p) ==
    LET r == loc[p].row IN
    /\ pc[p] = "delete"
    /\ Remove({r})
    /\ Goto(p, IF r \in Rows THEN "done" ELSE "failed")
    /\ UNCHANGED <<orgs, zone>>

DeleteOrganization(p) ==
    /\ Op[p] = "deleteOrg" /\ pc[p] = "start"
    /\ \E o \in orgs :
          orgs' = orgs \ {o} /\ Remove({r \in Rows : dom[r].org = o})
    /\ Goto(p, "done")
    /\ UNCHANGED zone

-----------------------------------------------------------------------------
\* A statement fails, or the caller goes away.
Abort(p) ==
    /\ "abort" \in Faults
    /\ pc[p] \notin Ended \cup {"start"}
    /\ Finish(p, "failed")
    /\ UNCHANGED domVars

NoneInFlight == \A p \in Procs : pc[p] \in Ended \cup {"start"}
=============================================================================
