------------------------------- MODULE Setup --------------------------------
(***************************************************************************)
(* The first-run wizard over Domains: POST /setup registers the primary    *)
(* domain, POST /setup/verify and the background poller verify it and mark *)
(* the installation onboarded.  Several admins and browser tabs, the       *)
(* poller, and the ordinary domain routes run side by side.                *)
(***************************************************************************)
EXTENDS Domains

CONSTANTS
    Choices,      \* the access providers the wizard's callers ask for
    MaxRestarts   \* bound: restarts of the API

ASSUME SetupAssumption ==
    /\ Choices \subseteq Loadable \cup {"route53"}
    /\ "route53" \notin Loadable /\ Manual \notin Fqdns
    /\ MaxRestarts \in Nat

VARIABLES
    primary,    \* installation.primary_domain_id, or None
    provider,   \* installation.access_provider, with the zone of its config
    onboarded,  \* installation.onboarded_at is set
    owned,      \* wizard organizations whose owner membership is recorded
    choice,     \* choice[p]: the provider a setup request asks for
    restarts    \* restarts of the API so far

instVars == <<primary, provider, onboarded, owned>>
vars == <<domVars, loaded, pc, loc, instVars, choice, restarts>>

TypeOK ==
    /\ DomainsTypeOK
    /\ primary \in Procs \cup {None}
    /\ provider \in Loadable
    /\ onboarded \in BOOLEAN
    /\ owned \subseteq orgs
    /\ choice \in [Procs -> Choices \cup {None}]
    /\ restarts \in 0..MaxRestarts

Init ==
    /\ DomainsInit
    /\ primary = None
    /\ provider = Manual
    /\ onboarded = FALSE
    /\ owned = {}
    /\ choice = [p \in Procs |-> None]
    /\ restarts = 0

-----------------------------------------------------------------------------
\* createSetup.  What it validates before the first statement either refuses
\* the request or leaves no trace.  A Cloudflare zone that is named need only
\* be reachable (ZoneExists); one that is not is that of the domain.

StartSetup(p) ==
    /\ ~onboarded
    /\ \E f \in Fqdns : Admit(p, "setup", "org", [NoLoc EXCEPT !.org = f, !.fqdn = f])
    /\ \E c \in Choices : choice' = [choice EXCEPT ![p] = c]
    /\ UNCHANGED instVars

\* The organization's unique slug comes from the fqdn.
CreateOrganization(p) ==
    LET o == loc[p].org IN
    /\ pc[p] = "org"
    /\ orgs' = orgs \cup {o}
    /\ Goto(p, IF o \in orgs THEN "failed" ELSE "owner")
    /\ UNCHANGED <<dom, hosts, zone, instVars, choice>>

SetMembership(p) ==
    LET o == loc[p].org IN
    /\ pc[p] = "owner"
    /\ owned' = IF o \in orgs THEN owned \cup {o} ELSE owned
    /\ Goto(p, IF o \in orgs THEN "insert" ELSE "failed")
    /\ UNCHANGED <<domVars, primary, provider, onboarded, choice>>

\* Mutant: the UPDATE without "onboarded_at IS NULL".
SetProviderAnytime(p) ==
    LET known == choice[p] \in Loadable IN
    /\ pc[p] = "provider"
    /\ provider' = IF known THEN choice[p] ELSE provider
    /\ Goto(p, IF known THEN "primary" ELSE "failed")
    /\ UNCHANGED <<domVars, primary, onboarded, owned, choice>>

\* The column's CHECK knows two providers.
SetInstallationProvider(p) ==
    LET stored == ~onboarded /\ choice[p] \in Loadable IN
    /\ pc[p] = "provider"
    /\ provider' = IF stored THEN choice[p] ELSE provider
    /\ Goto(p, IF stored THEN "primary" ELSE "failed")
    /\ UNCHANGED <<domVars, primary, onboarded, owned, choice>>

SetInstallationPrimaryDomain(p) ==
    LET stored == ~onboarded /\ p \in Rows IN
    /\ pc[p] = "primary"
    /\ primary' = IF stored THEN p ELSE primary
    /\ Goto(p, IF stored THEN "done" ELSE "failed")
    /\ UNCHANGED <<domVars, provider, onboarded, owned, choice>>

-----------------------------------------------------------------------------
\* runVerifySetup, and the poller that drives it.

\* One tick.
PollVerificationOnce(p) ==
    /\ Op[p] = "poll" /\ pc[p] = "start"
    /\ onboarded \/ primary # None
    /\ Goto(p, IF onboarded THEN "stopped" ELSE "runVerify")
    /\ UNCHANGED <<domVars, instVars, choice>>

\* GetInstallation; the request is refused unless something is pending.
RunVerifySetup(p) ==
    /\ \/ Op[p] = "verifySetup" /\ pc[p] = "start"
       \/ pc[p] = "runVerify"
    /\ IF onboarded \/ primary = None
       THEN Finish(p, "failed")
       ELSE Enter(p, "getDomain", On(primary))
    /\ UNCHANGED <<domVars, instVars, choice>>

\* Mutant: a domain that exists counts as verified.
GetDomainAny(p) ==
    /\ pc[p] = "getDomain"
    /\ IF loc[p].row \in Rows THEN Goto(p, "onboard") ELSE Finish(p, "failed")
    /\ UNCHANGED <<domVars, instVars, choice>>

\* Mutant: a domain verified before is no longer pending.
GetPendingDomain(p) ==
    LET r == loc[p].row IN
    /\ pc[p] = "getDomain"
    /\ IF r \in Rows /\ dom[r].status = "pending" THEN Goto(p, "lookup") ELSE Finish(p, "failed")
    /\ UNCHANGED <<domVars, instVars, choice>>

GetDomainByID(p) ==
    LET r == loc[p].row IN
    /\ pc[p] = "getDomain"
    /\ IF r \in Rows
       THEN Goto(p, IF dom[r].status = "verified" THEN "onboard" ELSE "lookup")
       ELSE Finish(p, "failed")
    /\ UNCHANGED <<domVars, instVars, choice>>

\* Not tied to the domain that was verified.
SetInstallationOnboarded(p) ==
    /\ pc[p] = "onboard"
    /\ onboarded' = TRUE
    /\ Goto(p, IF Op[p] = "poll" THEN "stopped" ELSE "done")
    /\ UNCHANGED <<domVars, primary, provider, owned, choice>>

-----------------------------------------------------------------------------
\* primary_domain_id ON DELETE SET NULL, memberships ON DELETE CASCADE.
Cascade ==
    /\ primary' = IF primary # None /\ dom'[primary] = NoDomain THEN None ELSE primary
    /\ owned' = owned \cap orgs'
    /\ UNCHANGED <<provider, onboarded, choice>>

DomainStep(p) ==
    \/ StartCreateDomain(p) \/ CreateDomain(p) \/ SetTXT(p)
    \/ StartVerifyDomain(p) \/ TXTLookup(p) \/ SetDomainStatus(p)
    \/ StartAddHostname(p) \/ AddHostname(p) \/ StartDeleteDomain(p) \/ CountHostnames(p)

SetupStep(p) ==
    \/ StartSetup(p) \/ CreateOrganization(p) \/ SetMembership(p)
    \/ SetInstallationProvider(p) \/ SetInstallationPrimaryDomain(p)
    \/ PollVerificationOnce(p) \/ RunVerifySetup(p) \/ GetDomainByID(p)
    \/ SetInstallationOnboarded(p)

Step(p) ==
    \/ DomainStep(p) /\ UNCHANGED <<instVars, choice>>
    \/ (DeleteDomain(p) \/ DeleteOrganization(p)) /\ Cascade
    \/ SetupStep(p)

\* What the next process of the API is started with.
LoadAccessProvider == IF EnvZone # None THEN EnvZone ELSE provider

\* The API dies or is stopped, with whatever is in flight, and is started again.
Restart ==
    /\ restarts < MaxRestarts
    /\ restarts' = restarts + 1
    /\ loaded' = LoadAccessProvider
    /\ pc' = [p \in Procs |-> IF Op[p] = "poll" THEN "start"
                             ELSE IF pc[p] \in Ended \cup {"start"} THEN pc[p] ELSE "failed"]
    /\ UNCHANGED <<domVars, loc, instVars, choice>>

Running ==
    \/ \E p \in Procs : Step(p) \/ (Abort(p) /\ UNCHANGED <<instVars, choice>>)
    \/ PublishTXT /\ UNCHANGED <<instVars, choice>>

Next ==
    \/ Running /\ UNCHANGED <<loaded, restarts>>
    \/ Restart
    \/ NoneInFlight /\ UNCHANGED vars

Spec == Init /\ [][Next]_vars

\* Admitted requests run to their end, and the poller's ticker fires for ever.
FairSpec ==
    /\ Spec
    /\ \A p \in Procs :
          WF_vars((Op[p] = "poll" \/ pc[p] # "start") /\ Step(p) /\ UNCHANGED <<loaded, restarts>>)

-----------------------------------------------------------------------------
\* Properties.

(***************************************************************************)
(* A domain is verified only by its own token (verifyDomain): the same     *)
(* fqdn registered by another organization, a token published before the   *)
(* row was read, or a row deleted and registered again never count.        *)
(***************************************************************************)
VerifiedByOwnToken == \A r \in Rows : dom[r].status = "verified" => r \in zone

(***************************************************************************)
(* Public hostnames are backed by verified domains only (addHostname),     *)
(* although the check and the insert are two steps and the domain may be   *)
(* deleted between them.                                                   *)
(***************************************************************************)
HostnamesVerified == \A h \in hosts : dom[h[1]].status = "verified"

(***************************************************************************)
(* The wizard is one-shot: no setup request admitted before onboarding     *)
(* changes the provider or the primary domain after it; the primary can    *)
(* only be lost with its row.                                              *)
(***************************************************************************)
OnboardedIsFinal ==
    [][onboarded => onboarded' /\ provider' = provider /\ primary' \in {primary, None}]_vars

(***************************************************************************)
(* Nobody is onboarded without a proof of ownership: the token of a domain *)
(* some setup request registered was published.                            *)
(***************************************************************************)
OnboardedByProof == onboarded => \E r \in zone : Op[r] = "setup"

(***************************************************************************)
(* The poller "completes on its own once DNS propagates" (README): a       *)
(* primary domain whose record is published gets the installation          *)
(* onboarded, unless it is replaced or deleted.                            *)
(***************************************************************************)
OnboardingCompletes ==
    \A r \in Procs : (primary = r /\ r \in zone) ~> (onboarded \/ primary # r)

(***************************************************************************)
(* Installation.PrimaryDomainID "references the verified primary domain".  *)
(***************************************************************************)
OnboardedPrimaryVerified == onboarded /\ primary # None => dom[primary].status = "verified"
=============================================================================
