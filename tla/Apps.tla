-------------------------------- MODULE Apps --------------------------------
(***************************************************************************)
(* Installing applications from the catalog, their clients in authentik,   *)
(* and the worker's sync of the external_resources rows.                   *)
(*                                                                         *)
(* An install p is one createApplication request and names everything it   *)
(* creates: its instance, and in authentik a provider (with the secret p   *)
(* drew) and an application.  The calling admin passes requireOrgRole (see *)
(* Accounts), authentik and chasquid are configured.  Access groups are    *)
(* left out: nothing here reads them; how a mailbox is provisioned is in   *)
(* Mailboxes.                                                              *)
(***************************************************************************)
EXTENDS Integers, FiniteSets

CONSTANTS
    Installs,   \* createApplication requests
    Catalog,    \* the catalog's manifests: auth mode and whether email is required
    Orgs,
    Domains,    \* domain names
    Hosts,      \* hostnames
    Within,     \* Within[h]: the domain h sits in
    Names,      \* application names
    Slug,       \* Slug[n]: what Slugify makes of a name
    Faults,     \* "idp": authentik fails; "db": a store call whose error is
                \* ignored fails; "abort": the API process dies; "lost":
                \* somebody deletes a provider in authentik; "page": authentik
                \* holds more objects than the page a lookup scans
    None

\* The modes with a client in authentik, and those without.
ClientModes == {"oidc", "forward-auth"}
Modes == ClientModes \cup {"native", "none"}

ASSUME AppsAssumption ==
    /\ Catalog \subseteq [mode: Modes, email: BOOLEAN]
    /\ Within \in [Hosts -> Domains]
    /\ Faults \subseteq {"idp", "db", "abort", "lost", "page"}
    /\ {"none", "unbound"} \cap Installs = {}
    /\ None \notin Installs \cup Orgs \cup Domains \cup Hosts \cup Names

VARIABLES
    orgs,      \* organizations that exist
    verified,  \* <<org, domain>>: the verified domains rows
    inst,      \* inst[p]: status of the application_instances row of p
    bound,     \* bound[h]: the install application_hostnames gives h to
    prov,      \* prov[p]: the authentik provider p created
    app,       \* app[p]: the provider the application p created is for
    link,      \* link[p]: the external_resources rows of instance p
    smtp,      \* installs whose SMTP identity was provisioned
    pc,
    loc,       \* loc[p]: what p was asked for and what it found so far
    todo       \* rows the running SyncExternal pass has still to settle

reqVars == <<orgs, verified, inst, bound, smtp>>
idpVars == <<prov, app>>
vars == <<orgs, verified, inst, bound, prov, app, link, smtp, pc, loc, todo>>

AppPC == {"start", "instance", "hostname", "provider", "createProvider", "apps", "createApp",
          "linkProvider", "linkApp", "email", "status", "done", "failed", "stopped"}
Ended == {"done", "failed", "stopped"}

\* The provider and application of an instance, as authentik ids with status.
Ref == [id: Installs \cup {None}, status: {"none", "active", "failed"}]
NoRef == [id |-> None, status |-> "none"]
Types == {"prov", "app"}

Loc == [org: Orgs \cup {None}, host: Hosts \cup {None}, name: Names \cup {None},
        manifest: [mode: Modes, email: BOOLEAN], prov: Installs \cup {None},
        app: Installs \cup {None}]
NoLoc == [org |-> None, host |-> None, name |-> None, prov |-> None, app |-> None,
          manifest |-> [mode |-> "none", email |-> FALSE]]

\* A row as SyncExternal listed it: whose it is, its type, what to ask for, and
\* the answer, empty until authentik has given it.
Check == [obj: Installs, type: Types, ask: Types, id: Installs, answer: SUBSET BOOLEAN]

TypeOK ==
    /\ orgs \subseteq Orgs
    /\ verified \subseteq Orgs \X Domains
    /\ inst \in [Installs -> {"none", "provisioning", "active"}]
    /\ bound \in [Hosts -> Installs \cup {None}]
    /\ prov \in [Installs -> {"none", "oidc", "forward-auth", "gone"}]
    /\ app \in [Installs -> Installs \cup {"none", "unbound"}]
    /\ link \in [Installs -> [Types -> Ref]]
    /\ smtp \subseteq Installs
    /\ pc \in [Installs -> AppPC]
    /\ loc \in [Installs -> Loc]
    /\ todo \subseteq Check

Init ==
    /\ orgs = Orgs
    /\ verified = Orgs \X Domains
    /\ inst = [p \in Installs |-> "none"]
    /\ bound = [h \in Hosts |-> None]
    /\ prov = [p \in Installs |-> "none"]
    /\ app = [p \in Installs |-> "none"]
    /\ link = [p \in Installs |-> [t \in Types |-> NoRef]]
    /\ smtp = {}
    /\ pc = [p \in Installs |-> "start"]
    /\ loc = [p \in Installs |-> NoLoc]
    /\ todo = {}

-----------------------------------------------------------------------------
\* Plumbing.

Goto(p, label) == pc' = [pc EXCEPT ![p] = label] /\ UNCHANGED loc

\* The request goes on with one more authentik id in hand.
Found(p, l, label) ==
    /\ pc' = [pc EXCEPT ![p] = label]
    /\ loc' = [loc EXCEPT ![p] = l]

Slugged(p) == Slug[loc[p].name]
Mode(p) == loc[p].manifest.mode

-----------------------------------------------------------------------------
\* createApplication, down to the hostname.

\* The manifest of the chosen catalog entry, and findVerifiedOrgDomain.
StartInstall(p) ==
    /\ pc[p] = "start"
    /\ \E o \in orgs, h \in Hosts, n \in Names, m \in Catalog :
        /\ <<o, Within[h]>> \in verified
        /\ loc' = [loc EXCEPT ![p] = [NoLoc EXCEPT !.org = o, !.host = h, !.name = n, !.manifest = m]]
    /\ pc' = [pc EXCEPT ![p] = "instance"]
    /\ UNCHANGED <<reqVars, idpVars, link, todo>>

CreateApplicationInstance(p) ==
    /\ pc[p] = "instance"
    /\ IF loc[p].org \in orgs
       THEN inst' = [inst EXCEPT ![p] = "provisioning"] /\ Goto(p, "hostname")
       ELSE Goto(p, "failed") /\ UNCHANGED inst
    /\ UNCHANGED <<orgs, verified, bound, smtp, idpVars, link, todo>>

AfterHostname(p) == IF Mode(p) \in ClientModes THEN "provider" ELSE "email"

\* Mutant: a hostname that is taken is skipped like a group that cannot be added.
AddInstanceHostnameIfFree(p) ==
    /\ pc[p] = "hostname"
    /\ bound' = IF bound[loc[p].host] = None THEN [bound EXCEPT ![loc[p].host] = p] ELSE bound
    /\ Goto(p, AfterHostname(p))
    /\ UNCHANGED <<orgs, verified, inst, smtp, idpVars, link, todo>>

\* app_hostname_key, and the reference to the instance.  The refused install
\* leaves its instance behind.
AddInstanceHostname(p) ==
    /\ pc[p] = "hostname"
    /\ IF inst[p] # "none" /\ bound[loc[p].host] = None
       THEN bound' = [bound EXCEPT ![loc[p].host] = p] /\ Goto(p, AfterHostname(p))
       ELSE Goto(p, "failed") /\ UNCHANGED bound
    /\ UNCHANGED <<orgs, verified, inst, smtp, idpVars, link, todo>>

-----------------------------------------------------------------------------
\* EnsureAppOIDC and EnsureForwardAuth.

\* authentik tells OAuth2 providers apart by client id, "app-" and the slug;
\* EnsureForwardAuth tells proxy providers apart by name.
SameClient(p, q) ==
    /\ prov[q] = Mode(p)
    /\ IF Mode(p) = "oidc" THEN Slugged(q) = Slugged(p) ELSE loc[q].name = loc[p].name

\* A failure is logged and the installation goes on without a client.
IdpError(p) == "idp" \in Faults /\ Goto(p, "email")

\* OAuth2 providers are asked for by client id, proxy providers scanned.
FindProvider(p) ==
    /\ pc[p] = "provider"
    /\ \/ \E q \in Installs : SameClient(p, q) /\ Found(p, [loc[p] EXCEPT !.prov = q], "apps")
       \/ /\ \/ \A q \in Installs : ~SameClient(p, q)
             \/ Mode(p) = "forward-auth" /\ "page" \in Faults
          /\ Goto(p, "createProvider")
       \/ IdpError(p)
    /\ UNCHANGED <<reqVars, idpVars, link, todo>>

\* A client id is unique in authentik.
CreateProvider(p) ==
    /\ pc[p] = "createProvider"
    /\ \/ /\ Mode(p) = "oidc" => \A q \in Installs : ~SameClient(p, q)
          /\ prov' = [prov EXCEPT ![p] = Mode(p)]
          /\ Found(p, [loc[p] EXCEPT !.prov = p], "apps")
       \/ /\ Mode(p) = "oidc" /\ \E q \in Installs : SameClient(p, q)
          /\ Goto(p, "email") /\ UNCHANGED prov
       \/ IdpError(p) /\ UNCHANGED prov
    /\ UNCHANGED <<reqVars, app, link, todo>>

SameSlug(p, q) == app[q] # "none" /\ Slugged(q) = Slugged(p)

\* Mutant: the application is looked up by its slug alone.
FindAppBySlug(p) ==
    /\ pc[p] = "apps"
    /\ \/ \E q \in Installs : SameSlug(p, q) /\ Found(p, [loc[p] EXCEPT !.app = q], "linkProvider")
       \/ (\A q \in Installs : ~SameSlug(p, q)) /\ Goto(p, "createApp")
       \/ IdpError(p)
    /\ UNCHANGED <<reqVars, idpVars, link, todo>>

\* The first page of applications, scanned for slug and provider.
FindApp(p) ==
    LET Mine(q) == SameSlug(p, q) /\ app[q] = loc[p].prov IN
    /\ pc[p] = "apps"
    /\ \/ \E q \in Installs : Mine(q) /\ Found(p, [loc[p] EXCEPT !.app = q], "linkProvider")
       \/ ((\A q \in Installs : ~Mine(q)) \/ "page" \in Faults) /\ Goto(p, "createApp")
       \/ IdpError(p)
    /\ UNCHANGED <<reqVars, idpVars, link, todo>>

\* A slug is unique in authentik, and the provider must still be there.
CreateApp(p) ==
    LET Refused == prov[loc[p].prov] = "gone" \/ \E q \in Installs : SameSlug(p, q) IN
    /\ pc[p] = "createApp"
    /\ \/ /\ ~Refused
          /\ app' = [app EXCEPT ![p] = loc[p].prov]
          /\ Found(p, [loc[p] EXCEPT !.app = p], "linkProvider")
       \/ Refused /\ Goto(p, "email") /\ UNCHANGED app
       \/ IdpError(p) /\ UNCHANGED app
    /\ UNCHANGED <<reqVars, prov, link, todo>>

\* UpsertExternalResource; its error is ignored.
Link(p, type, id) ==
    \/ link' = [link EXCEPT ![p][type] = [id |-> id, status |-> "active"]]
    \/ "db" \in Faults /\ UNCHANGED link

LinkProvider(p) ==
    /\ pc[p] = "linkProvider"
    /\ Link(p, "prov", loc[p].prov)
    /\ Goto(p, "linkApp")
    /\ UNCHANGED <<reqVars, idpVars, todo>>

LinkApp(p) ==
    /\ pc[p] = "linkApp"
    /\ Link(p, "app", loc[p].app)
    /\ Goto(p, "email")
    /\ UNCHANGED <<reqVars, idpVars, todo>>

-----------------------------------------------------------------------------
\* createApplication, from the SMTP identity to the answer.

\* The identity references the domains row; its failure is logged.
ProvisionAppIdentity(p) ==
    /\ pc[p] = "email"
    /\ \/ /\ loc[p].manifest.email
          /\ <<loc[p].org, Within[loc[p].host]>> \in verified
          /\ smtp' = smtp \cup {p}
       \/ UNCHANGED smtp
    /\ Goto(p, "status")
    /\ UNCHANGED <<orgs, verified, inst, bound, idpVars, link, todo>>

\* Mutant: a status the table does not have.
SetInstanceInstalled(p) ==
    /\ pc[p] = "status"
    /\ inst' = IF inst[p] = "none" THEN inst ELSE [inst EXCEPT ![p] = "installed"]
    /\ Goto(p, "done")
    /\ UNCHANGED <<orgs, verified, bound, smtp, idpVars, link, todo>>

\* The error of the last update is ignored too.
SetInstanceStatus(p) ==
    /\ pc[p] = "status"
    /\ \/ inst' = IF inst[p] = "none" THEN inst ELSE [inst EXCEPT ![p] = "active"]
       \/ "db" \in Faults /\ UNCHANGED inst
    /\ Goto(p, "done")
    /\ UNCHANGED <<orgs, verified, bound, smtp, idpVars, link, todo>>

Abort(p) ==
    /\ "abort" \in Faults /\ pc[p] \notin Ended \cup {"start"}
    /\ Goto(p, "stopped")
    /\ UNCHANGED <<reqVars, idpVars, link, todo>>

InstallStep(p) ==
    \/ StartInstall(p) \/ CreateApplicationInstance(p) \/ AddInstanceHostname(p)
    \/ FindProvider(p) \/ CreateProvider(p) \/ FindApp(p) \/ CreateApp(p)
    \/ LinkProvider(p) \/ LinkApp(p)
    \/ ProvisionAppIdentity(p) \/ SetInstanceStatus(p) \/ Abort(p)

-----------------------------------------------------------------------------
\* The rest of the platform and of authentik.

\* DeleteDomain counts the rows of hostnames, of which an application has none.
DeleteDomain ==
    /\ \E d \in verified : verified' = verified \ {d}
    /\ UNCHANGED <<orgs, inst, bound, smtp, idpVars, link, pc, loc, todo>>

\* Domains, instances and their hostnames go with the organization;
\* external_resources references nothing.
DeleteOrganization ==
    \E o \in orgs :
        LET Gone == {p \in Installs : loc[p].org = o} IN
        /\ orgs' = orgs \ {o}
        /\ verified' = {d \in verified : d[1] # o}
        /\ inst' = [p \in Installs |-> IF p \in Gone THEN "none" ELSE inst[p]]
        /\ bound' = [h \in Hosts |-> IF bound[h] \in Gone THEN None ELSE bound[h]]
        /\ UNCHANGED <<smtp, idpVars, link, pc, loc, todo>>

\* An application outlives its provider.
ProviderLost ==
    /\ "lost" \in Faults
    /\ \E q \in Installs :
        /\ prov[q] \in {"oidc", "forward-auth"}
        /\ prov' = [prov EXCEPT ![q] = "gone"]
        /\ app' = [p \in Installs |-> IF app[p] = q THEN "unbound" ELSE app[p]]
    /\ UNCHANGED <<reqVars, link, pc, loc, todo>>

-----------------------------------------------------------------------------
\* SyncExternal.

\* Mutant: every row is checked under its own id.
SyncExternalOwnIds ==
    /\ todo = {}
    /\ todo' = {[obj |-> pt[1], type |-> pt[2], ask |-> pt[2], id |-> link[pt[1]][pt[2]].id,
                 answer |-> {}] :
                pt \in {x \in Installs \X Types : link[x[1]][x[2]] # NoRef}}
    /\ UNCHANGED <<reqVars, idpVars, link, pc, loc>>

\* A row of the list, with what is asked for in its stead.
Listed(p, t) ==
    LET own == link[p]["prov"] = NoRef
    IN  [obj |-> p, type |-> t, ask |-> IF own THEN t ELSE "prov",
         id |-> IF own THEN link[p][t].id ELSE link[p]["prov"].id, answer |-> {}]

\* ListExternalResourcesByProvider.  An application is checked through the
\* provider of the same instance when the list holds one.
SyncExternal ==
    /\ todo = {}
    /\ todo' = {c \in {Listed(p, t) : p \in Installs, t \in Types} :
                    link[c.obj][c.type] # NoRef}
    /\ UNCHANGED <<reqVars, idpVars, link, pc, loc>>

\* Proxy providers live in another namespace, and authentik hides applications
\* of other brands: either answer is possible for those.
ResourceExists(c) ==
    IF c.ask = "prov" /\ prov[c.id] \in {"oidc", "gone"}
    THEN {prov[c.id] = "oidc"}
    ELSE BOOLEAN

\* The pass goes row by row.
NextRow == {c \in todo : \A d \in todo : d = c \/ d.answer = {}}

\* authentik answers.
CheckRow ==
    /\ \E c \in NextRow : /\ c.answer = {}
                         /\ \E ok \in ResourceExists(c) :
                                todo' = (todo \ {c}) \cup {[c EXCEPT !.answer = {ok}]}
    /\ UNCHANGED <<reqVars, idpVars, link, pc, loc>>

\* The answer is recorded, whatever has become of the resource since.
SetExternalObserved(p, t) ==
    \E c \in NextRow :
        /\ c.obj = p /\ c.type = t
        /\ \E ok \in c.answer :
            link' = [link EXCEPT ![p][t].status = IF ok THEN "active" ELSE "failed"]
        /\ todo' = todo \ {c}
        /\ UNCHANGED <<reqVars, idpVars, pc, loc>>

\* The check or the update fails: the row waits for the next pass.
SkipRow ==
    /\ \E c \in NextRow : /\ (IF c.answer = {} THEN "idp" ELSE "db") \in Faults
                         /\ todo' = todo \ {c}
    /\ UNCHANGED <<reqVars, idpVars, link, pc, loc>>

WorkerStep ==
    \/ SyncExternal \/ CheckRow \/ SkipRow
    \/ \E p \in Installs, t \in Types : SetExternalObserved(p, t)

Next ==
    \/ \E p \in Installs : InstallStep(p)
    \/ DeleteDomain \/ DeleteOrganization \/ ProviderLost
    \/ WorkerStep

Spec == Init /\ [][Next]_vars

-----------------------------------------------------------------------------
\* Safety.

\* The rows recorded for an instance belong together and to it: its provider
\* has the kind its manifest asks for and the client id or name its name gives,
\* and its application fronts that provider, unless authentik dropped it since.
\* EnsureAppOIDC and EnsureForwardAuth (client.go:322, 388) look both up in two
\* calls, among what other installs created, deleted or left half done.
LinksMatch ==
    \A p \in Installs :
        LET v == link[p]["prov"].id
            a == link[p]["app"].id
        IN  /\ v # None => /\ prov[v] \in {Mode(p), "gone"} /\ Mode(v) = Mode(p)
                           /\ IF Mode(p) = "oidc" THEN Slugged(v) = Slugged(p)
                                                  ELSE loc[v].name = loc[p].name
            /\ a # None /\ v # None => app[a] \in {v, "unbound"}

\* An install whose hostname was refused never reaches authentik: whoever
\* created a provider holds its hostname for as long as its organization exists
\* (apps_handlers.go:107, the 409 before EnsureAppOIDC).
ClientsHoldTheirHostname ==
    \A p \in Installs :
        prov[p] # "none" /\ loc[p].org \in orgs => bound[loc[p].host] = p

\* "Missing resources are marked failed": the sync never condemns an OIDC
\* client, nor the application in front of it, that authentik still has,
\* however old the list it works from and the answer it records, and whatever
\* installs and syncs do in between (recon/external.go:37).
FailedOnlyIfGone ==
    \A p \in Installs, t \in Types :
        /\ Mode(p) = "oidc" /\ link[p][t].status = "failed"
        /\ link[p]["prov"] # NoRef
        => prov[link[p]["prov"].id] = "gone"

=============================================================================
