----------------------------- MODULE AppsProofs -----------------------------
(***************************************************************************)
(* Proofs about Apps for any number of installs, organizations, hostnames  *)
(* and names, whatever fails.                                              *)
(***************************************************************************)
EXTENDS Apps, TLAPS

-----------------------------------------------------------------------------
\* The inductive invariant.

Early == {"start", "instance", "hostname", "provider", "createProvider"}
Over == {"email", "status"} \cup Ended

\* Provider v is one that install p may use.
Kin(p, v) ==
    /\ v \in Installs /\ Mode(p) \in ClientModes
    /\ prov[v] \in {Mode(p), "gone"} /\ Mode(v) = Mode(p)
    /\ IF Mode(p) = "oidc" THEN Slugged(v) = Slugged(p) ELSE loc[v].name = loc[p].name

\* Application a fronts provider v, unless authentik dropped v since.
Front(a, v) == a \in Installs /\ v \in Installs /\ app[a] \in {v, "unbound"}

\* What an install relies on from one call to the next.
Step(p) ==
    /\ pc[p] \in Early => prov[p] = "none"
    /\ pc[p] \in {"provider", "createProvider"} => Mode(p) \in ClientModes
    /\ prov[p] \in {"none", "gone", Mode(p)}
    /\ pc[p] \in {"apps", "createApp", "linkProvider", "linkApp"} => Kin(p, loc[p].prov)
    /\ pc[p] \in {"linkProvider", "linkApp"} => Front(loc[p].app, loc[p].prov)

\* What the rows recorded for it say.
Linked(p) ==
    /\ pc[p] \notin Over \cup {"linkApp"} => link[p]["prov"] = NoRef
    /\ pc[p] \notin Over => link[p]["app"] = NoRef
    /\ link[p]["prov"] # NoRef => link[p]["prov"].id = loc[p].prov /\ Kin(p, loc[p].prov)
    /\ link[p]["app"] # NoRef => link[p]["app"].id = loc[p].app /\ Front(loc[p].app, loc[p].prov)

\* Whoever has or may create a client holds its hostname.
Holds(p) ==
    (prov[p] # "none" \/ pc[p] \in {"provider", "createProvider"}) /\ loc[p].org \in orgs
       => bound[loc[p].host] = p

\* A row listed by the sync is still recorded, and asked for as it was; an OIDC
\* client that was not there when authentik answered is not there now.
Current(c) ==
    /\ link[c.obj][c.type] # NoRef
    /\ link[c.obj]["prov"] # NoRef => c.ask = "prov" /\ c.id = link[c.obj]["prov"].id
    /\ FALSE \in c.answer /\ link[c.obj]["prov"] # NoRef /\ Mode(c.obj) = "oidc"
          => prov[c.id] = "gone"

\* A started request knows what it was asked for.
Asked(p) == pc[p] # "start" => loc[p].org \in Orgs /\ loc[p].host \in Hosts

(***************************************************************************)
(* LinksMatch and FailedOnlyIfGone are about rows; what is written in them *)
(* was found by calls made earlier, so Step follows the ids an install     *)
(* holds, and Current the list the sync works from and the answer it has.  *)
(***************************************************************************)
Inv ==
    /\ TypeOK
    /\ \A p \in Installs : Asked(p) /\ Step(p) /\ Linked(p) /\ Holds(p)
    /\ \A c \in todo : Current(c)
    /\ FailedOnlyIfGone

-----------------------------------------------------------------------------
\* What no step undoes.

Stay ==
    /\ \A q \in Installs : prov[q] # "none" =>
          /\ prov'[q] \in {prov[q], "gone"}
          /\ Mode(q)' = Mode(q) /\ loc'[q].name = loc[q].name
    /\ \A a \in Installs : app[a] # "none" => app'[a] \in {app[a], "unbound"}

LEMMA KinStays ==
    ASSUME Stay, NEW p \in Installs, NEW v, Kin(p, v), Mode(p)' = Mode(p), loc'[p].name = loc[p].name
    PROVE  Kin(p, v)'
BY DEF Stay, Kin, Slugged, ClientModes

LEMMA FrontStays ==
    ASSUME Stay, NEW a, NEW v, Front(a, v)
    PROVE  Front(a, v)'
BY AppsAssumption DEF Stay, Front

\* An install that a step does not concern.
LEMMA OthersStay ==
    ASSUME Inv, Stay, NEW q \in Installs, pc'[q] = pc[q], loc'[q] = loc[q],
           prov'[q] \in {prov[q], "gone"}, prov[q] = "none" => prov'[q] = "none",
           link'[q]["prov"].id = link[q]["prov"].id, link'[q]["app"].id = link[q]["app"].id,
           link[q]["prov"] = NoRef => link'[q]["prov"] = NoRef,
           link[q]["app"] = NoRef => link'[q]["app"] = NoRef
    PROVE  Step(q)' /\ Linked(q)' /\ Asked(q)'
<1>1. Mode(q)' = Mode(q) /\ loc'[q].name = loc[q].name
  BY DEF Mode
<1>2. \A v : Kin(q, v) => Kin(q, v)'
  BY <1>1, KinStays
<1>3. \A a, v : Front(a, v) => Front(a, v)'
  BY FrontStays
<1>4. PICK v, a : v = loc[q].prov /\ a = loc[q].app
  OBVIOUS
<1>5. Step(q)'
  BY <1>1, <1>2, <1>3, <1>4 DEF Step, Inv
<1>6. Linked(q)'
  BY <1>2, <1>3, <1>4 DEF Linked, Inv
<1> QED BY <1>5, <1>6 DEF Asked, Inv

-----------------------------------------------------------------------------
\* A step of one install to label l with locals x.

Moves(p, l, x) ==
    /\ l \in AppPC /\ x \in Loc
    /\ pc' = [pc EXCEPT ![p] = l]
    /\ loc' = [loc EXCEPT ![p] = x]

\* x is asked for the same as p was.
SameRequest(p, x) ==
    /\ x.manifest = loc[p].manifest /\ x.name = loc[p].name
    /\ x.org = loc[p].org /\ x.host = loc[p].host

Rows == (\A c \in todo : Current(c)) /\ FailedOnlyIfGone
Everyone == \A p \in Installs : Asked(p) /\ Step(p) /\ Linked(p) /\ Holds(p)

LEMMA Moved ==
    ASSUME TypeOK, NEW p \in Installs, NEW l, NEW x, Moves(p, l, x)
    PROVE  /\ pc'[p] = l /\ loc'[p] = x
           /\ \A q \in Installs \ {p} : pc'[q] = pc[q] /\ loc'[q] = loc[q]
           /\ pc' \in [Installs -> AppPC] /\ loc' \in [Installs -> Loc]
BY DEF TypeOK, Moves

\* Rows that a step leaves alone still say the truth.
LEMMA RowsStay ==
    ASSUME Inv, Stay, UNCHANGED <<link, todo>>,
           \A q \in Installs : Mode(q)' = Mode(q) \/ link[q]["prov"] = NoRef
    PROVE  Rows'
<1>1. ASSUME NEW c \in todo PROVE Current(c)'
  <2>1. c.obj \in Installs /\ c.id \in Installs /\ Current(c)
    BY DEF Inv, TypeOK, Check
  <2>2. prov[c.id] = "gone" => prov'[c.id] = "gone"
    BY <2>1 DEF Stay
  <2> QED BY <2>1, <2>2 DEF Current
<1>2. FailedOnlyIfGone'
  <2> SUFFICES ASSUME NEW q \in Installs, NEW t \in Types, Mode(q)' = "oidc",
                      link[q][t].status = "failed", link[q]["prov"] # NoRef
               PROVE  prov'[link[q]["prov"].id] = "gone"
    BY DEF FailedOnlyIfGone
  <2>1. prov[link[q]["prov"].id] = "gone" /\ link[q]["prov"].id \in Installs
    BY DEF Inv, FailedOnlyIfGone, Linked, Kin
  <2> QED BY <2>1 DEF Stay
<1> QED BY <1>1, <1>2 DEF Rows

\* Most steps: one install goes on, with what it was asked for unchanged.
LEMMA Advance ==
    ASSUME Inv, NEW p \in Installs, NEW l, NEW x, Moves(p, l, x), SameRequest(p, x),
           UNCHANGED <<orgs, bound, link, todo>>, Stay,
           \A q \in Installs \ {p} : prov'[q] = prov[q],
           prov'[p] = prov[p] \/ pc[p] = "createProvider",
           pc[p] # "start", l # "start", l \in {"provider", "createProvider"} => pc[p] = "provider",
           Step(p)', Linked(p)'
    PROVE  Everyone' /\ Rows'
<1>1. /\ pc'[p] = l /\ loc'[p] = x
      /\ \A q \in Installs \ {p} : pc'[q] = pc[q] /\ loc'[q] = loc[q]
  BY Moved DEF Inv
<1>2. \A q \in Installs \ {p} : Step(q)' /\ Linked(q)' /\ Asked(q)'
  BY <1>1, OthersStay
<1>3. Asked(p)'
  BY <1>1 DEF Asked, SameRequest, Inv
<1>4. \A q \in Installs : Mode(q)' = Mode(q)
  BY <1>1 DEF Mode, SameRequest
<1>5. Rows'
  BY <1>4, RowsStay
<1>6. \A q \in Installs : Holds(q)'
  <2>1. ASSUME NEW q \in Installs, q # p PROVE Holds(q)'
    BY <1>1, <2>1 DEF Holds, Inv
  <2>2. Holds(p)'
    BY <1>1 DEF Holds, SameRequest, Inv
  <2> QED BY <2>1, <2>2
<1> QED BY <1>2, <1>3, <1>5, <1>6 DEF Everyone

\* A label at which nothing is relied on, reached with the locals as they are.
LEMMA Leaves ==
    ASSUME Inv, NEW p \in Installs, NEW l \in Over, Goto(p, l), pc[p] # "start",
           UNCHANGED <<orgs, bound, link, todo, prov, app>>
    PROVE  Everyone' /\ Rows' /\ pc' \in [Installs -> AppPC] /\ loc' \in [Installs -> Loc]
<1>1. loc[p] \in Loc /\ Moves(p, l, loc[p]) /\ SameRequest(p, loc[p])
  BY DEF Inv, TypeOK, Goto, Moves, Over, Ended, AppPC, SameRequest
<1>2. pc'[p] = l /\ loc' = loc
  BY <1>1, Moved DEF Goto, Inv
<1>3. Stay
  BY <1>2 DEF Stay, Mode
<1>4. Step(p)'
  BY <1>2 DEF Step, Over, Ended, Early, Mode, Inv
<1>5. Linked(p)'
  BY <1>2 DEF Linked, Inv, Kin, Front, Mode, Slugged
<1>6. l \notin {"start", "provider", "createProvider"}
  BY DEF Over, Ended
<1>7. Everyone' /\ Rows'
  BY <1>1, <1>3, <1>4, <1>5, <1>6, Advance
<1> QED BY <1>1, <1>7, Moved DEF Inv

-----------------------------------------------------------------------------
\* createApplication.

LEMMA InitInv == Init => Inv
<1> SUFFICES ASSUME Init PROVE Inv
  OBVIOUS
<1>1. NoLoc \in Loc /\ NoRef \in Ref
  BY DEF NoLoc, Loc, NoRef, Ref, Modes, ClientModes
<1>2. TypeOK
  <2>1. orgs \subseteq Orgs /\ verified \subseteq Orgs \X Domains /\ smtp = {} /\ todo = {}
    BY DEF Init
  <2>2. link \in [Installs -> [Types -> Ref]] /\ loc \in [Installs -> Loc]
    BY <1>1 DEF Init
  <2>3. /\ inst \in [Installs -> {"none", "provisioning", "active"}]
        /\ prov \in [Installs -> {"none", "oidc", "forward-auth", "gone"}]
        /\ app \in [Installs -> Installs \cup {"none", "unbound"}]
        /\ bound \in [Hosts -> Installs \cup {None}]
        /\ pc \in [Installs -> AppPC]
    BY DEF Init, AppPC
  <2> QED BY <2>1, <2>2, <2>3 DEF TypeOK
<1>3. \A p \in Installs : link[p]["prov"] = NoRef /\ link[p]["app"] = NoRef
  BY DEF Init, Types
<1>4. \A p \in Installs : Asked(p) /\ Step(p) /\ Holds(p)
  BY DEF Init, Asked, Step, Holds
<1>5. \A p \in Installs : Linked(p)
  BY <1>3 DEF Linked
<1>6. FailedOnlyIfGone
  BY <1>3 DEF FailedOnlyIfGone
<1> QED BY <1>2, <1>4, <1>5, <1>6 DEF Inv, Init

LEMMA StartInstallInv == ASSUME Inv, NEW p \in Installs, StartInstall(p) PROVE Inv'
<1>1. PICK o \in orgs, h \in Hosts, n \in Names, m \in Catalog :
          loc' = [loc EXCEPT ![p] = [NoLoc EXCEPT !.org = o, !.host = h, !.name = n, !.manifest = m]]
  BY DEF StartInstall
<1>2. PICK x : x = [NoLoc EXCEPT !.org = o, !.host = h, !.name = n, !.manifest = m]
  OBVIOUS
<1>3. x \in Loc /\ x.org \in Orgs /\ x.host \in Hosts
  <2>1. o \in Orgs /\ m \in [mode: Modes, email: BOOLEAN]
    BY AppsAssumption DEF Inv, TypeOK
  <2> QED BY <1>2, <2>1 DEF NoLoc, Loc
<1>4. pc[p] = "start" /\ Moves(p, "instance", x) /\ UNCHANGED <<reqVars, idpVars, link, todo>>
  BY <1>1, <1>2, <1>3 DEF StartInstall, Moves, AppPC
<1>5. /\ pc'[p] = "instance" /\ loc'[p] = x
      /\ \A q \in Installs \ {p} : pc'[q] = pc[q] /\ loc'[q] = loc[q]
      /\ pc' \in [Installs -> AppPC] /\ loc' \in [Installs -> Loc]
  BY <1>4, Moved DEF Inv
<1>6. prov[p] = "none" /\ link[p]["prov"] = NoRef /\ link[p]["app"] = NoRef
  BY <1>4 DEF Inv, Step, Linked, Early, Over, Ended
<1>7. Stay
  BY <1>4, <1>5, <1>6 DEF Stay, Mode, idpVars
<1>8. \A q \in Installs \ {p} : Step(q)' /\ Linked(q)' /\ Asked(q)'
  BY <1>4, <1>5, <1>7, OthersStay DEF idpVars
<1>9. Step(p)' /\ Asked(p)' /\ Linked(p)'
  BY <1>3, <1>4, <1>5, <1>6 DEF Step, Asked, Linked, Early, idpVars
<1>10. Rows'
  BY <1>4, <1>5, <1>6, <1>7, RowsStay DEF Mode
<1>11. \A q \in Installs : Holds(q)'
  BY <1>4, <1>5, <1>6 DEF Holds, Inv, idpVars, reqVars
<1>12. TypeOK'
  BY <1>4, <1>5 DEF reqVars, idpVars, Inv, TypeOK
<1> QED BY <1>8, <1>9, <1>10, <1>11, <1>12 DEF Inv, Rows

LEMMA CreateApplicationInstanceInv ==
    ASSUME Inv, NEW p \in Installs, CreateApplicationInstance(p) PROVE Inv'
<1>a. UNCHANGED <<orgs, verified, bound, smtp, idpVars, link, todo>> /\ pc[p] = "instance"
  BY DEF CreateApplicationInstance
<1>b. inst' \in [Installs -> {"none", "provisioning", "active"}]
  BY DEF CreateApplicationInstance, Inv, TypeOK
<1>1. CASE Goto(p, "failed")
  BY <1>a, <1>b, <1>1, Leaves DEF Over, Ended, idpVars, Inv, TypeOK, Everyone, Rows
<1>2. CASE Goto(p, "hostname")
  <2>1. Moves(p, "hostname", loc[p]) /\ SameRequest(p, loc[p]) /\ loc' = loc
    BY <1>2 DEF Goto, Moves, SameRequest, AppPC, Inv, TypeOK
  <2>2. pc'[p] = "hostname" /\ pc' \in [Installs -> AppPC]
    BY <2>1, Moved DEF Inv
  <2>3. Stay
    BY <1>a, <2>1 DEF Stay, Mode, idpVars
  <2>4. Step(p)' /\ Linked(p)'
    BY <1>a, <2>1, <2>2 DEF Step, Linked, Early, Over, Ended, Mode, idpVars, Inv
  <2>5. Everyone' /\ Rows'
    BY <1>a, <2>1, <2>3, <2>4, Advance DEF idpVars
  <2> QED BY <1>a, <1>b, <2>1, <2>2, <2>5 DEF Inv, TypeOK, Everyone, Rows, idpVars
<1> QED BY <1>1, <1>2 DEF CreateApplicationInstance

LEMMA AddInstanceHostnameInv ==
    ASSUME Inv, NEW p \in Installs, AddInstanceHostname(p) PROVE Inv'
<1>a. UNCHANGED <<orgs, verified, inst, smtp, idpVars, link, todo>> /\ pc[p] = "hostname"
  BY DEF AddInstanceHostname
<1>1. CASE Goto(p, "failed") /\ UNCHANGED bound
  BY <1>a, <1>1, Leaves DEF Over, Ended, idpVars, Inv, TypeOK, Everyone, Rows
<1>2. CASE /\ bound[loc[p].host] = None
           /\ bound' = [bound EXCEPT ![loc[p].host] = p] /\ Goto(p, AfterHostname(p))
  <2>1. PICK m : m = AfterHostname(p)
    OBVIOUS
  <2>2. m \in {"email", "provider"} /\ (m = "provider" => Mode(p) \in ClientModes)
    BY <2>1 DEF AfterHostname
  <2>3. Moves(p, m, loc[p]) /\ loc' = loc
    BY <1>2, <2>1, <2>2 DEF Goto, Moves, AppPC, Inv, TypeOK
  <2>4. /\ pc'[p] = m /\ pc' \in [Installs -> AppPC]
        /\ \A q \in Installs \ {p} : pc'[q] = pc[q]
    BY <2>3, Moved DEF Inv
  <2>5. Stay
    BY <1>a, <2>3 DEF Stay, Mode, idpVars
  <2>6. \A q \in Installs \ {p} : Step(q)' /\ Linked(q)' /\ Asked(q)'
    BY <1>a, <2>3, <2>4, <2>5, OthersStay DEF idpVars
  <2>7. Step(p)' /\ Linked(p)' /\ Asked(p)'
    BY <1>a, <2>2, <2>3, <2>4 DEF Step, Linked, Asked, Early, Over, Ended, Mode, idpVars, Inv
  <2>8. Rows'
    BY <1>a, <2>3, <2>5, RowsStay DEF Mode
  <2>9. loc[p].host \in Hosts /\ prov[p] = "none"
    BY <1>a DEF Inv, Asked, Step, Early
  <2>10. \A h \in Hosts : bound'[h] = IF h = loc[p].host THEN p ELSE bound[h]
    BY <1>2 DEF Inv, TypeOK
  <2>11. \A q \in Installs : Holds(q)'
    <3>1. Holds(p)'
      BY <2>3, <2>9, <2>10 DEF Holds
    <3>2. ASSUME NEW q \in Installs, q # p, pc[q] # "start" PROVE Holds(q)'
      <4>1. loc[q].host \in Hosts
        BY <3>2 DEF Inv, Asked
      <4> QED
        BY <1>a, <1>2, <2>3, <2>4, <2>10, <3>2, <4>1, AppsAssumption DEF Holds, Inv, idpVars
    <3>3. ASSUME NEW q \in Installs, q # p, pc[q] = "start" PROVE Holds(q)'
      BY <1>a, <2>3, <2>4, <3>3 DEF Holds, Inv, Step, Early, idpVars
    <3> QED BY <3>1, <3>2, <3>3
  <2>12. TypeOK'
    BY <1>a, <1>2, <2>3, <2>4 DEF Inv, TypeOK, idpVars
  <2> QED BY <2>6, <2>7, <2>8, <2>11, <2>12 DEF Inv, Rows
<1> QED BY <1>1, <1>2 DEF AddInstanceHostname

LEMMA ClosingInv ==
    ASSUME Inv, NEW p \in Installs,
           ProvisionAppIdentity(p) \/ SetInstanceStatus(p) \/ Abort(p)
    PROVE  Inv'
<1>1. PICK l \in Over : Goto(p, l)
  BY DEF ProvisionAppIdentity, SetInstanceStatus, Abort, Over, Ended
<1>2. pc[p] # "start" /\ UNCHANGED <<orgs, verified, bound, link, todo, prov, app>>
  BY DEF ProvisionAppIdentity, SetInstanceStatus, Abort, Ended, reqVars, idpVars
<1>3. smtp' \subseteq Installs /\ inst' \in [Installs -> {"none", "provisioning", "active"}]
  BY DEF ProvisionAppIdentity, SetInstanceStatus, Abort, reqVars, Inv, TypeOK
<1>4. Everyone' /\ Rows' /\ pc' \in [Installs -> AppPC] /\ loc' \in [Installs -> Loc]
  BY <1>1, <1>2, Leaves
<1> QED BY <1>2, <1>3, <1>4 DEF Inv, TypeOK, Everyone, Rows

-----------------------------------------------------------------------------
\* EnsureAppOIDC and EnsureForwardAuth.

\* The steps that go on to another authentik call.
LEMMA IdpAdvance ==
    ASSUME Inv, NEW p \in Installs, NEW l, NEW x, Moves(p, l, x), SameRequest(p, x),
           UNCHANGED <<reqVars, link, todo>>, Stay,
           prov' \in [Installs -> {"none", "oidc", "forward-auth", "gone"}],
           app' \in [Installs -> Installs \cup {"none", "unbound"}],
           \A q \in Installs \ {p} : prov'[q] = prov[q],
           prov'[p] = prov[p] \/ pc[p] = "createProvider",
           pc[p] \in {"provider", "createProvider", "apps", "createApp"},
           l \notin {"start", "linkApp"}, l \in {"provider", "createProvider"} => pc[p] = "provider",
           Step(p)'
    PROVE  Inv'
<1>1. pc'[p] = l /\ pc' \in [Installs -> AppPC] /\ loc' \in [Installs -> Loc]
  BY Moved DEF Inv
<1>2. link[p]["prov"] = NoRef /\ link[p]["app"] = NoRef
  BY DEF Inv, Linked, Over, Ended
<1>3. Linked(p)'
  BY <1>2 DEF Linked
<1>4. Everyone' /\ Rows'
  BY <1>3, Advance DEF reqVars
<1> QED BY <1>1, <1>4 DEF Inv, TypeOK, Everyone, Rows, reqVars

LEMMA IdpLeaves ==
    ASSUME Inv, NEW p \in Installs, Goto(p, "email"), pc[p] # "start",
           UNCHANGED <<reqVars, idpVars, link, todo>>
    PROVE  Inv'
BY Leaves DEF Over, reqVars, idpVars, Inv, TypeOK, Everyone, Rows

LEMMA LocEdits ==
    ASSUME TypeOK, NEW p \in Installs, NEW q \in Installs
    PROVE  /\ [loc[p] EXCEPT !.prov = q] \in Loc /\ [loc[p] EXCEPT !.app = q] \in Loc
           /\ SameRequest(p, [loc[p] EXCEPT !.prov = q])
           /\ SameRequest(p, [loc[p] EXCEPT !.app = q])
           /\ SameRequest(p, loc[p]) /\ loc[p] \in Loc
           /\ [loc[p] EXCEPT !.prov = q].prov = q
           /\ [loc[p] EXCEPT !.app = q].app = q
           /\ [loc[p] EXCEPT !.app = q].prov = loc[p].prov
<1>1. loc[p] \in Loc
  BY DEF TypeOK
<1> QED BY <1>1 DEF Loc, SameRequest

LEMMA FindProviderInv == ASSUME Inv, NEW p \in Installs, FindProvider(p) PROVE Inv'
<1>a. pc[p] = "provider" /\ UNCHANGED <<reqVars, idpVars, link, todo>> /\ prov[p] = "none"
  BY DEF FindProvider, Inv, Step, Early
<1>b. /\ Mode(p) \in ClientModes
      /\ prov \in [Installs -> {"none", "oidc", "forward-auth", "gone"}]
      /\ app \in [Installs -> Installs \cup {"none", "unbound"}]
  BY <1>a DEF Inv, Step, TypeOK, Loc, Mode
<1>1. ASSUME NEW q \in Installs, SameClient(p, q), Found(p, [loc[p] EXCEPT !.prov = q], "apps")
      PROVE  Inv'
  <2>1. PICK x \in Loc : x = [loc[p] EXCEPT !.prov = q] /\ SameRequest(p, x) /\ x.prov = q
    BY LocEdits DEF Inv
  <2>2. Moves(p, "apps", x)
    BY <1>1, <2>1 DEF Found, Moves, AppPC
  <2>3. /\ pc'[p] = "apps" /\ loc'[p] = x
        /\ \A o \in Installs \ {p} : pc'[o] = pc[o] /\ loc'[o] = loc[o]
    BY <2>2, Moved DEF Inv
  <2>4. Stay /\ \A o \in Installs : Mode(o)' = Mode(o) /\ loc'[o].name = loc[o].name
    BY <1>a, <2>1, <2>3 DEF Stay, Mode, SameRequest, idpVars
  <2>5. Kin(p, q)
    BY <1>b, <1>1 DEF SameClient, Kin, Inv, Step, ClientModes
  <2>6. Kin(p, q)'
    BY <2>4, <2>5, KinStays
  <2>7. Step(p)'
    BY <1>a, <1>b, <2>1, <2>3, <2>6 DEF Step, Early, idpVars
  <2> QED BY <1>a, <1>b, <2>1, <2>2, <2>4, <2>7, IdpAdvance DEF idpVars
<1>2. ASSUME Goto(p, "createProvider") PROVE Inv'
  <2>1. Moves(p, "createProvider", loc[p]) /\ SameRequest(p, loc[p]) /\ loc' = loc
    BY <1>2 DEF Goto, Moves, SameRequest, AppPC, Inv, TypeOK
  <2>2. pc'[p] = "createProvider"
    BY <2>1, Moved DEF Inv
  <2>3. Stay
    BY <1>a, <2>1 DEF Stay, Mode, idpVars
  <2>4. Step(p)'
    BY <1>a, <1>b, <2>1, <2>2 DEF Step, Mode, Early, idpVars
  <2> QED BY <1>a, <1>b, <2>1, <2>3, <2>4, IdpAdvance DEF idpVars
<1> QED BY <1>a, <1>1, <1>2, IdpLeaves DEF FindProvider, IdpError

LEMMA CreateProviderInv == ASSUME Inv, NEW p \in Installs, CreateProvider(p) PROVE Inv'
<1>a. pc[p] = "createProvider" /\ UNCHANGED <<reqVars, app, link, todo>> /\ prov[p] = "none"
  BY DEF CreateProvider, Inv, Step, Early
<1>b. /\ Mode(p) \in ClientModes
      /\ prov \in [Installs -> {"none", "oidc", "forward-auth", "gone"}]
      /\ app \in [Installs -> Installs \cup {"none", "unbound"}]
  BY <1>a DEF Inv, Step, TypeOK, Loc, Mode
<1>1. ASSUME prov' = [prov EXCEPT ![p] = Mode(p)], Found(p, [loc[p] EXCEPT !.prov = p], "apps")
      PROVE  Inv'
  <2>1. PICK x \in Loc : x = [loc[p] EXCEPT !.prov = p] /\ SameRequest(p, x) /\ x.prov = p
    BY LocEdits DEF Inv
  <2>2. Moves(p, "apps", x)
    BY <1>1, <2>1 DEF Found, Moves, AppPC
  <2>3. /\ pc'[p] = "apps" /\ loc'[p] = x
        /\ \A o \in Installs \ {p} : pc'[o] = pc[o] /\ loc'[o] = loc[o]
    BY <2>2, Moved DEF Inv
  <2>4. \A o \in Installs : Mode(o)' = Mode(o) /\ loc'[o].name = loc[o].name
    BY <2>1, <2>3 DEF Mode, SameRequest
  <2>5. /\ prov' \in [Installs -> {"none", "oidc", "forward-auth", "gone"}]
        /\ prov'[p] = Mode(p) /\ \A o \in Installs \ {p} : prov'[o] = prov[o]
    BY <1>b, <1>1 DEF ClientModes
  <2>6. Stay
    BY <1>a, <2>4, <2>5 DEF Stay
  <2>7. Kin(p, p)'
    BY <1>b, <2>4, <2>5 DEF Kin
  <2>8. Step(p)'
    BY <2>1, <2>3, <2>4, <2>5, <2>7 DEF Step, Early
  <2> QED BY <1>a, <1>b, <2>1, <2>2, <2>5, <2>6, <2>8, IdpAdvance
<1> QED BY <1>a, <1>1, IdpLeaves DEF CreateProvider, IdpError, idpVars

LEMMA FindAppInv == ASSUME Inv, NEW p \in Installs, FindApp(p) PROVE Inv'
<1>a. pc[p] = "apps" /\ UNCHANGED <<reqVars, idpVars, link, todo>> /\ Kin(p, loc[p].prov)
  BY DEF FindApp, Inv, Step
<1>b. /\ prov \in [Installs -> {"none", "oidc", "forward-auth", "gone"}]
      /\ app \in [Installs -> Installs \cup {"none", "unbound"}]
      /\ prov[p] \in {"none", "gone", Mode(p)} /\ loc[p].prov \in Installs
  BY <1>a DEF Inv, Step, TypeOK, Kin
<1>1. ASSUME NEW q \in Installs, app[q] = loc[p].prov,
             Found(p, [loc[p] EXCEPT !.app = q], "linkProvider")
      PROVE  Inv'
  <2>1. PICK x \in Loc : /\ x = [loc[p] EXCEPT !.app = q] /\ SameRequest(p, x) /\ x.app = q
                         /\ x.prov = loc[p].prov
    BY LocEdits DEF Inv
  <2>2. Moves(p, "linkProvider", x)
    BY <1>1, <2>1 DEF Found, Moves, AppPC
  <2>3. /\ pc'[p] = "linkProvider" /\ loc'[p] = x
        /\ \A o \in Installs \ {p} : pc'[o] = pc[o] /\ loc'[o] = loc[o]
    BY <2>2, Moved DEF Inv
  <2>4. Stay /\ \A o \in Installs : Mode(o)' = Mode(o) /\ loc'[o].name = loc[o].name
    BY <1>a, <2>1, <2>3 DEF Stay, Mode, SameRequest, idpVars
  <2>5. PICK v : v = loc[p].prov
    OBVIOUS
  <2>6. Kin(p, v)' /\ Front(q, v)'
    BY <1>a, <1>b, <1>1, <2>4, <2>5, KinStays DEF Front, idpVars
  <2>7. Step(p)'
    BY <1>a, <1>b, <2>1, <2>3, <2>4, <2>5, <2>6 DEF Step, Early, idpVars
  <2> QED BY <1>a, <1>b, <2>1, <2>2, <2>4, <2>7, IdpAdvance DEF idpVars
<1>2. ASSUME Goto(p, "createApp") PROVE Inv'
  <2>1. Moves(p, "createApp", loc[p]) /\ SameRequest(p, loc[p]) /\ loc' = loc
    BY <1>2 DEF Goto, Moves, SameRequest, AppPC, Inv, TypeOK
  <2>2. pc'[p] = "createApp"
    BY <2>1, Moved DEF Inv
  <2>3. Stay
    BY <1>a, <2>1 DEF Stay, Mode, idpVars
  <2>4. Step(p)'
    BY <1>a, <1>b, <2>1, <2>2 DEF Step, Mode, Early, Kin, Slugged, idpVars
  <2> QED BY <1>a, <1>b, <2>1, <2>3, <2>4, IdpAdvance DEF idpVars
<1> QED BY <1>a, <1>1, <1>2, IdpLeaves DEF FindApp, IdpError

LEMMA CreateAppInv == ASSUME Inv, NEW p \in Installs, CreateApp(p) PROVE Inv'
<1>a. pc[p] = "createApp" /\ UNCHANGED <<reqVars, prov, link, todo>> /\ Kin(p, loc[p].prov)
  BY DEF CreateApp, Inv, Step
<1>b. /\ prov \in [Installs -> {"none", "oidc", "forward-auth", "gone"}]
      /\ app \in [Installs -> Installs \cup {"none", "unbound"}]
      /\ prov[p] \in {"none", "gone", Mode(p)} /\ loc[p].prov \in Installs
  BY <1>a DEF Inv, Step, TypeOK, Kin
<1>1. ASSUME ~SameSlug(p, p), app' = [app EXCEPT ![p] = loc[p].prov],
             Found(p, [loc[p] EXCEPT !.app = p], "linkProvider")
      PROVE  Inv'
  <2>1. PICK x \in Loc : /\ x = [loc[p] EXCEPT !.app = p] /\ SameRequest(p, x) /\ x.app = p
                         /\ x.prov = loc[p].prov
    BY LocEdits DEF Inv
  <2>2. Moves(p, "linkProvider", x)
    BY <1>1, <2>1 DEF Found, Moves, AppPC
  <2>3. /\ pc'[p] = "linkProvider" /\ loc'[p] = x
        /\ \A o \in Installs \ {p} : pc'[o] = pc[o] /\ loc'[o] = loc[o]
    BY <2>2, Moved DEF Inv
  <2>4. \A o \in Installs : Mode(o)' = Mode(o) /\ loc'[o].name = loc[o].name
    BY <2>1, <2>3 DEF Mode, SameRequest
  <2>5. app[p] = "none" /\ app' \in [Installs -> Installs \cup {"none", "unbound"}]
    BY <1>b, <1>1 DEF SameSlug
  <2>6. Stay
    BY <1>a, <1>b, <1>1, <2>4, <2>5 DEF Stay
  <2>7. PICK v : v = loc[p].prov
    OBVIOUS
  <2>8. Kin(p, v)' /\ Front(p, v)'
    BY <1>a, <1>b, <1>1, <2>4, <2>6, <2>7, KinStays DEF Front
  <2>9. Step(p)'
    BY <1>a, <1>b, <2>1, <2>3, <2>4, <2>7, <2>8 DEF Step, Early
  <2> QED BY <1>a, <1>b, <2>1, <2>2, <2>5, <2>6, <2>9, IdpAdvance
<1> QED BY <1>a, <1>1, IdpLeaves DEF CreateApp, IdpError, idpVars

-----------------------------------------------------------------------------
\* The rows, as the install writes them and as the sync reads them.

LEMMA LinkEdits ==
    ASSUME TypeOK, NEW p \in Installs, NEW t \in Types, NEW r \in Ref,
           link' = [link EXCEPT ![p][t] = r]
    PROVE  /\ link' \in [Installs -> [Types -> Ref]]
           /\ link'[p][t] = r
           /\ \A u \in Types \ {t} : link'[p][u] = link[p][u]
           /\ \A q \in Installs \ {p} : link'[q] = link[q]
BY DEF TypeOK

\* The next id of the install is recorded, or the error ignored.
LEMMA LinkInv == ASSUME Inv, NEW p \in Installs, LinkProvider(p) \/ LinkApp(p) PROVE Inv'
<1>1. PICK t \in Types, l \in {"linkApp", "email"}, id \in {loc[p].prov, loc[p].app} :
          /\ t = "prov" <=> pc[p] = "linkProvider"
          /\ pc[p] = "linkProvider" => l = "linkApp" /\ id = loc[p].prov
          /\ pc[p] # "linkProvider" => pc[p] = "linkApp" /\ l = "email" /\ id = loc[p].app
          /\ Goto(p, l) /\ Link(p, t, id)
  BY DEF LinkProvider, LinkApp, Types
<1>2. UNCHANGED <<reqVars, idpVars, todo>> /\ t \in {"prov", "app"}
  BY DEF LinkProvider, LinkApp, Types
<1>3. /\ Kin(p, loc[p].prov) /\ Front(loc[p].app, loc[p].prov)
      /\ loc[p].prov \in Installs /\ loc[p].app \in Installs
  BY <1>1 DEF Inv, Step, Kin, Front
<1>4. Moves(p, l, loc[p]) /\ loc' = loc
  BY <1>1 DEF Goto, Moves, AppPC, Inv, TypeOK
<1>5. /\ pc'[p] = l /\ pc' \in [Installs -> AppPC]
      /\ \A q \in Installs \ {p} : pc'[q] = pc[q]
  BY <1>4, Moved DEF Inv
<1>6. Stay
  BY <1>2, <1>4 DEF Stay, Mode, idpVars
<1>7. link[p]["app"] = NoRef /\ (t = "prov" => link[p]["prov"] = NoRef)
  BY <1>1 DEF Inv, Linked, Over, Ended
<1>8. PICK r \in Ref : r = [id |-> id, status |-> "active"] /\ r # NoRef /\ r.id = id /\ r.status = "active"
  <2>1. id \in Installs
    BY <1>1, <1>3
  <2>2. PICK s : s = [id |-> id, status |-> "active"]
    OBVIOUS
  <2>3. s \in Ref /\ s.id = id /\ s.status = "active"
    BY <2>1, <2>2 DEF Ref
  <2>4. s # NoRef
    BY <2>3 DEF NoRef
  <2> QED BY <2>2, <2>3, <2>4
<1>9. \/ UNCHANGED link
      \/ /\ link'[p][t] = r /\ link' \in [Installs -> [Types -> Ref]]
         /\ \A u \in Types \ {t} : link'[p][u] = link[p][u]
         /\ \A q \in Installs \ {p} : link'[q] = link[q]
  BY <1>1, <1>8, LinkEdits DEF Link, Inv
<1>10. \A q \in Installs \ {p} : link'[q] = link[q]
  BY <1>9
<1>11. TypeOK'
  BY <1>2, <1>4, <1>5, <1>9 DEF reqVars, idpVars, Inv, TypeOK
<1>12. \A q \in Installs \ {p} : Step(q)' /\ Linked(q)' /\ Asked(q)'
  BY <1>2, <1>4, <1>5, <1>6, <1>10, OthersStay DEF idpVars
<1>13. PICK v, a : v = loc[p].prov /\ a = loc[p].app
  OBVIOUS
<1>14. Kin(p, v)' /\ Front(a, v)'
  BY <1>3, <1>4, <1>6, <1>13, KinStays, FrontStays DEF Mode
<1>15. Step(p)' /\ Asked(p)'
  BY <1>1, <1>2, <1>4, <1>5, <1>13, <1>14 DEF Step, Asked, Early, Mode, idpVars, Inv
<1>16. Linked(p)'
  <2>1. CASE UNCHANGED link
    BY <1>1, <1>4, <1>5, <1>7, <1>13, <1>14, <2>1 DEF Linked, Over, Ended, Inv
  <2>2. CASE link'[p][t] = r /\ \A u \in Types \ {t} : link'[p][u] = link[p][u]
    BY <1>1, <1>2, <1>4, <1>5, <1>7, <1>8, <1>13, <1>14, <2>2 DEF Linked, Over, Ended, Types, Inv
  <2> QED BY <1>9, <2>1, <2>2
<1>17. \A q \in Installs : Holds(q)'
  BY <1>1, <1>2, <1>4, <1>5 DEF Holds, reqVars, idpVars, Inv
<1>18. \A c \in todo : Current(c)'
  <2> SUFFICES ASSUME NEW c \in todo PROVE Current(c)'
    OBVIOUS
  <2>1. c.obj \in Installs /\ c.type \in Types /\ Current(c)
    BY DEF Inv, TypeOK, Check
  <2>2. CASE c.obj # p
    BY <1>2, <1>4, <1>10, <2>1, <2>2 DEF Current, Mode, idpVars
  <2>3. CASE c.obj = p
    <3>1. t = "app" /\ c.type = "prov"
      BY <1>2, <1>7, <2>1, <2>3 DEF Current, Types
    <3>2. link'[p]["prov"] = link[p]["prov"]
      BY <1>9, <3>1 DEF Types
    <3> QED BY <1>2, <1>4, <2>1, <2>3, <3>1, <3>2 DEF Current, Mode, idpVars
  <2> QED BY <2>2, <2>3
<1>19. FailedOnlyIfGone'
  <2> SUFFICES ASSUME NEW q \in Installs, NEW u \in Types, Mode(q)' = "oidc",
                      link'[q][u].status = "failed", link'[q]["prov"] # NoRef
               PROVE  prov'[link'[q]["prov"].id] = "gone"
    BY DEF FailedOnlyIfGone
  <2>1. Mode(q) = "oidc" /\ prov' = prov
    BY <1>2, <1>4 DEF Mode, idpVars
  <2>2. CASE link'[q] = link[q]
    BY <2>1, <2>2 DEF FailedOnlyIfGone, Inv
  <2>3. CASE q = p /\ t = "app" /\ link'[p][t] = r /\ \A w \in Types \ {t} : link'[p][w] = link[p][w]
    BY <1>8, <2>1, <2>3 DEF FailedOnlyIfGone, Inv, Types
  <2>4. CASE q = p /\ t = "prov" /\ link'[p][t] = r /\ \A w \in Types \ {t} : link'[p][w] = link[p][w]
    BY <1>7, <1>8, <2>4 DEF Types, NoRef
  <2> QED BY <1>2, <1>9, <2>2, <2>3, <2>4
<1> QED BY <1>2, <1>11, <1>12, <1>15, <1>16, <1>17, <1>18, <1>19 DEF Inv

LEMMA SyncInv == ASSUME Inv, SyncExternal \/ SkipRow \/ CheckRow PROVE Inv'
<1>1. UNCHANGED <<reqVars, idpVars, link, pc, loc>>
  BY DEF SyncExternal, SkipRow, CheckRow
<1>2. \A c \in todo' : c \in Check /\ Current(c)
  <2>1. CASE SkipRow
    BY <2>1 DEF SkipRow, NextRow, Inv, TypeOK
  <2>2. CASE SyncExternal
    <3> SUFFICES ASSUME NEW p \in Installs, NEW t \in Types, NEW c, c = Listed(p, t),
                        link[c.obj][c.type] # NoRef
                 PROVE  c \in Check /\ Current(c)
      BY <2>2 DEF SyncExternal
    <3>1. Linked(p) /\ link[p]["prov"] \in Ref /\ link[p]["app"] \in Ref
      BY DEF Inv, TypeOK, Types
    <3>2. c.obj = p /\ c.type = t /\ t \in {"prov", "app"}
      BY DEF Listed, Types
    <3>3. CASE link[p]["prov"] # NoRef
      <4>1. /\ c = [obj |-> p, type |-> t, ask |-> "prov", id |-> link[p]["prov"].id,
                  answer |-> {}]
            /\ link[p]["prov"].id \in Installs
        BY <3>1, <3>3 DEF Listed, Linked, Kin
      <4> QED BY <3>2, <4>1 DEF Check, Current, Types
    <3>4. CASE link[p]["prov"] = NoRef
      <4>1. t = "app" /\ link[p]["app"].id \in Installs
        BY <3>1, <3>2, <3>4 DEF Linked, Front
      <4>2. c = [obj |-> p, type |-> t, ask |-> t, id |-> link[p]["app"].id, answer |-> {}]
        BY <3>4, <4>1 DEF Listed
      <4> QED BY <3>2, <3>4, <4>1, <4>2 DEF Check, Current, Types
    <3> QED BY <3>3, <3>4
  <2>3. CASE CheckRow
    <3>1. PICK c \in todo, ok \in BOOLEAN : /\ ok \in ResourceExists(c)
                                         /\ todo' = (todo \ {c}) \cup {[c EXCEPT !.answer = {ok}]}
      BY <2>3 DEF CheckRow, NextRow, ResourceExists
    <3>2. PICK d : d = [c EXCEPT !.answer = {ok}]
      OBVIOUS
    <3>3. c \in Check /\ Current(c)
      BY DEF Inv, TypeOK
    <3>4. /\ d \in Check /\ d.obj = c.obj /\ d.type = c.type /\ d.ask = c.ask /\ d.id = c.id
          /\ d.answer = {ok}
      BY <3>2, <3>3 DEF Check
    <3>5. ASSUME ~ok, link[c.obj]["prov"] # NoRef, Mode(c.obj) = "oidc" PROVE prov[c.id] = "gone"
      <4>1. c.ask = "prov" /\ c.obj \in Installs /\ c.id = link[c.obj]["prov"].id
        BY <3>3, <3>5 DEF Current, Check
      <4>2. prov[c.id] \in {"oidc", "gone"}
        BY <3>5, <4>1 DEF Linked, Kin, Inv
      <4> QED BY <3>1, <3>5, <4>1, <4>2 DEF ResourceExists
    <3>6. Current(d)
      BY <3>3, <3>4, <3>5 DEF Current
    <3> QED BY <3>1, <3>2, <3>4, <3>6 DEF Inv, TypeOK
  <2> QED BY <2>1, <2>2, <2>3
<1>3. TypeOK'
  BY <1>1, <1>2 DEF reqVars, idpVars, Inv, TypeOK
<1>4. \A c \in todo' : Current(c)'
  BY <1>1, <1>2 DEF Current, Mode, idpVars
<1>5. FailedOnlyIfGone'
  BY <1>1 DEF FailedOnlyIfGone, Mode, idpVars, Inv
<1>6. \A p \in Installs : Asked(p)' /\ Step(p)' /\ Linked(p)' /\ Holds(p)'
  BY <1>1 DEF Asked, Step, Linked, Holds, Kin, Front, Mode, Slugged, reqVars, idpVars, Inv
<1> QED BY <1>3, <1>4, <1>5, <1>6 DEF Inv

LEMMA SetExternalObservedInv ==
    ASSUME Inv, NEW p \in Installs, NEW t \in Types, SetExternalObserved(p, t) PROVE Inv'
<1>1. PICK c \in todo, ok \in BOOLEAN :
          /\ ok \in c.answer /\ c.obj = p /\ c.type = t
          /\ link' = [link EXCEPT ![p][t].status = IF ok THEN "active" ELSE "failed"]
          /\ todo' = todo \ {c}
          /\ UNCHANGED <<reqVars, idpVars, pc, loc>>
  BY DEF SetExternalObserved, NextRow, Inv, TypeOK, Check
<1>2. Current(c) /\ link[p][t] # NoRef /\ link[p][t] \in Ref
  BY <1>1 DEF Current, Inv, TypeOK
<1>3. PICK st : st = (IF ok THEN "active" ELSE "failed")
  OBVIOUS
<1>4. PICK r \in Ref : /\ r = [link[p][t] EXCEPT !.status = st] /\ r.id = link[p][t].id
                       /\ r.status = st /\ r # NoRef
  <2>1. PICK s : s = [link[p][t] EXCEPT !.status = st]
    OBVIOUS
  <2>2. s \in Ref /\ s.id = link[p][t].id /\ s.status = st
    BY <1>2, <1>3, <2>1 DEF Ref
  <2>3. s # NoRef
    BY <1>3, <2>2 DEF NoRef
  <2> QED BY <2>1, <2>2, <2>3
<1>5. link' = [link EXCEPT ![p][t] = r]
  BY <1>1, <1>3, <1>4
<1>6. /\ link' \in [Installs -> [Types -> Ref]]
      /\ link'[p][t] = r
      /\ \A u \in Types \ {t} : link'[p][u] = link[p][u]
      /\ \A q \in Installs \ {p} : link'[q] = link[q]
  BY <1>4, <1>5, LinkEdits DEF Inv
<1>7. \A q \in Installs, u \in Types :
          /\ link'[q][u].id = link[q][u].id
          /\ link'[q][u] = NoRef => link[q][u] = NoRef
          /\ link[q][u] = NoRef => link'[q][u] = NoRef
  BY <1>2, <1>4, <1>6
<1>8. Stay
  BY <1>1 DEF Stay, Mode, idpVars
<1>9. \A q \in Installs : Step(q)' /\ Linked(q)' /\ Asked(q)'
  BY <1>1, <1>7, <1>8, OthersStay DEF idpVars, Types
<1>10. \A q \in Installs : Holds(q)'
  BY <1>1 DEF Holds, reqVars, idpVars, Inv
<1>11. TypeOK'
  BY <1>1, <1>6 DEF reqVars, idpVars, Inv, TypeOK
<1>12. \A d \in todo' : Current(d)'
  <2> SUFFICES ASSUME NEW d \in todo PROVE Current(d)'
    BY <1>1
  <2>1. d.obj \in Installs /\ d.type \in Types /\ Current(d)
    BY DEF Inv, TypeOK, Check
  <2>2. PICK q \in Installs, u \in Types, v \in Types : q = d.obj /\ u = d.type /\ v = "prov"
    BY <2>1 DEF Types
  <2>3. link'[q][v].id = link[q][v].id /\ (link'[q][v] = NoRef => link[q][v] = NoRef)
    BY <1>7
  <2>4. link[q][v] = NoRef => link'[q][v] = NoRef
    BY <1>7
  <2>5. link'[q][u] = NoRef => link[q][u] = NoRef
    BY <1>7
  <2> QED BY <1>1, <2>1, <2>2, <2>3, <2>4, <2>5 DEF Current, Mode, idpVars
<1>13. FailedOnlyIfGone'
  <2> SUFFICES ASSUME NEW q \in Installs, NEW u \in Types, Mode(q)' = "oidc",
                      link'[q][u].status = "failed", link'[q]["prov"] # NoRef
               PROVE  prov'[link'[q]["prov"].id] = "gone"
    BY DEF FailedOnlyIfGone
  <2>1. /\ Mode(q) = "oidc" /\ prov' = prov /\ link[q]["prov"] # NoRef
        /\ link'[q]["prov"].id = link[q]["prov"].id
    BY <1>1, <1>7 DEF Mode, idpVars, Types
  <2>2. CASE link'[q][u] = link[q][u]
    BY <2>1, <2>2 DEF FailedOnlyIfGone, Inv
  <2>3. CASE q = p /\ u = t
    <3>1. ~ok
      BY <1>3, <1>4, <1>6, <2>3
    <3> QED BY <1>1, <1>2, <2>1, <2>3, <3>1 DEF Current
  <2> QED BY <1>6, <2>2, <2>3
<1> QED BY <1>9, <1>10, <1>11, <1>12, <1>13 DEF Inv

-----------------------------------------------------------------------------
\* The rest of the platform and of authentik, and the whole.

LEMMA DeleteInv == ASSUME Inv, DeleteDomain \/ DeleteOrganization PROVE Inv'
<1>1. UNCHANGED <<smtp, idpVars, link, pc, loc, todo>>
  BY DEF DeleteDomain, DeleteOrganization
<1>2. Stay
  BY <1>1 DEF Stay, Mode, idpVars
<1>3. \A q \in Installs : Step(q)' /\ Linked(q)' /\ Asked(q)'
  BY <1>1, <1>2, OthersStay DEF idpVars
<1>4. Rows'
  BY <1>1, <1>2, RowsStay DEF Mode
<1>5. TypeOK'
  BY <1>1 DEF DeleteDomain, DeleteOrganization, idpVars, Inv, TypeOK
<1>6. \A q \in Installs : Holds(q)'
  <2>1. CASE DeleteDomain
    BY <1>1, <2>1 DEF DeleteDomain, Holds, idpVars, Inv
  <2>2. CASE DeleteOrganization
    <3>1. PICK o \in orgs : /\ orgs' = orgs \ {o}
                            /\ bound' = [h \in Hosts |-> IF bound[h] \in {p \in Installs : loc[p].org = o}
                                                        THEN None ELSE bound[h]]
      BY <2>2 DEF DeleteOrganization
    <3> SUFFICES ASSUME NEW q \in Installs, loc[q].org \in orgs', pc[q] # "start",
                        prov[q] # "none" \/ pc[q] \in {"provider", "createProvider"}
                 PROVE  bound'[loc[q].host] = q
      BY <1>1 DEF Holds, idpVars, Inv, Step, Early
    <3>2. bound[loc[q].host] = q /\ loc[q].host \in Hosts /\ loc[q].org # o
      BY <3>1 DEF Inv, Holds, Asked
    <3> QED BY <3>1, <3>2
  <2> QED BY <2>1, <2>2
<1> QED BY <1>3, <1>4, <1>5, <1>6 DEF Inv, Rows

LEMMA ProviderLostInv == ASSUME Inv, ProviderLost PROVE Inv'
<1>1. PICK v \in Installs : /\ prov[v] \in {"oidc", "forward-auth"}
                            /\ prov' = [prov EXCEPT ![v] = "gone"]
                            /\ app' = [p \in Installs |-> IF app[p] = v THEN "unbound" ELSE app[p]]
                            /\ UNCHANGED <<reqVars, link, pc, loc, todo>>
  BY DEF ProviderLost
<1>2. \A q \in Installs : prov'[q] = IF q = v THEN "gone" ELSE prov[q]
  BY <1>1 DEF Inv, TypeOK
<1>3. Stay
  BY <1>1, <1>2 DEF Stay, Mode
<1>4. \A q \in Installs : Step(q)' /\ Linked(q)' /\ Asked(q)'
  BY <1>1, <1>2, <1>3, OthersStay
<1>5. Rows'
  BY <1>1, <1>3, RowsStay DEF Mode
<1>6. TypeOK'
  BY <1>1 DEF reqVars, Inv, TypeOK
<1>7. \A q \in Installs : Holds(q)'
  BY <1>1, <1>2 DEF Holds, reqVars, Inv
<1> QED BY <1>4, <1>5, <1>6, <1>7 DEF Inv, Rows

LEMMA NextInv == Inv /\ [Next]_vars => Inv'
<1> SUFFICES ASSUME Inv, [Next]_vars PROVE Inv'
  OBVIOUS
<1>1. ASSUME NEW p \in Installs, InstallStep(p) PROVE Inv'
  BY <1>1, StartInstallInv, CreateApplicationInstanceInv, AddInstanceHostnameInv, FindProviderInv,
     CreateProviderInv, FindAppInv, CreateAppInv, LinkInv, ClosingInv DEF InstallStep
<1>2. CASE WorkerStep
  BY <1>2, SyncInv, SetExternalObservedInv DEF WorkerStep
<1>3. CASE UNCHANGED vars
  <2>1. Stay
    BY <1>3 DEF vars, Stay, Mode
  <2>2. Rows'
    BY <1>3, <2>1, RowsStay DEF vars, Mode
  <2>3. \A q \in Installs : Step(q)' /\ Linked(q)' /\ Asked(q)' /\ Holds(q)'
    BY <1>3, <2>1, OthersStay DEF vars, Holds, Inv
  <2> QED BY <1>3, <2>2, <2>3 DEF vars, Inv, TypeOK, Rows
<1> QED BY <1>1, <1>2, <1>3, DeleteInv, ProviderLostInv DEF Next

LEMMA Invariance == Spec => []Inv
BY InitInv, NextInv, PTL DEF Spec

(***************************************************************************)
(* Instances, hostnames, providers, applications and the rows about them   *)
(* have their types, whatever installs and syncs overlap and fail.         *)
(***************************************************************************)
THEOREM AppsTyped == Spec => []TypeOK
BY Invariance, PTL DEF Inv

(***************************************************************************)
(* The provider and application recorded for an instance belong together   *)
(* and to it, however many installs under equal names and slugs look up    *)
(* and create them in turns, fail half way or are repeated.                *)
(***************************************************************************)
THEOREM LinksAlwaysMatch == Spec => []LinksMatch
<1>1. Inv => LinksMatch
  <2> SUFFICES ASSUME Inv, NEW p \in Installs, NEW v, NEW a,
                      v = link[p]["prov"].id, a = link[p]["app"].id
               PROVE  /\ v # None => /\ prov[v] \in {Mode(p), "gone"} /\ Mode(v) = Mode(p)
                                     /\ IF Mode(p) = "oidc" THEN Slugged(v) = Slugged(p)
                                                            ELSE loc[v].name = loc[p].name
                      /\ a # None /\ v # None => app[a] \in {v, "unbound"}
    BY DEF LinksMatch
  <2> QED BY DEF Inv, Linked, Kin, Front, NoRef
<1> QED BY <1>1, Invariance, PTL

(***************************************************************************)
(* Whoever created a client holds its hostname while its organization      *)
(* exists: an install refused for its hostname never reaches authentik.    *)
(***************************************************************************)
THEOREM ClientsAlwaysHold == Spec => []ClientsHoldTheirHostname
<1>1. Inv => ClientsHoldTheirHostname
  BY DEF Inv, Holds, ClientsHoldTheirHostname
<1> QED BY <1>1, Invariance, PTL

(***************************************************************************)
(* The sync condemns no OIDC client that authentik still has, however old  *)
(* the list it works from.                                                 *)
(***************************************************************************)
THEOREM SyncIsTruthful == Spec => []FailedOnlyIfGone
BY Invariance, PTL DEF Inv
=============================================================================
