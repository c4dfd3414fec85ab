----------------------------- MODULE SetupProofs ----------------------------
(***************************************************************************)
(* Proofs about Setup for any number of requests, domains, organizations,  *)
(* restarts and faults.                                                    *)
(***************************************************************************)
EXTENDS Setup, TLAPS

-----------------------------------------------------------------------------
\* The inductive invariant.

Creators == {"createDomain", "setup"}
Checkers == {"verifySetup", "poll"}
Before == {"start", "org", "owner", "insert"}

\* The row of request r was inserted, or never will be: no request inserts twice.
Inserted(r) == Op[r] \in Creators /\ pc[r] \notin Before

\* What a process p at label l with locals x may rely on.
At(p, l, x) ==
    /\ l \in {"org", "owner", "provider", "primary"} => Op[p] = "setup"
    /\ l \in {"insert", "setTXT"} => Op[p] \in Creators
    /\ l \in {"org", "owner", "insert", "setTXT"} => x.org \in AllOrgs /\ x.fqdn \in Fqdns
    /\ l \in {"runVerify", "getDomain", "onboard"} => Op[p] \in Checkers
    /\ l \in {"lookup", "status"} => Op[p] \in Checkers \cup {"verifyDomain"}
    /\ l \in {"getDomain", "lookup", "status", "onboard"} =>
          /\ x.row \in Procs
          /\ Op[p] \in Checkers => Op[x.row] = "setup"
    /\ l \in {"status", "onboard"} => x.row \in zone
    /\ l \in {"count", "delete"} => x.row \in Procs
    /\ l = "bind" => /\ x.row \in Procs /\ x.name \in Names
                     /\ Inserted(x.row)
                     /\ dom[x.row] # NoDomain => dom[x.row].status = "verified"

EveryoneAt == \A p \in Procs : At(p, pc[p], loc[p])
RowsInserted == \A r \in Procs : dom[r] # NoDomain => Inserted(r)
PrimaryFromSetup == primary # None => Op[primary] = "setup"

(***************************************************************************)
(* The properties speak of rows; the steps that write them act on what a   *)
(* process read earlier.  EveryoneAt carries that reading forward: the     *)
(* token was seen, the domain was verified when the hostname was asked     *)
(* for, and no request can bring its row back as a pending one.            *)
(***************************************************************************)
Safe ==
    /\ EveryoneAt
    /\ RowsInserted
    /\ PrimaryFromSetup
    /\ VerifiedByOwnToken
    /\ HostnamesVerified
    /\ OnboardedByProof

Inv == TypeOK /\ Safe

LEMMA InitInv == Init => Inv
<1> SUFFICES ASSUME Init PROVE Inv
  OBVIOUS
<1>1. NoLoc \in Loc
  BY DEF NoLoc, Loc
<1>2. TypeOK
  <2>1. orgs \subseteq AllOrgs /\ hosts = {} /\ zone = {} /\ owned = {}
    BY DEF Init, DomainsInit, AllOrgs
  <2>2. dom \in [Procs -> Row \cup {NoDomain}] /\ loc \in [Procs -> Loc]
    BY <1>1 DEF Init, DomainsInit
  <2>3. pc \in [Procs -> DomainPC] /\ choice \in [Procs -> Choices \cup {None}]
    BY DEF Init, DomainsInit, DomainPC
  <2>4. loaded \in Loadable /\ provider \in Loadable /\ primary = None /\ onboarded = FALSE
    BY DomainsAssumption DEF Init, DomainsInit, Loadable
  <2>5. restarts \in 0..MaxRestarts
    BY SetupAssumption DEF Init
  <2> QED BY <2>1, <2>2, <2>3, <2>4, <2>5 DEF TypeOK, DomainsTypeOK
<1>3. EveryoneAt
  BY DEF Init, DomainsInit, EveryoneAt, At
<1>4. RowsInserted /\ PrimaryFromSetup /\ OnboardedByProof
  BY DEF Init, DomainsInit, RowsInserted, PrimaryFromSetup, OnboardedByProof
<1>5. VerifiedByOwnToken /\ HostnamesVerified
  BY DEF Init, DomainsInit, VerifiedByOwnToken, HostnamesVerified, Rows
<1> QED BY <1>2, <1>3, <1>4, <1>5 DEF Inv, Safe

-----------------------------------------------------------------------------
\* What a step of one process leaves to the others.

Onward ==
    /\ \A r \in Procs : Inserted(r) => Inserted(r)'
    /\ zone \subseteq zone'
    /\ \A r \in Procs : Inserted(r) /\ dom'[r] # NoDomain =>
          dom[r] # NoDomain /\ (dom[r].status = "verified" => dom'[r].status = "verified")

LEMMA OnwardKeeps ==
    ASSUME Onward, NEW p \in Procs, NEW l, NEW x, At(p, l, x)
    PROVE  At(p, l, x)'
BY DEF Onward, At

\* A step of p to label l with locals x.
Moves(p, l, x) ==
    /\ pc' = [pc EXCEPT ![p] = l]
    /\ loc' = [loc EXCEPT ![p] = x]
    /\ l \in Before => pc[p] \in Before \/ Op[p] \notin Creators

LEMMA MovesKeepInserted ==
    ASSUME TypeOK, NEW p \in Procs, NEW l, NEW x, Moves(p, l, x)
    PROVE  \A r \in Procs : Inserted(r) => Inserted(r)'
BY DEF TypeOK, DomainsTypeOK, Moves, Inserted

LEMMA MovesKeepEveryone ==
    ASSUME TypeOK, EveryoneAt, Onward, NEW p \in Procs, NEW l, NEW x, Moves(p, l, x), At(p, l, x)'
    PROVE  EveryoneAt'
<1> SUFFICES ASSUME NEW q \in Procs PROVE At(q, pc[q], loc[q])'
  BY DEF EveryoneAt
<1>1. PICK m, y : m = pc'[q] /\ y = loc'[q]
  OBVIOUS
<1>2. At(q, m, y)'
  <2>1. CASE q = p
    BY <1>1, <2>1 DEF Moves, TypeOK, DomainsTypeOK
  <2>2. CASE q # p
    <3>1. m = pc[q] /\ y = loc[q]
      BY <1>1, <2>2 DEF Moves, TypeOK, DomainsTypeOK
    <3>2. At(q, m, y)
      BY <3>1 DEF EveryoneAt
    <3> QED BY <3>2, OnwardKeeps
  <2> QED BY <2>1, <2>2
<1> QED BY <1>1, <1>2

\* Most steps move one process and leave rows and hostnames alone.
LEMMA Advance ==
    ASSUME Inv, UNCHANGED <<dom, hosts, primary, onboarded>>, zone \subseteq zone',
           NEW p \in Procs, NEW l, NEW x, Moves(p, l, x), At(p, l, x)
    PROVE  Safe'
<1>1. Onward
  BY MovesKeepInserted DEF Onward, Inv
<1>2. At(p, l, x)'
  BY <1>1, OnwardKeeps
<1>3. EveryoneAt'
  BY <1>1, <1>2, MovesKeepEveryone DEF Inv, Safe
<1>4. RowsInserted'
  BY <1>1 DEF RowsInserted, Inv, Safe, Onward
<1> QED
  BY <1>3, <1>4 DEF Inv, Safe, PrimaryFromSetup, VerifiedByOwnToken, HostnamesVerified,
                    OnboardedByProof, Rows

\* Goto leaves the locals alone.
LEMMA GotoMoves ==
    ASSUME TypeOK, NEW p \in Procs, NEW l, Goto(p, l),
           l \in Before => pc[p] \in Before \/ Op[p] \notin Creators
    PROVE  Moves(p, l, loc[p])
BY DEF TypeOK, DomainsTypeOK, Goto, Moves

LEMMA EnterMoves ==
    ASSUME TypeOK, NEW p \in Procs, NEW l, NEW x, Enter(p, l, x),
           l \in Before => pc[p] \in Before \/ Op[p] \notin Creators
    PROVE  Moves(p, l, x)
BY DEF Enter, Moves

-----------------------------------------------------------------------------
\* The steps of Domains that write no row.

LEMMA NewLocs ==
    /\ \A o \in AllOrgs, f \in Fqdns : [NoLoc EXCEPT !.org = o, !.fqdn = f] \in Loc
    /\ \A r \in Procs : On(r) \in Loc
    /\ \A r \in Procs, n \in Names : [On(r) EXCEPT !.name = n] \in Loc
BY DEF NoLoc, Loc, On

LEMMA Rest ==
    ASSUME TypeOK, NEW p \in Procs, NEW l \in DomainPC, NEW x \in Loc,
           pc' = [pc EXCEPT ![p] = l], loc' = [loc EXCEPT ![p] = x]
    PROVE  pc' \in [Procs -> DomainPC] /\ loc' \in [Procs -> Loc]
BY DEF TypeOK, DomainsTypeOK

LEMMA AdmitSafe ==
    ASSUME Inv, NEW p \in Procs, NEW op, NEW l \in DomainPC, NEW x \in Loc,
           Admit(p, op, l, x), Op[p] = op => At(p, l, x), UNCHANGED <<primary, onboarded>>
    PROVE  Safe' /\ pc' \in [Procs -> DomainPC] /\ loc' \in [Procs -> Loc]
<1>1. Moves(p, l, x)
  BY DEF Admit, Enter, Moves, Before
<1> QED
  BY <1>1, Advance, Rest DEF Admit, Moves, domVars, Inv

LEMMA GotoSafe ==
    ASSUME Inv, NEW p \in Procs, NEW l \in DomainPC, Goto(p, l), At(p, l, loc[p]),
           l \in Before => pc[p] \in Before \/ Op[p] \notin Creators,
           UNCHANGED <<dom, hosts, primary, onboarded>>, zone \subseteq zone'
    PROVE  Safe' /\ pc' \in [Procs -> DomainPC] /\ loc' \in [Procs -> Loc]
<1>1. loc[p] \in Loc
  BY DEF Inv, TypeOK, DomainsTypeOK
<1>2. Moves(p, l, loc[p])
  BY GotoMoves DEF Inv
<1> QED
  BY <1>1, <1>2, Advance, Rest DEF Moves, Inv

\* A label that promises nothing.
LEMMA EndedAt == ASSUME NEW p \in Procs, NEW x, NEW l \in Ended \cup {"start"} PROVE At(p, l, x)
BY DEF At, Ended

LEMMA FinishSafe ==
    ASSUME Inv, NEW p \in Procs, NEW l \in Ended, Finish(p, l),
           UNCHANGED <<dom, hosts, primary, onboarded>>, zone \subseteq zone'
    PROVE  Safe' /\ pc' \in [Procs -> DomainPC] /\ loc' \in [Procs -> Loc]
<1>1. PICK m : m = (IF Op[p] = "poll" THEN "start" ELSE l)
  OBVIOUS
<1>2. m \in Ended \cup {"start"} /\ m \in DomainPC
  BY <1>1 DEF Ended, DomainPC
<1>3. m \in Before => Op[p] \notin Creators
  BY <1>1 DEF Before, Ended, Creators
<1>4. Goto(p, m)
  BY <1>1 DEF Finish
<1> QED
  BY <1>2, <1>3, <1>4, EndedAt, GotoSafe

LEMMA DomainQuiet ==
    ASSUME Inv, NEW p \in Procs, UNCHANGED <<instVars, choice>>, UNCHANGED <<loaded, restarts>>,
           \/ StartCreateDomain(p) \/ SetTXT(p) \/ StartVerifyDomain(p) \/ TXTLookup(p)
           \/ StartAddHostname(p) \/ StartDeleteDomain(p) \/ CountHostnames(p) \/ Abort(p)
    PROVE  Inv'
<1> DEFINE Fine == Safe' /\ pc' \in [Procs -> DomainPC] /\ loc' \in [Procs -> Loc]
<1>a. pc[p] \in DomainPC /\ At(p, pc[p], loc[p])
  BY DEF Inv, TypeOK, DomainsTypeOK, Safe, EveryoneAt
<1>b. orgs \subseteq AllOrgs
  BY DEF Inv, TypeOK, DomainsTypeOK
<1>c. UNCHANGED <<primary, onboarded>>
  BY DEF instVars
<1>1. CASE StartCreateDomain(p)
  <2>1. PICK o \in orgs, f \in Fqdns :
            Admit(p, "createDomain", "insert", [NoLoc EXCEPT !.org = o, !.fqdn = f])
    BY <1>1 DEF StartCreateDomain
  <2>2. PICK x \in Loc : x = [NoLoc EXCEPT !.org = o, !.fqdn = f] /\ x.org = o /\ x.fqdn = f
    BY <1>b, NewLocs DEF NoLoc
  <2>3. Op[p] = "createDomain" => At(p, "insert", x)
    BY <1>b, <2>2 DEF At, Creators
  <2>4. Fine
    BY <1>c, <2>1, <2>2, <2>3, AdmitSafe DEF DomainPC
  <2> QED BY <2>1, <2>4 DEF Admit, domVars, instVars, Inv, TypeOK, DomainsTypeOK
<1>2. CASE SetTXT(p)
  <2>1. PICK m : m = (IF Op[p] = "setup" THEN "provider" ELSE "done")
    OBVIOUS
  <2>2. Goto(p, m) /\ m \in DomainPC \ Before /\ At(p, m, loc[p])
    BY <1>2, <2>1 DEF SetTXT, DomainPC, Before, At
  <2>3. zone' \subseteq Procs /\ zone \subseteq zone' /\ UNCHANGED <<orgs, dom, hosts>>
    BY <1>2 DEF SetTXT, Inv, TypeOK, DomainsTypeOK
  <2>4. Fine
    BY <1>c, <2>2, <2>3, GotoSafe
  <2> QED BY <2>3, <2>4 DEF instVars, Inv, TypeOK, DomainsTypeOK
<1>3. CASE StartVerifyDomain(p)
  <2>1. PICK r \in Procs : Admit(p, "verifyDomain", "lookup", On(r))
    BY <1>3 DEF StartVerifyDomain, Rows
  <2>2. Op[p] = "verifyDomain" => At(p, "lookup", On(r))
    BY DEF At, On, NoLoc, Checkers
  <2>3. Fine
    BY <1>c, <2>1, <2>2, NewLocs, AdmitSafe DEF DomainPC
  <2> QED BY <2>1, <2>3 DEF Admit, domVars, instVars, Inv, TypeOK, DomainsTypeOK
<1>4. CASE TXTLookup(p)
  <2>1. UNCHANGED domVars
    BY <1>4 DEF TXTLookup
  <2>2. ASSUME loc[p].row \in zone, Goto(p, "status") PROVE Fine
    <3>1. At(p, "status", loc[p])
      BY <1>4, <1>a, <2>2 DEF At, TXTLookup
    <3> QED BY <1>c, <2>1, <2>2, <3>1, GotoSafe DEF DomainPC, Before, domVars
  <2>3. ASSUME Finish(p, "done") PROVE Fine
    BY <1>c, <2>1, <2>3, FinishSafe DEF Ended, domVars
  <2>4. Fine
    BY <1>4, <2>2, <2>3 DEF TXTLookup
  <2> QED BY <2>1, <2>4 DEF domVars, instVars, Inv, TypeOK, DomainsTypeOK
<1>5. CASE StartAddHostname(p)
  <2>1. PICK r \in Rows, n \in Names :
            /\ dom[r].status = "verified"
            /\ Admit(p, "addHostname", "bind", [On(r) EXCEPT !.name = n])
    BY <1>5 DEF StartAddHostname
  <2>2. r \in Procs /\ Inserted(r)
    BY DEF Rows, Inv, Safe, RowsInserted
  <2>3. PICK x \in Loc : x = [On(r) EXCEPT !.name = n] /\ x.row = r /\ x.name = n
    BY <2>2, NewLocs DEF On, NoLoc
  <2>4. At(p, "bind", x)
    BY <2>1, <2>2, <2>3 DEF At
  <2>5. Fine
    BY <1>c, <2>1, <2>3, <2>4, AdmitSafe DEF DomainPC
  <2> QED BY <2>1, <2>5 DEF Admit, domVars, instVars, Inv, TypeOK, DomainsTypeOK
<1>6. CASE StartDeleteDomain(p)
  <2>1. PICK r \in Procs : Admit(p, "deleteDomain", "count", On(r))
    BY <1>6 DEF StartDeleteDomain, Rows
  <2>2. At(p, "count", On(r))
    BY DEF At, On, NoLoc
  <2>3. Fine
    BY <1>c, <2>1, <2>2, NewLocs, AdmitSafe DEF DomainPC
  <2> QED BY <2>1, <2>3 DEF Admit, domVars, instVars, Inv, TypeOK, DomainsTypeOK
<1>7. CASE CountHostnames(p)
  <2>1. PICK m : m = (IF \E h \in hosts : h[1] = loc[p].row THEN "failed" ELSE "delete")
    OBVIOUS
  <2>2. Goto(p, m) /\ m \in DomainPC \ Before /\ At(p, m, loc[p])
    BY <1>7, <1>a, <2>1 DEF CountHostnames, DomainPC, Before, At
  <2>3. Fine
    BY <1>7, <1>c, <2>2, GotoSafe DEF CountHostnames, domVars
  <2> QED BY <1>7, <2>3 DEF CountHostnames, domVars, instVars, Inv, TypeOK, DomainsTypeOK
<1>8. CASE Abort(p)
  <2>1. Fine
    BY <1>8, <1>c, FinishSafe DEF Abort, Ended, domVars
  <2> QED BY <1>8, <2>1 DEF Abort, domVars, instVars, Inv, TypeOK, DomainsTypeOK
<1> QED BY <1>1, <1>2, <1>3, <1>4, <1>5, <1>6, <1>7, <1>8

-----------------------------------------------------------------------------
\* The steps that write rows and hostnames.

LEMMA CreateDomainInv ==
    ASSUME Inv, NEW p \in Procs, CreateDomain(p), UNCHANGED <<instVars, choice>>,
           UNCHANGED <<loaded, restarts>>
    PROVE  Inv'
<1>a. At(p, "insert", loc[p]) /\ pc[p] = "insert" /\ UNCHANGED <<primary, onboarded>>
  BY DEF CreateDomain, Inv, Safe, EveryoneAt, instVars
<1>b. UNCHANGED <<orgs, hosts, zone>>
  BY DEF CreateDomain
<1>1. CASE Goto(p, "failed") /\ UNCHANGED dom
  <2>1. Safe' /\ pc' \in [Procs -> DomainPC] /\ loc' \in [Procs -> Loc]
    BY <1>a, <1>b, <1>1, EndedAt, GotoSafe DEF Ended, DomainPC, Before
  <2> QED BY <1>b, <1>1, <2>1 DEF instVars, Inv, TypeOK, DomainsTypeOK
<1>2. ASSUME NEW row \in Row, row.status = "pending", dom' = [dom EXCEPT ![p] = row],
             Goto(p, "setTXT")
      PROVE  Inv'
  <2>1. Moves(p, "setTXT", loc[p]) /\ loc[p] \in Loc
    BY <1>2, GotoMoves DEF Before, Inv, TypeOK, DomainsTypeOK
  <2>2. pc' \in [Procs -> DomainPC] /\ loc' \in [Procs -> Loc]
    BY <2>1, Rest DEF Moves, DomainPC, Inv
  <2>3. dom' \in [Procs -> Row \cup {NoDomain}]
    BY <1>2 DEF Inv, TypeOK, DomainsTypeOK
  <2>4. TypeOK'
    BY <1>b, <2>2, <2>3 DEF instVars, Inv, TypeOK, DomainsTypeOK
  <2>5. dom[p] = NoDomain /\ ~Inserted(p)
    BY <1>a DEF Inserted, Before, Inv, Safe, RowsInserted
  <2>6. \A r \in Procs : dom'[r] = IF r = p THEN row ELSE dom[r]
    BY <1>2 DEF Inv, TypeOK, DomainsTypeOK
  <2>7. Onward
    BY <1>b, <2>1, <2>5, <2>6, MovesKeepInserted DEF Onward, Inv
  <2>8. At(p, "setTXT", loc[p])
    BY <1>a DEF At
  <2>9. EveryoneAt'
    BY <2>1, <2>7, <2>8, OnwardKeeps, MovesKeepEveryone DEF Inv, Safe
  <2>10. Inserted(p)'
    BY <1>a, <2>1 DEF Inserted, Moves, Before, At, Inv, TypeOK, DomainsTypeOK
  <2>11. RowsInserted'
    BY <2>6, <2>7, <2>10 DEF RowsInserted, Onward, Inv, Safe
  <2>12. VerifiedByOwnToken'
    BY <1>b, <1>2, <2>6 DEF VerifiedByOwnToken, Rows, Inv, Safe
  <2>13. HostnamesVerified'
    BY <1>b, <2>5, <2>6 DEF HostnamesVerified, NoDomain, Inv, Safe, TypeOK, DomainsTypeOK
  <2> QED
    BY <1>a, <1>b, <2>4, <2>9, <2>11, <2>12, <2>13
    DEF Inv, Safe, PrimaryFromSetup, OnboardedByProof
<1> QED
  <2>1. CASE dom' = [dom EXCEPT ![p] = [org |-> loc[p].org, fqdn |-> loc[p].fqdn, status |-> "pending"]]
             /\ Goto(p, "setTXT")
    <3>1. PICK row : row = [org |-> loc[p].org, fqdn |-> loc[p].fqdn, status |-> "pending"]
      OBVIOUS
    <3>2. row \in Row /\ row.status = "pending"
      BY <1>a, <3>1 DEF Row, At
    <3> QED BY <1>2, <2>1, <3>1, <3>2
  <2> QED BY <1>1, <2>1 DEF CreateDomain

LEMMA SetDomainStatusInv ==
    ASSUME Inv, NEW p \in Procs, SetDomainStatus(p), UNCHANGED <<instVars, choice>>,
           UNCHANGED <<loaded, restarts>>
    PROVE  Inv'
<1>a. At(p, "status", loc[p]) /\ pc[p] = "status" /\ UNCHANGED <<primary, onboarded>>
  BY DEF SetDomainStatus, Inv, Safe, EveryoneAt, instVars
<1>b. UNCHANGED <<orgs, hosts, zone>>
  BY DEF SetDomainStatus
<1>1. CASE Finish(p, "failed") /\ UNCHANGED dom
  <2>1. Safe' /\ pc' \in [Procs -> DomainPC] /\ loc' \in [Procs -> Loc]
    BY <1>a, <1>b, <1>1, FinishSafe DEF Ended
  <2> QED BY <1>b, <1>1, <2>1 DEF instVars, Inv, TypeOK, DomainsTypeOK
<1>2. ASSUME NEW r \in Rows, r = loc[p].row, dom' = [dom EXCEPT ![r].status = "verified"],
             NEW m, m = (IF Op[p] = "verifyDomain" THEN "done" ELSE "onboard"), Goto(p, m)
      PROVE  Inv'
  <2>0. m \in DomainPC \ Before
    BY <1>2 DEF DomainPC, Before
  <2>1. Moves(p, m, loc[p]) /\ loc[p] \in Loc
    BY <1>2, <2>0, GotoMoves DEF Inv, TypeOK, DomainsTypeOK
  <2>2. pc' \in [Procs -> DomainPC] /\ loc' \in [Procs -> Loc]
    BY <2>0, <2>1, Rest DEF Moves, Inv
  <2>3. r \in Procs /\ dom[r] \in Row
    BY DEF Rows, Inv, TypeOK, DomainsTypeOK
  <2>4. PICK row \in Row : row.status = "verified" /\ row = [dom[r] EXCEPT !.status = "verified"]
    BY <2>3 DEF Row
  <2>5. row # NoDomain
    BY <2>4 DEF NoDomain
  <2>6. \A s \in Procs : dom'[s] = IF s = r THEN row ELSE dom[s]
    BY <1>2, <2>4 DEF Inv, TypeOK, DomainsTypeOK
  <2>7. dom' \in [Procs -> Row \cup {NoDomain}]
    BY <1>2, <2>4 DEF Inv, TypeOK, DomainsTypeOK
  <2>8. TypeOK'
    BY <1>b, <2>2, <2>7 DEF instVars, Inv, TypeOK, DomainsTypeOK
  <2>9. Onward
    BY <1>b, <2>1, <2>4, <2>6, MovesKeepInserted DEF Onward, Inv, Rows
  <2>10. At(p, m, loc[p])
    BY <1>a, <1>2 DEF At
  <2>11. EveryoneAt'
    BY <2>1, <2>9, <2>10, OnwardKeeps, MovesKeepEveryone DEF Inv, Safe
  <2>12. RowsInserted'
    BY <2>6, <2>9 DEF RowsInserted, Onward, Rows, Inv, Safe
  <2>13. VerifiedByOwnToken'
    BY <1>a, <1>b, <1>2, <2>6 DEF VerifiedByOwnToken, Rows, At, Inv, Safe
  <2>14. HostnamesVerified'
    BY <1>b, <2>4, <2>6 DEF HostnamesVerified, Inv, Safe, TypeOK, DomainsTypeOK
  <2> QED
    BY <1>a, <1>b, <2>8, <2>11, <2>12, <2>13, <2>14
    DEF Inv, Safe, PrimaryFromSetup, OnboardedByProof
<1> QED
  BY <1>1, <1>2 DEF SetDomainStatus

LEMMA AddHostnameInv ==
    ASSUME Inv, NEW p \in Procs, AddHostname(p), UNCHANGED <<instVars, choice>>,
           UNCHANGED <<loaded, restarts>>
    PROVE  Inv'
<1>a. At(p, "bind", loc[p]) /\ pc[p] = "bind" /\ UNCHANGED <<primary, onboarded>>
  BY DEF AddHostname, Inv, Safe, EveryoneAt, instVars
<1>b. UNCHANGED <<orgs, dom, zone>>
  BY DEF AddHostname
<1>1. PICK m \in {"done", "failed"} : Goto(p, m)
  BY DEF AddHostname
<1>2. /\ hosts' \subseteq Procs \X Names
      /\ HostnamesVerified'
  BY <1>a, <1>b DEF AddHostname, At, HostnamesVerified, Rows, Inv, Safe, TypeOK, DomainsTypeOK
<1>3. Moves(p, m, loc[p]) /\ loc[p] \in Loc /\ m \in DomainPC /\ At(p, m, loc[p])
  BY <1>1, GotoMoves, EndedAt DEF Before, Ended, DomainPC, Inv, TypeOK, DomainsTypeOK
<1>4. Onward
  BY <1>b, <1>3, MovesKeepInserted DEF Onward, Inv
<1>5. EveryoneAt'
  BY <1>3, <1>4, OnwardKeeps, MovesKeepEveryone DEF Inv, Safe
<1>6. TypeOK'
  BY <1>b, <1>2, <1>3, Rest DEF Moves, instVars, Inv, TypeOK, DomainsTypeOK
<1>7. RowsInserted' /\ VerifiedByOwnToken'
  BY <1>b, <1>4 DEF RowsInserted, VerifiedByOwnToken, Rows, Onward, Inv, Safe
<1> QED
  BY <1>a, <1>b, <1>2, <1>5, <1>6, <1>7 DEF Inv, Safe, PrimaryFromSetup, OnboardedByProof

\* Rows go, hostnames with them; what is left is as it was.
LEMMA RemoveInv ==
    ASSUME Inv, NEW p \in Procs, NEW gone, Remove(gone), Cascade, UNCHANGED zone,
           orgs' \subseteq orgs, NEW m \in Ended, Goto(p, m), UNCHANGED <<loaded, restarts>>
    PROVE  Inv'
<1>1. \A r \in Procs : dom'[r] = IF r \in gone THEN NoDomain ELSE dom[r]
  BY DEF Remove
<1>2. dom' \in [Procs -> Row \cup {NoDomain}]
  BY DEF Remove, Inv, TypeOK, DomainsTypeOK
<1>3. Moves(p, m, loc[p]) /\ loc[p] \in Loc /\ m \in DomainPC /\ At(p, m, loc[p])
  BY GotoMoves, EndedAt DEF Before, Ended, DomainPC, Inv, TypeOK, DomainsTypeOK
<1>4. Onward
  BY <1>1, <1>3, MovesKeepInserted DEF Onward, Inv
<1>5. EveryoneAt'
  BY <1>3, <1>4, OnwardKeeps, MovesKeepEveryone DEF Inv, Safe
<1>6. RowsInserted'
  BY <1>1, <1>4 DEF RowsInserted, Onward, Inv, Safe
<1>7. VerifiedByOwnToken'
  BY <1>1 DEF VerifiedByOwnToken, Rows, Inv, Safe
<1>8. HostnamesVerified'
  BY <1>1 DEF HostnamesVerified, Remove, Inv, Safe, TypeOK, DomainsTypeOK
<1>9. PrimaryFromSetup' /\ OnboardedByProof'
  BY DEF PrimaryFromSetup, OnboardedByProof, Cascade, Inv, Safe
<1>10. TypeOK'
  <2>1. pc' \in [Procs -> DomainPC] /\ loc' \in [Procs -> Loc]
    BY <1>3, Rest DEF Moves, Inv
  <2>2. orgs' \subseteq AllOrgs /\ owned' \subseteq orgs' /\ hosts' \subseteq Procs \X Names
    BY DEF Cascade, Remove, Inv, TypeOK, DomainsTypeOK
  <2>3. primary' \in Procs \cup {None}
    BY DEF Cascade, Inv, TypeOK
  <2> QED BY <1>2, <2>1, <2>2, <2>3 DEF Cascade, Inv, TypeOK, DomainsTypeOK
<1> QED
  BY <1>5, <1>6, <1>7, <1>8, <1>9, <1>10 DEF Inv, Safe

LEMMA DeleteInv ==
    ASSUME Inv, NEW p \in Procs, DeleteDomain(p) \/ DeleteOrganization(p), Cascade,
           UNCHANGED <<loaded, restarts>>
    PROVE  Inv'
<1>1. CASE DeleteDomain(p)
  <2>1. PICK m \in Ended : Goto(p, m)
    BY <1>1 DEF DeleteDomain, Ended
  <2> QED BY <1>1, <2>1, RemoveInv DEF DeleteDomain
<1>2. CASE DeleteOrganization(p)
  <2>1. PICK o \in orgs : orgs' = orgs \ {o} /\ Remove({r \in Rows : dom[r].org = o})
    BY <1>2 DEF DeleteOrganization
  <2> QED BY <1>2, <2>1, RemoveInv DEF DeleteOrganization, Ended
<1> QED BY <1>1, <1>2

-----------------------------------------------------------------------------
\* The steps of the wizard and of its verification.

LEMMA SetupQuiet ==
    ASSUME Inv, NEW p \in Procs, UNCHANGED <<loaded, restarts>>,
           \/ StartSetup(p) \/ CreateOrganization(p) \/ SetMembership(p)
           \/ SetInstallationProvider(p) \/ PollVerificationOnce(p) \/ RunVerifySetup(p)
           \/ GetDomainByID(p)
    PROVE  Inv'
<1> DEFINE Fine == Safe' /\ pc' \in [Procs -> DomainPC] /\ loc' \in [Procs -> Loc]
<1>a. pc[p] \in DomainPC /\ At(p, pc[p], loc[p])
  BY DEF Inv, TypeOK, DomainsTypeOK, Safe, EveryoneAt
<1>1. CASE StartSetup(p)
  <2>1. PICK f \in Fqdns, c \in Choices :
            /\ Admit(p, "setup", "org", [NoLoc EXCEPT !.org = f, !.fqdn = f])
            /\ choice' = [choice EXCEPT ![p] = c]
            /\ UNCHANGED instVars
    BY <1>1 DEF StartSetup
  <2>2. PICK x \in Loc : x = [NoLoc EXCEPT !.org = f, !.fqdn = f] /\ x.org = f /\ x.fqdn = f
    <3>1. f \in AllOrgs
      BY DEF AllOrgs
    <3> QED BY <3>1, NewLocs DEF NoLoc
  <2>3. Op[p] = "setup" => At(p, "org", x)
    BY <2>2 DEF At, AllOrgs
  <2>4. Fine
    BY <2>1, <2>2, <2>3, AdmitSafe DEF DomainPC, instVars
  <2> QED BY <2>1, <2>4 DEF Admit, domVars, instVars, Inv, TypeOK, DomainsTypeOK
<1>2. CASE CreateOrganization(p)
  <2>1. PICK m : m = (IF loc[p].org \in orgs THEN "failed" ELSE "owner")
    OBVIOUS
  <2>2. Goto(p, m) /\ m \in DomainPC /\ At(p, m, loc[p]) /\ pc[p] \in Before
    BY <1>2, <1>a, <2>1 DEF CreateOrganization, DomainPC, Before, At
  <2>3. UNCHANGED <<dom, hosts, zone, instVars, choice>>
    BY <1>2 DEF CreateOrganization
  <2>4. Fine
    BY <2>2, <2>3, GotoSafe DEF instVars
  <2>5. orgs' \subseteq AllOrgs /\ owned \subseteq orgs'
    BY <1>2, <1>a DEF CreateOrganization, At, Inv, TypeOK, DomainsTypeOK
  <2> QED BY <2>3, <2>4, <2>5 DEF instVars, Inv, TypeOK, DomainsTypeOK
<1>3. CASE SetMembership(p)
  <2>1. PICK m : m = (IF loc[p].org \in orgs THEN "insert" ELSE "failed")
    OBVIOUS
  <2>2. Goto(p, m) /\ m \in DomainPC /\ At(p, m, loc[p]) /\ pc[p] \in Before
    BY <1>3, <1>a, <2>1 DEF SetMembership, DomainPC, Before, At, Creators
  <2>3. UNCHANGED <<domVars, primary, provider, onboarded, choice>>
    BY <1>3 DEF SetMembership
  <2>4. Fine
    BY <2>2, <2>3, GotoSafe DEF domVars
  <2>5. owned' \subseteq orgs
    BY <1>3 DEF SetMembership, Inv, TypeOK
  <2> QED BY <2>3, <2>4, <2>5 DEF domVars, Inv, TypeOK, DomainsTypeOK
<1>4. CASE SetInstallationProvider(p)
  <2>1. PICK m \in {"primary", "failed"} : Goto(p, m)
    BY <1>4 DEF SetInstallationProvider
  <2>2. m \in DomainPC \ Before /\ At(p, m, loc[p])
    BY <1>4, <1>a, <2>1 DEF SetInstallationProvider, DomainPC, Before, At
  <2>3. UNCHANGED <<domVars, primary, onboarded, owned, choice>> /\ provider' \in Loadable
    BY <1>4 DEF SetInstallationProvider, Inv, TypeOK
  <2>4. Fine
    BY <2>1, <2>2, <2>3, GotoSafe DEF domVars
  <2> QED BY <2>3, <2>4 DEF domVars, Inv, TypeOK, DomainsTypeOK
<1>5. CASE PollVerificationOnce(p)
  <2>1. PICK m \in {"stopped", "runVerify"} : Goto(p, m)
    BY <1>5 DEF PollVerificationOnce
  <2>2. m \in DomainPC \ Before /\ At(p, m, loc[p])
    BY <1>5, <2>1 DEF PollVerificationOnce, DomainPC, Before, At, Checkers
  <2>3. UNCHANGED <<domVars, instVars, choice>>
    BY <1>5 DEF PollVerificationOnce
  <2>4. Fine
    BY <2>1, <2>2, <2>3, GotoSafe DEF domVars, instVars
  <2> QED BY <2>3, <2>4 DEF domVars, instVars, Inv, TypeOK, DomainsTypeOK
<1>6. CASE RunVerifySetup(p)
  <2>1. UNCHANGED <<domVars, instVars, choice>>
    BY <1>6 DEF RunVerifySetup
  <2>2. ASSUME Finish(p, "failed") PROVE Fine
    BY <2>1, <2>2, FinishSafe DEF Ended, domVars, instVars
  <2>3. ASSUME primary # None, Enter(p, "getDomain", On(primary)) PROVE Fine
    <3>1. primary \in Procs /\ Op[primary] = "setup"
      BY <2>3 DEF Inv, TypeOK, Safe, PrimaryFromSetup
    <3>2. Op[p] \in Checkers
      BY <1>6, <1>a DEF RunVerifySetup, At, Checkers
    <3>3. PICK x \in Loc : x = On(primary) /\ x.row = primary
      BY <3>1, NewLocs DEF On, NoLoc
    <3>4. At(p, "getDomain", x)
      BY <3>1, <3>2, <3>3 DEF At
    <3>5. Moves(p, "getDomain", x)
      BY <2>3, <3>3, EnterMoves DEF Before, Inv
    <3> QED BY <2>1, <3>4, <3>5, Advance, Rest DEF Moves, DomainPC, domVars, instVars, Inv
  <2>4. Fine
    BY <1>6, <2>2, <2>3 DEF RunVerifySetup
  <2> QED BY <2>1, <2>4 DEF domVars, instVars, Inv, TypeOK, DomainsTypeOK
<1>7. CASE GetDomainByID(p)
  <2>1. UNCHANGED <<domVars, instVars, choice>>
    BY <1>7 DEF GetDomainByID
  <2>2. ASSUME Finish(p, "failed") PROVE Fine
    BY <2>1, <2>2, FinishSafe DEF Ended, domVars, instVars
  <2>3. ASSUME NEW m \in {"onboard", "lookup"}, Goto(p, m), loc[p].row \in Rows,
               m = "onboard" => dom[loc[p].row].status = "verified"
        PROVE  Fine
    <3>1. At(p, m, loc[p])
      BY <1>7, <1>a, <2>3 DEF GetDomainByID, At, Checkers, Inv, Safe, VerifiedByOwnToken
    <3>2. m \in DomainPC \ Before
      BY DEF DomainPC, Before
    <3> QED BY <2>1, <2>3, <3>1, <3>2, GotoSafe DEF domVars, instVars
  <2>4. Fine
    BY <1>7, <2>2, <2>3 DEF GetDomainByID
  <2> QED BY <2>1, <2>4 DEF domVars, instVars, Inv, TypeOK, DomainsTypeOK
<1> QED BY <1>1, <1>2, <1>3, <1>4, <1>5, <1>6, <1>7

LEMMA SetInstallationPrimaryDomainInv ==
    ASSUME Inv, NEW p \in Procs, SetInstallationPrimaryDomain(p), UNCHANGED <<loaded, restarts>>
    PROVE  Inv'
<1>a. At(p, "primary", loc[p]) /\ UNCHANGED <<domVars, provider, onboarded, owned, choice>>
  BY DEF SetInstallationPrimaryDomain, Inv, Safe, EveryoneAt
<1>1. PICK m \in {"done", "failed"} : Goto(p, m)
  BY DEF SetInstallationPrimaryDomain
<1>2. Moves(p, m, loc[p]) /\ loc[p] \in Loc /\ m \in DomainPC /\ At(p, m, loc[p])
  BY <1>1, GotoMoves, EndedAt DEF Before, Ended, DomainPC, Inv, TypeOK, DomainsTypeOK
<1>3. Onward
  BY <1>a, <1>2, MovesKeepInserted DEF Onward, domVars, Inv
<1>4. EveryoneAt'
  BY <1>2, <1>3, OnwardKeeps, MovesKeepEveryone DEF Inv, Safe
<1>5. PrimaryFromSetup' /\ primary' \in Procs \cup {None}
  BY <1>a DEF SetInstallationPrimaryDomain, PrimaryFromSetup, At, Inv, Safe, TypeOK
<1>6. TypeOK'
  BY <1>a, <1>2, <1>5, Rest DEF Moves, domVars, Inv, TypeOK, DomainsTypeOK
<1>7. RowsInserted' /\ VerifiedByOwnToken' /\ HostnamesVerified' /\ OnboardedByProof'
  BY <1>a, <1>3 DEF RowsInserted, VerifiedByOwnToken, HostnamesVerified, OnboardedByProof, Rows,
                    Onward, domVars, Inv, Safe
<1> QED BY <1>4, <1>5, <1>6, <1>7 DEF Inv, Safe

LEMMA SetInstallationOnboardedInv ==
    ASSUME Inv, NEW p \in Procs, SetInstallationOnboarded(p), UNCHANGED <<loaded, restarts>>
    PROVE  Inv'
<1>a. At(p, "onboard", loc[p]) /\ UNCHANGED <<domVars, primary, provider, owned, choice>>
  BY DEF SetInstallationOnboarded, Inv, Safe, EveryoneAt
<1>1. PICK m \in {"done", "stopped"} : Goto(p, m)
  BY DEF SetInstallationOnboarded
<1>2. Moves(p, m, loc[p]) /\ loc[p] \in Loc /\ m \in DomainPC /\ At(p, m, loc[p])
  BY <1>1, GotoMoves, EndedAt DEF Before, Ended, DomainPC, Inv, TypeOK, DomainsTypeOK
<1>3. Onward
  BY <1>a, <1>2, MovesKeepInserted DEF Onward, domVars, Inv
<1>4. EveryoneAt'
  BY <1>2, <1>3, OnwardKeeps, MovesKeepEveryone DEF Inv, Safe
<1>5. onboarded' = TRUE /\ OnboardedByProof'
  BY <1>a DEF SetInstallationOnboarded, OnboardedByProof, At, domVars
<1>6. TypeOK'
  BY <1>a, <1>2, <1>5, Rest DEF Moves, domVars, Inv, TypeOK, DomainsTypeOK
<1>7. RowsInserted' /\ VerifiedByOwnToken' /\ HostnamesVerified' /\ PrimaryFromSetup'
  BY <1>a, <1>3 DEF RowsInserted, VerifiedByOwnToken, HostnamesVerified, PrimaryFromSetup, Rows,
                    Onward, domVars, Inv, Safe
<1> QED BY <1>4, <1>5, <1>6, <1>7 DEF Inv, Safe

-----------------------------------------------------------------------------
\* The operator, a restart, and the whole.

LEMMA PublishTXTInv ==
    ASSUME Inv, PublishTXT, UNCHANGED <<instVars, choice>>, UNCHANGED <<loaded, restarts>>
    PROVE  Inv'
<1>1. zone \subseteq zone' /\ zone' \subseteq Procs /\ UNCHANGED <<orgs, dom, hosts, pc, loc>>
  BY DEF PublishTXT, Rows, Inv, TypeOK, DomainsTypeOK
<1>2. Onward /\ (\A r \in Procs : Inserted(r) <=> Inserted(r)')
  BY <1>1 DEF Onward, Inserted
<1>3. EveryoneAt'
  <2> SUFFICES ASSUME NEW q \in Procs PROVE At(q, pc[q], loc[q])'
    BY DEF EveryoneAt
  <2>1. PICK m, y : m = pc[q] /\ y = loc[q]
    OBVIOUS
  <2>2. At(q, m, y)'
    BY <1>2, <2>1, OnwardKeeps DEF Inv, Safe, EveryoneAt
  <2> QED BY <1>1, <2>1, <2>2
<1>4. TypeOK'
  BY <1>1 DEF instVars, Inv, TypeOK, DomainsTypeOK
<1> QED
  BY <1>1, <1>2, <1>3, <1>4
  DEF Inv, Safe, RowsInserted, PrimaryFromSetup, VerifiedByOwnToken, HostnamesVerified,
      OnboardedByProof, Rows, instVars

LEMMA RestartInv == ASSUME Inv, Restart PROVE Inv'
<1>1. UNCHANGED <<domVars, loc, instVars, choice>>
  BY DEF Restart
<1>2. \A q \in Procs : /\ pc'[q] \in Ended \cup {"start"}
                       /\ Op[q] # "poll" /\ pc'[q] = "start" => pc[q] = "start"
  BY DEF Restart, Ended
<1>3. pc' \in [Procs -> DomainPC]
  BY DEF Restart, Inv, TypeOK, DomainsTypeOK, DomainPC
<1>4. loaded' \in Loadable
  BY DomainsAssumption DEF Restart, LoadAccessProvider, Inv, TypeOK, Loadable
<1>5. restarts' \in 0..MaxRestarts
  BY SetupAssumption DEF Restart, Inv, TypeOK
<1>6. TypeOK'
  BY <1>1, <1>3, <1>4, <1>5 DEF domVars, instVars, Inv, TypeOK, DomainsTypeOK
<1>7. \A r \in Procs : Inserted(r) => Inserted(r)'
  BY <1>2 DEF Inserted, Creators, Before, Ended
<1>8. EveryoneAt'
  <2> SUFFICES ASSUME NEW q \in Procs PROVE At(q, pc[q], loc[q])'
    BY DEF EveryoneAt
  <2> QED BY <1>2 DEF At, Ended
<1> QED
  BY <1>1, <1>6, <1>7, <1>8
  DEF Inv, Safe, RowsInserted, PrimaryFromSetup, VerifiedByOwnToken, HostnamesVerified,
      OnboardedByProof, Rows, domVars, instVars

LEMMA StepInv ==
    ASSUME Inv, NEW p \in Procs, Step(p), UNCHANGED <<loaded, restarts>>
    PROVE  Inv'
<1>1. CASE DomainStep(p) /\ UNCHANGED <<instVars, choice>>
  BY <1>1, DomainQuiet, CreateDomainInv, SetDomainStatusInv, AddHostnameInv DEF DomainStep
<1>2. CASE SetupStep(p)
  BY <1>2, SetupQuiet, SetInstallationPrimaryDomainInv, SetInstallationOnboardedInv DEF SetupStep
<1> QED BY <1>1, <1>2, DeleteInv DEF Step

LEMMA NextInv == Inv /\ [Next]_vars => Inv'
<1> SUFFICES ASSUME Inv, [Next]_vars PROVE Inv'
  OBVIOUS
<1>1. CASE Running /\ UNCHANGED <<loaded, restarts>>
  BY <1>1, StepInv, DomainQuiet, PublishTXTInv DEF Running
<1>2. CASE UNCHANGED vars
  BY <1>2 DEF vars, domVars, instVars, Inv, TypeOK, DomainsTypeOK, Safe, EveryoneAt, At, Inserted,
              RowsInserted, PrimaryFromSetup, VerifiedByOwnToken, HostnamesVerified,
              OnboardedByProof, Rows
<1> QED BY <1>1, <1>2, RestartInv DEF Next

LEMMA Invariance == Spec => []Inv
BY InitInv, NextInv, PTL DEF Spec

(***************************************************************************)
(* The tables of domains, hostnames and the installation stay well-formed  *)
(* whatever requests, poller, faults and restarts do.                      *)
(***************************************************************************)
THEOREM SetupTypeCorrect == Spec => []TypeOK
BY Invariance, PTL DEF Inv

(***************************************************************************)
(* A domain counts as verified only through its own token: for any number  *)
(* of requests that verify, delete and register the same name.             *)
(***************************************************************************)
THEOREM DomainsAreProved == Spec => []VerifiedByOwnToken
BY Invariance, PTL DEF Inv, Safe

(***************************************************************************)
(* No hostname is ever bound to an unverified domain, although the check   *)
(* and the insert of addHostname are two steps.                            *)
(***************************************************************************)
THEOREM HostnamesAreVerified == Spec => []HostnamesVerified
BY Invariance, PTL DEF Inv, Safe

(***************************************************************************)
(* The installation is onboarded only after a token of a domain some       *)
(* wizard registered was published.                                        *)
(***************************************************************************)
THEOREM OnboardingIsProved == Spec => []OnboardedByProof
BY Invariance, PTL DEF Inv, Safe

\* The guards "onboarded_at IS NULL" of the UPDATEs, one step at a time.
LEMMA FinalStep ==
    ASSUME Inv, [Next]_vars
    PROVE  [onboarded => onboarded' /\ provider' = provider /\ primary' \in {primary, None}]_vars
BY DEF Next, Running, Step, DomainStep, SetupStep, Restart, Cascade, StartSetup,
       CreateOrganization, SetMembership, SetInstallationProvider, SetInstallationPrimaryDomain,
       PollVerificationOnce, RunVerifySetup, GetDomainByID, SetInstallationOnboarded, instVars, vars

(***************************************************************************)
(* Once onboarded, an installation keeps its provider, and its primary     *)
(* domain unless that is deleted: no wizard still running changes them.    *)
(***************************************************************************)
THEOREM OnboardingIsFinal == Spec => OnboardedIsFinal
BY Invariance, FinalStep, PTL DEF Spec, OnboardedIsFinal
=============================================================================
