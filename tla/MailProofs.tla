----------------------------- MODULE MailProofs -----------------------------
(***************************************************************************)
(* Proofs about the mail subsystem, for any number of addresses, requests  *)
(* and workers.                                                            *)
(***************************************************************************)
EXTENDS Mail, TLAPS

-----------------------------------------------------------------------------
\* Which processes are at which labels, and which of their locals are set.

AddrLabels == {"insert", "cred", "addUser", "markDeleted", "policy", "policyRow", "activate",
               "pwRemove", "pwAdd", "revoke", "suspend"}
JobLabels == {"aliasRead", "aliasTrunc", "aliasWrite", "aliasRow", "recUpdate"}

\* A handler only makes its own calls.
Own(p) ==
    /\ pc[p] \in {"createDomain", "ensureDomain", "giveUp", "restart", "dkim", "dkimRow",
                  "setActive"} => Op[p] = "enable"
    /\ pc[p] = "setDisabled" => Op[p] = "disable"
    /\ pc[p] \in {"insert", "addUser", "markDeleted", "policy", "policyRow", "activate"} =>
          Op[p] = "create"
    /\ pc[p] \in {"pwRemove", "pwAdd", "revoke"} => Op[p] = "rotate"
    /\ pc[p] = "cred" => Op[p] \in {"create", "rotate"}
    /\ pc[p] \in {"recList", "recAlias", "recUpdate", "recUser", "suspend"} => Reconciles(p)
    /\ pc[p] \in {"aliasRead", "aliasTrunc", "aliasWrite"} =>
          Reconciles(p) \/ Op[p] \in {"alias", "groupAlias"}
    /\ pc[p] \in {"aliasCheck", "aliasRow"} => Op[p] \in {"alias", "groupAlias"}

\* A handler that has not started has no address, unless it is a worker whose
\* last pass suspended one; the calls that take an address or an alias have it;
\* the ids a handler holds are of this registration or of an earlier one.
Set(p) ==
    /\ pc[p] = "start" => Op[p] = "worker" \/ addr[p] = None
    /\ pc[p] \in AddrLabels => addr[p] \in Addrs
    /\ pc[p] \in JobLabels => job[p].local \in Locals
    /\ regOf[p] =< reg

Control == \A p \in Procs : Own(p) /\ Set(p)
TypeInv == TypeOK /\ Control

-----------------------------------------------------------------------------
\* The inductive invariants of the four properties.

\* enableMail passes EnsureDomain only when the directory is there.
DomainInv ==
    /\ ActiveDomainInstalled
    /\ \A p \in Procs :
          pc[p] \in {"restart", "dkim", "dkimRow", "setActive"} => "dir" \in installed

\* A creation past its INSERT owns its address, which stays requested until the
\* creation ends; what a pass is to look up or to suspend was active once.  All
\* of it while the rows are the ones read, so a pass must begin without a list.
Creating(p) ==
    Op[p] = "create" /\ pc[p] \in {"cred", "addUser", "markDeleted", "policy", "policyRow",
                                   "activate"}
Owns(p) == Creating(p) \/ (Op[p] = "create" /\ pc[p] = "done")
WasActive(a) == ident[a] \in {"active", "suspended"}

IdentInv ==
    /\ \A p \in Procs : Creating(p) /\ Current(p) => ident[addr[p]] = "requested"
    /\ \A p \in Procs : Owns(p) => addr[p] \in Addrs
    /\ \A p \in Procs : Owns(p) /\ Current(p) => ident[addr[p]] # "none"
    /\ \A p, q \in Procs :
          Owns(p) /\ Owns(q) /\ Current(p) /\ Current(q) /\ addr[p] = addr[q] => p = q
    /\ \A p \in Procs : pc[p] = "suspend" /\ Current(p) => WasActive(addr[p])
    /\ \A p \in Procs : Current(p) => \A a \in check[p] : WasActive(a)
    /\ \A p \in Procs : pc[p] = "start" => check[p] = {}

\* A creation's credential row and, from the user-add on, its chasquid user are
\* in place while nobody rotates the mailbox, the user even when the domain is
\* deleted: nothing else removes it, and no other user-add replaces it.
Enrolled(p) == Op[p] = "create" /\ pc[p] \in {"policy", "policyRow", "activate", "done"}

SecretInv ==
    \A p \in Procs : ~Rotated(addr[p]) =>
        /\ (Enrolled(p) \/ pc[p] = "addUser") /\ Current(p) => cred[<<addr[p], p>>] = "active"
        /\ Enrolled(p) => userdb[addr[p]] = p

\* Nothing a request or a pass has read, computed or written names a foreign
\* mailbox.  While the rows are the ones it read, the destinations a process
\* works with are identities of the domain, and an alias row that a pass has
\* listed still exists; before the first deletion this goes for the file and
\* the contents computed for it, too.
Allowed == Addrs \cup Sisters
Inside == {a \in Addrs : ident[a] # "none"} \cup Sisters

Lines(S) ==
    /\ \A l \in Locals : file[l] \subseteq S
    /\ \A p \in Procs : job[p].dests \subseteq S
    /\ \A p \in Procs, l \in Locals : job[p].buf[l] \subseteq S

NoForeign ==
    /\ Lines(Allowed)
    /\ \A p \in Procs, l \in Locals : seen[p][l] # NoRow => seen[p][l].dests \subseteq Allowed

RowsInside ==
    /\ \A l \in Locals : rows[l] # NoRow => rows[l].dests \subseteq Inside
    /\ \A p \in Procs : Current(p) /\ pc[p] \in JobLabels => job[p].dests \subseteq Inside
    /\ \A p \in Procs, l \in Locals : Current(p) /\ seen[p][l] # NoRow =>
          rows[l] # NoRow /\ seen[p][l].dests \subseteq Inside
    /\ \A p \in Procs : Current(p) /\ pc[p] = "recUpdate" => rows[job[p].local] # NoRow
    /\ \A p \in Procs : pc[p] \in {"start", "recUser", "suspend"} =>
          \A l \in Locals : seen[p][l] = NoRow

FileInside == reg = 0 => Lines(Inside)

RouteInv == NoForeign /\ RowsInside /\ FileInside

-----------------------------------------------------------------------------
\* The type invariant is inductive together with Control.

LEMMA MailStepType ==
  ASSUME TypeInv, NEW p \in Procs, MailStep(p), UNCHANGED <<aliasVars, recVars>>
  PROVE  TypeInv'
<1> USE DEF TypeInv, TypeOK, MailTypeOK, AliasTypeOK, Control, Own, Set, Reconciles, AddrLabels,
            JobLabels, MailPC, mailDb, mta, aliasVars, recVars, IdentStatus
<1>1. CASE StartEnable(p)
  BY <1>1 DEF StartEnable, At
<1>2. CASE StartDisable(p)
  BY <1>2 DEF StartDisable, At
<1>3. CASE StartCreate(p)
  BY <1>3 DEF StartCreate, At
<1>4. CASE StartRotate(p)
  BY <1>4 DEF StartRotate, At
<1>5. CASE CreateMailDomain(p)
  BY <1>5 DEF CreateMailDomain, Goto
<1>6. CASE EnsureDomain(p)
  <2>1. installed' \subseteq {"dir", "served", "key"}
    BY <1>6 DEF EnsureDomain
  <2>2. CASE Goto(p, "restart")
    BY <1>6, <2>1, <2>2 DEF EnsureDomain, Goto
  <2>3. CASE Goto(p, "giveUp")
    BY <1>6, <2>1, <2>3 DEF EnsureDomain, Goto
  <2> QED
    BY <1>6, <2>2, <2>3 DEF EnsureDomain
<1>7. CASE Restart(p)
  BY <1>7 DEF Restart, Goto
<1>8. CASE EnsureDKIM(p)
  <2>1. installed' \subseteq {"dir", "served", "key"}
    BY <1>8 DEF EnsureDKIM
  <2>2. CASE Goto(p, "dkimRow")
    BY <1>8, <2>1, <2>2 DEF EnsureDKIM, Goto
  <2>3. CASE Goto(p, "setActive")
    BY <1>8, <2>1, <2>3 DEF EnsureDKIM, Goto
  <2> QED
    BY <1>8, <2>2, <2>3 DEF EnsureDKIM
<1>9. CASE SetMailDomainDKIM(p)
  BY <1>9 DEF SetMailDomainDKIM, Ignored, Goto
<1>10. CASE SetMailDomainStatus(p)
  <2>1. mdomain' \in {"none", "provisioning", "active", "disabled"}
    BY <1>10 DEF SetMailDomainStatus, Ignored
  <2>2. PICK label \in {"done", "failed"} : Goto(p, label)
    BY <1>10 DEF SetMailDomainStatus
  <2> QED
    BY <1>10, <2>1, <2>2 DEF SetMailDomainStatus, Goto
<1>11. CASE CreateMailIdentity(p)
  <2>1. ident' \in [Addrs -> IdentStatus]
    BY <1>11 DEF CreateMailIdentity
  <2>2. CASE Goto(p, "cred")
    BY <1>11, <2>1, <2>2 DEF CreateMailIdentity, Goto
  <2>3. CASE Goto(p, "failed")
    BY <1>11, <2>1, <2>3 DEF CreateMailIdentity, Goto
  <2> QED
    BY <1>11, <2>2, <2>3 DEF CreateMailIdentity
<1>12. CASE CreateMailCredential(p)
  <2>1. cred' \in [Addrs \X Secrets -> {"none", "active", "revoked"}]
    BY <1>12 DEF CreateMailCredential
  <2>2. PICK label \in {"addUser", "done", "failed"} :
          Goto(p, label) /\ (label = "addUser" => Op[p] = "create")
    BY <1>12 DEF CreateMailCredential
  <2> QED
    BY <1>12, <2>1, <2>2 DEF CreateMailCredential, Goto
<1>13. CASE AddUser(p)
  <2>1. userdb' \in [Addrs -> Secrets \cup {None}]
    BY <1>13 DEF AddUser, Secrets
  <2>2. CASE Goto(p, "policy")
    BY <1>13, <2>1, <2>2 DEF AddUser, Goto
  <2>3. CASE Goto(p, "markDeleted")
    BY <1>13, <2>1, <2>3 DEF AddUser, Goto
  <2> QED
    BY <1>13, <2>2, <2>3 DEF AddUser
<1>14. CASE EnsureSenderPolicy(p)
  BY <1>14 DEF EnsureSenderPolicy, Goto
<1>15. CASE CreateMailSubmissionPolicy(p)
  BY <1>15 DEF CreateMailSubmissionPolicy, Ignored, Goto
<1>16. CASE SetMailIdentityStatus(p)
  <2>1. ident' \in [Addrs -> IdentStatus]
    BY <1>16 DEF SetMailIdentityStatus, Ignored
  <2>2. CASE pc[p] = "markDeleted" /\ Goto(p, "failed")
    BY <1>16, <2>1, <2>2 DEF SetMailIdentityStatus, Goto
  <2>3. CASE pc[p] = "activate" /\ Goto(p, "done")
    BY <1>16, <2>1, <2>3 DEF SetMailIdentityStatus, Goto
  <2>4. CASE pc[p] = "suspend" /\ Goto(p, "recUser")
    BY <1>16, <2>1, <2>4 DEF SetMailIdentityStatus, Goto
  <2> QED
    BY <1>16, <2>2, <2>3, <2>4 DEF SetMailIdentityStatus
<1>17. CASE ChangePasswordRemove(p)
  BY <1>17 DEF ChangePasswordRemove, Goto
<1>18. CASE ChangePasswordAdd(p)
  <2>1. userdb' \in [Addrs -> Secrets \cup {None}]
    BY <1>18 DEF ChangePasswordAdd, Secrets
  <2>2. CASE Goto(p, "revoke")
    BY <1>18, <2>1, <2>2 DEF ChangePasswordAdd, Goto
  <2>3. CASE Goto(p, "failed")
    BY <1>18, <2>1, <2>3 DEF ChangePasswordAdd, Goto
  <2> QED
    BY <1>18, <2>2, <2>3 DEF ChangePasswordAdd
<1>19. CASE RevokeCredentialsByIdentity(p)
  BY <1>19 DEF RevokeCredentialsByIdentity, Goto
<1> QED
  BY <1>1, <1>2, <1>3, <1>4, <1>5, <1>6, <1>7, <1>8, <1>9, <1>10, <1>11, <1>12, <1>13, <1>14,
     <1>15, <1>16, <1>17, <1>18, <1>19 DEF MailStep

LEMMA NoRowIsNone == NoRow \notin Row
<1>1. \A r \in Row : DOMAIN r = {"dests", "group"}
  BY DEF Row
<1>2. DOMAIN NoRow = {"group"}
  BY DEF NoRow
<1> QED
  BY <1>1, <1>2

LEMMA RewriteType ==
  ASSUME NEW j \in Job, NEW lines \in File
  PROVE  [j EXCEPT !.buf = lines] \in Job
BY DEF Job

\* A group's destinations are mailboxes of the domain and addresses elsewhere.
LEMMA GroupDestinationsType ==
  ASSUME AliasTypeOK, NEW p \in Procs, NEW dests \in GroupDestinations(p)
  PROVE  dests \in Dests /\ dests \subseteq Inside
<1>1. PICK here \in SUBSET {a \in group : ident[a] = "active"}, elsewhere \in SUBSET Sisters :
        dests = here \cup elsewhere
  BY DEF GroupDestinations
<1> QED
  BY <1>1 DEF Dests, Inside, AliasTypeOK

LEMMA AliasStepType ==
  ASSUME TypeInv, NEW p \in Procs, AliasStep(p), UNCHANGED recVars
  PROVE  TypeInv'
<1> USE DEF TypeInv, TypeOK, MailTypeOK, AliasTypeOK, Control, Own, Set, Reconciles, AddrLabels,
            JobLabels, MailPC, mailDb, mta, recVars
<1>0. NoLines \in File
  BY DEF NoLines, File, Dests
<1>1. CASE StartAlias(p)
  BY <1>1 DEF StartAlias, At, aliasVars
<1>8. CASE CheckAlias(p)
  <2>1. CASE Goto(p, "failed") /\ UNCHANGED job
    BY <1>8, <2>1 DEF CheckAlias, Goto
  <2>2. CASE ~(Goto(p, "failed") /\ UNCHANGED job)
    <3>1. PICK l \in Locals, dests \in Dests :
            /\ job' = [job EXCEPT ![p] = [local |-> l, dests |-> dests,
                                          group |-> Op[p] = "groupAlias", buf |-> NoLines]]
            /\ Goto(p, "aliasRead")
      <4>1. PICK l \in Locals :
              \E dests \in IF Op[p] = "groupAlias" THEN GroupDestinations(p) ELSE Dests \ {{}} :
                 \/ /\ TRUE \in ValidateAliasDestinations(p, dests)
                    /\ job' = [job EXCEPT ![p] = [local |-> l, dests |-> dests,
                                          group |-> Op[p] = "groupAlias", buf |-> NoLines]]
                    /\ Goto(p, "aliasRead")
                 \/ /\ FALSE \in ValidateAliasDestinations(p, dests)
                    /\ Goto(p, "failed") /\ UNCHANGED job
        BY <1>8, Zenon DEF CheckAlias
      <4> QED
        BY <2>2, <4>1, GroupDestinationsType
    <3>2. [local |-> l, dests |-> dests, group |-> Op[p] = "groupAlias", buf |-> NoLines] \in Job
      BY <1>0 DEF Job
    <3>3. job' \in [Procs -> Job] /\ job'[p].local = l /\ \A q \in Procs \ {p} : job'[q] = job[q]
      BY <3>1, <3>2
    <3> QED
      BY <1>8, <3>1, <3>3 DEF CheckAlias, Goto
  <2> QED
    BY <2>1, <2>2
<1>2. CASE SetAliasRead(p)
  <2>1. job' \in [Procs -> Job] /\ \A q \in Procs : job'[q].local = job[q].local
    <3>1. CASE UNCHANGED job
      BY <3>1
    <3>2. CASE job' = [job EXCEPT ![p].buf = [file EXCEPT ![job[p].local] = job[p].dests]]
      <4>1. [file EXCEPT ![job[p].local] = job[p].dests] \in File
        BY DEF File, Job
      <4> PICK lines \in File : lines = [file EXCEPT ![job[p].local] = job[p].dests]
        BY <4>1
      <4>2. [job[p] EXCEPT !.buf = lines] \in Job
        BY RewriteType
      <4>3. job'[p] = [job[p] EXCEPT !.buf = lines]
        BY <3>2
      <4>4. job'[p].local = job[p].local
        BY <4>3 DEF Job
      <4> QED
        BY <3>2, <4>2, <4>3, <4>4
    <3> QED
      BY <1>2, <3>1, <3>2 DEF SetAliasRead
  <2>2. CASE Goto(p, "aliasTrunc")
    BY <1>2, <2>1, <2>2 DEF SetAliasRead, Goto
  <2>3. CASE Reconciles(p) /\ Goto(p, "recAlias")
    BY <1>2, <2>1, <2>3 DEF SetAliasRead, Goto
  <2>4. CASE Goto(p, "failed")
    BY <1>2, <2>1, <2>4 DEF SetAliasRead, Goto
  <2> QED
    BY <1>2, <2>2, <2>3, <2>4 DEF SetAliasRead
<1>3. CASE SetAliasTruncate(p)
  BY <1>0, <1>3 DEF SetAliasTruncate, Goto
<1>4. CASE SetAliasWrite(p)
  <2>1. job[p].buf \in File
    BY DEF Job
  <2>2. file' \in File
    BY <1>4, <2>1 DEF SetAliasWrite, File
  <2>3. CASE Reconciles(p) /\ Goto(p, "recAlias")
    BY <1>4, <2>2, <2>3 DEF SetAliasWrite, Goto
  <2>4. CASE ~Reconciles(p) /\ Goto(p, "aliasRow")
    BY <1>4, <2>2, <2>4 DEF SetAliasWrite, Goto
  <2>5. CASE Goto(p, "failed")
    BY <1>4, <2>2, <2>5 DEF SetAliasWrite, Goto
  <2> QED
    BY <1>4, <2>3, <2>4, <2>5 DEF SetAliasWrite
<1>5. CASE CreateMailAlias(p)
  <2>1. [dests |-> job[p].dests, group |-> job[p].group] \in Row
    BY DEF Job, Row
  <2>2. rows' \in [Locals -> Row \cup {NoRow}]
    BY <1>5, <2>1 DEF CreateMailAlias
  <2>3. CASE Goto(p, "done")
    BY <1>5, <2>2, <2>3 DEF CreateMailAlias, Goto
  <2>4. CASE Goto(p, "failed")
    BY <1>5, <2>2, <2>4 DEF CreateMailAlias, Goto
  <2> QED
    BY <1>5, <2>3, <2>4 DEF CreateMailAlias
<1>6. CASE AddGroupMember(p)
  BY <1>6 DEF AddGroupMember, At
<1>7. CASE RemoveAllGroupMemberships(p)
  BY <1>7 DEF RemoveAllGroupMemberships, At
<1>9. CASE DeleteDomain(p)
  <2>1. /\ reg' = reg + 1 /\ UNCHANGED <<installed, userdb, policy, file, job, seen, check>>
        /\ pc' = [pc EXCEPT ![p] = "done"] /\ UNCHANGED <<addr, regOf>>
    BY <1>9 DEF DeleteDomain, DeleteMailRows, Goto
  <2>2. MailTypeOK'
    <3>1. ident' \in [Addrs -> IdentStatus]
      BY <1>9 DEF DeleteDomain, DeleteMailRows, IdentStatus
    <3>2. cred' \in [Addrs \X Secrets -> {"none", "active", "revoked"}]
      BY <1>9 DEF DeleteDomain, DeleteMailRows
    <3>3. mdomain' = "none" /\ dkim' = FALSE /\ sendAs' = {}
      BY <1>9 DEF DeleteDomain, DeleteMailRows
    <3>4. dkim' \in BOOLEAN
      BY <3>3
    <3>5. reg' \in Nat
      BY <2>1
    <3>6. pc' \in [Procs -> MailPC]
      BY <2>1
    <3> QED
      BY <2>1, <3>1, <3>2, <3>3, <3>4, <3>5, <3>6
  <2>3. AliasTypeOK'
    BY <1>9, <2>1 DEF DeleteDomain
  <2>4. Control'
    BY <2>1
  <2> QED
    BY <2>1, <2>2, <2>3, <2>4
<1> QED
  BY <1>1, <1>2, <1>3, <1>4, <1>5, <1>6, <1>7, <1>8, <1>9 DEF AliasStep

LEMMA ReconcileStepType ==
  ASSUME TypeInv, NEW p \in Procs, ReconcileStep(p)
  PROVE  TypeInv'
<1> USE DEF TypeInv, TypeOK, MailTypeOK, AliasTypeOK, Control, Own, Set, Reconciles, AddrLabels,
            JobLabels, MailPC, mailDb, mta, aliasVars, recVars
<1>1. CASE ListMailAliasesByDomain(p)
  <2>1. seen' \in [Procs -> [Locals -> Row \cup {NoRow}]]
    BY <1>1 DEF ListMailAliasesByDomain
  <2> QED
    BY <1>1, <2>1 DEF ListMailAliasesByDomain, Goto
<1>7. CASE StartPass(p)
  <2>1. CASE At(p, "worker", None, "recList")
    BY <1>7, <2>1 DEF StartPass, At
  <2>2. CASE At(p, "reconcile", None, "recList")
    BY <1>7, <2>2 DEF StartPass, At
  <2> QED
    BY <1>7, <2>1, <2>2 DEF StartPass
<1>2. CASE ReconcileAlias(p)
  <2>1. PICK l \in Locals :
          /\ pc[p] = "recAlias" /\ seen[p][l] # NoRow
          /\ seen' = [seen EXCEPT ![p][l] = NoRow]
          /\ \/ /\ \E dests \in IF seen[p][l].group THEN GroupDestinations(p)
                                                    ELSE {seen[p][l].dests} :
                      job' = [job EXCEPT ![p] = [local |-> l, dests |-> dests,
                                                 group |-> seen[p][l].group, buf |-> NoLines]]
                /\ Goto(p, IF seen[p][l].group THEN "recUpdate" ELSE "aliasRead")
             \/ Goto(p, "recAlias") /\ UNCHANGED job
          /\ UNCHANGED <<mailDb, mta, rows, group, file, check>>
    BY <1>2, Zenon DEF ReconcileAlias
  <2>2. seen' \in [Procs -> [Locals -> Row \cup {NoRow}]]
    BY <2>1
  <2>3. CASE Goto(p, "recAlias") /\ UNCHANGED job
    BY <2>1, <2>2, <2>3 DEF Goto
  <2>4. CASE ~(Goto(p, "recAlias") /\ UNCHANGED job)
    <3>1. PICK dests \in Dests, g \in BOOLEAN :
            /\ job' = [job EXCEPT ![p] = [local |-> l, dests |-> dests, group |-> g,
                                          buf |-> NoLines]]
            /\ Goto(p, IF g THEN "recUpdate" ELSE "aliasRead")
      <4>1. seen[p][l] \in Row
        BY <2>1
      <4>2. seen[p][l].group \in BOOLEAN /\ seen[p][l].dests \in Dests
        BY <4>1 DEF Row
      <4> QED
        BY <2>1, <2>4, <4>2, GroupDestinationsType
    <3>2. [local |-> l, dests |-> dests, group |-> g, buf |-> NoLines] \in Job
      BY DEF Job, NoLines, File, Dests
    <3>3. job' \in [Procs -> Job] /\ job'[p].local = l
             /\ \A q \in Procs \ {p} : job'[q] = job[q]
      BY <3>1, <3>2
    <3>4. CASE Goto(p, "recUpdate")
      BY <2>1, <2>2, <3>3, <3>4 DEF Goto
    <3>5. CASE Goto(p, "aliasRead")
      BY <2>1, <2>2, <3>3, <3>5 DEF Goto
    <3> QED
      BY <3>1, <3>4, <3>5
  <2> QED
    BY <2>3, <2>4
<1>3. CASE UpdateMailAliasDestinations(p)
  <2>1. rows' \in [Locals -> Row \cup {NoRow}]
    <3>1. CASE UNCHANGED rows
      BY <3>1
    <3>2. CASE rows' = [rows EXCEPT ![job[p].local].dests = job[p].dests]
      <4>1. job[p].local \in Locals /\ job[p].dests \in Dests
        BY <1>3 DEF UpdateMailAliasDestinations, Job
      <4>2. CASE rows[job[p].local] = NoRow
        <5>1. [NoRow EXCEPT !.dests = job[p].dests] = NoRow
          BY DEF NoRow
        <5> QED
          BY <3>2, <4>1, <4>2, <5>1
      <4>3. CASE rows[job[p].local] \in Row
        <5>1. [rows[job[p].local] EXCEPT !.dests = job[p].dests] \in Row
          BY <4>1, <4>3 DEF Row
        <5> QED
          BY <3>2, <4>1, <5>1
      <4> QED
        BY <4>1, <4>2, <4>3
    <3> QED
      BY <1>3, <3>1, <3>2 DEF UpdateMailAliasDestinations, Ignored
  <2> QED
    BY <1>3, <2>1 DEF UpdateMailAliasDestinations, Goto
<1>4. CASE ListMailIdentitiesByDomain(p)
  BY <1>4 DEF ListMailIdentitiesByDomain, Ignored, Goto
<1>5. CASE UserExists(p)
  <2>1. PICK a \in check[p] :
          /\ pc[p] = "recUser"
          /\ check' = [check EXCEPT ![p] = @ \ {a}]
          /\ \/ pc' = [pc EXCEPT ![p] = "suspend"] /\ addr' = [addr EXCEPT ![p] = a]
             \/ UNCHANGED <<pc, addr>>
          /\ UNCHANGED <<mailDb, mta, regOf, aliasVars, seen>>
    BY <1>5 DEF UserExists
  <2>2. a \in Addrs /\ check' \in [Procs -> SUBSET Addrs]
    BY <2>1
  <2>3. CASE UNCHANGED <<pc, addr>>
    BY <2>1, <2>2, <2>3
  <2>4. CASE pc' = [pc EXCEPT ![p] = "suspend"] /\ addr' = [addr EXCEPT ![p] = a]
    BY <2>1, <2>2, <2>4
  <2> QED
    BY <2>1, <2>3, <2>4
<1>6. CASE PassEnds(p)
  BY <1>6 DEF PassEnds, Goto
<1> QED
  BY <1>1, <1>2, <1>3, <1>4, <1>5, <1>6, <1>7 DEF ReconcileStep

LEMMA AbortType ==
  ASSUME TypeInv, NEW p \in Procs, Abort(p), UNCHANGED <<aliasVars, recVars>>
  PROVE  TypeInv'
BY DEF Abort, Goto, TypeInv, TypeOK, MailTypeOK, AliasTypeOK, Control, Own, Set, Reconciles,
       AddrLabels, JobLabels, MailPC, mailDb, mta, aliasVars, recVars

LEMMA UserLostType ==
  ASSUME TypeInv, UserLost, UNCHANGED <<aliasVars, recVars>>
  PROVE  TypeInv'
BY DEF UserLost, TypeInv, TypeOK, MailTypeOK, AliasTypeOK, Control, Own, Set, Reconciles,
       mailDb, mta, aliasVars, recVars

LEMMA InitType == Init => TypeInv
<1> SUFFICES ASSUME Init PROVE TypeInv
  OBVIOUS
<1>1. MailTypeOK
  BY MailboxesAssumption DEF Init, MailInit, MailTypeOK, Secrets, IdentStatus, MailPC
<1>2. AliasTypeOK
  <2>1. NoJob \in Job
    BY DEF NoJob, Job, NoLines, File, Dests
  <2> QED
    BY <2>1, MailboxesAssumption DEF Init, AliasInit, AliasTypeOK, File, NoLines, Dests
<1>3. Control
  BY MailboxesAssumption DEF Init, MailInit, Control, Own, Set, AddrLabels, JobLabels
<1> QED
  BY <1>1, <1>2, <1>3 DEF TypeInv, TypeOK, Init

LEMMA NextType == TypeInv /\ [Next]_vars => TypeInv'
<1> SUFFICES ASSUME TypeInv, [Next]_vars PROVE TypeInv'
  OBVIOUS
<1>1. ASSUME NEW p \in Procs, Step(p) PROVE TypeInv'
  BY <1>1, MailStepType, AliasStepType, ReconcileStepType DEF Step
<1>2. ASSUME NEW p \in Procs, Abort(p), UNCHANGED <<aliasVars, recVars>> PROVE TypeInv'
  BY <1>2, AbortType
<1>3. CASE UserLost /\ UNCHANGED <<aliasVars, recVars>>
  BY <1>3, UserLostType
<1>4. CASE UNCHANGED vars
  BY <1>4 DEF vars, mailVars, mailDb, mta, aliasVars, recVars, TypeInv, TypeOK, MailTypeOK, AliasTypeOK,
              Control, Own, Set, Reconciles
<1> QED
  BY <1>1, <1>2, <1>3, <1>4 DEF Next

LEMMA TypeInvariant == Spec => []TypeInv
BY InitType, NextType, PTL DEF Spec

(***************************************************************************)
(* Types: every row, file and local of the mail subsystem has its type,    *)
(* whatever calls overlap and fail.                                        *)
(***************************************************************************)
THEOREM MailTyped == Spec => []TypeOK
<1>1. TypeInv => TypeOK
  BY DEF TypeInv
<1> QED
  BY <1>1, TypeInvariant, PTL

-----------------------------------------------------------------------------
\* What a step of the alias handlers or of a pass leaves alone: only handlers
\* that are no mailbox or domain operation move, and the mailbox state stays.
\* Ids are read when a handler starts.
Others(p) ==
    \A q \in Procs : q # p => pc'[q] = pc[q] /\ addr'[q] = addr[q] /\ regOf'[q] = regOf[q]

Quiet(p) ==
    /\ UNCHANGED <<mailDb, mta>>
    /\ Op[p] \notin {"enable", "disable", "create", "rotate"}
    /\ Others(p)
    /\ pc'[p] \notin {"restart", "dkim", "dkimRow", "setActive"}
    /\ regOf'[p] = regOf[p] \/ (pc[p] = "start" /\ pc'[p] \in {"aliasCheck", "recList", "done"})

LEMMA AliasStepQuiet ==
  ASSUME TypeInv, NEW p \in Procs, AliasStep(p), ~DeleteDomain(p)
  PROVE  Quiet(p) /\ pc'[p] \notin {"start", "suspend", "recUpdate", "recUser"}
<1> USE DEF TypeInv, TypeOK, MailTypeOK, Control, Own, Reconciles, Quiet, Others
<1>1. CASE StartAlias(p)
  BY <1>1 DEF StartAlias, At
<1>8. CASE CheckAlias(p)
  <2>1. pc[p] = "aliasCheck" /\ UNCHANGED <<mailDb, mta>>
    BY <1>8 DEF CheckAlias
  <2>2. Goto(p, "aliasRead") \/ Goto(p, "failed")
    BY <1>8, Zenon DEF CheckAlias
  <2> QED
    BY <2>1, <2>2 DEF Goto
<1>2. CASE SetAliasRead(p)
  BY <1>2 DEF SetAliasRead, Goto
<1>3. CASE SetAliasTruncate(p)
  BY <1>3 DEF SetAliasTruncate, Goto
<1>4. CASE SetAliasWrite(p)
  BY <1>4 DEF SetAliasWrite, Goto
<1>5. CASE CreateMailAlias(p)
  BY <1>5 DEF CreateMailAlias, Goto
<1>6. CASE AddGroupMember(p)
  BY <1>6 DEF AddGroupMember, At
<1>7. CASE RemoveAllGroupMemberships(p)
  BY <1>7 DEF RemoveAllGroupMemberships, At
<1> QED
  BY <1>1, <1>2, <1>3, <1>4, <1>5, <1>6, <1>7, <1>8 DEF AliasStep

LEMMA ReconcileStepQuiet ==
  ASSUME TypeInv, NEW p \in Procs, ReconcileStep(p)
  PROVE  Quiet(p)
<1> USE DEF TypeInv, TypeOK, MailTypeOK, Control, Own, Reconciles, Quiet, Others
<1>1. CASE ListMailAliasesByDomain(p)
  BY <1>1 DEF ListMailAliasesByDomain, Goto
<1>7. CASE StartPass(p)
  BY <1>7 DEF StartPass, At
<1>2. CASE ReconcileAlias(p)
  <2>1. PICK l \in Locals :
          /\ pc[p] = "recAlias"
          /\ \/ Goto(p, IF seen[p][l].group THEN "recUpdate" ELSE "aliasRead")
             \/ Goto(p, "recAlias")
          /\ UNCHANGED <<mailDb, mta>>
    BY <1>2, Zenon DEF ReconcileAlias
  <2> QED
    BY <2>1 DEF Goto
<1>3. CASE UpdateMailAliasDestinations(p)
  BY <1>3 DEF UpdateMailAliasDestinations, Goto
<1>4. CASE ListMailIdentitiesByDomain(p)
  BY <1>4 DEF ListMailIdentitiesByDomain, Goto
<1>5. CASE UserExists(p)
  BY <1>5 DEF UserExists
<1>6. CASE PassEnds(p)
  BY <1>6 DEF PassEnds, Goto
<1> QED
  BY <1>1, <1>2, <1>3, <1>4, <1>5, <1>6, <1>7 DEF ReconcileStep

\* After a deletion nobody's ids are current any more.
LEMMA DeletionForgets ==
  ASSUME TypeInv, NEW p \in Procs, DeleteMailRows(p)
  PROVE  /\ \A q \in Procs : ~Current(q)'
         /\ UNCHANGED <<addr, regOf, mta>> /\ reg' = reg + 1
         /\ Op[p] = "delete" /\ pc' = [pc EXCEPT ![p] = "done"]
         /\ mdomain' = "none"
         /\ \A q \in Procs : pc'[q] = pc[q] \/ (pc'[q] = "done" /\ q = p)
<1>1. /\ UNCHANGED <<addr, regOf, mta>> /\ reg' = reg + 1 /\ mdomain' = "none"
      /\ Op[p] = "delete" /\ pc' = [pc EXCEPT ![p] = "done"]
  BY DEF DeleteMailRows, Goto
<1>2. \A q \in Procs : reg \in Nat /\ regOf[q] \in Nat /\ regOf[q] =< reg
  BY DEF TypeInv, TypeOK, MailTypeOK, Control, Set
<1>3. \A q \in Procs : ~Current(q)'
  BY <1>1, <1>2 DEF Current
<1>4. \A q \in Procs : pc'[q] = pc[q] \/ (pc'[q] = "done" /\ q = p)
  <2>1. pc \in [Procs -> MailPC] /\ pc' = [pc EXCEPT ![p] = "done"]
    BY <1>1 DEF TypeInv, TypeOK, MailTypeOK
  <2> QED
    BY <2>1
<1> QED
  BY <1>1, <1>3, <1>4

-----------------------------------------------------------------------------
\* Active domains.

LEMMA DomainMailStep ==
  ASSUME TypeInv, DomainInv, NEW p \in Procs, MailStep(p)
  PROVE  DomainInv'
<1> USE DEF TypeInv, TypeOK, MailTypeOK, DomainInv, ActiveDomainInstalled, mailDb, mta
<1>1. CASE StartEnable(p) \/ StartDisable(p) \/ StartCreate(p) \/ StartRotate(p)
  BY <1>1 DEF StartEnable, StartDisable, StartCreate, StartRotate, At
<1>2. CASE CreateMailDomain(p)
  BY <1>2 DEF CreateMailDomain, Goto
<1>3. CASE EnsureDomain(p)
  <2>1. installed \subseteq installed'
    BY <1>3 DEF EnsureDomain
  <2>2. CASE Goto(p, "restart")
    BY <1>3, <2>1, <2>2 DEF EnsureDomain, Goto
  <2>3. CASE Goto(p, "giveUp")
    BY <1>3, <2>1, <2>3 DEF EnsureDomain, Goto
  <2> QED
    BY <1>3, <2>2, <2>3 DEF EnsureDomain
<1>4. CASE Restart(p)
  BY <1>4 DEF Restart, Goto
<1>5. CASE EnsureDKIM(p)
  BY <1>5 DEF EnsureDKIM, Goto
<1>6. CASE SetMailDomainDKIM(p)
  BY <1>6 DEF SetMailDomainDKIM, Ignored, Goto
<1>7. CASE SetMailDomainStatus(p)
  <2>1. UNCHANGED installed /\ (mdomain' = "active" => mdomain = "active" \/ pc[p] = "setActive")
    BY <1>7 DEF SetMailDomainStatus, Ignored
  <2>2. PICK label \in {"done", "failed"} : Goto(p, label)
    BY <1>7 DEF SetMailDomainStatus
  <2> QED
    BY <2>1, <2>2 DEF Goto
<1>8. CASE CreateMailIdentity(p) \/ CreateMailCredential(p) \/ SetMailIdentityStatus(p)
  BY <1>8 DEF CreateMailIdentity, CreateMailCredential, SetMailIdentityStatus, Goto
<1>9. CASE AddUser(p) \/ EnsureSenderPolicy(p) \/ CreateMailSubmissionPolicy(p)
  BY <1>9 DEF AddUser, EnsureSenderPolicy, CreateMailSubmissionPolicy, Goto
<1>10. CASE ChangePasswordRemove(p) \/ ChangePasswordAdd(p) \/ RevokeCredentialsByIdentity(p)
  BY <1>10 DEF ChangePasswordRemove, ChangePasswordAdd, RevokeCredentialsByIdentity, Goto
<1> QED
  BY <1>1, <1>2, <1>3, <1>4, <1>5, <1>6, <1>7, <1>8, <1>9, <1>10 DEF MailStep

LEMMA DomainNext == TypeInv /\ DomainInv /\ [Next]_vars => DomainInv'
<1> SUFFICES ASSUME TypeInv, DomainInv, [Next]_vars PROVE DomainInv'
  OBVIOUS
<1> USE DEF TypeInv, TypeOK, MailTypeOK, DomainInv, ActiveDomainInstalled, mailDb, mta
<1>1. ASSUME NEW p \in Procs, Quiet(p) PROVE DomainInv'
  BY <1>1 DEF Quiet, Others
<1>6. ASSUME NEW p \in Procs, DeleteDomain(p) PROVE DomainInv'
  BY <1>6, DeletionForgets DEF DeleteDomain
<1>2. ASSUME NEW p \in Procs, Step(p) PROVE DomainInv'
  BY <1>1, <1>2, <1>6, DomainMailStep, AliasStepQuiet, ReconcileStepQuiet DEF Step
<1>3. ASSUME NEW p \in Procs, Abort(p) PROVE DomainInv'
  BY <1>3 DEF Abort, Goto
<1>4. CASE UserLost
  BY <1>4 DEF UserLost
<1>5. CASE UNCHANGED vars
  BY <1>5 DEF vars, mailVars
<1> QED
  BY <1>2, <1>3, <1>4, <1>5 DEF Next

(***************************************************************************)
(* An active mail domain has its directory at chasquid, for any number of  *)
(* enableMail and disableMail requests that overlap, fail and abort:       *)
(* enableMail returns before it writes 'active' unless EnsureDomain        *)
(* succeeded, and nothing removes a directory.                             *)
(***************************************************************************)
THEOREM ActiveDomainsInstalled == Spec => []ActiveDomainInstalled
<1>1. Init => DomainInv
  BY DEF Init, MailInit, DomainInv, ActiveDomainInstalled
<1>2. DomainInv => ActiveDomainInstalled
  BY DEF DomainInv
<1> QED
  BY <1>1, <1>2, TypeInvariant, DomainNext, PTL DEF Spec

-----------------------------------------------------------------------------
\* The lifecycle of an identity.

\* A status changes only along Forward.
MovesForward == \A a \in Addrs : ident'[a] # ident[a] => <<ident[a], ident'[a]>> \in Forward

LEMMA ForwardMailStep ==
  ASSUME TypeInv, IdentInv, NEW p \in Procs, MailStep(p)
  PROVE  MovesForward
<1> USE DEF TypeInv, TypeOK, MailTypeOK, MovesForward, mailDb, mta
<1>1. CASE CreateMailIdentity(p)
  BY <1>1 DEF CreateMailIdentity, Forward
<1>2. CASE SetMailIdentityStatus(p)
  <2>1. CASE UNCHANGED ident
    BY <2>1
  <2>2. CASE ~UNCHANGED ident
    <3>1. Current(p)
      BY <1>2, <2>2 DEF SetMailIdentityStatus, Ignored
    <3>2. CASE pc[p] = "markDeleted"
      <4>1. ident[addr[p]] = "requested"
        BY <3>1, <3>2 DEF IdentInv, Creating, Control, Own
      <4> QED
        BY <1>2, <3>2, <4>1 DEF SetMailIdentityStatus, Ignored, Forward
    <3>3. CASE pc[p] = "activate"
      <4>1. ident[addr[p]] = "requested"
        BY <3>1, <3>3 DEF IdentInv, Creating, Control, Own
      <4> QED
        BY <1>2, <3>3, <4>1 DEF SetMailIdentityStatus, Ignored, Forward
    <3>4. CASE pc[p] = "suspend"
      BY <1>2, <3>1, <3>4 DEF SetMailIdentityStatus, Ignored, Forward, IdentInv, WasActive
    <3> QED
      BY <1>2, <3>2, <3>3, <3>4 DEF SetMailIdentityStatus
  <2> QED
    BY <2>1, <2>2
<1>3. CASE ~CreateMailIdentity(p) /\ ~SetMailIdentityStatus(p)
  <2>1. UNCHANGED ident
    BY <1>3 DEF MailStep, StartEnable, StartDisable, StartCreate, StartRotate, At,
                CreateMailDomain, EnsureDomain, Restart, EnsureDKIM, SetMailDomainDKIM,
                SetMailDomainStatus, CreateMailCredential, AddUser, EnsureSenderPolicy,
                CreateMailSubmissionPolicy, ChangePasswordRemove, ChangePasswordAdd,
                RevokeCredentialsByIdentity
  <2> QED
    BY <2>1
<1> QED
  BY <1>1, <1>2, <1>3

LEMMA ForwardNext ==
  TypeInv /\ IdentInv /\ [Next]_vars => MovesForward \/ \E p \in Procs : DeleteDomain(p)
<1> SUFFICES ASSUME TypeInv, IdentInv, [Next]_vars, ~\E p \in Procs : DeleteDomain(p)
             PROVE  MovesForward
  OBVIOUS
<1>1. ASSUME UNCHANGED ident PROVE MovesForward
  BY <1>1 DEF MovesForward
<1>2. ASSUME NEW p \in Procs, Step(p) PROVE MovesForward
  <2>1. CASE MailStep(p)
    BY <2>1, ForwardMailStep
  <2>2. CASE Quiet(p)
    BY <1>1, <2>2 DEF Quiet, mailDb
  <2> QED
    BY <1>2, <2>1, <2>2, AliasStepQuiet, ReconcileStepQuiet DEF Step
<1>3. ASSUME NEW p \in Procs, Abort(p) PROVE MovesForward
  BY <1>1, <1>3 DEF Abort, mailDb
<1>4. CASE UserLost
  BY <1>1, <1>4 DEF UserLost, mailDb
<1>5. CASE UNCHANGED vars
  BY <1>1, <1>5 DEF vars, mailVars, mailDb
<1> QED
  BY <1>2, <1>3, <1>4, <1>5 DEF Next

\* Hence an identity keeps its row, and one that was active stays so or is suspended.
LEMMA ForwardKeeps ==
  ASSUME TypeInv, TypeInv', MovesForward, NEW a \in Addrs
  PROVE  /\ ident[a] # "none" => ident'[a] # "none"
         /\ WasActive(a) => WasActive(a)'
BY DEF TypeInv, TypeOK, MailTypeOK, IdentStatus, MovesForward, Forward, WasActive

\* The mailbox steps that write no status make no owner.
LEMMA MakesNoOwner ==
  ASSUME TypeInv, NEW p \in Procs, MailStep(p), ~CreateMailIdentity(p), ~SetMailIdentityStatus(p)
  PROVE  /\ UNCHANGED <<reg, ident>> /\ Others(p)
         /\ Creating(p)' => Creating(p)
         /\ Owns(p)' => Owns(p) /\ addr'[p] = addr[p] /\ regOf'[p] = regOf[p]
         /\ pc[p] = "start" \/ regOf'[p] = regOf[p]
         /\ pc'[p] \notin {"start", "suspend"}
<1> USE DEF TypeInv, TypeOK, MailTypeOK, Control, Own, Owns, Creating, Others, mailDb
<1>1. CASE StartEnable(p) \/ StartDisable(p) \/ StartCreate(p) \/ StartRotate(p)
  BY <1>1 DEF StartEnable, StartDisable, StartCreate, StartRotate, At
<1>2. CASE CreateMailDomain(p) \/ EnsureDomain(p) \/ Restart(p)
  BY <1>2 DEF CreateMailDomain, EnsureDomain, Restart, Goto
<1>3. CASE EnsureDKIM(p) \/ SetMailDomainDKIM(p)
  BY <1>3 DEF EnsureDKIM, SetMailDomainDKIM, Goto
<1>4. CASE SetMailDomainStatus(p)
  BY <1>4 DEF SetMailDomainStatus, Goto
<1>5. CASE CreateMailCredential(p)
  BY <1>5 DEF CreateMailCredential, Goto
<1>6. CASE AddUser(p)
  BY <1>6 DEF AddUser, Goto
<1>7. CASE EnsureSenderPolicy(p) \/ CreateMailSubmissionPolicy(p)
  BY <1>7 DEF EnsureSenderPolicy, CreateMailSubmissionPolicy, Goto
<1>8. CASE ChangePasswordRemove(p) \/ ChangePasswordAdd(p) \/ RevokeCredentialsByIdentity(p)
  BY <1>8 DEF ChangePasswordRemove, ChangePasswordAdd, RevokeCredentialsByIdentity, Goto
<1> QED
  BY <1>1, <1>2, <1>3, <1>4, <1>5, <1>6, <1>7, <1>8 DEF MailStep

LEMMA IdentMailStep ==
  ASSUME TypeInv, TypeInv', IdentInv, NEW p \in Procs, MailStep(p), UNCHANGED recVars
  PROVE  IdentInv'
<1>0. MovesForward
  BY ForwardMailStep
<1>1. \A q \in Procs : Current(q) => \A a \in check'[q] : WasActive(a)'
  BY <1>0, ForwardKeeps DEF TypeInv, TypeOK, IdentInv, recVars
<1>2. \A q \in Procs : pc[q] = "suspend" /\ Current(q) => ident'[addr[q]] \in {"active", "suspended"}
  BY <1>0, ForwardKeeps DEF TypeInv, Control, Set, AddrLabels, IdentInv, WasActive
<1>3. \A q \in Procs : Owns(q) => addr[q] \in Addrs /\ (Current(q) => ident'[addr[q]] # "none")
  BY <1>0, ForwardKeeps DEF IdentInv
<1>4. CASE CreateMailIdentity(p)
  <2>1. addr[p] \in Addrs /\ Op[p] = "create" /\ UNCHANGED <<reg, addr, regOf>>
    BY <1>4 DEF CreateMailIdentity, Goto, TypeInv, Control, Own, Set, AddrLabels
  <2>2. \A q \in Procs : Current(q)' = Current(q)
    BY <2>1 DEF Current
  <2>3. CASE Current(p) /\ ident[addr[p]] = "none"
    <3>1. ident' = [ident EXCEPT ![addr[p]] = "requested"] /\ pc' = [pc EXCEPT ![p] = "cred"]
      BY <1>4, <2>3 DEF CreateMailIdentity, Goto
    <3>2. \A q \in Procs : Owns(q) /\ Current(q) => addr[q] # addr[p]
      BY <2>3 DEF IdentInv
    <3> QED
      BY <1>1, <1>2, <2>1, <2>2, <3>1, <3>2, <1>3 DEF IdentInv, Owns, Creating, TypeInv, TypeOK,
         MailTypeOK, WasActive, recVars
  <2>4. CASE ~(Current(p) /\ ident[addr[p]] = "none")
    <3>1. UNCHANGED ident /\ pc' = [pc EXCEPT ![p] = "failed"]
      BY <1>4, <2>4 DEF CreateMailIdentity, Goto
    <3> QED
      BY <1>1, <1>2, <2>1, <2>2, <3>1 DEF IdentInv, Owns, Creating, TypeInv, TypeOK, MailTypeOK,
         WasActive, recVars
  <2> QED
    BY <2>3, <2>4
<1>5. CASE SetMailIdentityStatus(p)
  <2>1. UNCHANGED <<reg, addr, regOf>> /\ addr[p] \in Addrs
    BY <1>5 DEF SetMailIdentityStatus, Goto, TypeInv, Control, Set, AddrLabels
  <2>2. \A a \in Addrs : ident'[a] = ident[a] \/ (a = addr[p] /\ Current(p))
    BY <1>5, <2>1 DEF SetMailIdentityStatus, Ignored, TypeInv, TypeOK, MailTypeOK
  <2>3. \A q \in Procs : q # p /\ Creating(q) /\ Current(q) /\ Current(p) =>
          addr[q] \in Addrs /\ addr[q] # addr[p]
    <3>1. CASE pc[p] = "suspend"
      BY <3>1 DEF WasActive, IdentInv, Owns
    <3>2. CASE pc[p] \in {"markDeleted", "activate"}
      BY <3>2 DEF TypeInv, Control, Own, IdentInv, Owns, Creating
    <3> QED
      BY <1>5, <3>1, <3>2 DEF SetMailIdentityStatus
  <2>4. PICK label \in {"failed", "done", "recUser"} :
          pc' = [pc EXCEPT ![p] = label] /\ (label = "done" => pc[p] = "activate")
    BY <1>5 DEF SetMailIdentityStatus, Goto
  <2>5. ~Creating(p)' /\ (Owns(p)' => Owns(p)) /\ pc'[p] \notin {"start", "suspend"}
    BY <2>4 DEF TypeInv, TypeOK, MailTypeOK, Creating, Owns
  <2>6. \A q \in Procs : q # p => pc'[q] = pc[q]
    BY <2>4 DEF TypeInv, TypeOK, MailTypeOK
  <2>7. \A q \in Procs : Current(q)' = Current(q)
    BY <2>1 DEF Current
  <2>8. \A q \in Procs : q # p => Owns(q)' = Owns(q) /\ Creating(q)' = Creating(q)
    BY <2>6 DEF Owns, Creating
  <2>9. \A q \in Procs : Creating(q)' /\ Current(q)' => ident'[addr'[q]] = "requested"
    BY <2>1, <2>2, <2>3, <2>5, <2>7, <2>8 DEF IdentInv, Owns
  <2> QED
    BY <1>1, <1>2, <1>3, <2>1, <2>5, <2>6, <2>7, <2>8, <2>9 DEF IdentInv, WasActive, recVars
<1>6. CASE ~CreateMailIdentity(p) /\ ~SetMailIdentityStatus(p)
  <2>1. /\ UNCHANGED <<reg, ident>> /\ Others(p)
        /\ Creating(p)' => Creating(p)
        /\ Owns(p)' => Owns(p) /\ addr'[p] = addr[p] /\ regOf'[p] = regOf[p]
        /\ pc[p] = "start" \/ regOf'[p] = regOf[p]
        /\ pc'[p] \notin {"start", "suspend"}
    BY <1>6, MakesNoOwner
  <2>2. \A q \in Procs : q # p => /\ Owns(q)' = Owns(q) /\ Creating(q)' = Creating(q)
                                  /\ Current(q)' = Current(q) /\ addr'[q] = addr[q]
                                  /\ pc'[q] = pc[q]
    BY <2>1 DEF Others, Owns, Creating, Current
  <2>3. \A q \in Procs : Owns(q)' => Owns(q) /\ Current(q)' = Current(q) /\ addr'[q] = addr[q]
    BY <2>1, <2>2 DEF Current
  <2>4. \A q \in Procs : Creating(q)' => Creating(q) /\ Owns(q)'
    BY <2>1, <2>2 DEF Owns
  <2>5. \A q \in Procs : pc'[q] \in {"start", "suspend"} => q # p
    BY <2>1
  <2>6. \A q \in Procs : Current(q)' => Current(q) \/ check[q] = {}
    BY <2>1, <2>2 DEF Current, IdentInv
  <2> QED
    BY <1>1, <2>1, <2>2, <2>3, <2>4, <2>5, <2>6 DEF IdentInv, WasActive, recVars
<1> QED
  BY <1>4, <1>5, <1>6

LEMMA IdentQuiet ==
  ASSUME TypeInv, IdentInv, NEW p \in Procs, Quiet(p),
         \A q \in Procs : q # p => check'[q] = check[q],
         Current(p)' => \A a \in check'[p] : WasActive(a),
         pc'[p] = "start" => check'[p] = {},
         pc'[p] = "suspend" /\ Current(p)' => WasActive(addr'[p])
  PROVE  IdentInv'
<1>1. \A q \in Procs : q # p => /\ Owns(q)' = Owns(q) /\ Creating(q)' = Creating(q)
                                /\ Current(q)' = Current(q) /\ addr'[q] = addr[q]
                                /\ pc'[q] = pc[q]
  BY DEF Quiet, Others, Owns, Creating, Current, mailDb
<1>2. ~Owns(p)' /\ ~Creating(p)' /\ UNCHANGED ident
  BY DEF Quiet, Owns, Creating, mailDb
<1> QED
  BY <1>1, <1>2 DEF IdentInv, WasActive

\* A deletion leaves no ids that are current, so only what does not depend on
\* them is left to show.
LEMMA IdentDelete ==
  ASSUME TypeInv, IdentInv, NEW p \in Procs, DeleteMailRows(p), UNCHANGED check
  PROVE  IdentInv'
<1>1. \A q \in Procs : ~Current(q)' /\ addr'[q] = addr[q]
  BY DeletionForgets
<1>2. \A q \in Procs : (Owns(q)' => Owns(q)) /\ (pc'[q] = "start" => pc[q] = "start")
  BY DeletionForgets DEF Owns, Creating
<1> QED
  BY <1>1, <1>2 DEF IdentInv

LEMMA IdentNext == TypeInv /\ TypeInv' /\ IdentInv /\ [Next]_vars => IdentInv'
<1> SUFFICES ASSUME TypeInv, TypeInv', IdentInv, [Next]_vars PROVE IdentInv'
  OBVIOUS
<1>1. ASSUME NEW p \in Procs, AliasStep(p), UNCHANGED recVars PROVE IdentInv'
  <2>1. CASE DeleteDomain(p)
    BY <1>1, <2>1, IdentDelete DEF DeleteDomain, recVars
  <2>2. CASE ~DeleteDomain(p)
    <3>1. Quiet(p) /\ pc'[p] \notin {"start", "suspend"} /\ UNCHANGED check
      BY <1>1, <2>2, AliasStepQuiet DEF recVars
    <3>2. Current(p)' => Current(p) \/ check[p] = {}
      BY <3>1 DEF Quiet, Current, IdentInv, mailDb
    <3> QED
      BY <3>1, <3>2, IdentQuiet DEF IdentInv
  <2> QED
    BY <2>1, <2>2
<1>2. ASSUME NEW p \in Procs, ReconcileStep(p) PROVE IdentInv'
  <2>0. Quiet(p)
    BY <1>2, ReconcileStepQuiet
  <2>1. CASE UserExists(p)
    <3>1. PICK a \in check[p] :
            /\ pc[p] = "recUser"
            /\ check' = [check EXCEPT ![p] = @ \ {a}]
            /\ \/ pc' = [pc EXCEPT ![p] = "suspend"] /\ addr' = [addr EXCEPT ![p] = a]
               \/ UNCHANGED <<pc, addr>>
            /\ UNCHANGED regOf
      BY <2>1 DEF UserExists
    <3>2. check'[p] \subseteq check[p] /\ \A q \in Procs : q # p => check'[q] = check[q]
      BY <3>1 DEF TypeInv, TypeOK
    <3>3. pc'[p] # "start" /\ (pc'[p] = "suspend" => addr'[p] = a)
      BY <3>1 DEF TypeInv, TypeOK, MailTypeOK
    <3>4. Current(p)' = Current(p)
      BY <2>0, <3>1 DEF Current, Quiet, mailDb
    <3> QED
      BY <2>0, <3>1, <3>2, <3>3, <3>4, IdentQuiet DEF IdentInv
  <2>2. CASE ListMailIdentitiesByDomain(p)
    <3>1. pc'[p] = "recUser" /\ \A q \in Procs : q # p => check'[q] = check[q]
      BY <2>2 DEF ListMailIdentitiesByDomain, Ignored, Goto, TypeInv, TypeOK, MailTypeOK
    <3>2. \A a \in check'[p] : WasActive(a)
      BY <2>2 DEF ListMailIdentitiesByDomain, Ignored, TypeInv, TypeOK, WasActive
    <3> QED
      BY <2>0, <3>1, <3>2, IdentQuiet
  <2>3. CASE PassEnds(p)
    <3>1. UNCHANGED check /\ check[p] = {} /\ pc'[p] # "suspend"
      BY <2>3 DEF PassEnds, Goto, recVars, TypeInv, TypeOK, MailTypeOK
    <3> QED
      BY <2>0, <3>1, IdentQuiet
  <2>4. CASE ~UserExists(p) /\ ~ListMailIdentitiesByDomain(p) /\ ~PassEnds(p)
    <3>1. UNCHANGED check
      BY <1>2, <2>4 DEF ReconcileStep, StartPass, ListMailAliasesByDomain, ReconcileAlias,
                        UpdateMailAliasDestinations, recVars
    <3>2. pc'[p] \notin {"start", "suspend"}
      BY <1>2, <2>4 DEF ReconcileStep, StartPass, ListMailAliasesByDomain, ReconcileAlias,
                        UpdateMailAliasDestinations, At, Goto, TypeInv, TypeOK, MailTypeOK
    <3>3. Current(p)' => Current(p) \/ check[p] = {}
      BY <2>0 DEF Quiet, Current, IdentInv, mailDb
    <3> QED
      BY <2>0, <3>1, <3>2, <3>3, IdentQuiet DEF IdentInv
  <2> QED
    BY <2>1, <2>2, <2>3, <2>4
<1>3. ASSUME NEW p \in Procs, Abort(p), UNCHANGED <<aliasVars, recVars>> PROVE IdentInv'
  <2>1. UNCHANGED <<reg, ident, addr, regOf, check>> /\ pc' = [pc EXCEPT ![p] = "failed"]
    BY <1>3 DEF Abort, Goto, mailDb, recVars
  <2>2. \A q \in Procs : pc'[q] \in {pc[q], "failed"}
    BY <2>1 DEF TypeInv, TypeOK, MailTypeOK
  <2> QED
    BY <2>1, <2>2 DEF IdentInv, Owns, Creating, WasActive, Current
<1>4. CASE UserLost /\ UNCHANGED <<aliasVars, recVars>>
  BY <1>4 DEF UserLost, IdentInv, Owns, Creating, WasActive, Current, mailDb, recVars
<1>5. CASE UNCHANGED vars
  BY <1>5 DEF vars, mailVars, mailDb, recVars, IdentInv, Owns, Creating, WasActive, Current
<1> QED
  BY <1>1, <1>2, <1>3, <1>4, <1>5, IdentMailStep DEF Next, Step

LEMMA InitIdent == Init => IdentInv
BY DEF Init, MailInit, IdentInv, Owns, Creating

LEMMA IdentInvariant == Spec => []IdentInv
BY InitIdent, IdentNext, TypeInvariant, PTL DEF Spec

(***************************************************************************)
(* An identity's status only moves forward, for any number of creations,   *)
(* rotations, passes and deletions of the domain: the UPDATEs that set it  *)
(* carry no condition, but a creation owns its address from the INSERT to  *)
(* its last UPDATE, a pass suspends nothing that was not active when it    *)
(* was listed, and neither finds a row of a later registration.            *)
(***************************************************************************)
THEOREM LifecyclesForward == Spec => LifecycleForward
<1>1. TypeInv /\ IdentInv /\ [Next]_vars =>
        [\A a \in Addrs : ident'[a] # ident[a] =>
            <<ident[a], ident'[a]>> \in Forward \/ reg' # reg]_vars
  <2>1. ASSUME TypeInv, NEW p \in Procs, DeleteDomain(p) PROVE reg' # reg
    BY <2>1, DeletionForgets DEF DeleteDomain, TypeInv, TypeOK, MailTypeOK
  <2> QED
    BY <2>1, ForwardNext DEF MovesForward
<1> QED
  BY <1>1, TypeInvariant, IdentInvariant, PTL DEF Spec, LifecycleForward

-----------------------------------------------------------------------------
\* Secrets.

\* An address, once taken by a creation or a rotation, is kept.
AddrKept == \A q \in Procs : Op[q] \in {"create", "rotate"} /\ addr[q] # None => addr'[q] = addr[q]

LEMMA NextKeepsAddr == TypeInv /\ [Next]_vars => AddrKept
<1> SUFFICES ASSUME TypeInv, [Next]_vars PROVE AddrKept
  OBVIOUS
<1> USE DEF AddrKept
<1>1. ASSUME NEW p \in Procs, Quiet(p) PROVE AddrKept
  BY <1>1 DEF Quiet, Others
<1>2. ASSUME NEW p \in Procs, MailStep(p) PROVE AddrKept
  <2>1. CASE StartEnable(p) \/ StartDisable(p) \/ StartCreate(p) \/ StartRotate(p)
    BY <2>1 DEF TypeInv, TypeOK, MailTypeOK, Control, Set, StartEnable, StartDisable,
                StartCreate, StartRotate, At
  <2>2. CASE UNCHANGED addr
    BY <2>2
  <2> QED
    BY <1>2, <2>1, <2>2 DEF MailStep, CreateMailDomain, EnsureDomain, Restart, EnsureDKIM,
         SetMailDomainDKIM, SetMailDomainStatus, CreateMailIdentity, CreateMailCredential,
         AddUser, EnsureSenderPolicy, CreateMailSubmissionPolicy, SetMailIdentityStatus,
         ChangePasswordRemove, ChangePasswordAdd, RevokeCredentialsByIdentity, Goto
<1>7. ASSUME NEW p \in Procs, DeleteDomain(p) PROVE AddrKept
  BY <1>7, DeletionForgets DEF DeleteDomain
<1>3. ASSUME NEW p \in Procs, Step(p) PROVE AddrKept
  BY <1>1, <1>2, <1>3, <1>7, AliasStepQuiet, ReconcileStepQuiet DEF Step
<1>4. ASSUME NEW p \in Procs, Abort(p) PROVE AddrKept
  BY <1>4 DEF Abort, Goto
<1>5. CASE UserLost
  BY <1>5 DEF UserLost
<1>6. CASE UNCHANGED vars
  BY <1>6 DEF vars, mailVars
<1> QED
  BY <1>3, <1>4, <1>5, <1>6 DEF Next

LEMMA RotatedKept ==
  ASSUME AddrKept, NEW a \in Addrs, Rotated(a)
  PROVE  \E q \in Procs : Op[q] = "rotate" /\ addr'[q] = a
BY MailboxesAssumption DEF AddrKept, Rotated

\* A step of p writes another creation's user or credential only where p is a
\* rotation of its mailbox: a user-add, of an earlier registration even, finds
\* the user there.
LEMMA OthersSecretKept ==
  ASSUME TypeInv, IdentInv, SecretInv, NEW p \in Procs, MailStep(p),
         NEW q \in Procs, q # p, Owns(q), ~Rotated(addr[q])
  PROVE  /\ Enrolled(q) => userdb'[addr[q]] = userdb[addr[q]]
         /\ cred'[<<addr[q], q>>] = cred[<<addr[q], q>>]
<1>0. addr[q] \in Addrs /\ <<addr[q], q>> \in Addrs \X Secrets
  BY DEF IdentInv, Secrets
<1> USE DEF TypeInv, TypeOK, MailTypeOK, mailDb, mta
<1>1. CASE StartEnable(p) \/ StartDisable(p) \/ StartCreate(p) \/ StartRotate(p)
  BY <1>1 DEF StartEnable, StartDisable, StartCreate, StartRotate, At
<1>2. CASE CreateMailDomain(p) \/ EnsureDomain(p) \/ Restart(p)
  BY <1>2 DEF CreateMailDomain, EnsureDomain, Restart
<1>3. CASE EnsureDKIM(p) \/ SetMailDomainDKIM(p) \/ SetMailDomainStatus(p)
  BY <1>3 DEF EnsureDKIM, SetMailDomainDKIM, SetMailDomainStatus
<1>4. CASE CreateMailCredential(p)
  BY <1>0, <1>4 DEF CreateMailCredential
<1>5. CASE AddUser(p)
  <2>1. Enrolled(q) => userdb[addr[q]] # None
    BY MailboxesAssumption DEF SecretInv
  <2>2. addr[p] = addr[q] /\ userdb[addr[q]] # None => userdb' = userdb
    BY <1>5 DEF AddUser
  <2>3. addr[p] # addr[q] => userdb'[addr[q]] = userdb[addr[q]]
    BY <1>0, <1>5 DEF AddUser
  <2>4. UNCHANGED cred
    BY <1>5 DEF AddUser
  <2> QED
    BY <2>1, <2>2, <2>3, <2>4
<1>6. CASE EnsureSenderPolicy(p) \/ CreateMailSubmissionPolicy(p)
  BY <1>6 DEF EnsureSenderPolicy, CreateMailSubmissionPolicy
<1>7. CASE CreateMailIdentity(p) \/ SetMailIdentityStatus(p)
  BY <1>7 DEF CreateMailIdentity, SetMailIdentityStatus
<1>8. CASE ChangePasswordRemove(p) \/ ChangePasswordAdd(p) \/ RevokeCredentialsByIdentity(p)
  <2>1. addr[p] # addr[q]
    BY <1>8 DEF ChangePasswordRemove, ChangePasswordAdd, RevokeCredentialsByIdentity, Control,
                Own, Rotated
  <2>2. CASE ChangePasswordRemove(p)
    BY <1>0, <2>1, <2>2 DEF ChangePasswordRemove
  <2>3. CASE ChangePasswordAdd(p)
    BY <1>0, <2>1, <2>3 DEF ChangePasswordAdd
  <2>4. CASE RevokeCredentialsByIdentity(p)
    BY <1>0, <2>1, <2>4 DEF RevokeCredentialsByIdentity
  <2> QED
    BY <1>8, <2>2, <2>3, <2>4
<1> QED
  BY <1>1, <1>2, <1>3, <1>4, <1>5, <1>6, <1>7, <1>8 DEF MailStep

\* What p's own creation has when it reaches a label.
LEMMA OwnSecret ==
  ASSUME TypeInv, IdentInv, SecretInv, NEW p \in Procs, MailStep(p),
         Op[p] = "create", ~Rotated(addr[p])
  PROVE  /\ (Enrolled(p)' \/ pc'[p] = "addUser") /\ Current(p)' => cred'[<<addr[p], p>>] = "active"
         /\ Enrolled(p)' => userdb'[addr[p]] = p
<1> USE DEF TypeInv, TypeOK, MailTypeOK, Enrolled, Current, mailDb, mta
<1>1. CASE StartEnable(p) \/ StartDisable(p) \/ StartCreate(p) \/ StartRotate(p)
  BY <1>1 DEF StartEnable, StartDisable, StartCreate, StartRotate, At
<1>2. CASE CreateMailDomain(p) \/ EnsureDomain(p) \/ Restart(p)
  BY <1>2 DEF CreateMailDomain, EnsureDomain, Restart, Control, Own
<1>3. CASE EnsureDKIM(p) \/ SetMailDomainDKIM(p) \/ SetMailDomainStatus(p)
  BY <1>3 DEF EnsureDKIM, SetMailDomainDKIM, SetMailDomainStatus, Control, Own
<1>4. CASE CreateMailIdentity(p)
  BY <1>4 DEF CreateMailIdentity, Goto
<1>5. CASE CreateMailCredential(p)
  <2>1. addr[p] \in Addrs /\ <<addr[p], p>> \in Addrs \X Secrets
    BY <1>5 DEF CreateMailCredential, Control, Set, AddrLabels, Secrets
  <2> QED
    BY <1>5, <2>1 DEF CreateMailCredential, Goto
<1>6. CASE AddUser(p)
  <2>1. addr[p] \in Addrs
    BY <1>6 DEF AddUser, Control, Set, AddrLabels
  <2>2. (Current(p) => cred[<<addr[p], p>>] = "active") /\ UNCHANGED <<cred, addr, reg, regOf>>
    BY <1>6 DEF AddUser, SecretInv, Goto
  <2> QED
    BY <1>6, <2>1, <2>2 DEF AddUser, Goto
<1>7. CASE EnsureSenderPolicy(p) \/ CreateMailSubmissionPolicy(p)
  BY <1>7 DEF EnsureSenderPolicy, CreateMailSubmissionPolicy, Goto, SecretInv
<1>8. CASE SetMailIdentityStatus(p)
  BY <1>8 DEF SetMailIdentityStatus, Goto, SecretInv, Control, Own, Reconciles
<1>9. CASE ChangePasswordRemove(p) \/ ChangePasswordAdd(p) \/ RevokeCredentialsByIdentity(p)
  BY <1>9 DEF ChangePasswordRemove, ChangePasswordAdd, RevokeCredentialsByIdentity, Control, Own
<1> QED
  BY <1>1, <1>2, <1>3, <1>4, <1>5, <1>6, <1>7, <1>8, <1>9 DEF MailStep

LEMMA MailStepMoves ==
  ASSUME TypeInv, NEW p \in Procs, MailStep(p)
  PROVE  /\ UNCHANGED reg /\ Others(p)
         /\ \/ UNCHANGED <<addr, regOf>>
            \/ pc[p] = "start" /\ pc'[p] \in {"createDomain", "setDisabled", "insert", "pwRemove"}
<1> USE DEF TypeInv, TypeOK, MailTypeOK, Others
<1>0. UNCHANGED reg
  BY DEF MailStep, StartEnable, StartDisable, StartCreate, StartRotate, At, CreateMailDomain,
         EnsureDomain, Restart, EnsureDKIM, SetMailDomainDKIM, SetMailDomainStatus,
         CreateMailIdentity, CreateMailCredential, AddUser, EnsureSenderPolicy,
         CreateMailSubmissionPolicy, SetMailIdentityStatus, ChangePasswordRemove,
         ChangePasswordAdd, RevokeCredentialsByIdentity, mailDb
<1>1. CASE StartEnable(p) \/ StartDisable(p) \/ StartCreate(p) \/ StartRotate(p)
  BY <1>0, <1>1 DEF StartEnable, StartDisable, StartCreate, StartRotate, At
<1>2. CASE \E label \in MailPC : Goto(p, label)
  BY <1>0, <1>2 DEF Goto
<1> QED
  BY <1>0, <1>1, <1>2 DEF MailStep, CreateMailDomain, EnsureDomain, Restart, EnsureDKIM,
       SetMailDomainDKIM, SetMailDomainStatus, CreateMailIdentity, CreateMailCredential,
       AddUser, EnsureSenderPolicy, CreateMailSubmissionPolicy, SetMailIdentityStatus,
       ChangePasswordRemove, ChangePasswordAdd, RevokeCredentialsByIdentity, MailPC

LEMMA SecretMailStep ==
  ASSUME TypeInv, TypeInv', IdentInv, IdentInv', SecretInv, AddrKept, NEW p \in Procs, MailStep(p)
  PROVE  SecretInv'
<1> SUFFICES ASSUME NEW q \in Procs, Enrolled(q)' \/ pc'[q] = "addUser",
                    ~\E r \in Procs : Op[r] = "rotate" /\ addr'[r] = addr'[q]
             PROVE  /\ Current(q)' => cred'[<<addr'[q], q>>] = "active"
                    /\ Enrolled(q)' => userdb'[addr'[q]] = q
  BY DEF SecretInv, Rotated
<1>1. Op[q] = "create" /\ Owns(q)'
  BY DEF Enrolled, TypeInv, Control, Own, Owns, Creating
<1>2. addr'[q] \in Addrs
  BY <1>1 DEF IdentInv
<1>3. addr'[q] = addr[q]
  BY MailStepMoves DEF Enrolled, Others
<1>4. ~Rotated(addr[q])
  BY <1>2, <1>3, RotatedKept
<1>5. CASE q = p
  BY <1>1, <1>3, <1>4, <1>5, OwnSecret
<1>6. CASE q # p
  <2>1. pc'[q] = pc[q] /\ Current(q)' = Current(q)
    BY <1>6, MailStepMoves DEF Others, Current
  <2>2. Owns(q)
    BY <1>1, <2>1 DEF Owns, Creating
  <2>3. /\ Enrolled(q) => userdb'[addr[q]] = userdb[addr[q]]
        /\ cred'[<<addr[q], q>>] = cred[<<addr[q], q>>]
    BY <1>4, <1>6, <2>2, OthersSecretKept
  <2> QED
    BY <1>3, <1>4, <2>1, <2>3 DEF SecretInv, Enrolled
<1> QED
  BY <1>5, <1>6

\* A step that writes no user, and no credential unless it is the deletion, and
\* whose process is no creation or ends without an answer.
LEMMA SecretIdle ==
  ASSUME SecretInv, AddrKept, IdentInv, TypeInv, NEW p \in Procs, UNCHANGED userdb, Others(p),
         UNCHANGED <<reg, cred>> \/ \A q \in Procs : ~Current(q)',
         Op[p] # "create" \/ pc'[p] = "failed", TypeInv'
  PROVE  SecretInv'
<1> SUFFICES ASSUME NEW q \in Procs, Enrolled(q)' \/ pc'[q] = "addUser",
                    ~\E r \in Procs : Op[r] = "rotate" /\ addr'[r] = addr'[q]
             PROVE  /\ Current(q)' => cred'[<<addr'[q], q>>] = "active"
                    /\ Enrolled(q)' => userdb'[addr'[q]] = q
  BY DEF SecretInv, Rotated
<1>1. Op[q] = "create" /\ q # p
  BY DEF Enrolled, TypeInv, Control, Own
<1>2. pc'[q] = pc[q] /\ addr'[q] = addr[q] /\ regOf'[q] = regOf[q] /\ Owns(q)
  BY <1>1 DEF Enrolled, Owns, Creating, Others
<1>3. ~Rotated(addr[q])
  BY <1>2, RotatedKept DEF IdentInv
<1> QED
  BY <1>2, <1>3 DEF SecretInv, Enrolled, Current

LEMMA SecretNext ==
  ASSUME "lost" \notin Faults
  PROVE  TypeInv /\ TypeInv' /\ IdentInv /\ IdentInv' /\ SecretInv /\ [Next]_vars => SecretInv'
<1> SUFFICES ASSUME TypeInv, TypeInv', IdentInv, IdentInv', SecretInv, [Next]_vars
             PROVE  SecretInv'
  OBVIOUS
<1>0. AddrKept
  BY NextKeepsAddr
<1>1. ASSUME NEW p \in Procs, Quiet(p) PROVE SecretInv'
  BY <1>0, <1>1, SecretIdle DEF Quiet, mailDb, mta
<1>6. ASSUME NEW p \in Procs, DeleteDomain(p) PROVE SecretInv'
  <2>1. /\ \A q \in Procs : ~Current(q)'
        /\ UNCHANGED userdb /\ Others(p) /\ Op[p] = "delete"
    BY <1>6, DeletionForgets DEF DeleteDomain, Others, mta
  <2> QED
    BY <1>0, <2>1, SecretIdle
<1>2. ASSUME NEW p \in Procs, Step(p) PROVE SecretInv'
  BY <1>0, <1>1, <1>2, <1>6, SecretMailStep, AliasStepQuiet, ReconcileStepQuiet DEF Step
<1>3. ASSUME NEW p \in Procs, Abort(p) PROVE SecretInv'
  <2>1. UNCHANGED <<reg, cred, userdb>> /\ pc'[p] = "failed" /\ Others(p)
    BY <1>3 DEF Abort, Goto, mailDb, mta, Others, TypeInv, TypeOK, MailTypeOK
  <2> QED
    BY <1>0, <2>1, SecretIdle
<1>4. CASE UserLost
  BY <1>4 DEF UserLost
<1>5. CASE UNCHANGED vars
  BY <1>5 DEF vars, mailVars, mailDb, mta, SecretInv, Enrolled, Rotated, Current
<1> QED
  BY <1>2, <1>3, <1>4, <1>5 DEF Next

(***************************************************************************)
(* Unless chasquid loses a user behind the platform's back, the secret in  *)
(* createMailIdentity's answer is the one chasquid accepts and the         *)
(* credential row is active, for any number of creations, rotations of     *)
(* other mailboxes, passes and registrations of the domain: an address is  *)
(* given out once in a registration, and a creation left over from an      *)
(* earlier one cannot replace the user.                                    *)
(***************************************************************************)
THEOREM SecretsShownWork ==
  ASSUME "lost" \notin Faults
  PROVE  Spec => []SecretShownWorks
<1>1. Init => SecretInv
  BY DEF Init, MailInit, SecretInv, Enrolled
<1>2. SecretInv => SecretShownWorks
  BY DEF SecretInv, SecretShownWorks, Enrolled
<1>3. TypeInv /\ TypeInv' /\ IdentInv /\ IdentInv' /\ SecretInv /\ [Next]_vars => SecretInv'
  BY SecretNext
<1> QED
  BY <1>1, <1>2, <1>3, TypeInvariant, IdentInvariant, PTL DEF Spec

-----------------------------------------------------------------------------
\* Routes.

\* What createMailAlias accepts has identity rows here, unless the domain was
\* deleted since, or is elsewhere.
LEMMA ValidatedInside ==
  ASSUME NEW p \in Procs, NEW dests \in Dests, TRUE \in ValidateAliasDestinations(p, dests)
  PROVE  dests \subseteq Allowed /\ (Current(p) => dests \subseteq Inside)
BY DEF ValidateAliasDestinations, Dests, Inside, Allowed

\* CheckAlias, taken apart.
LEMMA CheckedAlias ==
  ASSUME TypeInv, NEW p \in Procs, CheckAlias(p)
  PROVE  /\ pc[p] = "aliasCheck" /\ UNCHANGED <<mailDb, rows, file>>
         /\ \/ UNCHANGED job /\ Goto(p, "failed")
            \/ /\ \A q \in Procs \ {p} : job'[q] = job[q]
               /\ job'[p].dests \subseteq Allowed /\ job'[p].buf = NoLines
               /\ Current(p) => job'[p].dests \subseteq Inside
               /\ Goto(p, "aliasRead")
<1>0. pc[p] = "aliasCheck" /\ UNCHANGED <<mailDb, rows, file>>
  BY DEF CheckAlias
<1>1. PICK l \in Locals :
        \E dests \in IF Op[p] = "groupAlias" THEN GroupDestinations(p) ELSE Dests \ {{}} :
           \/ /\ TRUE \in ValidateAliasDestinations(p, dests)
              /\ job' = [job EXCEPT ![p] = [local |-> l, dests |-> dests,
                                            group |-> Op[p] = "groupAlias", buf |-> NoLines]]
              /\ Goto(p, "aliasRead")
           \/ /\ FALSE \in ValidateAliasDestinations(p, dests)
              /\ Goto(p, "failed") /\ UNCHANGED job
  BY Zenon DEF CheckAlias
<1>2. PICK dests \in Dests :
           \/ /\ TRUE \in ValidateAliasDestinations(p, dests)
              /\ job' = [job EXCEPT ![p] = [local |-> l, dests |-> dests,
                                            group |-> Op[p] = "groupAlias", buf |-> NoLines]]
              /\ Goto(p, "aliasRead")
           \/ UNCHANGED job /\ Goto(p, "failed")
  BY <1>1, GroupDestinationsType DEF TypeInv, TypeOK
<1>3. CASE UNCHANGED job /\ Goto(p, "failed")
  BY <1>0, <1>3
<1>4. CASE ~(UNCHANGED job /\ Goto(p, "failed"))
  <2>1. dests \subseteq Allowed /\ (Current(p) => dests \subseteq Inside)
    BY <1>2, <1>4, ValidatedInside
  <2>2. /\ \A q \in Procs \ {p} : job'[q] = job[q]
        /\ job'[p].dests = dests /\ job'[p].buf = NoLines
    <3>1. job' = [job EXCEPT ![p] = [local |-> l, dests |-> dests,
                                     group |-> Op[p] = "groupAlias", buf |-> NoLines]]
      BY <1>2, <1>4
    <3>2. job \in [Procs -> Job]
      BY DEF TypeInv, TypeOK, AliasTypeOK
    <3> QED
      BY <3>1, <3>2
  <2> QED
    BY <1>0, <1>2, <1>4, <2>1, <2>2
<1> QED
  BY <1>3, <1>4

\* SetAliasRead, taken apart.
LEMMA ReadAlias ==
  ASSUME TypeInv, NEW p \in Procs, SetAliasRead(p)
  PROVE  /\ pc[p] = "aliasRead" /\ UNCHANGED <<rows, file>>
         /\ \A q \in Procs \ {p} : job'[q] = job[q]
         /\ job'[p].dests = job[p].dests
         /\ \A l \in Locals : job'[p].buf[l] \in {job[p].buf[l], file[l], job[p].dests}
<1> USE DEF TypeInv, TypeOK, AliasTypeOK
<1>1. pc[p] = "aliasRead" /\ UNCHANGED <<rows, file>>
  BY DEF SetAliasRead
<1>2. CASE UNCHANGED job
  BY <1>1, <1>2
<1>3. CASE job' = [job EXCEPT ![p].buf = [file EXCEPT ![job[p].local] = job[p].dests]]
  <2>1. PICK lines : lines = [file EXCEPT ![job[p].local] = job[p].dests]
    OBVIOUS
  <2>2. \A l \in Locals : lines[l] \in {file[l], job[p].dests}
    BY <2>1 DEF File
  <2>3. job' = [job EXCEPT ![p] = [job[p] EXCEPT !.buf = lines]]
    BY <1>3, <2>1
  <2>4. job'[p].dests = job[p].dests /\ job'[p].buf = lines
    BY <2>3 DEF Job
  <2> QED
    BY <1>1, <2>2, <2>3, <2>4
<1> QED
  BY <1>2, <1>3 DEF SetAliasRead

\* The alias handlers write nothing to the file that is not in it, in a file
\* content computed before, or accepted.
LEMMA LinesAliasStep ==
  ASSUME TypeInv, NEW p \in Procs, AliasStep(p), NEW S, Lines(S),
         Allowed \subseteq S \/ (Current(p) /\ Inside \subseteq S)
  PROVE  Lines(S)'
<1> USE DEF Lines
<1>1. CASE StartAlias(p)
  BY <1>1 DEF StartAlias, aliasVars
<1>2. CASE CheckAlias(p)
  BY <1>2, CheckedAlias DEF NoLines
<1>3. CASE SetAliasRead(p)
  <2>1. /\ UNCHANGED file
        /\ \A q \in Procs \ {p} : job'[q] = job[q]
        /\ job'[p].dests = job[p].dests
        /\ \A l \in Locals : job'[p].buf[l] \in {job[p].buf[l], file[l], job[p].dests}
    BY <1>3, ReadAlias
  <2> QED
    BY <2>1
<1>4. CASE SetAliasTruncate(p)
  BY <1>4 DEF SetAliasTruncate, NoLines
<1>5. CASE SetAliasWrite(p)
  <2>1. UNCHANGED job /\ \A l \in Locals : file'[l] \in {job[p].buf[l], file[l]}
    BY <1>5 DEF SetAliasWrite
  <2> QED
    BY <2>1
<1>6. CASE CreateMailAlias(p) \/ AddGroupMember(p) \/ RemoveAllGroupMemberships(p)
  BY <1>6 DEF CreateMailAlias, AddGroupMember, RemoveAllGroupMemberships
<1>7. CASE DeleteDomain(p)
  BY <1>7 DEF DeleteDomain
<1> QED
  BY <1>1, <1>2, <1>3, <1>4, <1>5, <1>6, <1>7 DEF AliasStep

\* ReconcileAlias, taken apart.
LEMMA ReconciledAlias ==
  ASSUME TypeInv, NEW p \in Procs, ReconcileAlias(p)
  PROVE  /\ pc[p] = "recAlias" /\ UNCHANGED <<mailDb, rows, file, addr, regOf>>
         /\ \A q \in Procs, k \in Locals : seen'[q][k] \in {seen[q][k], NoRow}
         /\ \A q \in Procs \ {p} : job'[q] = job[q]
         /\ \/ UNCHANGED job /\ pc'[p] = "recAlias"
            \/ /\ pc'[p] \in {"recUpdate", "aliasRead"} /\ job'[p].buf = NoLines
               /\ \E l \in Locals : /\ job'[p].local = l /\ seen[p][l] # NoRow
                                     /\ \/ job'[p].dests \subseteq Inside
                                        \/ job'[p].dests = seen[p][l].dests
<1> USE DEF TypeInv, TypeOK, MailTypeOK, AliasTypeOK
<1>1. PICK l \in Locals :
          /\ pc[p] = "recAlias" /\ seen[p][l] # NoRow
          /\ seen' = [seen EXCEPT ![p][l] = NoRow]
          /\ \/ /\ \E dests \in IF seen[p][l].group THEN GroupDestinations(p)
                                                    ELSE {seen[p][l].dests} :
                      job' = [job EXCEPT ![p] = [local |-> l, dests |-> dests,
                                                 group |-> seen[p][l].group, buf |-> NoLines]]
                /\ Goto(p, IF seen[p][l].group THEN "recUpdate" ELSE "aliasRead")
             \/ Goto(p, "recAlias") /\ UNCHANGED job
          /\ UNCHANGED <<mailDb, mta, rows, group, file, check>>
  BY Zenon DEF ReconcileAlias
<1>2. \A q \in Procs, k \in Locals : seen'[q][k] \in {seen[q][k], NoRow}
  BY <1>1
<1>3. CASE Goto(p, "recAlias") /\ UNCHANGED job
  BY <1>1, <1>2, <1>3 DEF Goto
<1>4. CASE ~(Goto(p, "recAlias") /\ UNCHANGED job)
  <2>1. PICK dests \in IF seen[p][l].group THEN GroupDestinations(p) ELSE {seen[p][l].dests} :
          job' = [job EXCEPT ![p] = [local |-> l, dests |-> dests,
                                     group |-> seen[p][l].group, buf |-> NoLines]]
    BY <1>1, <1>4
  <2>2. dests \subseteq Inside \/ dests = seen[p][l].dests
    BY <2>1, GroupDestinationsType
  <2>3. /\ job'[p].local = l /\ job'[p].dests = dests /\ job'[p].buf = NoLines
        /\ \A q \in Procs \ {p} : job'[q] = job[q]
    BY <2>1
  <2>4. Goto(p, IF seen[p][l].group THEN "recUpdate" ELSE "aliasRead")
    BY <1>1, <1>4
  <2>5. pc'[p] \in {"recUpdate", "aliasRead"} /\ UNCHANGED <<addr, regOf>>
    BY <2>4 DEF Goto
  <2> QED
    BY <1>1, <1>2, <2>2, <2>3, <2>5
<1> QED
  BY <1>3, <1>4

LEMMA LinesReconcileStep ==
  ASSUME TypeInv, NEW p \in Procs, ReconcileStep(p), NEW S, Lines(S), Inside \subseteq S,
         \A l \in Locals : seen[p][l] # NoRow => seen[p][l].dests \subseteq S
  PROVE  Lines(S)'
<1> USE DEF Lines
<1>1. CASE ReconcileAlias(p)
  BY <1>1, ReconciledAlias DEF NoLines
<1>2. CASE ~ReconcileAlias(p)
  <2>1. UNCHANGED <<file, job>>
    BY <1>2 DEF ReconcileStep, StartPass, ListMailAliasesByDomain, UpdateMailAliasDestinations,
                ListMailIdentitiesByDomain, UserExists, PassEnds, aliasVars
  <2> QED
    BY <2>1
<1> QED
  BY <1>1, <1>2

\* What a step has to leave as it is, or to make so, for the rows.
LEMMA RowsKept ==
  ASSUME RowsInside, Inside \subseteq Inside',
         \A l \in Locals : rows[l] # NoRow => rows'[l] # NoRow,
         \A l \in Locals : rows'[l] # NoRow => rows'[l].dests \subseteq Inside',
         \A q \in Procs, l \in Locals : seen'[q][l] \in {seen[q][l], NoRow},
         \A q \in Procs : Current(q)' => Current(q) \/ pc[q] = "start",
         \A q \in Procs : Current(q)' /\ pc'[q] \in JobLabels => job'[q].dests \subseteq Inside',
         \A q \in Procs : Current(q)' /\ pc'[q] = "recUpdate" => rows'[job'[q].local] # NoRow,
         \A q \in Procs : pc'[q] \in {"start", "recUser", "suspend"} =>
            pc[q] \in {"start", "recUser", "suspend"} \/ \A l \in Locals : seen'[q][l] = NoRow
  PROVE  RowsInside'
<1>1. \A q \in Procs, l \in Locals : Current(q)' /\ seen'[q][l] # NoRow =>
         rows'[l] # NoRow /\ seen'[q][l].dests \subseteq Inside'
  BY DEF RowsInside
<1>2. \A q \in Procs : pc'[q] \in {"start", "recUser", "suspend"} =>
         \A l \in Locals : seen'[q][l] = NoRow
  BY DEF RowsInside
<1> QED
  BY <1>1, <1>2 DEF RowsInside

\* A step that moves one process and leaves the aliases alone; identities are
\* only added.
LEMMA RowsIdle ==
  ASSUME TypeInv, RowsInside, Inside \subseteq Inside', UNCHANGED <<rows, job, seen>>, NEW p \in Procs,
         Others(p), UNCHANGED reg, regOf'[p] = regOf[p] \/ pc[p] = "start",
         pc'[p] \in JobLabels => regOf'[p] = regOf[p] /\ pc[p] \in JobLabels,
         pc'[p] # "recUpdate",
         pc'[p] \in {"start", "recUser", "suspend"} =>
            pc[p] \in {"start", "recUser", "suspend"} \/ \A l \in Locals : seen[p][l] = NoRow
  PROVE  RowsInside'
<1>1. \A q \in Procs : Current(q)' => Current(q) \/ pc[q] = "start"
  BY DEF Others, Current
<1>2. \A q \in Procs : Current(q)' /\ pc'[q] \in JobLabels => Current(q) /\ pc[q] \in JobLabels
  BY DEF Others, Current
<1>3. \A q \in Procs : Current(q)' /\ pc'[q] = "recUpdate" => Current(q) /\ pc[q] = "recUpdate"
  BY DEF Others, Current
<1>4. \A q \in Procs : Current(q)' /\ pc'[q] \in JobLabels => job'[q].dests \subseteq Inside'
  BY <1>2 DEF RowsInside
<1>5. \A l \in Locals : rows'[l] # NoRow => rows'[l].dests \subseteq Inside'
  BY DEF RowsInside
<1>6. \A q \in Procs : Current(q)' /\ pc'[q] = "recUpdate" => rows'[job'[q].local] # NoRow
  BY <1>3 DEF RowsInside
<1>7. \A q \in Procs : pc'[q] \in {"start", "recUser", "suspend"} =>
         pc[q] \in {"start", "recUser", "suspend"} \/ \A l \in Locals : seen'[q][l] = NoRow
  BY DEF Others
<1> QED
  BY <1>1, <1>4, <1>5, <1>6, <1>7, RowsKept

LEMMA RowsAliasStep ==
  ASSUME TypeInv, RowsInside, NEW p \in Procs, AliasStep(p), UNCHANGED recVars
  PROVE  RowsInside'
<1> USE DEF JobLabels
<1>1. CASE DeleteDomain(p)
  <2>1. /\ \A q \in Procs : ~Current(q)'
        /\ \A q \in Procs : pc'[q] \in {"start", "recUser", "suspend"} => pc'[q] = pc[q]
    BY <1>1, DeletionForgets DEF DeleteDomain
  <2>2. UNCHANGED seen /\ \A l \in Locals : rows'[l] = NoRow
    BY <1>1 DEF DeleteDomain, recVars
  <2> QED
    BY <2>1, <2>2 DEF RowsInside
<1>2. CASE ~DeleteDomain(p)
  <2>0. /\ Inside' = Inside /\ UNCHANGED <<reg, seen>> /\ Others(p)
        /\ pc'[p] \notin {"start", "suspend", "recUpdate", "recUser"}
        /\ regOf'[p] = regOf[p] \/ (pc[p] = "start" /\ pc'[p] \notin JobLabels)
    BY <1>2, AliasStepQuiet DEF Quiet, Inside, mailDb, recVars
  <2>1. /\ \A q \in Procs : q # p => pc'[q] = pc[q] /\ Current(q)' = Current(q)
        /\ Current(p)' => Current(p) \/ (pc[p] = "start" /\ pc'[p] \notin JobLabels)
    BY <2>0 DEF Others, Current
  <2>2. CASE StartAlias(p) \/ AddGroupMember(p) \/ RemoveAllGroupMemberships(p)
    <3>1. UNCHANGED <<rows, job>> /\ pc'[p] \notin JobLabels
      BY <2>2 DEF StartAlias, AddGroupMember, RemoveAllGroupMemberships, At, aliasVars, TypeInv,
                  TypeOK, MailTypeOK
    <3> QED
      BY <2>0, <3>1, RowsIdle
  <2>3. CASE CheckAlias(p)
    <3>1. /\ UNCHANGED rows /\ pc[p] = "aliasCheck"
          /\ \/ UNCHANGED job /\ pc'[p] = "failed"
             \/ /\ \A q \in Procs \ {p} : job'[q] = job[q]
                /\ Current(p) => job'[p].dests \subseteq Inside
      BY <2>3, CheckedAlias DEF Goto, TypeInv, TypeOK, MailTypeOK
    <3>2. \A q \in Procs : Current(q)' /\ pc'[q] \in JobLabels => job'[q].dests \subseteq Inside
      BY <2>1, <3>1 DEF RowsInside
    <3>3. \A q \in Procs : Current(q)' /\ pc'[q] = "recUpdate" => rows'[job'[q].local] # NoRow
      BY <2>0, <2>1, <3>1 DEF RowsInside
    <3> QED
      BY <2>0, <2>1, <3>1, <3>2, <3>3, RowsKept DEF RowsInside
  <2>4. CASE SetAliasRead(p)
    <3>1. /\ UNCHANGED rows /\ pc[p] \in JobLabels
          /\ \A q \in Procs \ {p} : job'[q] = job[q]
          /\ job'[p].dests = job[p].dests
      BY <2>4, ReadAlias
    <3>2. \A q \in Procs : Current(q)' /\ pc'[q] \in JobLabels => job'[q].dests \subseteq Inside
      BY <2>1, <3>1 DEF RowsInside
    <3>3. \A q \in Procs : Current(q)' /\ pc'[q] = "recUpdate" => rows'[job'[q].local] # NoRow
      BY <2>0, <2>1, <3>1 DEF RowsInside
    <3> QED
      BY <2>0, <2>1, <3>1, <3>2, <3>3, RowsKept DEF RowsInside
  <2>5. CASE SetAliasTruncate(p) \/ SetAliasWrite(p)
    <3>1. UNCHANGED <<rows, job>> /\ pc[p] \in JobLabels
      BY <2>5 DEF SetAliasTruncate, SetAliasWrite
    <3> QED
      BY <2>0, <3>1, RowsIdle
  <2>6. CASE CreateMailAlias(p)
    <3>1. UNCHANGED job /\ pc[p] = "aliasRow"
      BY <2>6 DEF CreateMailAlias
    <3>2. CASE UNCHANGED rows
      BY <2>0, <3>1, <3>2, RowsIdle
    <3>3. CASE Current(p) /\ rows' = [rows EXCEPT ![job[p].local] = [dests |-> job[p].dests,
                                                                   group |-> job[p].group]]
      <4>1. PICK row : row = [dests |-> job[p].dests, group |-> job[p].group]
        OBVIOUS
      <4>2. row \in Row /\ row.dests \subseteq Inside
        BY <3>1, <3>3, <4>1 DEF Row, Job, RowsInside, TypeInv, TypeOK, AliasTypeOK
      <4>3. row # NoRow
        BY <4>2, NoRowIsNone
      <4>4. \A l \in Locals : rows'[l] \in {row, rows[l]}
        BY <3>3, <4>1 DEF TypeInv, TypeOK, AliasTypeOK
      <4>5. \A q \in Procs : pc'[q] = "recUpdate" => job[q].local \in Locals /\ pc[q] = "recUpdate"
                                                    /\ Current(q)' = Current(q)
        BY <2>0, <2>1 DEF TypeInv, Control, Set
      <4>6. \A l \in Locals : rows'[l] # NoRow => rows'[l].dests \subseteq Inside
        BY <4>2, <4>4 DEF RowsInside
      <4>7. \A l \in Locals : rows[l] # NoRow => rows'[l] # NoRow
        BY <4>3, <4>4
      <4>8. \A q \in Procs : Current(q)' /\ pc'[q] = "recUpdate" => rows'[job'[q].local] # NoRow
        BY <3>1, <4>5, <4>7 DEF RowsInside
      <4>9. \A q \in Procs : Current(q)' /\ pc'[q] \in JobLabels => job'[q].dests \subseteq Inside
        BY <2>1, <3>1 DEF RowsInside
      <4> QED
        BY <2>0, <2>1, <4>6, <4>7, <4>8, <4>9, RowsKept
    <3> QED
      BY <2>6, <3>2, <3>3 DEF CreateMailAlias
  <2> QED
    BY <1>2, <2>2, <2>3, <2>4, <2>5, <2>6 DEF AliasStep
<1> QED
  BY <1>1, <1>2

LEMMA RowsReconcileStep ==
  ASSUME TypeInv, RowsInside, NEW p \in Procs, ReconcileStep(p)
  PROVE  RowsInside'
<1> USE DEF JobLabels
<1>0. /\ Inside' = Inside /\ UNCHANGED reg /\ Others(p)
      /\ regOf'[p] = regOf[p] \/ (pc[p] = "start" /\ pc'[p] \notin JobLabels)
  BY ReconcileStepQuiet DEF Quiet, Inside, mailDb
<1>1. /\ \A q \in Procs : q # p => pc'[q] = pc[q] /\ Current(q)' = Current(q)
      /\ Current(p)' => Current(p) \/ (pc[p] = "start" /\ pc'[p] \notin JobLabels)
  BY <1>0 DEF Others, Current
<1>2. CASE StartPass(p)
  <2>1. UNCHANGED <<rows, job, seen>> /\ pc'[p] = "recList"
    BY <1>2 DEF StartPass, At, aliasVars, recVars, TypeInv, TypeOK, MailTypeOK
  <2> QED
    BY <1>0, <2>1, RowsIdle
<1>3. CASE ListMailAliasesByDomain(p)
  <2>1. /\ UNCHANGED <<rows, job>> /\ pc'[p] = "recAlias" /\ pc[p] = "recList"
        /\ seen' = [seen EXCEPT ![p] = IF Current(p) THEN rows ELSE [l \in Locals |-> NoRow]]
    BY <1>3 DEF ListMailAliasesByDomain, Goto, aliasVars, TypeInv, TypeOK, MailTypeOK
  <2>2. \A q \in Procs : q # p => seen'[q] = seen[q]
    BY <2>1 DEF TypeInv, TypeOK
  <2>3. seen'[p] = IF Current(p) THEN rows ELSE [l \in Locals |-> NoRow]
    BY <2>1 DEF TypeInv, TypeOK
  <2>4. \A q \in Procs, l \in Locals : Current(q)' /\ seen'[q][l] # NoRow =>
           rows'[l] # NoRow /\ seen'[q][l].dests \subseteq Inside
    BY <1>1, <2>1, <2>2, <2>3 DEF RowsInside
  <2>5. \A q \in Procs : pc'[q] \in {"start", "recUser", "suspend"} =>
           \A l \in Locals : seen'[q][l] = NoRow
    BY <1>1, <2>1, <2>2 DEF RowsInside
  <2> QED
    BY <1>0, <1>1, <2>1, <2>4, <2>5 DEF RowsInside
<1>4. CASE ReconcileAlias(p)
  <2>1. /\ UNCHANGED rows /\ Current(p)' = Current(p)
        /\ \A q \in Procs, k \in Locals : seen'[q][k] \in {seen[q][k], NoRow}
        /\ \A q \in Procs \ {p} : job'[q] = job[q]
        /\ pc'[p] \in {"recAlias", "recUpdate", "aliasRead"}
    BY <1>0, <1>4, ReconciledAlias DEF Current
  <2>2. Current(p) /\ pc'[p] \in {"recUpdate", "aliasRead"} =>
          job'[p].dests \subseteq Inside /\ rows[job'[p].local] # NoRow
    BY <1>4, ReconciledAlias DEF RowsInside
  <2>3. \A q \in Procs : Current(q)' /\ pc'[q] \in JobLabels => job'[q].dests \subseteq Inside
    BY <1>1, <2>1, <2>2 DEF RowsInside
  <2>4. \A q \in Procs : Current(q)' /\ pc'[q] = "recUpdate" => rows'[job'[q].local] # NoRow
    BY <1>1, <2>1, <2>2 DEF RowsInside
  <2>5. \A q \in Procs : pc'[q] \in {"start", "recUser", "suspend"} => pc'[q] = pc[q]
    BY <1>1, <2>1
  <2>6. \A l \in Locals : rows'[l] # NoRow => rows'[l].dests \subseteq Inside'
    BY <1>0, <2>1 DEF RowsInside
  <2> QED
    BY <1>0, <1>1, <2>1, <2>3, <2>4, <2>5, <2>6, RowsKept
<1>5. CASE UpdateMailAliasDestinations(p)
  <2>1. UNCHANGED <<job, seen, regOf>> /\ pc'[p] = "aliasRead" /\ pc[p] = "recUpdate"
    BY <1>5 DEF UpdateMailAliasDestinations, Goto, recVars, TypeInv, TypeOK, MailTypeOK
  <2>2. CASE UNCHANGED rows
    BY <1>0, <2>1, <2>2, RowsIdle
  <2>3. CASE Current(p) /\ rows' = [rows EXCEPT ![job[p].local].dests = job[p].dests]
    <3>1. job[p].local \in Locals /\ rows[job[p].local] \in Row /\ job[p].dests \in Dests
      BY <2>1, <2>3 DEF TypeInv, TypeOK, AliasTypeOK, Control, Set, Job, RowsInside
    <3>2. PICK row : row = [rows[job[p].local] EXCEPT !.dests = job[p].dests]
      OBVIOUS
    <3>3. row \in Row /\ row.dests = job[p].dests
      BY <3>1, <3>2 DEF Row
    <3>4. \A l \in Locals : rows'[l] \in {row, rows[l]}
      BY <2>3, <3>1, <3>2 DEF TypeInv, TypeOK, AliasTypeOK
    <3>5. \A q \in Procs : pc'[q] = "recUpdate" => job[q].local \in Locals /\ pc[q] = "recUpdate"
                                                  /\ Current(q)' = Current(q)
      BY <1>1, <2>1 DEF TypeInv, Control, Set
    <3>6. \A l \in Locals : rows'[l] # NoRow => rows'[l].dests \subseteq Inside
      BY <2>1, <2>3, <3>3, <3>4 DEF RowsInside
    <3>7. \A l \in Locals : rows[l] # NoRow => rows'[l] # NoRow
      BY <3>3, <3>4, NoRowIsNone
    <3>8. \A q \in Procs : Current(q)' /\ pc'[q] = "recUpdate" => rows'[job'[q].local] # NoRow
      BY <2>1, <3>5, <3>7 DEF RowsInside
    <3>9. \A q \in Procs : Current(q)' /\ pc'[q] \in JobLabels => job'[q].dests \subseteq Inside
      BY <1>1, <2>1 DEF RowsInside
    <3>10. \A q \in Procs : pc'[q] \in {"start", "recUser", "suspend"} => pc'[q] = pc[q]
      BY <1>1, <2>1
    <3> QED
      BY <1>0, <1>1, <2>1, <3>6, <3>7, <3>8, <3>9, <3>10, RowsKept
  <2> QED
    BY <1>5, <2>2, <2>3 DEF UpdateMailAliasDestinations, Ignored
<1>6. CASE ListMailIdentitiesByDomain(p)
  <2>1. /\ UNCHANGED <<rows, job, seen>> /\ pc'[p] = "recUser"
        /\ \A l \in Locals : seen[p][l] = NoRow
    BY <1>6 DEF ListMailIdentitiesByDomain, Goto, aliasVars, TypeInv, TypeOK, MailTypeOK
  <2> QED
    BY <1>0, <2>1, RowsIdle
<1>7. CASE UserExists(p) \/ PassEnds(p)
  <2>1. UNCHANGED <<rows, job, seen>> /\ pc[p] = "recUser" /\ pc'[p] \notin JobLabels
    BY <1>7 DEF UserExists, PassEnds, Goto, aliasVars, recVars, TypeInv, TypeOK, MailTypeOK
  <2> QED
    BY <1>0, <2>1, RowsIdle
<1> QED
  BY <1>2, <1>3, <1>4, <1>5, <1>6, <1>7 DEF ReconcileStep

LEMMA RowsMailStep ==
  ASSUME TypeInv, TypeInv', IdentInv, RowsInside, NEW p \in Procs, MailStep(p),
         UNCHANGED <<aliasVars, recVars>>
  PROVE  RowsInside'
<1>1. Inside \subseteq Inside'
  BY ForwardMailStep, ForwardKeeps DEF Inside
<1>2. pc'[p] \notin JobLabels /\ (pc'[p] \in {"start", "recUser", "suspend"} => pc[p] = "suspend")
  <2> USE DEF JobLabels, TypeInv, TypeOK, MailTypeOK
  <2>1. CASE StartEnable(p) \/ StartDisable(p) \/ StartCreate(p) \/ StartRotate(p)
    BY <2>1 DEF StartEnable, StartDisable, StartCreate, StartRotate, At
  <2>2. CASE SetMailIdentityStatus(p)
    BY <2>2 DEF SetMailIdentityStatus, Goto
  <2>3. CASE CreateMailDomain(p) \/ EnsureDomain(p) \/ Restart(p) \/ EnsureDKIM(p)
    BY <2>3 DEF CreateMailDomain, EnsureDomain, Restart, EnsureDKIM, Goto
  <2>4. CASE SetMailDomainDKIM(p) \/ SetMailDomainStatus(p)
    BY <2>4 DEF SetMailDomainDKIM, SetMailDomainStatus, Goto
  <2>5. CASE CreateMailIdentity(p) \/ CreateMailCredential(p) \/ AddUser(p)
    BY <2>5 DEF CreateMailIdentity, CreateMailCredential, AddUser, Goto
  <2>6. CASE EnsureSenderPolicy(p) \/ CreateMailSubmissionPolicy(p)
    BY <2>6 DEF EnsureSenderPolicy, CreateMailSubmissionPolicy, Goto
  <2>7. CASE ChangePasswordRemove(p) \/ ChangePasswordAdd(p) \/ RevokeCredentialsByIdentity(p)
    BY <2>7 DEF ChangePasswordRemove, ChangePasswordAdd, RevokeCredentialsByIdentity, Goto
  <2> QED
    BY <2>1, <2>2, <2>3, <2>4, <2>5, <2>6, <2>7 DEF MailStep
<1>3. UNCHANGED reg /\ Others(p) /\ (regOf'[p] = regOf[p] \/ pc[p] = "start")
  BY MailStepMoves
<1> QED
  BY <1>1, <1>2, <1>3, RowsIdle DEF aliasVars, recVars, JobLabels

\* Before the first deletion everybody's ids are current.
LEMMA AllCurrent ==
  ASSUME TypeInv, reg = 0, NEW p \in Procs
  PROVE  Current(p)
<1>1. regOf[p] \in Nat /\ regOf[p] =< reg
  BY DEF TypeInv, TypeOK, MailTypeOK, Control, Set
<1> QED
  BY <1>1 DEF Current

\* Steps that touch no alias state, identities only being added.
LEMMA RouteIdle ==
  ASSUME RouteInv, RowsInside', UNCHANGED <<reg, file, job, seen>>, Inside \subseteq Inside'
  PROVE  RouteInv'
BY DEF RouteInv, NoForeign, FileInside, Lines, Allowed

\* Steps of the alias handlers and of a pass, given what they do to the lines.
LEMMA RouteMoves ==
  ASSUME RouteInv, RowsInside', reg' = reg, Inside' = Inside,
         \A S : Lines(S) /\ (S = Allowed \/ (S = Inside /\ reg = 0)) => Lines(S)',
         \A q \in Procs, l \in Locals : seen'[q][l] # NoRow =>
            seen'[q][l].dests \subseteq Allowed
  PROVE  RouteInv'
<1>1. Lines(Allowed)'
  <2>1. PICK S : S = Allowed
    OBVIOUS
  <2>2. Lines(S)'
    BY <2>1 DEF RouteInv, NoForeign
  <2> QED
    BY <2>1, <2>2 DEF Lines, Allowed
<1>2. FileInside'
  <2>1. PICK S : S = Inside
    OBVIOUS
  <2>2. reg = 0 => Lines(S)'
    BY <2>1 DEF RouteInv, FileInside
  <2> QED
    BY <2>1, <2>2 DEF Lines, FileInside
<1> QED
  BY <1>1, <1>2 DEF RouteInv, NoForeign, Allowed

LEMMA InsideAllowed == Inside \subseteq Allowed
BY DEF Inside, Allowed

LEMMA RouteNext == TypeInv /\ TypeInv' /\ IdentInv /\ RouteInv /\ [Next]_vars => RouteInv'
<1> SUFFICES ASSUME TypeInv, TypeInv', IdentInv, RouteInv, [Next]_vars PROVE RouteInv'
  OBVIOUS
<1>1. ASSUME NEW p \in Procs, MailStep(p), UNCHANGED <<aliasVars, recVars>> PROVE RouteInv'
  <2>1. RowsInside' /\ UNCHANGED <<reg, file, job, seen>>
    BY <1>1, RowsMailStep, MailStepMoves DEF RouteInv, aliasVars, recVars
  <2>2. Inside \subseteq Inside'
    BY <1>1, ForwardMailStep, ForwardKeeps DEF Inside
  <2> QED
    BY <2>1, <2>2, RouteIdle
<1>2. ASSUME NEW p \in Procs, AliasStep(p), UNCHANGED recVars PROVE RouteInv'
  <2>1. RowsInside'
    BY <1>2, RowsAliasStep DEF RouteInv
  <2>2. \A S : Lines(S) /\ (S = Allowed \/ (S = Inside /\ reg = 0)) => Lines(S)'
    BY <1>2, AllCurrent, LinesAliasStep
  <2>3. CASE DeleteDomain(p)
    <3>1. reg' # 0 /\ UNCHANGED <<file, job, seen>>
      BY <1>2, <2>3, DeletionForgets DEF DeleteDomain, recVars, TypeInv, TypeOK, MailTypeOK
    <3> QED
      BY <2>1, <3>1 DEF RouteInv, NoForeign, FileInside, Lines, Allowed
  <2>4. CASE ~DeleteDomain(p)
    <3>1. reg' = reg /\ Inside' = Inside /\ UNCHANGED seen
      BY <1>2, <2>4, AliasStepQuiet DEF Quiet, Inside, mailDb, recVars
    <3> QED
      BY <2>1, <2>2, <3>1, RouteMoves DEF RouteInv, NoForeign
  <2> QED
    BY <2>3, <2>4
<1>3. ASSUME NEW p \in Procs, ReconcileStep(p) PROVE RouteInv'
  <2>1. RowsInside' /\ reg' = reg /\ Inside' = Inside
    BY <1>3, RowsReconcileStep, ReconcileStepQuiet DEF RouteInv, Quiet, Inside, mailDb
  <2>2. \A l \in Locals : seen[p][l] # NoRow =>
          seen[p][l].dests \subseteq Allowed /\ (reg = 0 => seen[p][l].dests \subseteq Inside)
    BY AllCurrent DEF RouteInv, NoForeign, RowsInside
  <2>3. \A S : Lines(S) /\ (S = Allowed \/ (S = Inside /\ reg = 0)) => Lines(S)'
    BY <1>3, <2>2, InsideAllowed, LinesReconcileStep
  <2>4. \A q \in Procs, l \in Locals : seen'[q][l] # NoRow => seen'[q][l].dests \subseteq Allowed
    <3>1. CASE ListMailAliasesByDomain(p)
      <4>1. \A q \in Procs, l \in Locals : seen'[q][l] \in {seen[q][l], rows[l], NoRow}
        BY <3>1 DEF ListMailAliasesByDomain, TypeInv, TypeOK
      <4>2. \A l \in Locals : rows[l] # NoRow => rows[l].dests \subseteq Allowed
        BY InsideAllowed DEF RouteInv, RowsInside
      <4> QED
        BY <4>1, <4>2 DEF RouteInv, NoForeign
    <3>2. CASE ReconcileAlias(p)
      BY <3>2, ReconciledAlias DEF RouteInv, NoForeign
    <3>3. CASE ~ListMailAliasesByDomain(p) /\ ~ReconcileAlias(p)
      <4>1. UNCHANGED seen
        BY <1>3, <3>3 DEF ReconcileStep, StartPass, UpdateMailAliasDestinations,
             ListMailIdentitiesByDomain, UserExists, PassEnds, recVars
      <4> QED
        BY <4>1 DEF RouteInv, NoForeign
    <3> QED
      BY <3>1, <3>2, <3>3
  <2> QED
    BY <2>1, <2>3, <2>4, RouteMoves
<1>4. ASSUME NEW p \in Procs, Abort(p), UNCHANGED <<aliasVars, recVars>> PROVE RouteInv'
  <2>1. /\ UNCHANGED <<reg, ident, rows, file, job, seen, regOf>>
        /\ pc'[p] = "failed" /\ Others(p)
    BY <1>4 DEF Abort, Goto, mailDb, aliasVars, recVars, Others, TypeInv, TypeOK, MailTypeOK
  <2>2. Inside' = Inside
    BY <2>1 DEF Inside
  <2>3. RowsInside'
    BY <2>1, <2>2, RowsIdle DEF RouteInv, JobLabels
  <2> QED
    BY <2>1, <2>2, <2>3, RouteIdle
<1>5. CASE (UserLost \/ UNCHANGED mailVars) /\ UNCHANGED <<aliasVars, recVars>>
  <2>1. UNCHANGED <<reg, ident, rows, file, job, seen, regOf, pc>>
    BY <1>5 DEF UserLost, mailVars, mailDb, aliasVars, recVars
  <2>2. Inside' = Inside /\ \A q \in Procs : Current(q)' = Current(q)
    BY <2>1 DEF Inside, Current
  <2>3. RowsInside'
    BY <2>1, <2>2 DEF RouteInv, RowsInside
  <2> QED
    BY <2>1, <2>2, <2>3, RouteIdle
<1> QED
  BY <1>1, <1>2, <1>3, <1>4, <1>5 DEF Next, Step, vars

(***************************************************************************)
(* Mail stays inside the organization, for any set of aliases, addresses   *)
(* and foreign mailboxes and any number of deletions and registrations of  *)
(* the domain.  What createMailAlias checked, and what a pass listed, may  *)
(* be gone before it is written: a row is still only written by a handler  *)
(* whose domain row exists, and while it does its identities do.           *)
(***************************************************************************)
THEOREM RoutesInside == Spec => []RoutesStayInside
<1>1. Init => RouteInv
  BY DEF Init, MailInit, AliasInit, RouteInv, NoForeign, RowsInside, FileInside, Lines, NoJob, NoLines
<1>2. RouteInv => RoutesStayInside
  <2> SUFFICES ASSUME RouteInv, NEW l \in Locals
               PROVE  /\ file[l] \cap Foreign = {}
                      /\ rows[l] # NoRow => \A d \in rows[l].dests : Mailbox(d) \/ d \in Sisters
                      /\ reg = 0 => \A d \in file[l] : Mailbox(d) \/ d \in Sisters
    BY DEF RoutesStayInside
  <2>1. file[l] \cap Foreign = {}
    BY AliasesAssumption DEF RouteInv, NoForeign, Lines, Allowed
  <2> QED
    BY <2>1 DEF RouteInv, RowsInside, FileInside, Lines, Inside, Mailbox
<1> QED
  BY <1>1, <1>2, RouteNext, TypeInvariant, IdentInvariant, PTL DEF Spec
=============================================================================
