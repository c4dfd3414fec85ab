-------------------------------- MODULE Mail --------------------------------
(***************************************************************************)
(* The mail subsystem as a whole: the API's mailbox and alias requests,    *)
(* and recon.MailReconciler, run by the worker on every tick over the      *)
(* active domain and by the API's reconcile route on demand.               *)
(***************************************************************************)
EXTENDS Aliases

VARIABLES
    seen,     \* seen[p]: the alias rows the pass listed and has not handled yet
    check     \* check[p]: the active identities the pass listed and not yet looked up

recVars == <<seen, check>>
vars == <<mailVars, aliasVars, recVars>>

TypeOK ==
    /\ MailTypeOK
    /\ AliasTypeOK
    /\ seen \in [Procs -> [Locals -> Row \cup {NoRow}]]
    /\ check \in [Procs -> SUBSET Addrs]

Init ==
    /\ MailInit
    /\ AliasInit
    /\ seen = [p \in Procs |-> [l \in Locals |-> NoRow]]
    /\ check = [p \in Procs |-> {}]

-----------------------------------------------------------------------------
\* ReconcileDomain.

\* The worker lists active mail domains; the route only needs the row.
StartPass(p) ==
    /\ \/ mdomain = "active" /\ At(p, "worker", None, "recList")
       \/ mdomain # "none" /\ At(p, "reconcile", None, "recList")
    /\ UNCHANGED <<aliasVars, recVars>>

ListMailAliasesByDomain(p) ==
    /\ pc[p] = "recList"
    /\ seen' = [seen EXCEPT ![p] = IF Current(p) THEN rows ELSE [l \in Locals |-> NoRow]]
    /\ Goto(p, "recAlias")
    /\ UNCHANGED <<mailDb, mta, aliasVars, check>>

\* A group alias's destinations are computed afresh, a plain one's come from
\* the list.  A failed lookup skips the alias.
ReconcileAlias(p) ==
    /\ pc[p] = "recAlias"
    /\ \E l \in Locals :
          LET row == seen[p][l] IN
          /\ row # NoRow
          /\ seen' = [seen EXCEPT ![p][l] = NoRow]
          /\ \/ /\ \E dests \in IF row.group THEN GroupDestinations(p) ELSE {row.dests} :
                      job' = [job EXCEPT ![p] = [local |-> l, dests |-> dests,
                                                 group |-> row.group, buf |-> NoLines]]
                /\ Goto(p, IF row.group THEN "recUpdate" ELSE "aliasRead")
             \/ /\ row.group /\ "store" \in Faults
                /\ Goto(p, "recAlias")
                /\ UNCHANGED job
    /\ UNCHANGED <<mailDb, mta, rows, group, file, check>>

UpdateMailAliasDestinations(p) ==
    LET j == job[p] IN
    /\ pc[p] = "recUpdate"
    /\ rows' \in Ignored(rows, IF Current(p) THEN [rows EXCEPT ![j.local].dests = j.dests] ELSE rows)
    /\ Goto(p, "aliasRead")
    /\ UNCHANGED <<mailDb, mta, group, file, job, recVars>>

\* With the aliases handled and chasquid reloaded, the identities are listed; an
\* error ends the pass.
ListMailIdentitiesByDomain(p) ==
    /\ pc[p] = "recAlias" /\ \A l \in Locals : seen[p][l] = NoRow
    /\ \E list \in Ignored({}, {a \in Addrs : Current(p) /\ ident[a] = "active"}) :
          check' = [check EXCEPT ![p] = list]
    /\ Goto(p, "recUser")
    /\ UNCHANGED <<mailDb, mta, aliasVars, seen>>

\* Mutant: the answer of the agent is not looked at.
UserExistsNever(p) ==
    \E a \in check[p] :
        /\ pc[p] = "recUser"
        /\ check' = [check EXCEPT ![p] = @ \ {a}]
        /\ UNCHANGED <<mailVars, aliasVars, seen>>

\* A missing user is suspended in a later step; an error skips the identity.
UserExists(p) ==
    \E a \in check[p] :
        /\ pc[p] = "recUser"
        /\ check' = [check EXCEPT ![p] = @ \ {a}]
        /\ \/ /\ userdb[a] = None
              /\ pc' = [pc EXCEPT ![p] = "suspend"]
              /\ addr' = [addr EXCEPT ![p] = a]
           \/ (userdb[a] # None \/ AgentError) /\ UNCHANGED <<pc, addr>>
        /\ UNCHANGED <<mailDb, mta, regOf, aliasVars, seen>>

\* The worker sleeps until the next tick, the request is answered.
PassEnds(p) ==
    /\ pc[p] = "recUser" /\ check[p] = {}
    /\ Goto(p, IF Op[p] = "worker" THEN "start" ELSE "done")
    /\ UNCHANGED <<mailDb, mta, aliasVars, recVars>>

ReconcileStep(p) ==
    \/ StartPass(p) \/ ListMailAliasesByDomain(p)
    \/ ReconcileAlias(p) \/ UpdateMailAliasDestinations(p)
    \/ ListMailIdentitiesByDomain(p) \/ UserExists(p) \/ PassEnds(p)

-----------------------------------------------------------------------------
Step(p) ==
    \/ MailStep(p) /\ UNCHANGED <<aliasVars, recVars>>
    \/ AliasStep(p) /\ UNCHANGED recVars
    \/ ReconcileStep(p)

Next ==
    \/ \E p \in Procs : Step(p) \/ (Abort(p) /\ UNCHANGED <<aliasVars, recVars>>)
    \/ UserLost /\ UNCHANGED <<aliasVars, recVars>>
    \/ NoneInFlight /\ UNCHANGED vars

Spec == Init /\ [][Next]_vars

\* The worker's ticker fires for ever and a pass runs to its end; no request need.
FairSpec == Spec /\ \A p \in Procs : Op[p] = "worker" => WF_vars(Step(p))

-----------------------------------------------------------------------------
\* Properties.

(***************************************************************************)
(* The secret shown in createMailIdentity's answer is the one chasquid     *)
(* accepts, and its fingerprint is on record as active, until somebody     *)
(* rotates it or the domain is deleted: not only creations, rotations of   *)
(* other mailboxes and passes overlap, but requests for an earlier         *)
(* registration of the domain are still at work on the same addresses.     *)
(***************************************************************************)
Rotated(a) == \E p \in Procs : Op[p] = "rotate" /\ addr[p] = a

SecretShownWorks ==
    \A p \in Procs : Op[p] = "create" /\ pc[p] = "done" /\ ~Rotated(addr[p]) /\ Current(p) =>
        userdb[addr[p]] = p /\ cred[<<addr[p], p>>] = "active"

(***************************************************************************)
(* The lifecycle only moves forward until the domain is deleted: although  *)
(* a status UPDATE does not look at the status it replaces, no creation    *)
(* brings a suspended or deleted identity back, no pass suspends one that  *)
(* was never active, and none that read its ids before a deletion touches  *)
(* the mailbox that has the address now.                                   *)
(***************************************************************************)
Forward == {<<"none", "requested">>, <<"requested", "active">>, <<"requested", "deleted">>,
            <<"active", "suspended">>}

LifecycleForward ==
    [][\A a \in Addrs : ident'[a] # ident[a] =>
           <<ident[a], ident'[a]>> \in Forward \/ reg' # reg]_vars

(***************************************************************************)
(* A mail domain that is active has its directory at chasquid, however     *)
(* enableMail and disableMail overlap and fail.                            *)
(***************************************************************************)
ActiveDomainInstalled == mdomain = "active" => "dir" \in installed

(***************************************************************************)
(* Mail stays inside the organization (spec section 39): no alias row and  *)
(* no line of the file ever routes to a mailbox of an organization that    *)
(* never had the domain, refused requests included.  Within the domain a   *)
(* row routes to mailboxes that exist: they go together when the domain is *)
(* deleted, and no request or pass that validated its destinations before  *)
(* brings a row back.  Lines of the file do too until the first deletion,  *)
(* which leaves them behind.                                               *)
(***************************************************************************)
Mailbox(d) == d \in Addrs /\ ident[d] # "none"

RoutesStayInside ==
    \A l \in Locals :
        /\ file[l] \cap Foreign = {}
        /\ rows[l] # NoRow => \A d \in rows[l].dests : Mailbox(d) \/ d \in Sisters
        /\ reg = 0 => \A d \in file[l] : Mailbox(d) \/ d \in Sisters

(***************************************************************************)
(* The worker converges the aliases file: infinitely often every row has   *)
(* its line, with the row's destinations, whatever concurrent rewrites of  *)
(* the file lost before.                                                   *)
(***************************************************************************)
AliasesInstalled == \A l \in Locals : rows[l] # NoRow => file[l] = rows[l].dests
AliasesHeal == mdomain = "active" ~> (AliasesInstalled \/ mdomain # "active")

(***************************************************************************)
(* A mailbox whose chasquid user is gone for good is eventually flagged.   *)
(***************************************************************************)
MissingIsFlagged ==
    \A a \in Addrs :
        (mdomain = "active" /\ ident[a] = "active" /\ userdb[a] = None) ~>
            (ident[a] = "suspended" \/ userdb[a] # None \/ mdomain # "active")
=============================================================================
