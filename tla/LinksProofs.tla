---------------------------- MODULE LinksProofs -----------------------------
(***************************************************************************)
(* Invites implements InviteLinks, for every set of users, organizations   *)
(* and requests, every lifetime of a link and every fault.                 *)
(***************************************************************************)
EXTENDS InvitesProofs

(***************************************************************************)
(* What the mapping needs beside the settled invites: a row is named after *)
(* a createInvite request, and such a request is answered by CreateInvite  *)
(* alone, because it never leaves createInvite's own labels.               *)
(***************************************************************************)
InviteLabels == {"start", "lookup", "idp", "insert", "link", "checkMember", "expire",
                 "insertInvite", "done", "failed"}

LinksInv ==
    /\ SettledInv
    /\ \A i \in Issued : Op[i] = "invite"
    /\ \A r \in Reqs : Op[r] = "invite" => pc[r] \in InviteLabels

\* The types the proofs below use.
LEMMA LinkTypes ==
    ASSUME LinksInv
    PROVE  /\ pc \in [Reqs -> PC] /\ loc \in [Reqs -> Loc]
           /\ invites \in [Reqs -> Invite \cup {NoInvite}]
           /\ won \subseteq Reqs /\ now \in Nat
           /\ \A i \in Issued : i \in Reqs /\ invites[i] \in Invite
<1>1. InvitesInv
  BY DEF LinksInv, SettledInv
<1>2. \A i \in Issued : i \in Reqs /\ invites[i] \in Invite
  BY <1>1, IssuedTyped
<1>3. now \in Nat
  BY <1>1, InvitesAssumption DEF InvitesInv, InvitesTypeOK
<1> QED BY <1>1, <1>2, <1>3 DEF InvitesInv, InvitesTypeOK, AccountsTypeOK

-----------------------------------------------------------------------------
\* The inductive invariant.

\* An Accounts step of a createInvite request stays within createInvite's
\* labels and does not answer it.
LEMMA AccountStepLabels ==
    ASSUME LinksInv, NEW r \in Reqs, AccountStep(r), Op[r] = "invite"
    PROVE  pc'[r] \in InviteLabels \ {"done"}
<1>1. pc \in [Reqs -> PC] /\ pc[r] \in InviteLabels
  BY LinkTypes DEF LinksInv
<1>2. CASE GetUserByEmail(r)
  BY <1>1, <1>2 DEF GetUserByEmail, Goto, AfterUser, InviteLabels
<1>3. CASE EnsureUser(r)
  BY <1>1, <1>3 DEF EnsureUser, Goto, Fail, InviteLabels
<1>4. CASE CreateUser(r)
  BY <1>1, <1>4 DEF CreateUser, Goto, Fail, AfterUser, InviteLabels
<1>5. CASE UpsertExternalResource(r)
  BY <1>1, <1>5 DEF UpsertExternalResource, Goto, AfterUser, InviteLabels
<1>6. ~(\/ StartOrg(r) \/ StartAddMember(r) \/ StartOnboard(r) \/ StartCreateUser(r)
        \/ StartUserStatus(r) \/ StartSetUserAdmin(r) \/ StartLogin(r) \/ StartAddGroupMember(r))
  BY DEF StartOrg, StartAddMember, StartOnboard, StartCreateUser, StartUserStatus,
         StartSetUserAdmin, StartLogin, StartAddGroupMember
<1>7. ~(\/ CreateOrganization(r) \/ SetMembership(r) \/ AddGroupMember(r) \/ ProvisionMailbox(r)
        \/ SetUserActive(r) \/ SetUserStatus(r) \/ RemoveAllMemberships(r)
        \/ RemoveAllGroupMemberships(r) \/ AdminCount(r) \/ SetUserAdmin(r)
        \/ UpsertFromOIDC(r) \/ BootstrapCheck(r) \/ GrantAdmin(r))
  BY <1>1 DEF CreateOrganization, SetMembership, AddGroupMember, ProvisionMailbox,
         SetUserActive, SetUserStatus, RemoveAllMemberships, RemoveAllGroupMemberships,
         AdminCount, SetUserAdmin, UpsertFromOIDC, BootstrapCheck, GrantAdmin, InviteLabels
<1> QED BY <1>2, <1>3, <1>4, <1>5, <1>6, <1>7 DEF AccountStep

\* So does a step of createInvite or acceptInvite, CreateInvite apart.
LEMMA InviteStepLabels ==
    ASSUME LinksInv, NEW r \in Reqs, InviteStep(r), Op[r] = "invite"
    PROVE  /\ pc'[r] \in InviteLabels
           /\ pc'[r] = "done" => CreateInvite(r)
<1>1. pc \in [Reqs -> PC] /\ pc[r] \in InviteLabels
  BY LinkTypes DEF LinksInv
<1>2. CASE StartInvite(r)
  BY <1>1, <1>2 DEF StartInvite, Admit, InviteLabels
<1>3. CASE CheckNotMember(r)
  BY <1>1, <1>3 DEF CheckNotMember, Goto, Fail, InviteLabels
<1>4. CASE ExpirePendingInvites(r)
  BY <1>1, <1>4 DEF ExpirePendingInvites, Goto, InviteLabels
<1>5. CASE CreateInvite(r)
  BY <1>1, <1>5 DEF CreateInvite, Goto, Fail, InviteLabels
<1>6. ~(GetInviteByTokenHash(r) \/ GetExternalResource(r) \/ SetUserPassword(r) \/ ConsumeInvite(r))
  BY <1>1 DEF GetInviteByTokenHash, GetExternalResource, SetUserPassword, ConsumeInvite, InviteLabels
<1> QED BY <1>2, <1>3, <1>4, <1>5, <1>6 DEF InviteStep

\* A request that moves without answering a createInvite, in a step that issues
\* nothing, keeps the invariant.
LEMMA LinksInvMoved ==
    ASSUME LinksInv, SettledInv', NEW r \in Reqs, Moved(r),
           Op[r] = "invite" => pc'[r] \in InviteLabels,
           \A i \in Reqs : (i \in Issued)' => i \in Issued \/ (i = r /\ Op[r] = "invite")
    PROVE  LinksInv'
<1>1. \A i \in Issued' : Op[i] = "invite"
  BY DEF LinksInv, Issued
<1>2. \A s \in Reqs : Op[s] = "invite" => pc'[s] \in InviteLabels
  BY DEF LinksInv, Moved
<1> QED BY <1>1, <1>2 DEF LinksInv

\* What one step of one request does to the links' invariant.
LEMMA RequestLinksInv ==
    ASSUME LinksInv, SettledInv', NEW r \in Reqs,
           RequestStep(r) \/ (Abort(r) /\ UNCHANGED inviteVars)
    PROVE  LinksInv' /\ Moved(r)
<1>a. InvitesInv /\ AccountsInv
  BY TypesOf DEF LinksInv, SettledInv
<1>b. /\ pc \in [Reqs -> PC] /\ invites \in [Reqs -> Invite \cup {NoInvite}]
      /\ \A i \in Issued : i \in Reqs
  BY LinkTypes
<1>1. CASE AccountStep(r) /\ UNCHANGED inviteVars
  <2>1. Moved(r)
    BY <1>a, <1>1, AccountStepType
  <2>2. Issued' = Issued
    BY <1>1 DEF Issued, inviteVars
  <2> QED BY <1>1, <2>1, <2>2, AccountStepLabels, LinksInvMoved
<1>2. CASE DeleteOrganizationAndInvites(r)
  <2>1. Moved(r)
    BY <1>a, <1>2, DeleteOrganizationType
  <2>2. \A i \in Reqs : (i \in Issued)' => i \in Issued
    BY <1>2 DEF DeleteOrganizationAndInvites, Issued
  <2>3. pc'[r] \in {"done", "failed"}
    BY <1>b, <1>2 DEF DeleteOrganizationAndInvites, DeleteOrganization, Goto, Fail
  <2> QED BY <2>1, <2>2, <2>3, LinksInvMoved DEF InviteLabels
<1>3. CASE Abort(r) /\ UNCHANGED inviteVars
  <2>1. Moved(r)
    BY <1>a, <1>3, AbortType
  <2>2. Issued' = Issued
    BY <1>3 DEF Issued, inviteVars
  <2>3. pc'[r] = "failed"
    BY <1>b, <1>3 DEF Abort, Fail
  <2> QED BY <2>1, <2>2, <2>3, LinksInvMoved DEF InviteLabels
<1>4. CASE InviteStep(r)
  <2>1. Moved(r)
    BY <1>a, <1>4, InviteStepType
  <2>2. \A i \in Reqs : (i \in Issued)' => i \in Issued \/ (i = r /\ Op[r] = "invite")
    <3>1. CASE UNCHANGED invites
      BY <3>1 DEF Issued
    <3>2. CASE ExpirePendingInvites(r)
      BY <1>b, <3>2 DEF ExpirePendingInvites, Issued
    <3>3. CASE CreateInvite(r)
      <4>1. pc[r] = "insertInvite" /\ \A i \in Reqs \ {r} : invites'[i] = invites[i]
        BY <1>b, <3>3 DEF CreateInvite
      <4>2. Op[r] = "invite"
        BY <1>a, <4>1 DEF AccountsInv, LocOK, LocOKFor
      <4> QED BY <4>1, <4>2 DEF Issued
    <3>4. CASE ConsumeInvite(r)
      <4>1. \/ UNCHANGED invites
            \/ /\ Pending(loc[r].inv)
               /\ invites' = [invites EXCEPT ![loc[r].inv].accepted = TRUE]
        BY <3>4 DEF ConsumeInvite
      <4> QED BY <1>b, <3>1, <4>1 DEF Issued, Pending
    <3> QED BY <1>4, <3>1, <3>2, <3>3, <3>4
            DEF InviteStep, StartInvite, CheckNotMember, GetInviteByTokenHash,
                GetExternalResource, SetUserPassword, inviteVars
  <2> QED BY <1>4, <2>1, <2>2, InviteStepLabels, LinksInvMoved
<1> QED BY <1>1, <1>2, <1>3, <1>4 DEF RequestStep

\* Every step keeps the invariant.
LEMMA NextLinksInv == LinksInv /\ [Next]_vars => LinksInv'
<1> SUFFICES ASSUME LinksInv, [Next]_vars PROVE LinksInv'
  OBVIOUS
<1>a. SettledInv'
  BY NextSettled DEF LinksInv
<1>1. CASE pc' = pc /\ invites' = invites
  BY <1>a, <1>1 DEF LinksInv, Issued
<1>2. ASSUME NEW r \in Reqs, RequestStep(r) \/ (Abort(r) /\ UNCHANGED inviteVars) PROVE LinksInv'
  BY <1>a, <1>2, RequestLinksInv
<1> QED
  BY <1>1, <1>2 DEF Next, IdpToggle, Tick, Idle, vars, accountVars, inviteVars

-----------------------------------------------------------------------------
\* The refinement, one lemma per action of InviteLinks.

\* A step that settles and answers nothing can only end links.
LEMMA OnlyEnds ==
    ASSUME LinksInv, won' = won, \A r \in won : loc'[r].inv = loc[r].inv,
           \A i \in Reqs : Live(i)' => Live(i),
           \A i \in Reqs : Answered(i)' <=> Answered(i)
    PROVE  Links!Die
<1>1. \A i \in Reqs : Taker(i)' = Taker(i)
  BY DEF Taker
<1>2. \A i \in Reqs : Live(i) => Answered(i)
  BY DEF LinksInv, SettledInv, Live, Pending, Answered
<1>3. \A i \in Reqs : LinkState(i)' # LinkState(i) => LinkState(i) = "live" /\ LinkState(i)' = "dead"
  <2> SUFFICES ASSUME NEW i \in Reqs, LinkState(i)' # LinkState(i)
               PROVE  LinkState(i) = "live" /\ LinkState(i)' = "dead"
    OBVIOUS
  <2> HIDE DEF Live, Answered, Taker
  <2>1. Taker(i)' = Taker(i) /\ (Live(i)' => Live(i)) /\ (Answered(i)' <=> Answered(i))
        /\ (Live(i) => Answered(i))
    BY <1>1, <1>2
  <2> QED BY <2>1 DEF LinkState
<1> QED BY <1>1, <1>3 DEF Links!Die

\* createInvite's INSERT issues the link of its request.
LEMMA CreateIssues ==
    ASSUME LinksInv, LinksInv', NEW r \in Reqs, Moved(r), CreateInvite(r), invites' # invites
    PROVE  Links!Issue(r)
<1>1. /\ pc[r] = "insertInvite" /\ won' = won /\ now' = now
      /\ invites' = [invites EXCEPT ![r] =
                        [org |-> loc[r].org, user |-> loc[r].user, role |-> loc[r].role,
                         expires |-> now + TTL, accepted |-> FALSE]]
      /\ pc' = [pc EXCEPT ![r] = "done"] /\ loc' = loc
  BY DEF CreateInvite, Goto
<1>2. /\ pc \in [Reqs -> PC] /\ invites \in [Reqs -> Invite \cup {NoInvite}] /\ now \in Nat
  BY LinkTypes
<1>3. \A i \in Reqs : Taker(i)' = Taker(i)
  BY <1>1 DEF Taker
<1>4. Taker(r) = {}
  BY <1>1 DEF LinksInv, SettledInv, Taker
<1>5. ~Live(r) /\ ~Answered(r)
  BY <1>1 DEF LinksInv, SettledInv, Live, Pending, Answered
<1>6. Live(r)'
  <2>1. /\ invites'[r].accepted = FALSE /\ invites'[r].expires = now + TTL
        /\ invites'[r] # NoInvite
    BY <1>1, <1>2 DEF NoInvite
  <2>2. now + TTL > now
    BY <1>2, InvitesAssumption
  <2> QED BY <1>1, <2>1, <2>2 DEF Live, Pending, Issued
<1>7. \A i \in Reqs \ {r} : (Live(i)' <=> Live(i)) /\ (Answered(i)' <=> Answered(i))
  BY <1>1, <1>2 DEF Live, Pending, Issued, Answered
<1>8. LinkState(r) = "none" /\ LinkState(r)' = "live"
  <2> HIDE DEF Live, Answered, Taker
  <2> QED BY <1>3, <1>4, <1>5, <1>6 DEF LinkState
<1>9. \A i \in Reqs \ {r} : LinkState(i)' = LinkState(i)
  <2> HIDE DEF Live, Answered, Taker
  <2> QED BY <1>3, <1>7 DEF LinkState
<1> QED BY <1>3, <1>8, <1>9 DEF Links!Issue

\* The UPDATE that returns a row takes its link, and only a live one.
LEMMA ConsumeTakes ==
    ASSUME LinksInv, NEW r \in Reqs, Moved(r), ConsumeInvite(r), invites' # invites
    PROVE  \E i \in Reqs : Links!Take(i, r)
<1>0. PICK i \in Reqs : i = loc[r].inv
  BY DEF ConsumeInvite, Pending, Issued
<1>1. /\ pc[r] = "consume" /\ Live(i) /\ won' = won \cup {r} /\ now' = now
      /\ invites' = [invites EXCEPT ![i].accepted = TRUE]
      /\ pc' = [pc EXCEPT ![r] = "grant"] /\ loc' = loc
  BY <1>0 DEF ConsumeInvite, Goto, Live
<1>2. /\ pc \in [Reqs -> PC] /\ invites \in [Reqs -> Invite \cup {NoInvite}]
      /\ won \subseteq Reqs
  BY <1>1, LinkTypes DEF Live, Pending
<1>3. Taker(i) = {}
  BY <1>1 DEF LinksInv, SettledInv, SettledOnce, Taker, Live
<1>4. Taker(i)' = {r} /\ \A j \in Reqs \ {i} : Taker(j)' = Taker(j)
  <2>1. \A j : Taker(j)' = {s \in won \cup {r} : loc[s].inv = j}
    BY <1>1 DEF Taker
  <2>2. Taker(i)' = {r}
    BY <1>0, <1>3, <2>1 DEF Taker
  <2>3. \A j \in Reqs \ {i} : Taker(j)' = Taker(j)
    BY <1>0, <2>1 DEF Taker
  <2> QED BY <2>2, <2>3
<1>5. \A j \in Reqs \ {i} : (Live(j)' <=> Live(j)) /\ (Answered(j)' <=> Answered(j))
  BY <1>1, <1>2 DEF Live, Pending, Issued, Answered
<1>6. LinkState(i) = "live" /\ LinkState(i)' = "taken"
  <2> HIDE DEF Live, Answered, Taker
  <2> QED BY <1>1, <1>3, <1>4 DEF LinkState
<1>7. \A j \in Reqs \ {i} : LinkState(j)' = LinkState(j)
  <2> HIDE DEF Live, Answered, Taker
  <2> QED BY <1>4, <1>5 DEF LinkState
<1>8. [j \in Reqs |-> LinkState(j)]' = [[j \in Reqs |-> LinkState(j)] EXCEPT ![i] = "taken"]
  <2> HIDE DEF LinkState
  <2> QED BY <1>2, <1>6, <1>7
<1>9. [j \in Reqs |-> Taker(j)]' = [[j \in Reqs |-> Taker(j)] EXCEPT ![i] = {r}]
  <2> HIDE DEF Taker
  <2> QED BY <1>2, <1>4
<1> QED BY <1>2, <1>6, <1>8, <1>9 DEF Links!Take

\* Every step is a step of the links, or leaves them alone.
LEMMA NextLinks == LinksInv /\ LinksInv' /\ [Next]_vars => Links!Next
<1> SUFFICES ASSUME LinksInv, LinksInv', [Next]_vars PROVE Links!Next
  OBVIOUS
<1>a. /\ pc \in [Reqs -> PC] /\ invites \in [Reqs -> Invite \cup {NoInvite}]
      /\ won \subseteq Reqs /\ now \in Nat
      /\ \A i \in Issued : i \in Reqs /\ invites[i] \in Invite
  BY LinkTypes
<1>1. CASE UNCHANGED <<pc, loc, invites, won>> /\ now' \in {now, now + 1}
  <2>1. \A i \in Reqs : Live(i)' => Live(i)
    BY <1>a, <1>1 DEF Live, Pending, Issued, Invite
  <2>2. \A i \in Reqs : Answered(i)' <=> Answered(i)
    BY <1>1 DEF Answered
  <2>3. won' = won /\ \A s \in won : loc'[s].inv = loc[s].inv
    BY <1>1
  <2> QED BY <2>1, <2>2, <2>3, OnlyEnds DEF Links!Next
<1>2. ASSUME NEW r \in Reqs, RequestStep(r) \/ (Abort(r) /\ UNCHANGED inviteVars)
      PROVE  Links!Next
  <2>1. Moved(r)
    BY <1>2, RequestLinksInv DEF LinksInv
  <2>2. \A s \in won : loc'[s].inv = loc[s].inv
    BY <1>a, <2>1, MovedKept DEF LinksInv, Kept
  <2>3. CASE CreateInvite(r) /\ invites' # invites
    BY <2>1, <2>3, CreateIssues DEF Links!Next
  <2>4. CASE ConsumeInvite(r) /\ invites' # invites
    BY <2>1, <2>4, ConsumeTakes DEF Links!Next
  <2>5. ASSUME won' = won, now' = now, \A i \in Reqs : Pending(i)' => Pending(i) /\ invites'[i] = invites[i],
               Op[r] = "invite" => pc'[r] # "done"
        PROVE  Links!Next
    <3>1. \A i \in Reqs : Live(i)' => Live(i)
      BY <2>5 DEF Live
    <3>2. \A i \in Reqs : Answered(i)' <=> Answered(i)
      BY <2>1, <2>5 DEF Answered, Moved, Ended
    <3> QED BY <2>2, <2>5, <3>1, <3>2, OnlyEnds DEF Links!Next
  <2>6. CASE AccountStep(r) /\ UNCHANGED inviteVars
    <3>1. Op[r] = "invite" => pc'[r] # "done"
      BY <2>6, AccountStepLabels
    <3> QED BY <2>5, <2>6, <3>1 DEF inviteVars, Pending, Issued
  <2>7. CASE Abort(r) /\ UNCHANGED inviteVars
    <3>1. pc'[r] = "failed"
      BY <1>a, <2>7 DEF Abort, Fail
    <3> QED BY <2>5, <2>7, <3>1 DEF inviteVars, Pending, Issued
  <2>8. CASE DeleteOrganizationAndInvites(r)
    <3>1. pc[r] = "deleteOrg"
      BY <2>8 DEF DeleteOrganizationAndInvites, DeleteOrganization
    <3>2. Op[r] # "invite"
      BY <3>1 DEF LinksInv, InviteLabels
    <3>3. \A i \in Reqs : Pending(i)' => Pending(i) /\ invites'[i] = invites[i]
      BY <1>a, <2>8 DEF DeleteOrganizationAndInvites, Pending, Issued
    <3> QED BY <2>5, <2>8, <3>2, <3>3 DEF DeleteOrganizationAndInvites
  <2>9. CASE InviteStep(r)
    <3>1. CASE CreateInvite(r) /\ invites' = invites
      <4>1. Op[r] = "invite" => pc'[r] # "done"
        <5>1. CASE pc' = [pc EXCEPT ![r] = "failed"]
          BY <1>a, <5>1
        <5>2. CASE orgs[loc[r].org] = "live"
          <6>1. invites'[r] # NoInvite /\ invites'[r] = invites[r]
            BY <1>a, <3>1, <5>2 DEF CreateInvite, NoInvite
          <6>2. pc[r] = "done" /\ pc[r] = "insertInvite"
            BY <3>1, <6>1 DEF LinksInv, SettledInv, Issued, CreateInvite
          <6> QED BY <6>2
        <5> QED BY <3>1, <5>1, <5>2 DEF CreateInvite, Fail
      <4> QED BY <2>5, <3>1, <4>1 DEF CreateInvite, Pending, Issued
    <3>2. CASE ConsumeInvite(r) /\ invites' = invites
      <4>1. won' = won /\ now' = now
        BY <1>a, <3>2 DEF ConsumeInvite, Pending, Issued, Invite
      <4>2. Op[r] # "invite"
        BY <3>2 DEF ConsumeInvite, LinksInv, InviteLabels
      <4> QED BY <2>5, <3>2, <4>1, <4>2 DEF Pending, Issued
    <3>3. CASE ExpirePendingInvites(r)
      <4>1. \A i \in Reqs : Pending(i)' => Pending(i) /\ invites'[i] = invites[i]
        BY <1>a, <3>3 DEF ExpirePendingInvites, Pending, Issued, Invite
      <4>2. pc'[r] = "insertInvite" /\ won' = won /\ now' = now
        BY <1>a, <3>3 DEF ExpirePendingInvites, Goto
      <4> QED BY <2>5, <4>1, <4>2
    <3>4. CASE UNCHANGED <<invites, won, now>> /\ ~CreateInvite(r)
      <4>1. Op[r] = "invite" => pc'[r] # "done"
        BY <2>9, <3>4, InviteStepLabels
      <4> QED BY <2>5, <3>4, <4>1 DEF Pending, Issued
    <3> QED BY <2>3, <2>4, <2>9, <3>1, <3>2, <3>3, <3>4
            DEF InviteStep, StartInvite, CheckNotMember, GetInviteByTokenHash,
                GetExternalResource, SetUserPassword, inviteVars
  <2> QED BY <1>2, <2>6, <2>7, <2>8, <2>9 DEF RequestStep
<1> QED
  BY <1>1, <1>2 DEF Next, IdpToggle, Tick, Idle, vars, accountVars, inviteVars

(***************************************************************************)
(* The invitation requests implement the life of a link: whatever races    *)
(* acceptInvite between its lookup and its UPDATE (a second redemption, a  *)
(* re-invite, the expiry, the deletion of the organization, a crash), a    *)
(* link is redeemed by one request, while it is live, and never revived.   *)
(***************************************************************************)
THEOREM LinksAreImplemented == Spec => LinksImplemented
<1>1. Init => LinksInv
  BY InitType DEF Init, AccountsInit, LinksInv, InviteLabels, SettledInv, SettledOnce, Issued, Pending
<1>2. Init => Links!Init
  <2> SUFFICES ASSUME Init PROVE Links!Init
    OBVIOUS
  <2>1. \A i \in Reqs : Taker(i) = {} /\ ~Live(i) /\ ~Answered(i)
    BY DEF Init, AccountsInit, Taker, Live, Answered, Pending, Issued
  <2>2. \A i \in Reqs : LinkState(i) = "none"
    <3> HIDE DEF Live, Answered, Taker
    <3> QED BY <2>1 DEF LinkState
  <2> QED BY <2>1, <2>2 DEF Links!Init
<1> QED
  BY <1>1, <1>2, NextLinksInv, NextLinks, PTL DEF Spec, LinksImplemented, Links!Spec
=============================================================================
