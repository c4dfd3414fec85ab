------------------------------ MODULE Invites -------------------------------
(***************************************************************************)
(* Invite-first-login: createInvite issues a single-use token for an       *)
(* organization and a user, acceptInvite redeems it.  The module composes  *)
(* the invite_tokens table and authentik's passwords with the Accounts     *)
(* requests that run beside them.                                          *)
(*                                                                         *)
(* An invite is named after the createInvite request that inserts it; a    *)
(* password is named after the acceptInvite request that chose it.         *)
(***************************************************************************)
EXTENDS Accounts

CONSTANTS
    TTL,     \* inviteTTL in clock ticks
    MaxNow   \* bound on the clock

ASSUME InvitesAssumption == TTL \in Nat \ {0} /\ MaxNow \in Nat

VARIABLES
    now,       \* the clock the API and the database share
    invites,   \* invites[i]: the invite_tokens row, or NoInvite
    password,  \* password[u]: the request whose password authentik holds
    won,       \* requests whose ConsumeInvite returned the row
    burnt,     \* history: invites set accepted by a re-invite
    older      \* history: the invites that existed when r was admitted

inviteVars == <<now, invites, password, won, burnt, older>>
vars == <<accountVars, inviteVars>>

Invite == [org: Orgs, user: Users, role: OrgRole, expires: Nat, accepted: BOOLEAN]
NoInvite == [accepted |-> FALSE]
Issued == {i \in Reqs : invites[i] # NoInvite}
Pending(i) == i \in Issued /\ ~invites[i].accepted

InvitesTypeOK ==
    /\ AccountsTypeOK
    /\ now \in 0..MaxNow
    /\ invites \in [Reqs -> Invite \cup {NoInvite}]
    /\ password \in [Users -> Reqs \cup {None}]
    /\ won \subseteq Reqs
    /\ burnt \subseteq Reqs
    /\ older \in [Reqs -> SUBSET Reqs]

Init ==
    /\ AccountsInit
    /\ now = 0
    /\ invites = [i \in Reqs |-> NoInvite]
    /\ password = [u \in Users |-> None]
    /\ won = {}
    /\ burnt = {}
    /\ older = [r \in Reqs |-> {}]

-----------------------------------------------------------------------------
\* createInvite.  Its user is looked up or created by the Accounts steps that
\* onboardUser takes too (ensurePlatformUser is a copy of them).

StartInvite(r) ==
    \E a \in Session, o \in Orgs, u \in Users, role \in OrgRole :
        /\ Op[r] = "invite"
        /\ MayOffer(a, o, role)
        /\ Admit(r, "lookup", [actor |-> a, org |-> o, user |-> u, role |-> role, inv |-> None])
        /\ older' = [older EXCEPT ![r] = Issued]
        /\ UNCHANGED <<dbVars, extVars, now, invites, password, won, burnt>>

\* An existing member needs no invitation.  Only a successful read refuses: a
\* store error on it counts as "not a member".
CheckNotMember(r) ==
    /\ pc[r] = "checkMember"
    /\ \/ member[<<loc[r].org, loc[r].user>>] # NoRole /\ Fail(r, "other")
       \/ /\ member[<<loc[r].org, loc[r].user>>] = NoRole \/ "store" \in Faults
          /\ Goto(r, "expire")
    /\ UNCHANGED <<dbVars, extVars, pk, inviteVars>>

\* Mutant: the older links are left alone.
KeepPendingInvites(r) ==
    /\ pc[r] = "expire"
    /\ Goto(r, "insertInvite")
    /\ UNCHANGED <<dbVars, extVars, pk, inviteVars>>

ExpirePendingInvites(r) ==
    LET hit == {i \in Issued : /\ Pending(i) /\ invites[i].org = loc[r].org
                               /\ invites[i].user = loc[r].user}
    IN
    /\ pc[r] = "expire"
    /\ invites' = [i \in Reqs |-> IF i \in hit THEN [invites[i] EXCEPT !.accepted = TRUE]
                                               ELSE invites[i]]
    /\ burnt' = burnt \cup hit
    /\ Goto(r, "insertInvite")
    /\ UNCHANGED <<dbVars, extVars, pk, now, password, won, older>>

\* Mutant: the expiry lies a TTL in the past.
CreateInviteExpired(r) ==
    /\ pc[r] = "insertInvite"
    /\ invites' = [invites EXCEPT ![r] =
                       [org |-> loc[r].org, user |-> loc[r].user, role |-> loc[r].role,
                        expires |-> now - TTL, accepted |-> FALSE]]
    /\ Goto(r, "done")
    /\ UNCHANGED <<dbVars, extVars, pk, now, password, won, burnt, older>>

\* Mutant: the row is written for the actor instead of the invited user.
CreateInviteForActor(r) ==
    /\ pc[r] = "insertInvite"
    /\ invites' = [invites EXCEPT ![r] =
                       [org |-> loc[r].org, user |-> loc[r].actor, role |-> loc[r].role,
                        expires |-> now + TTL, accepted |-> FALSE]]
    /\ Goto(r, "done")
    /\ UNCHANGED <<dbVars, extVars, pk, now, password, won, burnt, older>>

\* The row references the organization; the token is shown in the response.
CreateInvite(r) ==
    /\ pc[r] = "insertInvite"
    /\ IF orgs[loc[r].org] = "live"
       THEN /\ invites' = [invites EXCEPT ![r] =
                               [org |-> loc[r].org, user |-> loc[r].user, role |-> loc[r].role,
                                expires |-> now + TTL, accepted |-> FALSE]]
            /\ Goto(r, "done")
       ELSE Fail(r, "other") /\ UNCHANGED invites
    /\ UNCHANGED <<dbVars, extVars, pk, now, password, won, burnt, older>>

-----------------------------------------------------------------------------
\* acceptInvite: unauthenticated, the token is the credential.  Only a token
\* that a createInvite response showed can be presented.

GetInviteByTokenHash(r) ==
    \E i \in Issued :
        /\ Op[r] = "accept"
        /\ pc[i] = "done"
        /\ ~invites[i].accepted /\ ~(now > invites[i].expires)
        /\ Admit(r, "linked", [actor |-> None, org |-> invites[i].org, user |-> invites[i].user,
                               role |-> invites[i].role, inv |-> i])
        /\ UNCHANGED <<dbVars, extVars, inviteVars>>

GetExternalResource(r) ==
    /\ pc[r] = "linked"
    /\ IF loc[r].user \in linked THEN Goto(r, "password") ELSE Fail(r, "other")
    /\ UNCHANGED <<dbVars, extVars, pk, inviteVars>>

\* A call that fails may still have changed the password.
SetUserPassword(r) ==
    LET set == [password EXCEPT ![loc[r].user] = r] IN
    /\ pc[r] = "password"
    /\ \/ idpUp /\ password' = set /\ Goto(r, "consume")
       \/ ~idpUp /\ password' \in {password, set} /\ Fail(r, "other")
    /\ UNCHANGED <<dbVars, extVars, pk, now, invites, won, burnt, older>>

\* Mutant: UPDATE ... WHERE id = $1 AND expires_at > now().
ConsumeInviteAgain(r) ==
    LET i == loc[r].inv IN
    /\ pc[r] = "consume"
    /\ IF i \in Issued /\ invites[i].expires > now
       THEN /\ invites' = [invites EXCEPT ![i].accepted = TRUE]
            /\ won' = won \cup {r}
            /\ Goto(r, "grant")
       ELSE Fail(r, "other") /\ UNCHANGED <<invites, won>>
    /\ UNCHANGED <<dbVars, extVars, pk, now, password, burnt, older>>

\* Mutant: UPDATE ... WHERE accepted_at IS NULL; the lookup has seen the expiry.
ConsumeInviteLate(r) ==
    LET i == loc[r].inv IN
    /\ pc[r] = "consume"
    /\ IF Pending(i)
       THEN /\ invites' = [invites EXCEPT ![i].accepted = TRUE]
            /\ won' = won \cup {r}
            /\ Goto(r, "grant")
       ELSE Fail(r, "other") /\ UNCHANGED <<invites, won>>
    /\ UNCHANGED <<dbVars, extVars, pk, now, password, burnt, older>>

\* UPDATE ... WHERE accepted_at IS NULL AND expires_at > now() RETURNING: no
\* row, whatever the reason, is "already redeemed".
ConsumeInvite(r) ==
    LET i == loc[r].inv IN
    /\ pc[r] = "consume"
    /\ IF Pending(i) /\ invites[i].expires > now
       THEN /\ invites' = [invites EXCEPT ![i].accepted = TRUE]
            /\ won' = won \cup {r}
            /\ Goto(r, "grant")
       ELSE Fail(r, "other") /\ UNCHANGED <<invites, won>>
    /\ UNCHANGED <<dbVars, extVars, pk, now, password, burnt, older>>

-----------------------------------------------------------------------------
\* deleteOrganization cascades to the organization's invites.
DeleteOrganizationAndInvites(r) ==
    /\ DeleteOrganization(r)
    /\ invites' = [i \in Reqs |->
                     IF i \in Issued /\ orgs'[invites[i].org] = "deleted" THEN NoInvite
                                                                         ELSE invites[i]]
    /\ UNCHANGED <<now, password, won, burnt, older>>

Tick ==
    /\ now < MaxNow
    /\ now' = now + 1
    /\ UNCHANGED <<accountVars, invites, password, won, burnt, older>>

InviteStep(r) ==
    \/ StartInvite(r) \/ CheckNotMember(r) \/ ExpirePendingInvites(r) \/ CreateInvite(r)
    \/ GetInviteByTokenHash(r) \/ GetExternalResource(r) \/ SetUserPassword(r)
    \/ ConsumeInvite(r)

RequestStep(r) ==
    \/ InviteStep(r)
    \/ AccountStep(r) /\ UNCHANGED inviteVars
    \/ DeleteOrganizationAndInvites(r)

Idle == NoneInFlight /\ UNCHANGED vars

Next ==
    \/ \E r \in Reqs : RequestStep(r) \/ (Abort(r) /\ UNCHANGED inviteVars)
    \/ IdpToggle /\ UNCHANGED inviteVars
    \/ Tick
    \/ Idle

Spec == Init /\ [][Next]_vars

-----------------------------------------------------------------------------
\* Properties.

(***************************************************************************)
(* An invite is settled once: ConsumeInvite succeeds for at most one of    *)
(* the requests presenting the token, never for a link that a re-invite    *)
(* burnt, and a settled invite stays accepted.                             *)
(***************************************************************************)
SettledOnce ==
    /\ \A r, s \in won : loc[r].inv = loc[s].inv => r = s
    /\ \A r \in won : loc[r].inv \notin burnt
    /\ \A i \in burnt \cup {loc[r].inv : r \in won} : ~Pending(i)

(***************************************************************************)
(* The tables and requests implement the life of a link (InviteLinks): a   *)
(* row is live while ConsumeInvite could still succeed for it, and taken   *)
(* by the request that did.  In particular a link that expired, was        *)
(* superseded or went with its organization between acceptInvite's lookup  *)
(* and its UPDATE is never redeemed, and a redeemed one stays redeemed.    *)
(***************************************************************************)
Taker(i) == {r \in won : loc[r].inv = i}

Live(i) == Pending(i) /\ invites[i].expires > now
Answered(i) == Op[i] = "invite" /\ pc[i] = "done"

LinkState(i) ==
    IF Taker(i) # {} THEN "taken"
    ELSE IF Live(i) THEN "live" ELSE IF Answered(i) THEN "dead" ELSE "none"

Links == INSTANCE InviteLinks WITH
    Links <- Reqs, Claims <- Reqs,
    state <- [i \in Reqs |-> LinkState(i)],
    taker <- [i \in Reqs |-> Taker(i)]

LinksImplemented == Links!Spec

(***************************************************************************)
(* A re-invite supersedes: once createInvite has answered, no invite for   *)
(* the same organization and user that existed when the request was        *)
(* admitted can still be redeemed.                                         *)
(***************************************************************************)
ReinviteSupersedes ==
    \A r \in Reqs : Op[r] = "invite" /\ pc[r] = "done" =>
        \A i \in older[r] : Pending(i) =>
            <<invites[i].org, invites[i].user>> # <<loc[r].org, loc[r].user>>

(***************************************************************************)
(* Every membership that was not there from the start is backed by a       *)
(* request that went through and named that organization, user and role: a *)
(* direct grant, or the one redemption of an invite whose createInvite     *)
(* named the same three.  Before acceptance the invitee has no access.     *)
(***************************************************************************)
Grant(r) == <<loc[r].org, loc[r].user, loc[r].role>>

Backs(r, g) ==
    /\ Grant(r) = g
    /\ pc[r] \in {"done", "group", "mailbox"} \/ why[r] = "late"
    /\ \/ Op[r] \in {"addMember", "onboard", "createUser"}
       \/ r \in won /\ Op[loc[r].inv] = "invite" /\ Grant(loc[r].inv) = g

MembershipBacked ==
    \A o \in Orgs, u \in Users :
        LET role == member[<<o, u>>] IN
        role \notin {NoRole, SeedRole[<<o, u>>]} => \E r \in Reqs : Backs(r, <<o, u, role>>)
=============================================================================
