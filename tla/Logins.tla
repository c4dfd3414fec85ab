------------------------------- MODULE Logins -------------------------------
(***************************************************************************)
(* How a browser gets a session: the OIDC round trip through authentik and *)
(* the bootstrap login, whose throttle is LoginLimiter.                    *)
(*                                                                         *)
(* The platform keeps nothing of a login: state and nonce travel in one    *)
(* cookie, the session in another, both signed or opaque to the browser    *)
(* and changed only by the answers it receives.  A handler is one step     *)
(* that reads the cookies the request carries; its answer travels, and the *)
(* answers to the tabs of one browser arrive in any order.  A flow names   *)
(* the state, the nonce and the code drawn for it.                         *)
(***************************************************************************)
EXTENDS LoginLimiter

CONSTANTS
    Browsers,
    Addr,        \* Addr[b]: the client key of browser b
    Users,       \* accounts in authentik
    Bootstrap,   \* the platform user of the bootstrap login
    Flows,       \* OIDC logins that are started
    SessionTTL,  \* in ticks of the clock
    MaxAnswers,  \* bound on the answers on their way
    None         \* no cookie, no user

ASSUME LoginsAssumption ==
    /\ Addr \in [Browsers -> Keys]
    /\ SessionTTL \in Nat \ {0} /\ MaxAnswers \in Nat
    /\ Bootstrap \notin Users /\ None \notin Users \cup {Bootstrap} \cup Flows \cup Browsers

VARIABLES
    session,   \* session[b]: the session cookie of b
    state,     \* state[b]: the OIDC state cookie of b
    flow,      \* flow[f]: who started f, who signed in, and how far it is
    answers,   \* answers on their way to browsers
    late       \* history: the bootstrap sessions issued after onboarding

limiterVars == vars
browserVars == <<session, state>>
loginVars == <<vars, session, state, flow, answers, late>>

Session == [user: Users \cup {Bootstrap}, expires: Nat]

\* No cookie, or the empty one ClearCookie leaves, which decode refuses.
NoSession == [user |-> None, expires |-> 0]
Flow == [by: Browsers, user: Users \cup {None}, at: {"answered", "authentik", "code", "spent"}]
NoFlow == [by |-> None, user |-> None, at |-> "none"]

\* What an answer does to the two cookies of its browser: sets hold the values
\* it writes, and are empty where it leaves the cookie alone.
Answer == [to: Browsers, session: SUBSET (Session \cup {NoSession}),
           state: SUBSET (Flows \cup {None})]

LoginTypeOK ==
    /\ TypeOK
    /\ session \in [Browsers -> Session \cup {NoSession}]
    /\ state \in [Browsers -> Flows \cup {None}]
    /\ flow \in [Flows -> Flow \cup {NoFlow}]
    /\ answers \subseteq Answer
    /\ late \in Nat

LoginInit ==
    /\ Init
    /\ session = [b \in Browsers |-> NoSession]
    /\ state = [b \in Browsers |-> None]
    /\ flow = [f \in Flows |-> NoFlow]
    /\ answers = {}
    /\ late = 0

-----------------------------------------------------------------------------
\* Cookies.

\* Mutant: the lifetime is subtracted.
IssueExpired(u) == [user |-> u, expires |-> now - SessionTTL]

\* Issue: signed, and good for SessionTTL.
Issue(u) == [user |-> u, expires |-> now + SessionTTL]

\* decode: the signature holds, since only answers write the cookie.
Decodes(b) == session[b] # NoSession

\* Validate.
Valid(b) == Decodes(b) /\ session[b].expires > now

GetOIDCStateCookie(b) == state[b] # None

Send(b, ses, st) ==
    /\ Cardinality(answers) < MaxAnswers
    /\ answers' = answers \cup {[to |-> b, session |-> ses, state |-> st]}

\* A browser receives an answer.  Identical answers are one element, which
\* stays for as long as another one is on its way.
Deliver(a) ==
    /\ a \in answers
    /\ \/ answers' = answers \ {a}
       \/ UNCHANGED answers
    /\ session' = IF a.session = {} THEN session
                  ELSE [session EXCEPT ![a.to] = CHOOSE s \in a.session : TRUE]
    /\ state' = IF a.state = {} THEN state
                ELSE [state EXCEPT ![a.to] = CHOOSE f \in a.state : TRUE]
    /\ flow' = [f \in Flows |-> IF f \in a.state /\ flow[f].at = "answered"
                                THEN [flow[f] EXCEPT !.at = "authentik"] ELSE flow[f]]
    /\ UNCHANGED <<limiterVars, late>>

\* The state cookie reaches its MaxAge, or the browser drops it.
StateCookieExpires(b) ==
    /\ state[b] # None
    /\ state' = [state EXCEPT ![b] = None]
    /\ UNCHANGED <<limiterVars, session, flow, answers, late>>

-----------------------------------------------------------------------------
\* The OIDC round trip.

\* oidcLogin: fresh tokens in the cookie and in the redirect to authentik.
OidcLogin(b) ==
    \E f \in Flows :
        /\ flow[f] = NoFlow
        /\ flow' = [flow EXCEPT ![f] = [by |-> b, user |-> None, at |-> "answered"]]
        /\ Send(b, {}, {f})
        /\ UNCHANGED <<limiterVars, browserVars, late>>

\* authentik signs somebody in at the browser it was sent and issues a code.  A
\* refusal comes back as error= and changes no cookie.
SignIn(f) ==
    /\ flow[f].at = "authentik"
    /\ \E u \in Users : flow' = [flow EXCEPT ![f] = [@ EXCEPT !.user = u, !.at = "code"]]
    /\ UNCHANGED <<limiterVars, browserVars, answers, late>>

\* Mutant: the tokens are the same for every login.
SameTokens(f, g) == TRUE

\* Two flows whose RandomTokens compare equal.
TokensMatch(f, g) == f = g

\* authentik redeems a code once.  The identity token is that of the code, with
\* the nonce of its flow, which TokensMatch has compared with the state.
Exchange(f) == flow[f].at = "code"

\* oidcCallback in browser b, at the address authentik made for flow f: the tab
\* that was sent there, a reload, a second tab, another browser it was passed
\* to.  Without a state cookie nothing is answered that changes one; with one
\* it is cleared first.  Exchange may fail, with the code redeemed or not, and
\* so may UpsertFromOIDC.
OidcCallback(b, f) ==
    LET matches == TokensMatch(f, state[b])
        spent == [flow EXCEPT ![f].at = "spent"]
    IN
    /\ flow[f].at \in {"code", "spent"}
    /\ GetOIDCStateCookie(b)
    /\ \/ /\ matches /\ Exchange(f)
          /\ flow' = spent
          /\ Send(b, {Issue(flow[f].user)}, {None})
       \/ /\ flow' = flow \/ (matches /\ flow' = spent)
          /\ Send(b, {}, {None})
    /\ UNCHANGED <<limiterVars, browserVars, late>>

-----------------------------------------------------------------------------
\* Sessions in use.

\* requireAuth and authn clear the cookie of an invalid session, and also of a
\* valid one when GetByID does not find its user or fails.
Unauthorized(b) ==
    /\ \E found \in BOOLEAN : ~(Valid(b) /\ found)
    /\ Send(b, {NoSession}, {})
    /\ UNCHANGED <<limiterVars, browserVars, flow, late>>

Logout(b) ==
    /\ Send(b, {NoSession}, {})
    /\ UNCHANGED <<limiterVars, browserVars, flow, late>>

-----------------------------------------------------------------------------
\* setupLogin.

BootstrapAttempt(p) ==
    /\ GetInstallation(p) \/ Allow(p) \/ RecordFail(p)
    /\ UNCHANGED <<session, state, flow, answers, late>>

\* reset, the bootstrap user's upsert, which may fail, and the session, for a
\* browser behind the address the attempt came from.
BootstrapLogin(p) ==
    /\ Reset(p)
    /\ \/ /\ \E b \in Browsers : Addr[b] \in trying[p] /\ Send(b, {Issue(Bootstrap)}, {})
          /\ late' = IF onboarded THEN late + 1 ELSE late
       \/ UNCHANGED <<answers, late>>
    /\ UNCHANGED <<session, state, flow>>

Environment == (Tick \/ Onboard) /\ UNCHANGED <<session, state, flow, answers, late>>

LoginNext ==
    \/ \E b \in Browsers : OidcLogin(b) \/ Unauthorized(b) \/ Logout(b) \/ StateCookieExpires(b)
    \/ \E b \in Browsers, f \in Flows : OidcCallback(b, f)
    \/ \E f \in Flows : SignIn(f)
    \/ \E a \in answers : Deliver(a)
    \/ \E p \in Procs : BootstrapAttempt(p) \/ BootstrapLogin(p)
    \/ Environment

LoginSpec == LoginInit /\ [][LoginNext]_loginVars

-----------------------------------------------------------------------------
\* Properties.

(***************************************************************************)
(* A browser holds a session of u only if authentik signed u in for a      *)
(* login that this very browser started: a callback address opened in      *)
(* another browser, a login overtaken by a second tab's, a reload, and     *)
(* answers out of order never give it somebody else's (oidcCallback).  The *)
(* bootstrap user is nobody in authentik.                                  *)
(***************************************************************************)
SessionVouched ==
    \A b \in Browsers : session[b] # NoSession /\ session[b].user # Bootstrap =>
        \E f \in Flows : flow[f] = [by |-> b, user |-> session[b].user, at |-> "spent"]

(***************************************************************************)
(* "Valid only until the installation is onboarded; afterwards OIDC is the *)
(* only login path" (setupLogin).  An attempt that found the installation  *)
(* not onboarded still gets its session if onboarding overtakes it, while  *)
(* its body is read or its password compared.  The bootstrap sessions      *)
(* issued after onboarding are at most the attempts the server handles at  *)
(* a time, over the whole life of the installation.                        *)
(***************************************************************************)
LateBootstrapsBounded == late =< Cardinality(Procs)
=============================================================================
