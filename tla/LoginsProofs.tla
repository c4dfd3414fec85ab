---------------------------- MODULE LoginsProofs ----------------------------
(***************************************************************************)
(* Proofs about Logins for any number of browsers, addresses, users,       *)
(* overlapping logins and answers under way.                               *)
(***************************************************************************)
EXTENDS Logins, LimiterProofs

-----------------------------------------------------------------------------
\* The throttle inside the logins.

\* A step of the logins is a step of the throttle or leaves it alone.
LEMMA LoginStepLimits == [LoginNext]_loginVars => [Next]_vars
BY DEF LoginNext, loginVars, OidcLogin, Unauthorized, Logout, StateCookieExpires, OidcCallback,
       SignIn, Deliver, BootstrapAttempt, BootstrapLogin, Environment, Next, limiterVars

(***************************************************************************)
(* setupLogin's part of the logins implements the throttle on its own:     *)
(* whatever is proved of LoginLimiter holds beside the OIDC logins.        *)
(***************************************************************************)
THEOREM LoginsImplementLimiter == LoginSpec => Spec
<1>1. LoginInit => Init
  BY DEF LoginInit
<1> QED BY <1>1, LoginStepLimits, PTL DEF LoginSpec, Spec

(***************************************************************************)
(* Composed with the browsers and the OIDC logins, the throttle still      *)
(* bounds the failed bootstrap logins of a client in one window.           *)
(***************************************************************************)
THEOREM LoginsBounded == LoginSpec => []FailsBounded
<1>1. LoginInit => IInv
  BY InitBounded DEF LoginInit
<1>2. IInv => FailsBounded
  BY DEF IInv, Bounded, Limit, FailsBounded
<1> QED
  BY <1>1, <1>2, LoginStepLimits, NextBounded, PTL DEF LoginSpec

-----------------------------------------------------------------------------
\* Whose session a browser holds.

Vouched(b, u) == \E f \in Flows : flow[f] = [by |-> b, user |-> u, at |-> "spent"]

(***************************************************************************)
(* SessionVouched is about cookies, which answers write: the same has to   *)
(* hold of every answer under way, and every state cookie, held or under   *)
(* way, is that of a flow its browser started.                             *)
(***************************************************************************)
Fair(b, s) == s # NoSession /\ s.user # Bootstrap => Vouched(b, s.user)
Own(b, f) == f # None => f \in Flows /\ flow[f].by = b

FlowOK ==
    /\ flow \in [Flows -> Flow \cup {NoFlow}]
    /\ \A f \in Flows : flow[f].at \in {"code", "spent"} => flow[f].user \in Users

VouchInv ==
    /\ session \in [Browsers -> Session \cup {NoSession}]
    /\ state \in [Browsers -> Flows \cup {None}]
    /\ FlowOK
    /\ answers \subseteq Answer
    /\ now \in Nat
    /\ \A b \in Browsers : Fair(b, session[b]) /\ Own(b, state[b])
    /\ \A a \in answers : /\ \A s \in a.session : Fair(a.to, s)
                          /\ \A f \in a.state : Own(a.to, f)

\* A flow keeps its browser, and a spent one stays as it is.
Onward == \A f \in Flows : /\ flow[f] # NoFlow => flow'[f].by = flow[f].by
                           /\ flow[f].at = "spent" => flow'[f] = flow[f]

\* What held of a session or a state cookie still holds as flows go on.
LEMMA OnwardKeeps ==
    ASSUME VouchInv, Onward, NEW b \in Browsers
    PROVE  /\ \A s : Fair(b, s) => Fair(b, s)'
           /\ \A f : Own(b, f) => Own(b, f)'
<1>1. \A u : Vouched(b, u) => Vouched(b, u)'
  BY DEF Vouched, Onward
<1>2. \A f : Own(b, f) => Own(b, f)'
  BY LoginsAssumption DEF Own, Onward, VouchInv, FlowOK, NoFlow
<1> QED BY <1>1, <1>2 DEF Fair

\* A step that sends one good answer and leaves the cookies alone.
LEMMA SendVouches ==
    ASSUME VouchInv, Onward, UNCHANGED browserVars, FlowOK', now' \in Nat,
           NEW new \in Answer, answers' = answers \cup {new},
           \A s \in new.session : Fair(new.to, s)', \A f \in new.state : Own(new.to, f)'
    PROVE  VouchInv'
<1>2. \A a \in answers : a.to \in Browsers
  BY DEF VouchInv, Answer
<1>3. ASSUME NEW c \in Browsers PROVE (Fair(c, session[c]) /\ Own(c, state[c]))'
  <2>1. PICK s, f : s = session[c] /\ f = state[c] /\ s = session'[c] /\ f = state'[c]
    BY DEF browserVars
  <2>2. Fair(c, s)' /\ Own(c, f)'
    BY <2>1, OnwardKeeps DEF VouchInv
  <2> QED BY <2>1, <2>2
<1>4. \A a \in answers : (\A s \in a.session : Fair(a.to, s)') /\ (\A f \in a.state : Own(a.to, f)')
  BY <1>2, OnwardKeeps DEF VouchInv
<1>5. \A a \in answers' : (\A s \in a.session : Fair(a.to, s)') /\ (\A f \in a.state : Own(a.to, f)')
  BY <1>4
<1>6. answers' \subseteq Answer
  BY DEF VouchInv
<1> QED BY <1>3, <1>5, <1>6 DEF VouchInv, browserVars

\* A step of one browser, or of authentik, that sends nothing.
LEMMA SilentVouches ==
    ASSUME VouchInv, Onward, UNCHANGED <<session, answers>>, FlowOK',
           now' \in Nat, state' \in [Browsers -> Flows \cup {None}],
           \A b \in Browsers : state'[b] \in {state[b], None}
    PROVE  VouchInv'
<1>1. ASSUME NEW c \in Browsers PROVE (Fair(c, session[c]) /\ Own(c, state[c]))'
  <2>1. PICK s, f : s = session[c] /\ s = session'[c] /\ f = state[c]
    OBVIOUS
  <2>2. Fair(c, s)' /\ Own(c, f)'
    BY <2>1, OnwardKeeps DEF VouchInv
  <2>3. PICK g : g = state'[c]
    OBVIOUS
  <2>4. Own(c, g)'
    BY <2>1, <2>2, <2>3 DEF Own
  <2> QED BY <2>1, <2>2, <2>3, <2>4
<1>2. \A a \in answers : a.to \in Browsers
  BY DEF VouchInv, Answer
<1>3. \A a \in answers : (\A s \in a.session : Fair(a.to, s)') /\ (\A f \in a.state : Own(a.to, f)')
  BY <1>2, OnwardKeeps DEF VouchInv
<1> QED BY <1>1, <1>3 DEF VouchInv

\* Every step keeps it.
LEMMA NextVouches == VouchInv /\ [LoginNext]_loginVars => VouchInv'
<1> SUFFICES ASSUME VouchInv, [LoginNext]_loginVars PROVE VouchInv'
  OBVIOUS
<1> USE DEF limiterVars, vars, browserVars
<1>a. now \in Nat /\ state \in [Browsers -> Flows \cup {None}]
  BY DEF VouchInv
<1>1. ASSUME NEW b \in Browsers, OidcLogin(b) PROVE VouchInv'
  <2>1. PICK f \in Flows :
            /\ flow[f] = NoFlow
            /\ flow' = [flow EXCEPT ![f] = [by |-> b, user |-> None, at |-> "answered"]]
            /\ Send(b, {}, {f})
            /\ UNCHANGED <<limiterVars, browserVars>>
    BY <1>1 DEF OidcLogin
  <2>2. FlowOK'
    BY <2>1 DEF VouchInv, FlowOK, Flow
  <2>3. Onward
    BY <2>1 DEF Onward, VouchInv, FlowOK, NoFlow
  <2>4. Own(b, f)'
    BY <2>1 DEF Own, VouchInv, FlowOK
  <2>s. PICK new : new = [to |-> b, session |-> {}, state |-> {f}]
    OBVIOUS
  <2>t. /\ new \in Answer /\ new.to = b
        /\ \A x \in new.session : Fair(b, x)'
        /\ \A y \in new.state : Own(b, y)'
    BY <2>s, <2>4 DEF Answer
  <2>u. answers' = answers \cup {new}
    BY <2>s, <2>1, <2>2, <2>3 DEF Send
  <2> QED BY <1>a, <2>t, <2>u, <2>1, <2>2, <2>3, SendVouches
<1>2. ASSUME NEW b \in Browsers, Unauthorized(b) \/ Logout(b) PROVE VouchInv'
  <2>1. Onward
    BY <1>2 DEF Unauthorized, Logout, Onward
  <2>3. FlowOK'
    BY <1>2 DEF Unauthorized, Logout, VouchInv, FlowOK
  <2>2. Fair(b, NoSession)'
    BY DEF Fair
  <2>s. PICK new : new = [to |-> b, session |-> {NoSession}, state |-> {}]
    OBVIOUS
  <2>t. /\ new \in Answer /\ new.to = b
        /\ \A x \in new.session : Fair(b, x)'
        /\ \A y \in new.state : Own(b, y)'
    BY <2>s, <2>2 DEF Answer
  <2>u. answers' = answers \cup {new}
    BY <2>s, <1>2, <2>1, <2>3 DEF Send, Unauthorized, Logout
  <2> QED BY <1>a, <2>t, <2>u, <1>2, <2>1, <2>3, SendVouches DEF Unauthorized, Logout
<1>3. ASSUME NEW b \in Browsers, StateCookieExpires(b) PROVE VouchInv'
  <2>1. Onward
    BY <1>3 DEF StateCookieExpires, Onward
  <2>2. FlowOK'
    BY <1>3 DEF StateCookieExpires, VouchInv, FlowOK
  <2> QED BY <1>3, <2>1, <2>2, <1>a, SilentVouches DEF StateCookieExpires
<1>4. ASSUME NEW b \in Browsers, NEW f \in Flows, OidcCallback(b, f) PROVE VouchInv'
  <2> DEFINE u == flow[f].user
  <2>1. /\ flow[f].at \in {"code", "spent"} /\ state[b] # None
        /\ flow' = flow \/ flow' = [flow EXCEPT ![f].at = "spent"]
        /\ UNCHANGED <<limiterVars, browserVars>>
    BY <1>4 DEF OidcCallback, GetOIDCStateCookie
  <2>2. flow[f] \in Flow /\ flow[f].user \in Users
    BY <2>1 DEF VouchInv, FlowOK, NoFlow
  <2>3. FlowOK' /\ Onward
    <3>1. CASE flow' = [flow EXCEPT ![f].at = "spent"]
      <4> DEFINE spent == [flow[f] EXCEPT !.at = "spent"]
      <4>1. flow' = [flow EXCEPT ![f] = spent]
        BY <2>1, <3>1
      <4>2. spent \in Flow /\ spent.user \in Users /\ spent.by = flow[f].by
        BY <2>2 DEF Flow
      <4>3. flow[f].at = "spent" => spent = flow[f]
        BY <2>2 DEF Flow
      <4> HIDE DEF spent
      <4>4. FlowOK'
        BY <4>1, <4>2 DEF VouchInv, FlowOK
      <4> QED BY <4>1, <4>2, <4>3, <4>4 DEF VouchInv, FlowOK, Onward
    <3>2. CASE flow' = flow
      BY <3>2 DEF VouchInv, FlowOK, Onward
    <3> QED BY <2>1, <3>1, <3>2
  <2>4. CASE Send(b, {}, {None})
    <3>1. Own(b, None)'
      BY DEF Own
    <3>s. PICK new : new = [to |-> b, session |-> {}, state |-> {None}]
      OBVIOUS
    <3>t. /\ new \in Answer /\ new.to = b
          /\ \A x \in new.session : Fair(b, x)'
          /\ \A y \in new.state : Own(b, y)'
      BY <3>s, <3>1 DEF Answer
    <3>u. answers' = answers \cup {new}
      BY <3>s, <2>1, <2>3, <2>4 DEF Send
    <3> QED BY <1>a, <3>t, <3>u, <2>1, <2>3, <2>4, SendVouches
  <2>5. CASE f = state[b] /\ flow' = [flow EXCEPT ![f].at = "spent"] /\ Send(b, {Issue(flow[f].user)}, {None})
    <3>1. flow'[f] = [flow[f] EXCEPT !.at = "spent"]
      BY <2>1, <2>5 DEF VouchInv, FlowOK
    <3>2. flow[f].by = b
      BY <2>1, <2>5 DEF VouchInv, Own
    <3>3. PICK v \in Users : v = flow[f].user
      BY <2>2
    <3>4. flow'[f] = [by |-> b, user |-> v, at |-> "spent"]
      BY <2>2, <3>1, <3>2, <3>3 DEF Flow
    <3>5. PICK s : s = Issue(v)
      OBVIOUS
    <3>6. s \in Session /\ s.user = v
      BY <3>5, LoginsAssumption DEF Issue, Session, VouchInv
    <3>7. Fair(b, s)' /\ Own(b, None)'
      BY <3>4, <3>6 DEF Fair, Vouched, Own
    <3>s. PICK new : new = [to |-> b, session |-> {s}, state |-> {None}]
      OBVIOUS
    <3>t. /\ new \in Answer /\ new.to = b
          /\ \A x \in new.session : Fair(b, x)'
          /\ \A y \in new.state : Own(b, y)'
      BY <3>s, <3>6, <3>7 DEF Answer
    <3>u. answers' = answers \cup {new}
      BY <3>s, <2>1, <2>3, <2>5, <3>3, <3>5 DEF Send
    <3> QED BY <1>a, <3>t, <3>u, <2>1, <2>3, <2>5, <3>3, <3>5, SendVouches
  <2> QED BY <1>4, <2>4, <2>5 DEF OidcCallback, TokensMatch
<1>5. ASSUME NEW f \in Flows, SignIn(f) PROVE VouchInv'
  <2>1. PICK u \in Users : flow' = [flow EXCEPT ![f] = [@ EXCEPT !.user = u, !.at = "code"]]
    BY <1>5 DEF SignIn
  <2> DEFINE signed == [flow[f] EXCEPT !.user = u, !.at = "code"]
  <2>2. /\ flow' = [flow EXCEPT ![f] = signed] /\ flow[f].at = "authentik" /\ flow[f] \in Flow
    <3>1. flow[f].at = "authentik"
      BY <1>5 DEF SignIn
    <3>2. flow[f] \in Flow
      BY <3>1 DEF VouchInv, FlowOK, NoFlow
    <3> QED BY <2>1, <3>1, <3>2
  <2>3. signed \in Flow /\ signed.user \in Users /\ signed.by = flow[f].by
    BY <2>2 DEF Flow
  <2> HIDE DEF signed
  <2>4. FlowOK' /\ Onward
    BY <2>2, <2>3 DEF VouchInv, FlowOK, Onward
  <2> QED BY <1>5, <2>4, <1>a, SilentVouches DEF SignIn
<1>6. ASSUME NEW a \in answers, Deliver(a) PROVE VouchInv'
  <2>1. PICK b \in Browsers : b = a.to
    BY DEF VouchInv, Answer
  <2>2. /\ a.session \subseteq Session \cup {NoSession} /\ a.state \subseteq Flows \cup {None}
        /\ \A s \in a.session : Fair(b, s)
        /\ \A f \in a.state : Own(b, f)
    BY <2>1 DEF VouchInv, Answer
  <2>3. FlowOK' /\ Onward
    <3>1. flow' = [f \in Flows |-> IF f \in a.state /\ flow[f].at = "answered"
                                   THEN [flow[f] EXCEPT !.at = "authentik"] ELSE flow[f]]
      BY <1>6 DEF Deliver
    <3>2. \A f \in Flows : flow[f].at = "answered" =>
              /\ [flow[f] EXCEPT !.at = "authentik"] \in Flow
              /\ [flow[f] EXCEPT !.at = "authentik"].by = flow[f].by
              /\ [flow[f] EXCEPT !.at = "authentik"].at = "authentik"
      BY DEF VouchInv, FlowOK, Flow, NoFlow
    <3> QED BY <3>1, <3>2 DEF VouchInv, FlowOK, Onward
  <2>4. \A c \in Browsers : session'[c] = session[c] \/ (c = b /\ session'[c] \in a.session)
    BY <1>6, <2>1 DEF Deliver, VouchInv
  <2>5. \A c \in Browsers : state'[c] = state[c] \/ (c = b /\ state'[c] \in a.state)
    BY <1>6, <2>1 DEF Deliver, VouchInv
  <2>6. session' \in [Browsers -> Session \cup {NoSession}] /\ state' \in [Browsers -> Flows \cup {None}]
    BY <1>6, <2>2 DEF Deliver, VouchInv
  <2>7. ASSUME NEW c \in Browsers PROVE (Fair(c, session[c]) /\ Own(c, state[c]))'
    <3>1. PICK s, f : s = session'[c] /\ f = state'[c]
      OBVIOUS
    <3>2. Fair(c, s) /\ Own(c, f)
      BY <2>2, <2>4, <2>5, <3>1 DEF VouchInv
    <3>3. Fair(c, s)' /\ Own(c, f)'
      BY <2>3, <3>2, OnwardKeeps
    <3> QED BY <3>1, <3>3
  <2>8. \A d \in answers : (\A s \in d.session : Fair(d.to, s)') /\ (\A f \in d.state : Own(d.to, f)')
    BY <2>3, OnwardKeeps DEF VouchInv, Answer
  <2>9. answers' \subseteq answers /\ now' = now
    BY <1>6 DEF Deliver
  <2> QED BY <2>3, <2>6, <2>7, <2>8, <2>9 DEF VouchInv
<1>7. ASSUME NEW p \in Procs, BootstrapAttempt(p) PROVE VouchInv'
  <2>1. UNCHANGED <<session, state, flow, answers, now>>
    BY <1>7 DEF BootstrapAttempt, GetInstallation, Allow, RecordFail
  <2> QED BY <2>1 DEF VouchInv, FlowOK, Fair, Own, Vouched
<1>8. ASSUME NEW p \in Procs, BootstrapLogin(p) PROVE VouchInv'
  <2>1. UNCHANGED <<session, state, flow, now>>
    BY <1>8 DEF BootstrapLogin, Reset
  <2>2. FlowOK' /\ Onward
    BY <2>1 DEF VouchInv, FlowOK, Onward
  <2>3. CASE UNCHANGED answers
    BY <2>1, <2>3 DEF VouchInv, FlowOK, Fair, Own, Vouched
  <2>4. ASSUME NEW b \in Browsers, Send(b, {Issue(Bootstrap)}, {}) PROVE VouchInv'
    <3>1. PICK s : s = Issue(Bootstrap)
      OBVIOUS
    <3>2. s \in Session /\ s.user = Bootstrap
      BY <3>1, LoginsAssumption DEF Issue, Session, VouchInv
    <3>3. Fair(b, s)'
      BY <3>2 DEF Fair
    <3>s. PICK new : new = [to |-> b, session |-> {s}, state |-> {}]
      OBVIOUS
    <3>t. /\ new \in Answer /\ new.to = b
          /\ \A x \in new.session : Fair(b, x)'
          /\ \A y \in new.state : Own(b, y)'
      BY <3>s, <3>2, <3>3 DEF Answer
    <3>u. answers' = answers \cup {new}
      BY <3>s, <2>1, <2>2, <2>4, <3>1 DEF Send
    <3> QED BY <1>a, <3>t, <3>u, <2>1, <2>2, <2>4, <3>1, SendVouches
  <2> QED BY <1>8, <2>3, <2>4 DEF BootstrapLogin
<1>9. CASE Environment
  <2>1. UNCHANGED <<session, state, flow, answers>> /\ now' \in Nat
    BY <1>9 DEF Environment, Tick, Onboard, VouchInv
  <2> QED BY <2>1 DEF VouchInv, FlowOK, Fair, Own, Vouched
<1>10. CASE UNCHANGED loginVars
  BY <1>10 DEF loginVars, VouchInv, FlowOK, Fair, Own, Vouched
<1> QED
  BY <1>1, <1>2, <1>3, <1>4, <1>5, <1>6, <1>7, <1>8, <1>9, <1>10 DEF LoginNext

LEMMA LoginVouches == LoginSpec => []VouchInv
<1>1. LoginInit => VouchInv
  BY LoginsAssumption DEF LoginInit, Init, VouchInv, FlowOK, Fair, Own, NoFlow
<1> QED BY <1>1, NextVouches, PTL DEF LoginSpec

(***************************************************************************)
(* No browser ever holds a session of somebody authentik did not sign in   *)
(* for a login of that browser, however many logins, tabs and answers      *)
(* overlap (oidcLogin, oidcCallback and the cookies between them).         *)
(***************************************************************************)
THEOREM SessionsAreVouched == LoginSpec => []SessionVouched
<1>1. VouchInv => SessionVouched
  BY DEF VouchInv, Fair, Vouched, SessionVouched
<1> QED BY <1>1, LoginVouches, PTL

-----------------------------------------------------------------------------
\* The end of the bootstrap login.

\* The attempts that have passed the look at the installation and not ended.
InHand == {p \in Procs : reading[p] # {} \/ trying[p] # {}}

(***************************************************************************)
(* Why the late sessions are bounded: nobody begins after onboarding, so a *)
(* late session is paid for by an attempt in hand, which ends with it.     *)
(***************************************************************************)
LateInv ==
    /\ late \in Nat
    /\ \A p \in Procs : reading[p] = {} \/ trying[p] = {}
    /\ IF onboarded THEN late + Cardinality(InHand) =< Cardinality(Procs) ELSE late = 0

\* Sets of attempts can be counted.
LEMMA InHandCount ==
    ASSUME NEW S, S \subseteq Procs
    PROVE  /\ IsFiniteSet(S) /\ Cardinality(S) \in Nat /\ Cardinality(Procs) \in Nat
           /\ Cardinality(S) =< Cardinality(Procs)
BY LimiterAssumption, FS_Subset, FS_CardinalityType

\* Attempts that end, or stay in hand, use up none of the bound.
LEMMA FewerInHand ==
    ASSUME LateInv, LateInv!2', InHand' \subseteq InHand, UNCHANGED <<onboarded, late>>
    PROVE  LateInv'
<1> DEFINE A == Cardinality(InHand)  B == Cardinality(InHand')  N == Cardinality(Procs)
<1>1. InHand \subseteq Procs /\ InHand' \subseteq Procs
  BY DEF InHand
<1>2. IsFiniteSet(InHand) /\ A \in Nat /\ B \in Nat /\ N \in Nat
  BY <1>1, InHandCount
<1>3. B =< A
  BY <1>2, FS_Subset
<1>4. Cardinality(InHand)' = B /\ Cardinality(Procs)' = N
  OBVIOUS
<1> HIDE DEF A, B, N
<1>5. onboarded => late + A =< N
  BY DEF LateInv, A, N
<1>6. onboarded' => late' + B =< N
  BY <1>2, <1>3, <1>5 DEF LateInv
<1> QED BY <1>4, <1>6 DEF LateInv, B, N

\* A session that is late ends the attempt it is for.
LEMMA LateSessionPays ==
    ASSUME TypeOK, LateInv, NEW p \in Procs, BootstrapLogin(p)
    PROVE  LateInv'
<1>1. /\ trying[p] # {} /\ trying' = [trying EXCEPT ![p] = {}]
      /\ UNCHANGED <<onboarded, reading>>
      /\ late' = late \/ (onboarded /\ late' = late + 1)
  BY DEF BootstrapLogin, Reset
<1>2. \A q \in Procs : reading'[q] = {} \/ trying'[q] = {}
  BY <1>1 DEF TypeOK, LateInv
<1>3. p \in InHand /\ InHand' = InHand \ {p}
  BY <1>1 DEF InHand, LateInv, TypeOK
<1>4. CASE late' = late
  BY <1>1, <1>2, <1>3, <1>4, FewerInHand
<1>5. CASE onboarded /\ late' = late + 1
  <2> DEFINE A == Cardinality(InHand)  B == Cardinality(InHand')  N == Cardinality(Procs)
  <2>1. InHand \subseteq Procs
    BY DEF InHand
  <2>2. IsFiniteSet(InHand) /\ A \in Nat /\ N \in Nat
    BY <2>1, InHandCount
  <2>3. B = A - 1
    BY <1>3, <2>2, FS_RemoveElement
  <2>4. Cardinality(InHand)' = B /\ Cardinality(Procs)' = N
    OBVIOUS
  <2> HIDE DEF A, B, N
  <2>5. late + A =< N /\ late \in Nat
    BY <1>5 DEF LateInv, A, N
  <2>6. late' + B =< N /\ late' \in Nat
    BY <1>5, <2>2, <2>3, <2>5
  <2> QED BY <1>1, <1>2, <1>5, <2>4, <2>6 DEF LateInv, B, N
<1> QED BY <1>1, <1>4, <1>5

LEMMA NextLate == TypeOK /\ LateInv /\ [LoginNext]_loginVars => LateInv'
<1> SUFFICES ASSUME TypeOK, LateInv, [LoginNext]_loginVars PROVE LateInv'
  OBVIOUS
<1> USE DEF limiterVars, vars
<1>1. CASE UNCHANGED <<onboarded, reading, trying, late>>
  <2>1. InHand' = InHand /\ LateInv!2'
    BY <1>1 DEF InHand, LateInv
  <2> QED BY <1>1, <2>1, FewerInHand
<1>2. ASSUME NEW p \in Procs, GetInstallation(p), UNCHANGED late PROVE LateInv'
  \* Before onboarding, when there is nothing to bound.
  BY <1>2 DEF GetInstallation, LateInv, TypeOK
<1>3. ASSUME NEW p \in Procs, Allow(p), UNCHANGED late PROVE LateInv'
  <2>1. /\ reading[p] # {} /\ reading' = [reading EXCEPT ![p] = {}]
        /\ trying' = trying \/ \E k \in Keys : trying' = [trying EXCEPT ![p] = {k}]
        /\ UNCHANGED onboarded
    BY <1>3 DEF Allow, TypeOK
  <2>2. InHand' \subseteq InHand /\ LateInv!2'
    BY <2>1 DEF InHand, LateInv, TypeOK
  <2> QED BY <1>3, <2>1, <2>2, FewerInHand
<1>4. ASSUME NEW p \in Procs, RecordFail(p), UNCHANGED late PROVE LateInv'
  <2>1. trying' = [trying EXCEPT ![p] = {}] /\ UNCHANGED <<onboarded, reading>>
    BY <1>4 DEF RecordFail
  <2>2. InHand' \subseteq InHand /\ LateInv!2'
    BY <2>1 DEF InHand, LateInv, TypeOK
  <2> QED BY <1>4, <2>1, <2>2, FewerInHand
<1>5. CASE Onboard /\ UNCHANGED late
  <2> DEFINE A == Cardinality(InHand)  N == Cardinality(Procs)
  <2>1. InHand' = InHand /\ InHand \subseteq Procs
    BY <1>5 DEF Onboard, InHand
  <2>2. A \in Nat /\ N \in Nat /\ A =< N
    BY <2>1, InHandCount
  <2>3. Cardinality(InHand)' = A /\ Cardinality(Procs)' = N
    BY <2>1
  <2> HIDE DEF A, N
  <2>4. late = 0 /\ late' = 0 /\ ~onboarded /\ onboarded'
    BY <1>5 DEF Onboard, LateInv
  <2>5. late' + A =< N
    BY <2>2, <2>4
  <2> QED BY <1>5, <2>3, <2>4, <2>5 DEF LateInv, Onboard, N
<1> QED
  BY <1>1, <1>2, <1>3, <1>4, <1>5, LateSessionPays
     DEF LoginNext, loginVars, OidcLogin, Unauthorized, Logout, StateCookieExpires, OidcCallback,
         SignIn, Deliver, BootstrapAttempt, Environment, Tick

LEMMA LoginLate == LoginSpec => [](TypeOK /\ LateInv)
<1>1. LoginInit => TypeOK /\ LateInv
  <2>1. LoginInit => TypeOK
    BY InitBounded DEF LoginInit, IInv
  <2> QED BY <2>1 DEF LoginInit, Init, LateInv
<1>2. (TypeOK /\ LateInv) /\ [LoginNext]_loginVars => (TypeOK /\ LateInv)'
  BY NextLate, NextType, LoginStepLimits
<1> QED BY <1>1, <1>2, PTL DEF LoginSpec

(***************************************************************************)
(* Over the whole life of an installation, setupLogin issues at most as    *)
(* many bootstrap sessions after onboarding as it handles attempts at a    *)
(* time, for any number of clients and attempts.                           *)
(***************************************************************************)
THEOREM LateBootstraps == LoginSpec => []LateBootstrapsBounded
<1>1. LateInv => LateBootstrapsBounded
  <2> SUFFICES ASSUME LateInv PROVE late =< Cardinality(Procs)
    BY DEF LateBootstrapsBounded
  <2> DEFINE A == Cardinality(InHand)  N == Cardinality(Procs)
  <2>1. InHand \subseteq Procs
    BY DEF InHand
  <2>2. A \in Nat /\ N \in Nat
    BY <2>1, InHandCount
  <2>3. late \in Nat /\ IF onboarded THEN late + A =< N ELSE late = 0
    BY DEF LateInv
  <2> HIDE DEF A, N
  <2>4. late =< N
    BY <2>2, <2>3
  <2> QED BY <2>4 DEF N
<1> QED BY <1>1, LoginLate, PTL

-----------------------------------------------------------------------------
(***************************************************************************)
(* The throttle, the cookies, the flows and the answers under way have     *)
(* their types, for any number of logins that overlap.                     *)
(***************************************************************************)
THEOREM LoginsTyped == LoginSpec => []LoginTypeOK
<1>1. TypeOK /\ LateInv /\ VouchInv => LoginTypeOK
  BY DEF LateInv, VouchInv, FlowOK, LoginTypeOK
<1> QED BY <1>1, LoginLate, LoginVouches, PTL
=============================================================================
