---------------------------- MODULE LoginLimiter ----------------------------
(***************************************************************************)
(* setupLogin's throttle: the bootstrap password may be tried until the    *)
(* installation is onboarded, with at most loginMaxFails failures per      *)
(* client and window.  An attempt looks the installation up, reads its     *)
(* body, and calls allow and then recordFail or reset, each of which holds *)
(* the mutex; attempts overlap, and the installation may be onboarded in   *)
(* between.                                                                *)
(***************************************************************************)
EXTENDS Integers, FiniteSets

CONSTANTS
    Keys,          \* clients, as clientKey tells them apart
    Procs,         \* attempts the server handles at a time
    LoginMaxFails,
    Window,        \* one minute, in ticks of the clock
    MaxNow         \* the clock stops here

ASSUME LimiterAssumption ==
    /\ IsFiniteSet(Procs) /\ Procs # {}
    /\ LoginMaxFails \in Nat \ {0}
    /\ Window \in Nat /\ MaxNow \in Nat

VARIABLES
    now,
    onboarded,
    fails,     \* fails[k]: the loginFails entry; a count of 0 stands for none
    reading,   \* reading[p]: the client whose body p is reading, or {}
    trying     \* trying[p]: the client whose password p is comparing, or {}

vars == <<now, onboarded, fails, reading, trying>>

Entry == [count: Nat, windowStart: 0..MaxNow]
NoEntry == [count |-> 0, windowStart |-> 0]

TypeOK ==
    /\ now \in 0..MaxNow
    /\ onboarded \in BOOLEAN
    /\ fails \in [Keys -> Entry]
    /\ reading \in [Procs -> SUBSET Keys]
    /\ trying \in [Procs -> SUBSET Keys]

Init ==
    /\ now = 0
    /\ onboarded = FALSE
    /\ fails = [k \in Keys |-> NoEntry]
    /\ reading = [p \in Procs |-> {}]
    /\ trying = [p \in Procs |-> {}]

\* No entry, or time.Since(windowStart) > Window.
Stale(k) == fails[k].count = 0 \/ now - fails[k].windowStart > Window

\* Mutant: one failure too many.
AllowOneMore(k) == Stale(k) \/ fails[k].count =< LoginMaxFails

AllowKey(k) == Stale(k) \/ fails[k].count < LoginMaxFails

\* Mutant: onboarding is left to the page that shows the form.
GetInstallationAnytime(p) ==
    /\ reading[p] = {} /\ trying[p] = {}
    /\ \E k \in Keys : reading' = [reading EXCEPT ![p] = {k}]
    /\ UNCHANGED <<now, onboarded, fails, trying>>

\* setupLogin looks the installation up once; after onboarding, or without a
\* bootstrap password, it refuses, which leaves no trace.
GetInstallation(p) ==
    /\ ~onboarded
    /\ reading[p] = {} /\ trying[p] = {}
    /\ \E k \in Keys : reading' = [reading EXCEPT ![p] = {k}]
    /\ UNCHANGED <<now, onboarded, fails, trying>>

\* The body has been read, and does not decode, is one too many, or is compared.
Allow(p) ==
    \E k \in reading[p] :
        /\ reading' = [reading EXCEPT ![p] = {}]
        /\ \/ UNCHANGED trying
           \/ AllowKey(k) /\ trying' = [trying EXCEPT ![p] = {k}]
        /\ UNCHANGED <<now, onboarded, fails>>

\* The password was wrong.
RecordFail(p) ==
    \E k \in trying[p] :
        /\ fails' = [fails EXCEPT ![k] =
              IF Stale(k) THEN [count |-> 1, windowStart |-> now]
              ELSE [count |-> @.count + 1, windowStart |-> @.windowStart]]
        /\ trying' = [trying EXCEPT ![p] = {}]
        /\ UNCHANGED <<now, onboarded, reading>>

\* The password was right: the entry goes and a session is issued.
Reset(p) ==
    \E k \in trying[p] :
        /\ fails' = [fails EXCEPT ![k] = NoEntry]
        /\ trying' = [trying EXCEPT ![p] = {}]
        /\ UNCHANGED <<now, onboarded, reading>>

Tick ==
    /\ now < MaxNow
    /\ now' = now + 1
    /\ UNCHANGED <<onboarded, fails, reading, trying>>

\* SetInstallationOnboarded of the Setup module.
Onboard ==
    /\ ~onboarded
    /\ onboarded' = TRUE
    /\ UNCHANGED <<now, fails, reading, trying>>

Idle ==
    /\ onboarded /\ now = MaxNow
    /\ \A p \in Procs : reading[p] = {} /\ trying[p] = {}
    /\ UNCHANGED vars

Next ==
    \/ \E p \in Procs : GetInstallation(p) \/ Allow(p) \/ RecordFail(p) \/ Reset(p)
    \/ Tick \/ Onboard \/ Idle

Spec == Init /\ [][Next]_vars

-----------------------------------------------------------------------------
(***************************************************************************)
(* The check and the count are two critical sections, so the throttle is   *)
(* not exact.  It still bounds the failures of a window: the limit is      *)
(* overshot by at most the attempts in flight when it was reached, however *)
(* attempts, windows and successes interleave.                             *)
(***************************************************************************)
FailsBounded == \A k \in Keys : fails[k].count =< LoginMaxFails - 1 + Cardinality(Procs)
=============================================================================
