---------------------------- MODULE InviteLinks -----------------------------
(***************************************************************************)
(* What invite-first-login promises of its links, without the requests,    *)
(* the clock and the tables: a link is issued once, one claim at most      *)
(* takes it, and a link that is no longer live (taken, superseded,         *)
(* expired, or gone with its organization) never comes back.               *)
(***************************************************************************)
CONSTANTS Links, Claims

VARIABLES
    state,   \* state[l]: where link l is in its life
    taker    \* taker[l]: the claims that took l

vars == <<state, taker>>

Init ==
    /\ state = [l \in Links |-> "none"]
    /\ taker = [l \in Links |-> {}]

Issue(l) ==
    /\ state[l] = "none"
    /\ state' = [state EXCEPT ![l] = "live"]
    /\ UNCHANGED taker

Take(l, c) ==
    /\ state[l] = "live"
    /\ state' = [state EXCEPT ![l] = "taken"]
    /\ taker' = [taker EXCEPT ![l] = {c}]

\* Several links may die at once: those of a deleted organization, those a new
\* invite supersedes, those whose time is over.
Die ==
    /\ \A l \in Links : state'[l] # state[l] => state[l] = "live" /\ state'[l] = "dead"
    /\ state' = [l \in Links |-> state'[l]]
    /\ UNCHANGED taker

Next == Die \/ \E l \in Links : Issue(l) \/ \E c \in Claims : Take(l, c)

Spec == Init /\ [][Next]_vars
=============================================================================
