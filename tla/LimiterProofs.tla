--------------------------- MODULE LimiterProofs ----------------------------
(***************************************************************************)
(* The bound on failed bootstrap logins, for any number of clients,        *)
(* attempts and failures.  The count alone is not inductive: the attempts  *)
(* already admitted must be counted with it while the window is live.      *)
(***************************************************************************)
EXTENDS LoginLimiter, FiniteSetTheorems, TLAPS

Limit == LoginMaxFails - 1 + Cardinality(Procs)

\* The attempts admitted for client k that have not been settled yet.
InFlight(k) == {p \in Procs : k \in trying[p]}

Bounded(k) ==
    /\ fails[k].count =< Limit
    /\ Stale(k) \/ fails[k].count + Cardinality(InFlight(k)) =< Limit

IInv == TypeOK /\ \A k \in Keys : Bounded(k)

-----------------------------------------------------------------------------
\* Counting: what the admitted attempts of a client can number.
LEMMA InFlightCount ==
    ASSUME NEW k \in Keys
    PROVE  /\ IsFiniteSet(InFlight(k))
           /\ Cardinality(InFlight(k)) \in Nat
           /\ Cardinality(Procs) \in Nat
           /\ Cardinality(InFlight(k)) =< Cardinality(Procs)
<1>1. IsFiniteSet(Procs)
  BY LimiterAssumption
<1>2. InFlight(k) \subseteq Procs
  BY DEF InFlight
<1> QED
  BY <1>1, <1>2, FS_Subset, FS_CardinalityType

\* With somebody to attempt a login, the limit is a number no smaller than 1.
LEMMA LimitPositive == Limit \in Nat /\ 1 =< Limit
<1>1. IsFiniteSet(Procs) /\ Procs # {} /\ LoginMaxFails \in Nat \ {0}
  BY LimiterAssumption
<1>2. Cardinality(Procs) \in Nat /\ Cardinality(Procs) # 0
  BY <1>1, FS_CardinalityType, FS_EmptySet
<1> QED
  BY <1>1, <1>2 DEF Limit

\* A settled attempt of client k leaves one attempt fewer in flight for it.
LEMMA Settles ==
    ASSUME TypeOK, NEW p \in Procs, NEW k \in trying[p], k \in Keys,
           trying' = [trying EXCEPT ![p] = {}]
    PROVE  /\ Cardinality(InFlight(k)') = Cardinality(InFlight(k)) - 1
           /\ Cardinality(InFlight(k)) \in Nat
<1>1. InFlight(k)' = InFlight(k) \ {p}
  BY DEF InFlight, TypeOK
<1>2. p \in InFlight(k)
  BY DEF InFlight
<1> QED
  BY <1>1, <1>2, InFlightCount, FS_RemoveElement

\* Nothing settled by p adds an attempt for another client.
LEMMA SettlesOthers ==
    ASSUME TypeOK, NEW p \in Procs, NEW k \in Keys,
           trying' = [trying EXCEPT ![p] = {}]
    PROVE  Cardinality(InFlight(k)') =< Cardinality(InFlight(k))
<1>1. InFlight(k)' \subseteq InFlight(k)
  BY DEF InFlight, TypeOK
<1> QED
  BY <1>1, InFlightCount, FS_Subset

-----------------------------------------------------------------------------
\* Every step keeps the variables in their types.
LEMMA NextType == TypeOK /\ [Next]_vars => TypeOK'
<1> SUFFICES ASSUME TypeOK, [Next]_vars PROVE TypeOK'
  OBVIOUS
<1> USE DEF TypeOK, Entry
<1>7. ASSUME NEW p \in Procs, GetInstallation(p) PROVE TypeOK'
  BY <1>7 DEF GetInstallation
<1>1. ASSUME NEW p \in Procs, Allow(p) PROVE TypeOK'
  BY <1>1 DEF Allow
<1>2. ASSUME NEW p \in Procs, RecordFail(p) PROVE TypeOK'
  BY <1>2, LimiterAssumption DEF RecordFail
<1>3. ASSUME NEW p \in Procs, Reset(p) PROVE TypeOK'
  <2>1. NoEntry \in Entry
    BY LimiterAssumption DEF NoEntry
  <2> QED
    BY <1>3, <2>1 DEF Reset
<1>4. CASE Tick
  BY <1>4, LimiterAssumption DEF Tick
<1>5. CASE Onboard
  BY <1>5 DEF Onboard
<1>6. CASE Idle \/ UNCHANGED vars
  BY <1>6 DEF Idle, vars
<1> QED
  BY <1>1, <1>2, <1>3, <1>4, <1>5, <1>6, <1>7 DEF Next

\* Every step keeps the strengthened bound.
LEMMA NextBounded == IInv /\ [Next]_vars => IInv'
<1> SUFFICES ASSUME IInv, [Next]_vars PROVE IInv'
  OBVIOUS
<1>0. TypeOK /\ TypeOK'
  BY NextType DEF IInv
<1>n. /\ Limit \in Nat /\ 1 =< Limit /\ now \in Int /\ Window \in Int
      /\ \A k \in Keys : fails[k].count \in Nat /\ fails[k].windowStart \in Int
  BY <1>0, LimitPositive, LimiterAssumption DEF TypeOK, Entry
<1> SUFFICES ASSUME NEW k \in Keys PROVE Bounded(k)'
  BY <1>0 DEF IInv
<1>b. Bounded(k)
  BY DEF IInv
<1>c. Cardinality(InFlight(k)) \in Nat
  BY InFlightCount
<1>1. ASSUME NEW p \in Procs, Allow(p) PROVE Bounded(k)'
  <2>1. PICK j \in Keys : UNCHANGED trying \/ (AllowKey(j) /\ trying' = [trying EXCEPT ![p] = {j}])
    BY <1>0, <1>1 DEF Allow, TypeOK
  <2>2. fails' = fails /\ now' = now
    BY <1>1 DEF Allow
  <2>3. Stale(k)' <=> Stale(k)
    BY <2>2 DEF Stale
  <2>6. CASE UNCHANGED trying
    <3>1. InFlight(k)' = InFlight(k)
      BY <2>6 DEF InFlight
    <3> QED
      BY <1>b, <2>2, <2>3, <3>1 DEF Bounded, Limit
  <2>4. CASE j = k /\ ~UNCHANGED trying
    <3>1. InFlight(k)' \subseteq Procs
      BY DEF InFlight
    <3>2. Cardinality(InFlight(k)') \in Nat /\ Cardinality(InFlight(k)') =< Cardinality(Procs)
      BY <3>1, LimiterAssumption, FS_Subset, FS_CardinalityType
    <3>3. Cardinality(Procs) \in Nat /\ LoginMaxFails \in Nat
      BY InFlightCount, LimiterAssumption
    <3>4. Stale(k) \/ fails[k].count < LoginMaxFails
      BY <2>1, <2>4 DEF AllowKey
    <3>5. fails[k].count < LoginMaxFails =>
             fails[k].count + Cardinality(InFlight(k)') =< Limit
      BY <3>2, <3>3, <1>n DEF Limit
    <3> QED
      BY <1>b, <2>2, <2>3, <3>4, <3>5 DEF Bounded, Limit
  <2>5. CASE j # k /\ ~UNCHANGED trying
    <3>1. InFlight(k)' \subseteq InFlight(k)
      BY <2>1, <2>5, <1>0 DEF InFlight, TypeOK
    <3>2. Cardinality(InFlight(k)') \in Nat
          /\ Cardinality(InFlight(k)') =< Cardinality(InFlight(k))
      BY <3>1, InFlightCount, FS_Subset, FS_CardinalityType
    <3> QED
      BY <1>b, <1>c, <1>n, <2>2, <2>3, <3>2 DEF Bounded, Limit
  <2> QED
    BY <2>4, <2>5, <2>6
<1>2. ASSUME NEW p \in Procs, RecordFail(p) PROVE Bounded(k)'
  <2>1. PICK j \in trying[p] :
          /\ fails' = [fails EXCEPT ![j] =
               IF Stale(j) THEN [count |-> 1, windowStart |-> now]
               ELSE [count |-> fails[j].count + 1, windowStart |-> fails[j].windowStart]]
          /\ trying' = [trying EXCEPT ![p] = {}]
          /\ now' = now
    BY <1>2 DEF RecordFail
  <2>2. j \in Keys
    BY <1>0 DEF TypeOK
  <2>3. CASE j = k
    <3>1. /\ Cardinality(InFlight(k)') = Cardinality(InFlight(k)) - 1
          /\ Cardinality(InFlight(k)) =< Cardinality(Procs)
      BY <2>1, <2>3, <1>0, Settles, InFlightCount
    <3>2. CASE Stale(k)
      <4>1. fails'[k].count = 1
        BY <2>1, <2>2, <2>3, <3>2, <1>0 DEF TypeOK
      <4>2. 1 + Cardinality(InFlight(k)') =< Limit
        BY <3>1, <1>c, LimiterAssumption, InFlightCount DEF Limit
      <4> QED
        BY <4>1, <4>2, <1>n DEF Bounded, Limit
    <3>3. CASE ~Stale(k)
      <4>1. fails'[k].count = fails[k].count + 1
        BY <2>1, <2>2, <2>3, <3>3, <1>0 DEF TypeOK
      <4>2. fails[k].count + Cardinality(InFlight(k)) =< Limit
        BY <1>b, <3>3 DEF Bounded
      <4>3. fails'[k].count + Cardinality(InFlight(k)') =< Limit
        BY <4>1, <4>2, <3>1, <1>c, <1>n
      <4>4. 1 =< Cardinality(InFlight(k))
        <5>1. p \in InFlight(k)
          BY <2>3 DEF InFlight
        <5> QED
          BY <5>1, <1>c, InFlightCount, FS_EmptySet
      <4>5. fails'[k].count =< Limit
        BY <4>1, <4>2, <4>4, <1>c, <1>n
      <4> QED
        BY <4>3, <4>5 DEF Bounded, Limit
    <3> QED
      BY <3>2, <3>3
  <2>4. CASE j # k
    <3>1. fails'[k] = fails[k]
      BY <2>1, <2>4, <1>0 DEF TypeOK
    <3>2. Stale(k)' <=> Stale(k)
      BY <2>1, <3>1 DEF Stale
    <3>3. Cardinality(InFlight(k)') =< Cardinality(InFlight(k))
      BY <2>1, <1>0, SettlesOthers
    <3>4. Cardinality(InFlight(k)') \in Nat
      <4>1. InFlight(k)' \subseteq Procs
        BY DEF InFlight
      <4> QED
        BY <4>1, LimiterAssumption, FS_Subset, FS_CardinalityType
    <3> QED
      BY <1>b, <1>c, <1>n, <3>1, <3>2, <3>3, <3>4 DEF Bounded, Limit
  <2> QED
    BY <2>3, <2>4
<1>3. ASSUME NEW p \in Procs, Reset(p) PROVE Bounded(k)'
  <2>1. PICK j \in trying[p] :
          /\ fails' = [fails EXCEPT ![j] = NoEntry]
          /\ trying' = [trying EXCEPT ![p] = {}]
          /\ now' = now
    BY <1>3 DEF Reset
  <2>2. CASE j = k
    <3>1. fails'[k].count = 0
      BY <2>1, <2>2, <1>0 DEF TypeOK, NoEntry
    <3> QED
      BY <3>1, <1>n DEF Bounded, Stale, Limit
  <2>3. CASE j # k
    <3>1. fails'[k] = fails[k]
      BY <2>1, <2>3, <1>0 DEF TypeOK
    <3>2. Stale(k)' <=> Stale(k)
      BY <2>1, <3>1 DEF Stale
    <3>3. Cardinality(InFlight(k)') =< Cardinality(InFlight(k))
      BY <2>1, <1>0, SettlesOthers
    <3>4. Cardinality(InFlight(k)') \in Nat
      <4>1. InFlight(k)' \subseteq Procs
        BY DEF InFlight
      <4> QED
        BY <4>1, LimiterAssumption, FS_Subset, FS_CardinalityType
    <3> QED
      BY <1>b, <1>c, <1>n, <3>1, <3>2, <3>3, <3>4 DEF Bounded, Limit
  <2> QED
    BY <2>2, <2>3
<1>4. CASE Tick
  <2>1. now' = now + 1 /\ fails' = fails /\ trying' = trying
    BY <1>4 DEF Tick
  <2>2. InFlight(k)' = InFlight(k)
    BY <2>1 DEF InFlight
  <2>3. Stale(k) => Stale(k)'
    BY <2>1, <1>n DEF Stale
  <2> QED
    BY <1>b, <2>1, <2>2, <2>3 DEF Bounded, Limit
<1>5. CASE (\E p \in Procs : GetInstallation(p)) \/ Onboard \/ Idle \/ UNCHANGED vars
  <2>1. now' = now /\ fails' = fails /\ trying' = trying
    BY <1>5 DEF GetInstallation, Onboard, Idle, vars
  <2>2. InFlight(k)' = InFlight(k) /\ (Stale(k)' <=> Stale(k))
    BY <2>1 DEF InFlight, Stale
  <2> QED
    BY <1>b, <2>1, <2>2 DEF Bounded, Limit
<1> QED
  BY <1>1, <1>2, <1>3, <1>4, <1>5 DEF Next

\* Nothing has failed at the start.
LEMMA InitBounded == Init => IInv
<1> SUFFICES ASSUME Init PROVE IInv
  OBVIOUS
<1>1. TypeOK
  <2>1. 0 \in 0..MaxNow
    BY LimiterAssumption
  <2>2. NoEntry \in Entry
    BY <2>1 DEF NoEntry, Entry
  <2>3. now \in 0..MaxNow /\ onboarded \in BOOLEAN
    BY <2>1 DEF Init
  <2>4. /\ fails \in [Keys -> Entry]
        /\ reading \in [Procs -> SUBSET Keys] /\ trying \in [Procs -> SUBSET Keys]
    BY <2>2 DEF Init
  <2> QED
    BY <2>3, <2>4 DEF TypeOK
<1>2. ASSUME NEW k \in Keys PROVE Bounded(k)
  <2>1. fails[k].count = 0
    BY DEF Init, NoEntry
  <2> QED
    BY <2>1, LimitPositive DEF Bounded, Stale
<1> QED
  BY <1>1, <1>2 DEF IInv

\* Failed bootstrap logins of a client in one window never exceed the limit by
\* more than the attempts that overlap (loginLimiter.allow and recordFail).
THEOREM FailuresBounded == Spec => []FailsBounded
<1>1. IInv => FailsBounded
  BY DEF IInv, Bounded, Limit, FailsBounded
<1> QED
  BY <1>1, InitBounded, NextBounded, PTL DEF Spec
=============================================================================
