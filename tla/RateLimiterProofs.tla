------------------------- MODULE RateLimiterProofs -------------------------
(***************************************************************************)
(* What the fixed-window counter guarantees, for any pairs, limits and     *)
(* interleaving of checks, restarts and settings of the clock.             *)
(***************************************************************************)
EXTENDS RateLimiter, TLAPS

USE PairAssumption, LimitAssumption, TimeAssumption

LEMMA LimitType == \A p \in Pair : LimitOf(p) \in Nat
BY DEF LimitOf, RateLimitConfig

-----------------------------------------------------------------------------
(* What a check does *)

\* The counter a check decides on is well typed, and starts at zero if it was
\* restarted.
LEMMA CurrentType ==
  ASSUME TypeOK, NEW k
  PROVE  /\ Current(k) \in CounterType
         /\ Restarted(k)  => Current(k) = [count |-> 0, last_reset |-> now]
         /\ ~Restarted(k) => k \in DOMAIN counters /\ Current(k) = counters[k]
BY DEF Current, Restarted, TypeOK, CounterType

\* A check by its effect on the counter and on the history of each pair, where
\* n is 1 if the check admits and 0 if it refuses.
CheckEffect(p, n) ==
  /\ counters' \in [DOMAIN counters \cup {Key(p)} -> CounterType]
  /\ opened' \in [DOMAIN counters \cup {Key(p)} -> Nat]
  /\ counters'[Key(p)] = [count |-> Current(Key(p)).count + n,
                          last_reset |-> Current(Key(p)).last_reset]
  /\ Restarted(Key(p))  => opened'[Key(p)] = real
  /\ ~Restarted(Key(p)) => opened'[Key(p)] = opened[Key(p)]
  /\ \A k \in DOMAIN counters \ {Key(p)} :
       counters'[k] = counters[k] /\ opened'[k] = opened[k]
  /\ fresh' \in [Pair -> Nat]
  /\ \A q \in Pair :
       /\ Key(q) = Key(p) /\ Restarted(Key(p)) =>
            fresh'[q] = IF q = p THEN n ELSE 0
       /\ ~(Key(q) = Key(p) /\ Restarted(Key(p))) =>
            fresh'[q] = IF q = p THEN fresh[q] + n ELSE fresh[q]
  /\ \A q \in Pair \ {p} : log'[q] = log[q]
  /\ n = 0 => log'[p] = log[p]
  /\ n = 1 => /\ Len(log'[p]) = Len(log[p]) + 1
              /\ \A m \in 1..Len(log[p]) : log'[p][m] = log[p][m]
              /\ log'[p][Len(log[p]) + 1] = real
  /\ log' \in [Pair -> Seq(Nat)]
  /\ UNCHANGED <<now, real>>

LEMMA ObserveEffect ==
  ASSUME TypeOK, NEW p \in Pair, NEW n \in {0, 1}, Observe(p, n),
         counters' = Put(counters, Key(p),
                         [count |-> Current(Key(p)).count + n,
                          last_reset |-> Current(Key(p)).last_reset]),
         UNCHANGED <<now, real>>
  PROVE  CheckEffect(p, n)
<1>1. /\ counters' \in [DOMAIN counters \cup {Key(p)} -> CounterType]
      /\ counters'[Key(p)] = [count |-> Current(Key(p)).count + n,
                              last_reset |-> Current(Key(p)).last_reset]
      /\ \A k \in DOMAIN counters \ {Key(p)} : counters'[k] = counters[k]
  <2> DEFINE c == [count |-> Current(Key(p)).count + n,
                   last_reset |-> Current(Key(p)).last_reset]
  <2>1. c \in CounterType
    BY CurrentType DEF CounterType
  <2> HIDE DEF c
  <2> QED
    BY <2>1 DEF Put, TypeOK, c
<1>2. /\ opened' \in [DOMAIN counters \cup {Key(p)} -> Nat]
      /\ Restarted(Key(p))  => opened'[Key(p)] = real
      /\ ~Restarted(Key(p)) => opened'[Key(p)] = opened[Key(p)]
      /\ \A k \in DOMAIN counters \ {Key(p)} : opened'[k] = opened[k]
  BY CurrentType DEF Observe, Put, TypeOK
<1>3. /\ fresh' \in [Pair -> Nat]
      /\ \A q \in Pair :
           /\ Key(q) = Key(p) /\ Restarted(Key(p)) =>
                fresh'[q] = IF q = p THEN n ELSE 0
           /\ ~(Key(q) = Key(p) /\ Restarted(Key(p))) =>
                fresh'[q] = IF q = p THEN fresh[q] + n ELSE fresh[q]
  <2> DEFINE shared(q) == Key(q) = Key(p) /\ Restarted(Key(p))
             f(q) == (IF shared(q) THEN 0 ELSE fresh[q]) + (IF q = p THEN n ELSE 0)
  <2>1. fresh' = [q \in Pair |-> f(q)]
    BY DEF Observe
  <2>2. \A q \in Pair : fresh[q] \in Nat
    BY DEF TypeOK
  <2>3. \A q \in Pair : f(q) = IF shared(q) THEN (IF q = p THEN n ELSE 0)
                                ELSE (IF q = p THEN fresh[q] + n ELSE fresh[q])
    <3> HIDE DEF shared
    <3> QED
      BY <2>2
  <2>4. \A q \in Pair : f(q) \in Nat
    <3> HIDE DEF shared
    <3> QED
      BY <2>2
  <2> HIDE DEF f
  <2> QED
    BY <2>1, <2>3, <2>4
<1>4. /\ log' \in [Pair -> Seq(Nat)]
      /\ \A q \in Pair \ {p} : log'[q] = log[q]
      /\ n = 0 => log'[p] = log[p]
  <2>1. log \in [Pair -> Seq(Nat)] /\ real \in Nat
    BY DEF TypeOK
  <2>2. Append(log[p], real) \in Seq(Nat)
    BY <2>1
  <2>3. log' = log \/ log' = [log EXCEPT ![p] = Append(log[p], real)]
    BY DEF Observe
  <2>4. n = 0 => log' = log
    BY DEF Observe
  <2> QED
    BY <2>1, <2>2, <2>3, <2>4
<1>5. n = 1 => /\ Len(log'[p]) = Len(log[p]) + 1
               /\ \A m \in 1..Len(log[p]) : log'[p][m] = log[p][m]
               /\ log'[p][Len(log[p]) + 1] = real
  <2> SUFFICES ASSUME n = 1
               PROVE  /\ Len(log'[p]) = Len(log[p]) + 1
                      /\ \A m \in 1..Len(log[p]) : log'[p][m] = log[p][m]
                      /\ log'[p][Len(log[p]) + 1] = real
    OBVIOUS
  <2>1. log[p] \in Seq(Nat) /\ real \in Nat /\ log'[p] = Append(log[p], real)
    BY DEF Observe, TypeOK
  <2> QED
    BY <2>1
<1> QED
  BY <1>1, <1>2, <1>3, <1>4, <1>5 DEF CheckEffect

LEMMA AllowEffect ==
  ASSUME TypeOK, NEW p \in Pair, Allow(p)
  PROVE  CheckEffect(p, 1) /\ Current(Key(p)).count < LimitOf(p)
<1>1. Current(Key(p)) \in CounterType
  BY CurrentType
<1>2. [Current(Key(p)) EXCEPT !.count = @ + 1] =
        [count |-> Current(Key(p)).count + 1, last_reset |-> Current(Key(p)).last_reset]
  BY <1>1 DEF CounterType
<1>3. CheckEffect(p, 1)
  BY <1>2, ObserveEffect DEF Allow
<1> QED
  BY <1>1, <1>3, LimitType DEF Allow, Exhausted, CounterType

LEMMA RefuseEffect ==
  ASSUME TypeOK, NEW p \in Pair, Refuse(p) PROVE CheckEffect(p, 0)
<1>1. Current(Key(p)) \in CounterType
  BY CurrentType
<1>2. Current(Key(p)) =
        [count |-> Current(Key(p)).count + 0, last_reset |-> Current(Key(p)).last_reset]
  BY <1>1 DEF CounterType
<1> QED
  BY <1>2, ObserveEffect DEF Refuse

\* Every step is a check, a tick, a setting of the clock, a restart or a stutter.
LEMMA Steps ==
  ASSUME TypeOK, [Next]_vars
  PROVE  \/ \E p \in Pair : CheckEffect(p, 1) /\ Current(Key(p)).count < LimitOf(p)
                              /\ UNCHANGED <<jumps, restarts>>
         \/ \E p \in Pair : CheckEffect(p, 0) /\ UNCHANGED <<jumps, restarts>>
         \/ Tick \/ Jump \/ Restart \/ UNCHANGED vars
BY AllowEffect, RefuseEffect DEF Next, Allow, Refuse

-----------------------------------------------------------------------------
(* Types and the budget of a window *)

LEMMA CheckBudget ==
  ASSUME BudgetInv, NEW p \in Pair, NEW n \in {0, 1}, CheckEffect(p, n),
         n = 1 => Current(Key(p)).count < LimitOf(p), UNCHANGED <<jumps, restarts>>
  PROVE  BudgetInv'
<1> USE DEF BudgetInv
<1>1. TypeOK'
  BY DEF CheckEffect, TypeOK
<1>2. Current(Key(p)).count \in Nat
  BY CurrentType DEF CounterType
<1>3. ASSUME NEW q \in Pair
      PROVE  /\ Key(q) \in DOMAIN counters' => fresh'[q] <= counters'[Key(q)].count
             /\ Key(q) \notin DOMAIN counters' => fresh'[q] = 0 /\ log'[q] = <<>>
             /\ fresh'[q] <= LimitOf(q) /\ fresh'[q] <= Len(log'[q])
  <2>1. /\ LimitOf(q) \in Nat /\ fresh[q] \in Nat /\ Len(log[q]) \in Nat
        /\ fresh[q] <= LimitOf(q) /\ fresh[q] <= Len(log[q])
    BY LimitType DEF TypeOK, FreshOK
  <2>2. CASE Key(q) # Key(p)
    <3>1. fresh'[q] = fresh[q] /\ log'[q] = log[q]
      BY <2>2 DEF CheckEffect
    <3>2. Key(q) \in DOMAIN counters' => counters'[Key(q)] = counters[Key(q)]
                                           /\ Key(q) \in DOMAIN counters
      BY <2>2 DEF CheckEffect
    <3>3. Key(q) \notin DOMAIN counters' => Key(q) \notin DOMAIN counters
      BY DEF CheckEffect
    <3> QED
      BY <2>1, <3>1, <3>2, <3>3 DEF FreshOK
  <2>3. CASE Key(q) = Key(p)
    <3>1. /\ counters'[Key(p)].count = Current(Key(p)).count + n
          /\ Key(q) \in DOMAIN counters'
      BY <2>3 DEF CheckEffect
    <3>2. fresh'[q] <= Current(Key(p)).count + (IF q = p THEN n ELSE 0)
      <4>1. CASE Restarted(Key(p))
        <5>1. fresh'[q] = IF q = p THEN n ELSE 0
          BY <4>1, <2>3 DEF CheckEffect
        <5> QED
          BY <5>1, <1>2
      <4>2. CASE ~Restarted(Key(p))
        <5>1. fresh'[q] = IF q = p THEN fresh[q] + n ELSE fresh[q]
          BY <4>2 DEF CheckEffect
        <5>2. fresh[q] <= Current(Key(p)).count
          BY <4>2, <2>3, CurrentType DEF FreshOK
        <5> QED
          BY <5>1, <5>2, <2>1, <1>2
      <4> QED
        BY <4>1, <4>2
    <3>3. /\ q = p => fresh'[q] <= fresh[q] + n
          /\ q # p => fresh'[q] <= fresh[q]
      <4>1. \/ fresh'[q] = IF q = p THEN n ELSE 0
            \/ fresh'[q] = IF q = p THEN fresh[q] + n ELSE fresh[q]
        BY DEF CheckEffect
      <4> QED
        BY <4>1, <2>1
    <3>4. /\ q = p => Len(log'[q]) = Len(log[q]) + n
          /\ q # p => Len(log'[q]) = Len(log[q])
      <4>1. /\ q # p => log'[q] = log[q]
            /\ q = p /\ n = 0 => log'[q] = log[q]
            /\ q = p /\ n = 1 => Len(log'[q]) = Len(log[q]) + 1
        BY DEF CheckEffect
      <4> QED
        BY <4>1, <2>1
    <3>5. q = p /\ n = 1 => Current(Key(p)).count < LimitOf(q)
      OBVIOUS
    <3>6. fresh'[q] \in Nat
      BY DEF CheckEffect
    <3>7. fresh'[q] <= LimitOf(q) /\ fresh'[q] <= Len(log'[q])
      <4>1. CASE q = p
        BY <4>1, <3>2, <3>3, <3>4, <3>5, <3>6, <2>1, <1>2
      <4>2. CASE q # p
        BY <4>2, <3>3, <3>4, <3>6, <2>1
      <4> QED
        BY <4>1, <4>2
    <3>8. fresh'[q] <= counters'[Key(q)].count
      BY <3>1, <3>2, <3>6, <2>3, <1>2
    <3> QED
      BY <3>1, <3>7, <3>8
  <2> QED
    BY <2>2, <2>3
<1> QED
  BY <1>1, <1>3 DEF FreshOK

LEMMA BudgetStep == BudgetInv /\ [Next]_vars => BudgetInv'
<1> SUFFICES ASSUME BudgetInv, [Next]_vars PROVE BudgetInv'
  OBVIOUS
<1>1. TypeOK
  BY DEF BudgetInv
<1>2. CASE Tick
  BY <1>2 DEF Tick, BudgetInv, TypeOK, FreshOK
<1>3. CASE Jump
  BY <1>3 DEF Jump, BudgetInv, TypeOK, FreshOK
<1>4. CASE Restart
  BY <1>4, LimitType DEF Restart, Survivors, BudgetInv, TypeOK, FreshOK
<1>5. CASE UNCHANGED vars
  BY <1>5 DEF vars, BudgetInv, TypeOK, FreshOK
<1> QED
  BY <1>1, <1>2, <1>3, <1>4, <1>5, Steps, CheckBudget

LEMMA BudgetInvariant == Spec => []BudgetInv
<1>1. Init => BudgetInv
  BY LimitType DEF Init, BudgetInv, TypeOK, FreshOK
<1> QED
  BY <1>1, BudgetStep, PTL DEF Spec

\* Type correctness of the counters and of their history.
THEOREM TypeCorrect == Spec => []TypeOK
<1>1. BudgetInv => TypeOK
  BY DEF BudgetInv
<1> QED
  BY <1>1, BudgetInvariant, PTL

LEMMA CheckCounts ==
  ASSUME TypeOK, OwnCount, NEW p \in Pair, NEW n \in {0, 1}, CheckEffect(p, n)
  PROVE  OwnCount'
<1> SUFFICES ASSUME NEW q \in Pair, Apart(q), Key(q) \in DOMAIN counters'
             PROVE  fresh'[q] = counters'[Key(q)].count
  BY DEF OwnCount
<1>1. CASE q # p
  <2>1. Key(q) # Key(p)
    BY <1>1 DEF Apart, Key
  <2>2. /\ Key(q) \in DOMAIN counters /\ fresh'[q] = fresh[q]
        /\ counters'[Key(q)] = counters[Key(q)]
    BY <1>1, <2>1 DEF CheckEffect
  <2> QED
    BY <2>2 DEF OwnCount
<1>2. CASE q = p
  <2>1. counters'[Key(q)].count = Current(Key(q)).count + n
    BY <1>2 DEF CheckEffect
  <2>2. CASE Restarted(Key(q))
    <3>1. Current(Key(q)).count = 0 /\ fresh'[q] = n
      BY <2>2, <1>2, CurrentType DEF CheckEffect
    <3> QED
      BY <2>1, <3>1
  <2>3. CASE ~Restarted(Key(q))
    <3>1. Key(q) \in DOMAIN counters /\ Current(Key(q)) = counters[Key(q)]
      BY <2>3, CurrentType
    <3>2. fresh'[q] = fresh[q] + n
      BY <2>3, <1>2 DEF CheckEffect
    <3> QED
      BY <2>1, <3>1, <3>2 DEF OwnCount
  <2> QED
    BY <2>2, <2>3
<1> QED
  BY <1>1, <1>2

LEMMA CountStep == ASSUME TypeOK, OwnCount, [Next]_vars PROVE OwnCount'
<1>1. CASE Tick \/ Jump \/ UNCHANGED vars
  BY <1>1 DEF Tick, Jump, vars, OwnCount
<1>2. CASE Restart
  BY <1>2 DEF Restart, Survivors, OwnCount
<1> QED
  BY <1>1, <1>2, Steps, CheckCounts

LEMMA CountInvariant == Spec => []OwnCount
<1>1. Init => OwnCount
  BY DEF Init, OwnCount
<1> QED
  BY <1>1, CountStep, TypeCorrect, PTL DEF Spec

\* A refused pair whose counter is its own has been admitted its whole limit.
LEMMA RefusedHadAll ==
  ASSUME TypeOK, OwnCount, NEW p \in Pair, Apart(p), Exhausted(p), LimitOf(p) > 0
  PROVE  /\ ~Restarted(Key(p)) /\ Key(p) \in DOMAIN counters
         /\ fresh[p] >= LimitOf(p)
<1>1. Current(Key(p)).count >= LimitOf(p) /\ LimitOf(p) \in Nat
  BY LimitType DEF Exhausted
<1>2. ~Restarted(Key(p))
  BY <1>1, CurrentType
<1>3. Key(p) \in DOMAIN counters /\ Current(Key(p)) = counters[Key(p)]
  BY <1>2, CurrentType
<1> QED
  BY <1>1, <1>2, <1>3 DEF OwnCount

\* Whatever shares its key and however the clock is set, a pair is admitted at
\* most its own limit between two restarts of its counter, and the whole of it
\* before it is refused, if no other pair is spelt the same (service.rs:255-270).
THEOREM WindowBudgetHolds == Spec => []WindowBudget
<1>1. BudgetInv /\ OwnCount => WindowBudget
  <2> SUFFICES ASSUME BudgetInv, OwnCount, NEW p \in Pair
               PROVE  /\ fresh[p] <= LimitOf(p)
                      /\ Apart(p) /\ Exhausted(p) /\ LimitOf(p) > 0 =>
                           fresh[p] = LimitOf(p)
    BY DEF WindowBudget
  <2>1. TypeOK /\ fresh[p] <= LimitOf(p) /\ fresh[p] \in Nat /\ LimitOf(p) \in Nat
    BY LimitType DEF BudgetInv, FreshOK, TypeOK
  <2> QED
    BY <2>1, RefusedHadAll
<1> QED
  BY <1>1, BudgetInvariant, CountInvariant, PTL

-----------------------------------------------------------------------------
(* Pairs that share a key *)

LEMMA CheckShared ==
  ASSUME TypeOK, SharedOK, NEW p \in Pair, NEW n \in {0, 1}, CheckEffect(p, n),
         n = 1 => Current(Key(p)).count < LimitOf(p)
  PROVE  SharedOK'
<1>t. /\ Current(Key(p)).count \in Nat /\ LimitOf(p) \in Nat
      /\ \A q \in Pair : fresh[q] \in Nat
  BY CurrentType, LimitType DEF CounterType, TypeOK
<1>c. counters'[Key(p)].count = Current(Key(p)).count + n
  BY DEF CheckEffect
<1>1. ASSUME NEW q \in Pair, NEW r \in Pair, q # r, Key(q) = Key(r),
             Key(q) \in DOMAIN counters'
      PROVE  fresh'[q] + fresh'[r] <= counters'[Key(q)].count
  <2>1. CASE Key(q) # Key(p)
    <3>1. /\ Key(q) \in DOMAIN counters /\ counters'[Key(q)] = counters[Key(q)]
          /\ fresh'[q] = fresh[q] /\ fresh'[r] = fresh[r]
      BY <1>1, <2>1 DEF CheckEffect
    <3> QED
      BY <1>1, <3>1 DEF SharedOK
  <2>2. CASE Key(q) = Key(p) /\ Restarted(Key(p))
    <3>1. /\ fresh'[q] = IF q = p THEN n ELSE 0
          /\ fresh'[r] = IF r = p THEN n ELSE 0
      BY <1>1, <2>2 DEF CheckEffect
    <3> QED
      BY <1>1, <1>c, <1>t, <2>2, <3>1
  <2>3. CASE Key(q) = Key(p) /\ ~Restarted(Key(p))
    <3>1. /\ fresh'[q] = IF q = p THEN fresh[q] + n ELSE fresh[q]
          /\ fresh'[r] = IF r = p THEN fresh[r] + n ELSE fresh[r]
      BY <2>3 DEF CheckEffect
    <3> DEFINE a == fresh[q]
               b == fresh[r]
               c == Current(Key(p)).count
    <3>2. a + b <= c /\ a \in Nat /\ b \in Nat /\ c \in Nat
      BY <1>1, <1>t, <2>3, CurrentType DEF SharedOK
    <3>3. counters'[Key(q)].count = c + n
      BY <1>c, <2>3
    <3> HIDE DEF a, b, c
    <3>4. (a + n) + b <= c + n /\ a + (b + n) <= c + n /\ a + b <= c + n
      BY <3>2
    <3>5. \/ fresh'[q] = a + n /\ fresh'[r] = b
          \/ fresh'[q] = a /\ fresh'[r] = b + n
          \/ fresh'[q] = a /\ fresh'[r] = b
      BY <1>1, <3>1 DEF a, b
    <3> QED
      BY <3>3, <3>4, <3>5
  <2> QED
    BY <2>1, <2>2, <2>3
<1>2. ASSUME NEW k \in DOMAIN counters'
      PROVE  \E r \in Pair : Key(r) = k /\ counters'[k].count <= LimitOf(r)
  <2>1. CASE k # Key(p)
    <3>1. k \in DOMAIN counters /\ counters'[k] = counters[k]
      BY <2>1 DEF CheckEffect
    <3> QED
      BY <3>1 DEF SharedOK
  <2>2. CASE k = Key(p) /\ (n = 1 \/ Restarted(k))
    <3>1. n = 0 => Current(k).count = 0
      BY <2>2, CurrentType
    <3>2. counters'[k].count <= LimitOf(p)
      BY <1>c, <1>t, <2>2, <3>1
    <3> QED
      BY <2>2, <3>2
  <2>3. CASE k = Key(p) /\ n = 0 /\ ~Restarted(k)
    <3>1. k \in DOMAIN counters /\ Current(k) = counters[k]
      BY <2>3, CurrentType
    <3>2. PICK r \in Pair : Key(r) = k /\ counters[k].count <= LimitOf(r)
      BY <3>1 DEF SharedOK
    <3>3. counters'[k].count = counters[k].count
      BY <1>c, <1>t, <2>3, <3>1
    <3> QED
      BY <3>2, <3>3
  <2> QED
    BY <2>1, <2>2, <2>3
<1> QED
  BY <1>1, <1>2 DEF SharedOK

LEMMA SharedStep == ASSUME TypeOK, SharedOK, [Next]_vars PROVE SharedOK'
<1>1. CASE Tick \/ Jump \/ UNCHANGED vars
  BY <1>1 DEF Tick, Jump, vars, SharedOK
<1>2. CASE Restart
  BY <1>2 DEF Restart, Survivors, SharedOK
<1> QED
  BY <1>1, <1>2, Steps, CheckShared

\* However many pairs are spelt alike, two of them together are never admitted
\* more than the limit of one pair of that spelling between two restarts of their
\* counter (service.rs:246-270).
THEOREM SharedBudgetHolds == Spec => []SharedBudget
<1>1. Init => SharedOK
  BY DEF Init, SharedOK
<1>2. TypeOK /\ SharedOK /\ [Next]_vars => SharedOK'
  BY SharedStep
<1>3. BudgetInv /\ SharedOK => SharedBudget
  <2> SUFFICES ASSUME BudgetInv, SharedOK, NEW p \in Pair, NEW q \in Pair,
                      p # q, Key(p) = Key(q)
               PROVE  \E r \in Pair :
                        Key(r) = Key(p) /\ fresh[p] + fresh[q] <= LimitOf(r)
    BY DEF SharedBudget
  <2>t. fresh[p] \in Nat /\ fresh[q] \in Nat /\ \A r \in Pair : LimitOf(r) \in Nat
    BY LimitType DEF BudgetInv, TypeOK
  <2>1. CASE Key(p) \in DOMAIN counters
    <3>1. fresh[p] + fresh[q] <= counters[Key(p)].count
      BY <2>1 DEF SharedOK
    <3>2. PICK r \in Pair : Key(r) = Key(p) /\ counters[Key(p)].count <= LimitOf(r)
      BY <2>1 DEF SharedOK
    <3>3. counters[Key(p)].count \in Nat
      BY <2>1 DEF BudgetInv, TypeOK, CounterType
    <3>4. fresh[p] + fresh[q] <= LimitOf(r)
      BY <2>t, <3>1, <3>2, <3>3
    <3> QED
      BY <3>2, <3>4
  <2>2. CASE Key(p) \notin DOMAIN counters
    <3>1. fresh[p] = 0 /\ fresh[q] = 0
      BY <2>2 DEF BudgetInv, FreshOK
    <3> QED
      BY <2>t, <3>1
  <2> QED
    BY <2>1, <2>2
<1> QED
  BY <1>1, <1>2, <1>3, BudgetInvariant, TypeCorrect, PTL DEF Spec

-----------------------------------------------------------------------------
(* The bound on any second *)

\* A restart after start-up comes a whole second of real time after the last.
LEMMA RestartSpacing ==
  ASSUME SlidingInv, NEW k \in DOMAIN counters, Restarted(k)
  PROVE  opened[k] + Sec <= real
<1>1. /\ now - counters[k].last_reset >= Sec
      /\ now - counters[k].last_reset <= real - opened[k]
  BY DEF Restarted, SecondPassed, SlidingInv, ClockOK
<1>2. /\ now \in Int /\ real \in Int /\ opened[k] \in Int
      /\ counters[k].last_reset \in Int
  BY DEF SlidingInv, BudgetInv, TypeOK, CounterType
<1> QED
  BY <1>1, <1>2

LEMMA CheckClock ==
  ASSUME SlidingInv, NEW p \in Pair, NEW n \in {0, 1}, CheckEffect(p, n)
  PROVE  ClockOK'
<1> SUFFICES ASSUME NEW k \in DOMAIN counters'
             PROVE  /\ now - counters'[k].last_reset <= real - opened'[k]
                    /\ opened'[k] <= real
  BY DEF CheckEffect, ClockOK
<1>t. TypeOK /\ ClockOK /\ now \in Int /\ real \in Nat
  BY DEF SlidingInv, BudgetInv, TypeOK
<1>1. CASE k # Key(p)
  <2>1. k \in DOMAIN counters /\ counters'[k] = counters[k] /\ opened'[k] = opened[k]
    BY <1>1 DEF CheckEffect
  <2> QED
    BY <2>1, <1>t DEF ClockOK
<1>2. CASE k = Key(p)
  <2>1. counters'[k].last_reset = Current(k).last_reset
    BY <1>2 DEF CheckEffect
  <2>2. CASE Restarted(k)
    BY <2>1, <2>2, <1>2, <1>t, CurrentType DEF CheckEffect
  <2>3. CASE ~Restarted(k)
    <3>1. k \in DOMAIN counters /\ Current(k) = counters[k]
      BY <2>3, <1>t, CurrentType
    <3>2. opened'[k] = opened[k]
      BY <2>3, <1>2 DEF CheckEffect
    <3> QED
      BY <3>1, <3>2, <2>1, <1>t DEF ClockOK
  <2> QED
    BY <2>2, <2>3
<1> QED
  BY <1>1, <1>2

\* The log of one pair after a check: its old entries, and the time of the
\* check if the check admitted that pair.
LEMMA LogAfterCheck ==
  ASSUME TypeOK, NEW p \in Pair, NEW n \in {0, 1}, CheckEffect(p, n), NEW q \in Pair
  PROVE  /\ Len(log[q]) \in Nat /\ DOMAIN log[q] = 1..Len(log[q])
         /\ DOMAIN log'[q] = 1..Len(log'[q])
         /\ \A m \in DOMAIN log[q] : log'[q][m] = log[q][m] /\ log[q][m] \in Nat
         /\ ~(q = p /\ n = 1) => Len(log'[q]) = Len(log[q])
         /\ q = p /\ n = 1 => /\ Len(log'[q]) = Len(log[q]) + 1
                             /\ log'[q][Len(log[q]) + 1] = real
<1>1. log[q] \in Seq(Nat) /\ log'[q] \in Seq(Nat)
  BY DEF TypeOK, CheckEffect
<1>2. /\ Len(log[q]) \in Nat /\ DOMAIN log[q] = 1..Len(log[q])
      /\ DOMAIN log'[q] = 1..Len(log'[q])
      /\ \A m \in DOMAIN log[q] : log[q][m] \in Nat
  BY <1>1
<1>3. CASE q = p /\ n = 1
  <2>1. /\ Len(log'[q]) = Len(log[q]) + 1
        /\ log'[q][Len(log[q]) + 1] = real
        /\ \A m \in 1..Len(log[q]) : log'[q][m] = log[q][m]
    BY <1>3 DEF CheckEffect
  <2> QED
    BY <2>1, <1>2, <1>3
<1>4. CASE ~(q = p /\ n = 1)
  <2>1. log'[q] = log[q]
    BY <1>4 DEF CheckEffect
  <2> QED
    BY <2>1, <1>2, <1>4
<1> QED
  BY <1>3, <1>4

LEMMA CheckLog ==
  ASSUME SlidingInv, NEW p \in Pair, NEW n \in {0, 1}, CheckEffect(p, n), BudgetInv'
  PROVE  LogOK'
<1> SUFFICES ASSUME NEW q \in Pair, Key(q) \in DOMAIN counters', NEW m \in DOMAIN log'[q]
             PROVE  /\ log'[q][m] <= real
                    /\ m <= Len(log'[q]) - fresh'[q] => log'[q][m] <= opened'[Key(q)]
                    /\ m > Len(log'[q]) - fresh'[q]  => log'[q][m] >= opened'[Key(q)]
                    /\ m <= Len(log'[q]) - fresh'[q] - LimitOf(q) =>
                         log'[q][m] + Sec <= opened'[Key(q)]
  BY DEF LogOK, CheckEffect
<1> DEFINE k    == Key(q)
           len  == Len(log[q])
           len2 == Len(log'[q])
           lim  == LimitOf(q)
           adds == q = p /\ n = 1
<1>t. /\ TypeOK /\ real \in Nat /\ lim \in Nat /\ fresh[q] \in Nat
      /\ fresh[q] <= lim /\ fresh'[q] \in Nat
  BY LimitType DEF SlidingInv, BudgetInv, TypeOK, FreshOK, CheckEffect
<1>l. /\ len \in Nat /\ DOMAIN log[q] = 1..len /\ m \in 1..len2
      /\ \A x \in 1..len : log'[q][x] = log[q][x] /\ log[q][x] \in Nat
      /\ ~adds => len2 = len
      /\ adds  => len2 = len + 1 /\ log'[q][len + 1] = real
  BY <1>t, LogAfterCheck
<1>n. \/ m \in 1..len
      \/ m = len + 1 /\ adds /\ log'[q][m] = real
  <2> HIDE DEF len, len2, adds
  <2> QED
    BY <1>l
<1>o. k \in DOMAIN counters =>
        /\ opened[k] \in Nat /\ opened[k] <= real
        /\ \A x \in 1..len :
             /\ log[q][x] <= real
             /\ x <= len - fresh[q] => log[q][x] <= opened[k]
             /\ x > len - fresh[q]  => log[q][x] >= opened[k]
             /\ x <= len - fresh[q] - lim => log[q][x] + Sec <= opened[k]
  BY <1>l DEF SlidingInv, LogOK, ClockOK, BudgetInv, TypeOK
<1>1. CASE k # Key(p)
  <2>1. /\ k \in DOMAIN counters /\ opened'[k] = opened[k]
        /\ fresh'[q] = fresh[q] /\ ~adds
    BY <1>1 DEF CheckEffect
  <2> HIDE DEF k, len, len2, lim, adds
  <2>2. m \in 1..len /\ len2 = len
    BY <2>1, <1>n, <1>l
  <2> QED
    BY <2>1, <2>2, <1>l, <1>o DEF k, len2, lim
<1>2. CASE k = Key(p) /\ Restarted(k)
  <2>1. /\ opened'[k] = real
        /\ adds => fresh'[q] = 1
        /\ ~adds => fresh'[q] = 0
    BY <1>2 DEF CheckEffect
  <2>2. m \in 1..len =>
          /\ k \in DOMAIN counters
          /\ opened[k] + Sec <= real
    BY <1>2, <1>l, RestartSpacing DEF SlidingInv, BudgetInv, FreshOK
  <2> HIDE DEF k, len, len2, lim, adds
  <2>3. len2 - fresh'[q] = len
    BY <2>1, <1>l
  <2>4. CASE m \in 1..len
    <3>1. log'[q][m] <= real /\ m <= len
      <4>1. log[q][m] <= real
        BY <2>2, <2>4, <1>o
      <4>2. log'[q][m] = log[q][m]
        BY <2>4, <1>l
      <4> QED
        BY <4>1, <4>2, <2>4, <1>l
    <3>2. m <= len - lim => log'[q][m] + Sec <= real
      <4> SUFFICES ASSUME m <= len - lim PROVE log[q][m] + Sec <= real
        BY <1>l, <2>4
      <4>1. m <= len - fresh[q]
        BY <1>t, <1>l, <2>4
      <4>2. log[q][m] <= opened[k] /\ log[q][m] \in Nat /\ opened[k] \in Nat
        BY <4>1, <2>2, <2>4, <1>l, <1>o
      <4> QED
        BY <4>2, <2>2, <2>4, <1>t
    <3> QED
      BY <2>1, <2>3, <3>1, <3>2, <1>l DEF k, len2, lim
  <2>5. CASE m = len + 1 /\ log'[q][m] = real
    BY <2>5, <2>1, <2>3, <1>l, <1>t DEF k, len2, lim
  <2> QED
    BY <2>4, <2>5, <1>n
<1>3. CASE k = Key(p) /\ ~Restarted(k)
  <2>1. /\ opened'[k] = opened[k] /\ k \in DOMAIN counters
        /\ adds => fresh'[q] = fresh[q] + 1
        /\ ~adds => fresh'[q] = fresh[q]
    <3>1. /\ opened'[k] = opened[k] /\ k \in DOMAIN counters
          /\ fresh'[q] = IF q = p THEN fresh[q] + n ELSE fresh[q]
      BY <1>3, <1>t, CurrentType DEF CheckEffect
    <3> QED
      BY <3>1, <1>t
  <2> HIDE DEF k, len, len2, lim, adds
  <2>2. len2 - fresh'[q] = len - fresh[q]
    BY <2>1, <1>l, <1>t
  <2>3. CASE m \in 1..len
    BY <2>1, <2>2, <2>3, <1>l, <1>o DEF k, len2, lim
  <2>4. CASE m = len + 1 /\ log'[q][m] = real
    <3>1. m > len - fresh[q] /\ ~(m <= len - fresh[q] - lim)
      BY <2>4, <1>l, <1>t
    <3>2. opened'[k] <= real /\ opened'[k] \in Nat
      BY <2>1, <1>o
    <3>3. m > len2 - fresh'[q] /\ ~(m <= len2 - fresh'[q]) /\ ~(m <= len2 - fresh'[q] - lim)
      BY <3>1, <2>2, <2>4, <1>l, <1>t
    <3> QED
      BY <2>4, <3>2, <3>3, <1>t DEF k, len2, lim
  <2> QED
    BY <2>3, <2>4, <1>n
<1> QED
  BY <1>1, <1>2, <1>3

LEMMA CheckSliding ==
  ASSUME SlidingInv, NEW p \in Pair, NEW n \in {0, 1}, CheckEffect(p, n),
         BudgetInv', LogOK', ClockOK'
  PROVE  SlidingBound'
<1> SUFFICES ASSUME NEW q \in Pair, NEW m \in DOMAIN log'[q],
                    m + 2 * LimitOf(q) \in DOMAIN log'[q]
             PROVE  log'[q][m + 2 * LimitOf(q)] - log'[q][m] >= Sec
  BY DEF SlidingBound
<1> DEFINE len  == Len(log[q])
           len2 == Len(log'[q])
           lim  == LimitOf(q)
           last == m + 2 * lim
           adds == q = p /\ n = 1
<1>t. /\ TypeOK /\ real \in Nat /\ lim \in Nat
      /\ fresh'[q] \in Nat /\ fresh'[q] <= lim
  BY LimitType DEF SlidingInv, BudgetInv, TypeOK, FreshOK, CheckEffect
<1>l. /\ len \in Nat /\ DOMAIN log[q] = 1..len
      /\ m \in 1..len2 /\ last \in 1..len2
      /\ \A x \in 1..len : log'[q][x] = log[q][x] /\ log[q][x] \in Nat
      /\ ~adds => len2 = len
      /\ adds  => len2 = len + 1 /\ log'[q][len + 1] = real
  BY <1>t, LogAfterCheck
<1>n. \/ m \in 1..len /\ last \in 1..len
      \/ last = len + 1 /\ len2 = last /\ adds /\ log'[q][last] = real
  <2>1. last \in Int /\ m <= last
    BY <1>l, <1>t
  <2> HIDE DEF len, len2, lim, last, adds
  <2> QED
    BY <2>1, <1>l
<1>1. CASE m \in 1..len /\ last \in 1..len
  <2>1. log[q][last] - log[q][m] >= Sec
    BY <1>1, <1>l DEF SlidingInv, SlidingBound
  <2> QED
    BY <2>1, <1>1, <1>l
<1>2. CASE last = len + 1 /\ len2 = last /\ adds /\ log'[q][last] = real
  <2>1. m <= len2 - fresh'[q] - lim
    <3>1. m = len2 - 2 * lim /\ len2 \in Nat /\ m \in Nat
      <4>1. m + 2 * lim = len2 /\ m \in Nat /\ len2 \in Nat
        BY <1>2, <1>l
      <4> HIDE DEF len2, lim
      <4> QED
        BY <4>1, <1>t
    <3> HIDE DEF len2, lim
    <3> QED
      BY <3>1, <1>t
  <2>2. Key(q) \in DOMAIN counters'
    BY <1>2 DEF CheckEffect
  <2>3. log'[q][m] + Sec <= opened'[Key(q)]
    BY <2>1, <2>2 DEF LogOK
  <2>4. opened'[Key(q)] <= real /\ opened'[Key(q)] \in Nat
    BY <2>2 DEF ClockOK, CheckEffect
  <2>5. log'[q][m] \in Nat
    BY DEF CheckEffect
  <2>6. log'[q][last] = real
    BY <1>2
  <2>7. real - log'[q][m] >= Sec
    BY <2>3, <2>4, <2>5, <1>t
  <2> QED
    BY <2>6, <2>7
<1> QED
  BY <1>1, <1>2, <1>n

\* The wall clock is never set forward.
NeverForward == \A d \in Jumps : d <= 0

LEMMA SlidingStep ==
  ASSUME NeverForward, SlidingInv, [Next]_vars PROVE SlidingInv'
<1>1. BudgetInv /\ TypeOK /\ BudgetInv'
  BY BudgetStep DEF SlidingInv, BudgetInv
<1>2. ASSUME NEW p \in Pair, NEW n \in {0, 1}, CheckEffect(p, n) PROVE SlidingInv'
  BY <1>1, <1>2, CheckClock, CheckLog, CheckSliding DEF SlidingInv
<1>3. CASE Tick
  <2>1. LogOK' /\ SlidingBound'
    <3>1. /\ UNCHANGED <<counters, log, fresh, opened>>
          /\ real' = real + 1 /\ real \in Nat
          /\ \A p \in Pair : \A x \in DOMAIN log[p] : log[p][x] \in Nat
      <4>1. \A p \in Pair : log[p] \in Seq(Nat)
        BY <1>1 DEF TypeOK
      <4>2. \A p \in Pair : \A x \in DOMAIN log[p] : log[p][x] \in Nat
        BY <4>1
      <4> QED
        BY <4>2, <1>3, <1>1 DEF Tick, TypeOK
    <3> QED
      BY <3>1 DEF SlidingInv, LogOK, SlidingBound
  <2>2. ClockOK'
    <3>1. /\ UNCHANGED <<counters, opened>>
          /\ real' = real + 1 /\ now' = now + 1 /\ real \in Nat /\ now \in Int
          /\ \A k \in DOMAIN counters : opened[k] \in Nat /\ counters[k].last_reset \in Int
      BY <1>3, <1>1 DEF Tick, TypeOK, CounterType
    <3> QED
      BY <3>1 DEF SlidingInv, ClockOK
  <2> QED
    BY <2>1, <2>2, <1>1 DEF SlidingInv
<1>4. CASE Jump
  <2>1. LogOK' /\ SlidingBound'
    BY <1>4 DEF Jump, SlidingInv, LogOK, SlidingBound
  <2>2. ClockOK'
    <3>1. PICK d \in Jumps : now' = now + d
      BY <1>4 DEF Jump
    <3>2. /\ UNCHANGED <<counters, opened, real>>
          /\ d \in Int /\ d <= 0 /\ real \in Nat /\ now \in Int
          /\ \A k \in DOMAIN counters : opened[k] \in Nat /\ counters[k].last_reset \in Int
      BY <1>4, <1>1 DEF Jump, NeverForward, TypeOK, CounterType
    <3> QED
      BY <3>1, <3>2 DEF SlidingInv, ClockOK
  <2> QED
    BY <2>1, <2>2, <1>1 DEF SlidingInv
<1>5. CASE Restart
  BY <1>5, <1>1 DEF Restart, Survivors, SlidingInv, LogOK, SlidingBound, ClockOK
<1>6. CASE UNCHANGED vars
  BY <1>6, <1>1 DEF vars, SlidingInv, LogOK, SlidingBound, ClockOK
<1> QED
  BY <1>1, <1>2, <1>3, <1>4, <1>5, <1>6, Steps

LEMMA SlidingInvariant == ASSUME NeverForward PROVE Spec => []SlidingInv
<1>1. Init => SlidingInv
  BY LimitType DEF Init, SlidingInv, BudgetInv, TypeOK, FreshOK, LogOK, ClockOK, SlidingBound
<1>2. SlidingInv /\ [Next]_vars => SlidingInv'
  BY SlidingStep
<1> QED
  BY <1>1, <1>2, PTL DEF Spec

\* If the wall clock is never set forward, any 2L + 1 consecutive admissions of
\* a pair with limit L span at least a second (service.rs:255-270).
THEOREM SlidingBoundHolds == ASSUME NeverForward PROVE Spec => []SlidingBound
<1>1. SlidingInv => SlidingBound
  BY DEF SlidingInv
<1> QED
  BY <1>1, SlidingInvariant, PTL

-----------------------------------------------------------------------------
(* Refusals *)

LEMMA BothClocksAdvance ==
  \A a, b, c, d \in Int : a - b = c - d => (a + 1) - b = (c + 1) - d
OBVIOUS

LEMMA LaterIsCloser ==
  \A r, o, x \in Int : r - o < Sec /\ x >= o => r - x < Sec
OBVIOUS

LEMMA CheckAge ==
  ASSUME TypeOK, TrueAge, NEW p \in Pair, NEW n \in {0, 1}, CheckEffect(p, n),
         UNCHANGED jumps
  PROVE  TrueAge'
<1> SUFFICES ASSUME jumps = 0, NEW k \in DOMAIN counters'
             PROVE  now - counters'[k].last_reset = real - opened'[k]
  BY DEF TrueAge, CheckEffect
<1>t. now \in Int /\ real \in Nat
  BY DEF TypeOK
<1>1. CASE k # Key(p)
  <2>1. k \in DOMAIN counters /\ counters'[k] = counters[k] /\ opened'[k] = opened[k]
    BY <1>1 DEF CheckEffect
  <2> QED
    BY <2>1 DEF TrueAge
<1>2. CASE k = Key(p)
  <2>1. counters'[k].last_reset = Current(k).last_reset
    BY <1>2 DEF CheckEffect
  <2>2. CASE Restarted(k)
    <3>1. Current(k).last_reset = now /\ opened'[k] = real
      BY <1>2, <2>2, CurrentType DEF CheckEffect
    <3> QED
      BY <2>1, <3>1, <1>t
  <2>3. CASE ~Restarted(k)
    <3>1. k \in DOMAIN counters /\ Current(k) = counters[k] /\ opened'[k] = opened[k]
      BY <1>2, <2>3, CurrentType DEF CheckEffect
    <3> QED
      BY <2>1, <3>1 DEF TrueAge
  <2> QED
    BY <2>2, <2>3
<1> QED
  BY <1>1, <1>2

LEMMA AgeStep == ASSUME TypeOK, TrueAge, [Next]_vars PROVE TrueAge'
<1>1. CASE Tick
  <2>1. /\ UNCHANGED <<counters, opened, jumps>>
        /\ real' = real + 1 /\ now' = now + 1 /\ real \in Nat /\ now \in Int
        /\ \A k \in DOMAIN counters : opened[k] \in Nat /\ counters[k].last_reset \in Int
    BY <1>1 DEF Tick, TypeOK, CounterType
  <2> SUFFICES ASSUME jumps = 0, NEW k \in DOMAIN counters
               PROVE  now' - counters[k].last_reset = real' - opened[k]
    BY <2>1 DEF TrueAge
  <2>2. /\ now - counters[k].last_reset = real - opened[k]
        /\ opened[k] \in Nat /\ counters[k].last_reset \in Int
    BY <2>1 DEF TrueAge
  <2>3. (now + 1) - counters[k].last_reset = (real + 1) - opened[k]
    <3> DEFINE a == counters[k].last_reset
               b == opened[k]
    <3>1. now \in Int /\ real \in Int /\ a \in Int /\ b \in Int /\ now - a = real - b
      BY <2>1, <2>2
    <3> HIDE DEF a, b
    <3>2. (now + 1) - a = (real + 1) - b
      BY <3>1, BothClocksAdvance
    <3> QED
      BY <3>2 DEF a, b
  <2>4. now' = now + 1 /\ real' = real + 1
    BY <2>1
  <2> QED
    BY <2>3, <2>4, Zenon
<1>2. CASE Jump
  BY <1>2 DEF Jump, TypeOK, TrueAge
<1>3. CASE Restart
  BY <1>3 DEF Restart, Survivors, TrueAge
<1>4. CASE UNCHANGED vars
  BY <1>4 DEF vars, TrueAge
<1> QED
  BY <1>1, <1>2, <1>3, <1>4, Steps, CheckAge

LEMMA ExactJustifies == ExactInv => RefusalJustified
<1> SUFFICES ASSUME ExactInv, NEW p \in Pair, jumps = 0, Apart(p), Exhausted(p),
                    LimitOf(p) > 0
             PROVE  /\ Len(log[p]) >= LimitOf(p)
                    /\ real - log[p][Len(log[p]) - LimitOf(p) + 1] < Sec
  BY DEF RefusalJustified
<1> DEFINE k   == Key(p)
           len == Len(log[p])
           lim == LimitOf(p)
           m   == len - lim + 1
<1>1. /\ TypeOK /\ lim \in Nat /\ fresh[p] \in Nat /\ real \in Nat /\ now \in Int
      /\ fresh[p] <= lim /\ fresh[p] <= len /\ len \in Nat /\ DOMAIN log[p] = 1..len
      /\ log[p] \in Seq(Nat)
  <2>1. TypeOK /\ log[p] \in Seq(Nat)
    BY DEF ExactInv, SlidingInv, BudgetInv, TypeOK
  <2> QED
    BY <2>1, LimitType DEF ExactInv, SlidingInv, BudgetInv, FreshOK, TypeOK
<1>2. OwnCount /\ TrueAge
  BY DEF ExactInv
<1>3. ~Restarted(k) /\ k \in DOMAIN counters /\ fresh[p] >= lim
  BY <1>1, <1>2, RefusedHadAll
<1>4. /\ now - counters[k].last_reset = real - opened[k]
      /\ opened[k] \in Nat /\ counters[k].last_reset \in Int
  BY <1>1, <1>2, <1>3 DEF TrueAge, TypeOK, CounterType
<1>5. real - opened[k] < Sec
  BY <1>3, <1>4, <1>1 DEF Restarted, SecondPassed
<1>6. m \in DOMAIN log[p] /\ m > len - fresh[p] /\ lim <= len
  <2>1. fresh[p] = lim /\ lim > 0
    BY <1>1, <1>3
  <2> HIDE DEF len, lim
  <2> QED
    BY <2>1, <1>1
<1>7. log[p][m] >= opened[k]
  BY <1>3, <1>6 DEF ExactInv, SlidingInv, LogOK
<1>8. log[p][m] \in Nat
  <2> HIDE DEF m
  <2> QED
    BY <1>1, <1>6
<1>9. real - log[p][m] < Sec
  <2> DEFINE o == opened[k]
             x == log[p][m]
  <2>1. real \in Int /\ o \in Int /\ x \in Int /\ real - o < Sec /\ x >= o
    BY <1>1, <1>4, <1>5, <1>7, <1>8
  <2> HIDE DEF o, x
  <2>2. real - x < Sec
    BY <2>1, LaterIsCloser
  <2> QED
    BY <2>2 DEF x
<1> QED
  BY <1>1, <1>6, <1>9

\* If the clock is never set forward, then as long as it was not set at all, a
\* refused pair whose joined name is its own used up its limit, by itself, within
\* the last second (service.rs:246-268).
THEOREM RefusalsAreJustified == ASSUME NeverForward PROVE Spec => []RefusalJustified
<1>1. Init => TrueAge
  BY DEF Init, TrueAge
<1>2. SlidingInv /\ TrueAge /\ [Next]_vars => TrueAge'
  BY AgeStep DEF SlidingInv, BudgetInv
<1>3. SlidingInv /\ OwnCount /\ TrueAge => RefusalJustified
  BY ExactJustifies DEF ExactInv
<1> QED
  BY <1>1, <1>2, <1>3, SlidingInvariant, CountInvariant, PTL DEF Spec

=============================================================================
