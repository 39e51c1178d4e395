---------------------------- MODULE RateLimiter ----------------------------
(***************************************************************************)
(* check_rate_limit (service.rs:233-272): one counter per key, restarted   *)
(* by the first check that comes at least a second after its last restart. *)
(* The clock is read and the counter updated under one write lock, so a    *)
(* check is one step and checks of concurrent callers interleave freely.   *)
(*                                                                         *)
(* Entity ids and interface names may contain ":".  A name is modelled as  *)
(* the sequence of its parts between colons; joining two names with ":" is *)
(* then concatenation.  The wall clock (Utc::now) is kept apart from real  *)
(* time, which only the properties read: the two drift when it is set.     *)
(***************************************************************************)
EXTENDS Integers, Sequences

CONSTANTS
  Pair,           \* the <<entity, interface>> pairs checked; entities are known
  rate_limits,    \* pair -> RateLimitConfig, for the pairs the policy lists
  default_rate_limit,
  Sec,            \* one second, in clock ticks
  Jumps,          \* the amounts by which the wall clock may be set
  MaxTime, MaxJumps, MaxRestarts   \* bounds for TLC

RateLimitConfig == [operations_per_second : Nat \ {0}, burst_size : Nat]

\* Pairs are pairs of names; validation refuses an explicit limit of zero.
ASSUME PairAssumption  == \A p \in Pair : p[1] \in Seq(STRING) /\ p[2] \in Seq(STRING)
ASSUME LimitAssumption ==
  /\ DOMAIN rate_limits \subseteq Pair
  /\ \A p \in DOMAIN rate_limits : rate_limits[p] \in RateLimitConfig
  /\ default_rate_limit \in Nat
ASSUME TimeAssumption ==
  /\ Sec \in Nat \ {0} /\ Jumps \subseteq Int
  /\ MaxTime \in Nat /\ MaxJumps \in Nat /\ MaxRestarts \in Nat

VARIABLES
  now,        \* Utc::now(), the wall clock
  counters,   \* key -> OperationCounter
  jumps, restarts,   \* how often the bounds were used
  \* History variables: read by properties only.
  real,       \* ticks since the model started, never set
  opened,     \* key -> the real time its counter was last restarted
  log,        \* log[p]: the real times p was admitted since start-up
  fresh       \* fresh[p]: how many of them since the counter was restarted

vars == <<now, counters, jumps, restarts, real, opened, log, fresh>>

\* Mutant of Key: one counter for all interfaces of an entity.
KeyOfEntity(p) == p[1]

\* format!("{}:{}", entity_id, interface)
Key(p) == p[1] \o p[2]

LimitOf(p) ==
  IF p \in DOMAIN rate_limits THEN rate_limits[p].operations_per_second
                              ELSE default_rate_limit

Init ==
  /\ now = 0 /\ real = 0 /\ jumps = 0 /\ restarts = 0
  /\ counters = [k \in {} |-> {}] /\ opened = [k \in {} |-> {}]
  /\ log = [p \in Pair |-> <<>>] /\ fresh = [p \in Pair |-> 0]

-----------------------------------------------------------------------------
(* The check *)

\* Mutant of SecondPassed: the comparison is off by one second.
ZeroSecondsPassed(c) == now - c.last_reset >= 0

\* (now - last_reset).num_seconds() >= 1; num_seconds rounds towards zero.
SecondPassed(c) == now - c.last_reset >= Sec

\* A counter is (re)started when its key is new or its second has passed.
Restarted(k) == IF k \in DOMAIN counters THEN SecondPassed(counters[k]) ELSE TRUE

\* The counter a check of key k decides on.
Current(k) ==
  IF Restarted(k) THEN [count |-> 0, last_reset |-> now] ELSE counters[k]

\* Mutant of Exhausted: the count may exceed the limit by one.
ExhaustedBeyond(p) == Current(Key(p)).count > LimitOf(p)

Exhausted(p) == Current(Key(p)).count >= LimitOf(p)

\* f with k mapped to v.
Put(f, k, v) == [x \in DOMAIN f \cup {k} |-> IF x = k THEN v ELSE f[x]]

\* The history of a check of p: counters of other pairs with p's key restart
\* with it; n is 1 if p was admitted, else 0.
Observe(p, n) ==
  /\ opened' = IF Restarted(Key(p)) THEN Put(opened, Key(p), real) ELSE opened
  /\ fresh' = [q \in Pair |->
                 (IF Key(q) = Key(p) /\ Restarted(Key(p)) THEN 0 ELSE fresh[q])
                   + (IF q = p THEN n ELSE 0)]
  /\ log' = IF n = 1 THEN [log EXCEPT ![p] = Append(@, real)] ELSE log

Allow(p) ==
  /\ ~Exhausted(p)
  /\ counters' = Put(counters, Key(p), [Current(Key(p)) EXCEPT !.count = @ + 1])
  /\ Observe(p, 1)
  /\ UNCHANGED <<now, real, jumps, restarts>>

\* RateLimitExceeded; the restart of the counter stays.
Refuse(p) ==
  /\ Exhausted(p)
  /\ counters' = Put(counters, Key(p), Current(Key(p)))
  /\ Observe(p, 0)
  /\ UNCHANGED <<now, real, jumps, restarts>>

-----------------------------------------------------------------------------
(* The environment *)

Tick ==
  /\ real < MaxTime
  /\ real' = real + 1 /\ now' = now + 1
  /\ UNCHANGED <<counters, jumps, restarts, opened, log, fresh>>

\* The wall clock is set.
Jump ==
  /\ jumps < MaxJumps
  /\ jumps' = jumps + 1
  /\ \E d \in Jumps : now' = now + d
  /\ UNCHANGED <<counters, restarts, real, opened, log, fresh>>

\* Mutant of Survivors: the counters outlive the process.
SurvivorsAll == DOMAIN counters

\* The keys whose counters outlive a restart.
Survivors == {}

\* The counters are in memory only.
Restart ==
  /\ restarts < MaxRestarts
  /\ restarts' = restarts + 1
  /\ counters' = [k \in Survivors |-> counters[k]] /\ opened' = [k \in {} |-> {}]
  /\ log' = [p \in Pair |-> <<>>] /\ fresh' = [p \in Pair |-> 0]
  /\ UNCHANGED <<now, real, jumps>>

Next ==
  \/ \E p \in Pair : Allow(p) \/ Refuse(p)
  \/ Tick \/ Jump \/ Restart

Spec == Init /\ [][Next]_vars

-----------------------------------------------------------------------------
(* Properties *)

CounterType == [count : Nat, last_reset : Int]

\* Every variable has its type.
TypeOK ==
  /\ now \in Int /\ real \in Nat
  /\ jumps \in 0..MaxJumps /\ restarts \in 0..MaxRestarts
  /\ DOMAIN counters \subseteq {Key(p) : p \in Pair}
  /\ counters \in [DOMAIN counters -> CounterType]
  /\ opened \in [DOMAIN counters -> Nat]
  /\ log \in [Pair -> Seq(Nat)] /\ fresh \in [Pair -> Nat]

\* No other pair is spelt the same once its names are joined.
Apart(p) == \A q \in Pair : q[1] \o q[2] = p[1] \o p[2] => q = p

\* Between two restarts of its counter a pair is admitted at most its limit,
\* also when another pair with a higher limit counts on the same key; and all
\* of its limit, if it is not spelt like another: when it is refused it has had
\* its whole budget, however the clock was set.
WindowBudget ==
  \A p \in Pair :
    /\ fresh[p] <= LimitOf(p)
    /\ Apart(p) /\ Exhausted(p) /\ LimitOf(p) > 0 => fresh[p] = LimitOf(p)

\* Pairs spelt alike share one budget: what two of them were admitted together
\* is within the limit of one of the pairs of that spelling, so a collision
\* (LimitIsPerEntity) takes admissions from a caller and never adds any.
SharedBudget ==
  \A p, q \in Pair :
    p # q /\ Key(p) = Key(q) =>
      \E r \in Pair : Key(r) = Key(p) /\ fresh[p] + fresh[q] <= LimitOf(r)

\* In any stretch of less than a second of real time a pair is admitted at most
\* twice its limit: the 2L + 1st admission comes a second after the first.
\* (Setting the clock forward would break this, setting it back does not.)
SlidingBound ==
  \A p \in Pair : \A n \in DOMAIN log[p] :
    n + 2 * LimitOf(p) \in DOMAIN log[p] =>
      log[p][n + 2 * LimitOf(p)] - log[p][n] >= Sec

\* A check is only refused when the pair itself, alone, was admitted its whole
\* limit within the last second: nobody else's calls are charged to it, and no
\* refusal outlasts the second.  (While the clock was not set, and for a pair
\* that is not spelt like another.)
RefusalJustified ==
  \A p \in Pair :
    jumps = 0 /\ Apart(p) /\ Exhausted(p) /\ LimitOf(p) > 0 =>
      /\ Len(log[p]) >= LimitOf(p)
      /\ real - log[p][Len(log[p]) - LimitOf(p) + 1] < Sec

-----------------------------------------------------------------------------
(* The inductive invariants behind the properties above *)

\* A pair accounts for part of its counter and of its log; the counter was only
\* ever raised by checks below the limit of the pair they admitted.
FreshOK ==
  \A p \in Pair :
    /\ Key(p) \in DOMAIN counters => fresh[p] <= counters[Key(p)].count
    /\ Key(p) \notin DOMAIN counters => fresh[p] = 0 /\ log[p] = <<>>
    /\ fresh[p] <= LimitOf(p) /\ fresh[p] <= Len(log[p])

\* The log against the last restart of the counter: the fresh entries follow
\* it, the ones before them precede it, and all but the last LimitOf(p) of
\* those are a whole second older.
LogOK ==
  \A p \in Pair : Key(p) \in DOMAIN counters =>
    \A n \in DOMAIN log[p] :
      /\ log[p][n] <= real
      /\ n <= Len(log[p]) - fresh[p] => log[p][n] <= opened[Key(p)]
      /\ n > Len(log[p]) - fresh[p]  => log[p][n] >= opened[Key(p)]
      /\ n <= Len(log[p]) - fresh[p] - LimitOf(p) =>
           log[p][n] + Sec <= opened[Key(p)]

\* The wall clock has not run ahead of real time since a restart of a counter.
ClockOK ==
  \A k \in DOMAIN counters :
    /\ now - counters[k].last_reset <= real - opened[k]
    /\ opened[k] <= real

\* Two pairs account for disjoint parts of the counter they share, and the
\* counter for no more than the limit of some pair that counts on it.
SharedOK ==
  /\ \A p, q \in Pair : p # q /\ Key(p) = Key(q) /\ Key(p) \in DOMAIN counters =>
       fresh[p] + fresh[q] <= counters[Key(p)].count
  /\ \A k \in DOMAIN counters :
       \E r \in Pair : Key(r) = k /\ counters[k].count <= LimitOf(r)

BudgetInv  == TypeOK /\ FreshOK
SlidingInv == BudgetInv /\ LogOK /\ ClockOK /\ SlidingBound

\* A counter that belongs to one pair counts its admissions.
OwnCount ==
  \A p \in Pair : Apart(p) /\ Key(p) \in DOMAIN counters =>
    fresh[p] = counters[Key(p)].count

\* While the clock was not set, a counter is as old as it seems.
TrueAge ==
  jumps = 0 =>
    \A k \in DOMAIN counters : now - counters[k].last_reset = real - opened[k]

ExactInv == SlidingInv /\ OwnCount /\ TrueAge

-----------------------------------------------------------------------------
(* Statements of the documentation that the code does not honour *)

\* ARCHITECTURE.md:32 "Per-entity, per-interface rate limits": a pair that made
\* no call in its current second is not refused.
LimitIsPerEntity ==
  \A p \in Pair : Exhausted(p) /\ LimitOf(p) > 0 => fresh[p] > 0

=============================================================================
