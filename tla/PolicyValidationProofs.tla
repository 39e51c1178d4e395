----------------------- MODULE PolicyValidationProofs -----------------------
(***************************************************************************)
(* Proofs about PolicyValidation, for policies of any length with any      *)
(* limits: what the two loops accept, which error they return, and that    *)
(* lookups on an accepted policy are unambiguous.                          *)
(***************************************************************************)
EXTENDS PolicyValidation, TLAPS

USE DEF Entities

\* The first n entities have distinct ids.
DistinctTo(n) ==
  \A k, m \in 1..n : Entities[k].id = Entities[m].id => k = m

SoundTo(n) == \A k \in 1..n : Sound(Entities[k])

\* What the loop over the ids has established so far.
IdsLoop ==
  /\ policy.version # NoText /\ limits = {} /\ DistinctTo(i - 1)
  /\ \A n \in 1..i - 1 : Entities[n].id \in ids
  /\ \A id \in ids : \E n \in 1..i - 1 : Entities[n].id = id

\* What the loop over the entities has established so far.
EntitiesLoop ==
  /\ policy.version # NoText /\ DistinctTo(Len(Entities)) /\ SoundTo(i - 1)
  /\ i <= Len(Entities) =>
       \A f \in DOMAIN Entities[i].rate_limits \ limits : Entities[i].rate_limits[f] # 0

LoopsOK ==
  /\ pc # "done" => result = "none"
  /\ pc = "version" => i = 1 /\ ids = {} /\ limits = {}
  /\ pc = "ids" => IdsLoop
  /\ pc = "entities" => EntitiesLoop

\* What the result says of the policy.
ResultOK ==
  /\ pc = "done" => result # "none"
  /\ result = "ok" =>
       policy.version # NoText /\ DistinctTo(Len(Entities)) /\ SoundTo(Len(Entities))
  /\ result = "no version" => policy.version = NoText
  /\ result = "duplicate id" => policy.version # NoText /\ ~DistinctTo(Len(Entities))
  /\ result \in {"empty id", "zero limit"} =>
       /\ policy.version # NoText
       /\ DistinctTo(Len(Entities)) /\ SoundTo(i - 1)
       /\ i \in 1..Len(Entities) /\ ~Sound(Entities[i])
       /\ Entities[i].id = NoText <=> result = "empty id"

IInv == TypeOK /\ LoopsOK /\ ResultOK

-----------------------------------------------------------------------------

\* Bounds of an interval.
LEMMA Between == \A n, k \in Nat : 1 <= n /\ n <= k => n \in 1..k
OBVIOUS

LEMMA Below ==
  \A k \in Nat : \A m \in 1..k : \A n \in 1..m - 1 : n \in 1..k /\ n # m
OBVIOUS

\* The entities of a policy are a sequence of drafts.
LEMMA EntitiesSeq ==
  ASSUME policy \in Drafts
  PROVE  /\ Len(Entities) \in Nat /\ DOMAIN Entities = 1..Len(Entities)
         /\ \A n \in 1..Len(Entities) : Entities[n].id \in EntityId \cup {NoText}
<1> DEFINE S == {policy.entities[n] : n \in DOMAIN policy.entities}
<1>1. policy.entities \in Seq(S) /\ \A n \in DOMAIN policy.entities : EntityDraft(policy.entities[n])
  BY DraftsAssumption
<1> HIDE DEF S
<1>2. Len(policy.entities) \in Nat /\ DOMAIN policy.entities = 1..Len(policy.entities)
  BY <1>1
<1> QED
  BY <1>1, <1>2 DEF Entities, EntityDraft

\* What the invariant says of the position in the policy.
LEMMA Position ==
  ASSUME IInv
  PROVE  /\ Len(Entities) \in Nat /\ DOMAIN Entities = 1..Len(Entities)
         /\ \A n \in 1..Len(Entities) : Entities[n].id \in EntityId \cup {NoText}
         /\ i \in Nat /\ 1 <= i /\ i <= Len(Entities) + 1
<1>1. policy \in Drafts /\ i \in 1..Len(Entities) + 1
  BY DEF IInv, TypeOK
<1> HIDE DEF Entities
<1> QED
  BY <1>1, EntitiesSeq

LEMMA InitInv == Init => IInv
<1> SUFFICES ASSUME Init PROVE IInv
  OBVIOUS
<1>1. Len(Entities) \in Nat
  BY EntitiesSeq DEF Init
<1>2. TypeOK
  BY <1>1 DEF Init, TypeOK
<1> QED
  BY <1>2 DEF Init, IInv, LoopsOK, ResultOK

LEMMA CheckVersionKeeps == ASSUME IInv, CheckVersion PROVE IInv'
<1>1. /\ pc = "version" /\ i = 1 /\ ids = {} /\ limits = {} /\ result = "none"
      /\ UNCHANGED <<policy, i, ids, limits>> /\ Entities' = Entities
      /\ \/ policy.version = NoText /\ pc' = "done" /\ result' = "no version"
         \/ policy.version # NoText /\ pc' = "ids" /\ result' = result
  BY DEF IInv, LoopsOK, CheckVersion, Return, Entities
<1>2. TypeOK'
  BY <1>1 DEF IInv, TypeOK
<1>3. pc' = "ids" => IdsLoop'
  <2> SUFFICES ASSUME pc' = "ids" PROVE IdsLoop'
    OBVIOUS
  <2>1. 1..i' - 1 = {}
    BY <1>1
  <2>2. policy'.version # NoText /\ limits' = {} /\ ids' = {}
    BY <1>1
  <2>3. DistinctTo(i - 1)'
    BY <2>1 DEF DistinctTo
  <2> QED
    BY <2>1, <2>2, <2>3 DEF IdsLoop
<1>4. LoopsOK'
  BY <1>1, <1>3 DEF LoopsOK
<1>5. ResultOK'
  BY <1>1 DEF ResultOK
<1> QED
  BY <1>2, <1>4, <1>5 DEF IInv

LEMMA InsertIdKeeps == ASSUME IInv, InsertId PROVE IInv'
<1> DEFINE id == Entities[i].id
<1>1. /\ pc = "ids" /\ i \in 1..Len(Entities) /\ id \notin ids
      /\ ids' = ids \cup {id} /\ i' = i + 1 /\ Len(Entities) \in Nat
      /\ id \in EntityId \cup {NoText}
      /\ UNCHANGED <<policy, pc, limits, result>> /\ Entities' = Entities
  BY Position DEF InsertId, Seen
<1>2. IdsLoop /\ result = "none" /\ limits = {}
  BY <1>1 DEF IInv, LoopsOK, IdsLoop
<1>3. TypeOK'
  <2>1. i' \in 1..Len(Entities') + 1
    BY <1>1
  <2> QED
    BY <1>1, <1>2, <2>1 DEF IInv, TypeOK
<1>4. 1..i' - 1 = (1..i - 1) \cup {i}
  BY <1>1
<1>5. IdsLoop'
  <2>1. \A n \in 1..i - 1 : Entities[n].id # id
    BY <1>1, <1>2 DEF IdsLoop
  <2> QED
    BY <1>1, <1>2, <1>4, <2>1 DEF IdsLoop, DistinctTo
<1>6. LoopsOK'
  BY <1>1, <1>2, <1>5 DEF LoopsOK
<1>7. ResultOK'
  BY <1>1, <1>2 DEF ResultOK
<1> QED
  BY <1>3, <1>6, <1>7 DEF IInv

LEMMA DuplicateIdKeeps == ASSUME IInv, DuplicateId PROVE IInv'
<1>1. /\ pc = "ids" /\ i \in 1..Len(Entities) /\ Entities[i].id \in ids
      /\ pc' = "done" /\ result' = "duplicate id" /\ Len(Entities) \in Nat
      /\ UNCHANGED <<policy, i, ids, limits>> /\ Entities' = Entities
  <2>1. /\ pc = "ids" /\ i <= Len(Entities) /\ Entities[i].id \in ids /\ Return("duplicate id")
        /\ UNCHANGED <<policy, i, ids, limits>>
    BY DEF DuplicateId
  <2>2. Len(Entities) \in Nat /\ i \in Nat /\ 1 <= i
    BY Position
  <2>3. i \in 1..Len(Entities)
    BY <2>1, <2>2, Between
  <2>4. Entities' = Entities
    BY <2>1
  <2> QED
    BY <2>1, <2>2, <2>3, <2>4 DEF Return
<1>2. PICK n \in 1..i - 1 : Entities[n].id = Entities[i].id
  BY <1>1 DEF IInv, LoopsOK, IdsLoop
<1>3. ~DistinctTo(Len(Entities)) /\ policy.version # NoText
  <2>1. n \in 1..Len(Entities) /\ n # i
    BY <1>1, Below
  <2>2. ~DistinctTo(Len(Entities))
    BY <1>1, <1>2, <2>1 DEF DistinctTo
  <2> QED
    BY <1>1, <2>2 DEF IInv, LoopsOK, IdsLoop
<1>4. TypeOK'
  BY <1>1 DEF IInv, TypeOK, LimitsAt
<1>5. LoopsOK' /\ ResultOK'
  BY <1>1, <1>3 DEF LoopsOK, ResultOK, DistinctTo
<1> QED
  BY <1>4, <1>5 DEF IInv

LEMMA IdsDoneKeeps == ASSUME IInv, IdsDone PROVE IInv'
<1>1. /\ pc = "ids" /\ i = Len(Entities) + 1 /\ pc' = "entities" /\ i' = 1
      /\ limits' = LimitsAt(1) /\ Len(Entities) \in Nat
      /\ UNCHANGED <<policy, ids, result>> /\ Entities' = Entities
  BY Position DEF IdsDone
<1>2. TypeOK'
  <2>1. i' \in 1..Len(Entities') + 1
    BY <1>1
  <2>2. LimitsAt(i)' = LimitsAt(1)
    BY <1>1 DEF LimitsAt
  <2> QED
    BY <1>1, <2>1, <2>2 DEF IInv, TypeOK
<1>3. DistinctTo(Len(Entities)) /\ policy.version # NoText /\ result = "none"
  BY <1>1 DEF IInv, LoopsOK, IdsLoop
<1>4. EntitiesLoop'
  <2>1. \A k \in 1..i' - 1 : FALSE
    BY <1>1
  <2>2. i' <= Len(Entities') => limits' = DOMAIN Entities'[i'].rate_limits
    BY <1>1, Position DEF LimitsAt
  <2> QED
    BY <1>1, <1>3, <2>1, <2>2 DEF EntitiesLoop, DistinctTo, SoundTo
<1>6. LoopsOK'
  BY <1>1, <1>3, <1>4 DEF LoopsOK
<1>5. ResultOK'
  BY <1>1, <1>3 DEF ResultOK
<1> QED
  BY <1>2, <1>5, <1>6 DEF IInv

\* In the second loop, at an entity of the policy.
LEMMA AtEntity ==
  ASSUME IInv, pc = "entities", i <= Len(Entities)
  PROVE  /\ i \in 1..Len(Entities) /\ Len(Entities) \in Nat
         /\ policy.version # NoText /\ result = "none"
         /\ DistinctTo(Len(Entities)) /\ SoundTo(i - 1)
         /\ limits \subseteq DOMAIN Entities[i].rate_limits
         /\ \A f \in DOMAIN Entities[i].rate_limits \ limits : Entities[i].rate_limits[f] # 0
BY EntitiesSeq DEF IInv, TypeOK, LoopsOK, EntitiesLoop, LimitsAt

\* Entity i is refused with error r.
LEMMA RefusalKeeps ==
  ASSUME IInv, pc = "entities", i <= Len(Entities), NEW r \in {"empty id", "zero limit"},
         Return(r), UNCHANGED <<policy, i, ids, limits>>, ~Sound(Entities[i]),
         Entities[i].id = NoText <=> r = "empty id"
  PROVE  IInv'
<1>1. Entities' = Entities /\ pc' = "done" /\ result' = r
  BY DEF Entities, Return
<1>2. TypeOK'
  BY <1>1 DEF IInv, TypeOK, LimitsAt
<1>3. LoopsOK'
  BY <1>1 DEF LoopsOK
<1>4. ResultOK'
  BY <1>1, AtEntity DEF ResultOK, DistinctTo, SoundTo
<1> QED
  BY <1>2, <1>3, <1>4 DEF IInv

LEMMA EmptyIdKeeps == ASSUME IInv, EmptyId PROVE IInv'
BY RefusalKeeps DEF EmptyId, Sound

LEMMA CheckLimitKeeps == ASSUME IInv, CheckLimit PROVE IInv'
<1>1. PICK f \in limits :
        IF Entities[i].rate_limits[f] = 0
        THEN Return("zero limit") /\ UNCHANGED limits
        ELSE limits' = limits \ {f} /\ UNCHANGED <<pc, result>>
  BY DEF CheckLimit, Remaining
<1>2. /\ pc = "entities" /\ i <= Len(Entities) /\ Entities[i].id # NoText
      /\ UNCHANGED <<policy, i, ids>> /\ Entities' = Entities
  BY DEF CheckLimit, IdAccepted, Entities
<1>3. CASE Entities[i].rate_limits[f] = 0
  <2>1. ~Sound(Entities[i])
    BY <1>2, <1>3, AtEntity DEF Sound
  <2> QED
    BY <1>1, <1>2, <1>3, <2>1, RefusalKeeps
<1>4. CASE Entities[i].rate_limits[f] # 0
  <2>1. limits' = limits \ {f} /\ UNCHANGED <<pc, result>>
    BY <1>1, <1>4
  <2>2. TypeOK'
    BY <1>2, <2>1 DEF IInv, TypeOK, LimitsAt
  <2>3. LoopsOK'
    <3>1. EntitiesLoop'
      BY <1>2, <1>4, <2>1, AtEntity DEF EntitiesLoop, DistinctTo, SoundTo
    <3> QED
      BY <1>2, <2>1, <3>1, AtEntity DEF LoopsOK
  <2>4. ResultOK'
    BY <1>2, <2>1, AtEntity DEF ResultOK
  <2> QED
    BY <2>2, <2>3, <2>4 DEF IInv
<1> QED
  BY <1>3, <1>4

LEMMA NextEntityKeeps == ASSUME IInv, NextEntity PROVE IInv'
<1>1. /\ pc = "entities" /\ i <= Len(Entities) /\ Entities[i].id # NoText /\ limits = {}
      /\ i' = i + 1 /\ limits' = LimitsAt(i + 1)
      /\ UNCHANGED <<policy, pc, ids, result>> /\ Entities' = Entities
  BY DEF NextEntity, NextLimits, Entities
<1>2. i \in 1..Len(Entities) /\ Len(Entities) \in Nat
  BY <1>1, AtEntity
<1>3. Sound(Entities[i])
  BY <1>1, AtEntity DEF Sound
<1>4. SoundTo(i)
  BY <1>1, <1>2, <1>3, AtEntity DEF SoundTo
<1>5. TypeOK'
  <2>1. i' \in 1..Len(Entities') + 1
    BY <1>1, <1>2
  <2>2. LimitsAt(i)' = LimitsAt(i + 1)
    BY <1>1 DEF LimitsAt
  <2> QED
    BY <1>1, <2>1, <2>2 DEF IInv, TypeOK
<1>6. LoopsOK'
  <2>1. i' <= Len(Entities') => limits' = DOMAIN Entities'[i'].rate_limits
    BY <1>1, <1>2, Position DEF LimitsAt
  <2>2. i' - 1 = i /\ DistinctTo(Len(Entities)) /\ policy.version # NoText /\ result = "none"
    BY <1>1, <1>2, AtEntity
  <2>3. EntitiesLoop'
    BY <1>1, <1>4, <2>1, <2>2 DEF EntitiesLoop, DistinctTo, SoundTo
  <2> QED
    BY <1>1, <2>2, <2>3 DEF LoopsOK
<1>7. ResultOK'
  BY <1>1, AtEntity DEF ResultOK
<1> QED
  BY <1>5, <1>6, <1>7 DEF IInv

LEMMA AcceptKeeps == ASSUME IInv, Accept PROVE IInv'
<1>1. /\ pc = "entities" /\ i = Len(Entities) + 1 /\ pc' = "done" /\ result' = "ok"
      /\ UNCHANGED <<policy, i, ids, limits>> /\ Entities' = Entities
  BY Position DEF Accept, Return
<1>2. policy.version # NoText /\ DistinctTo(Len(Entities)) /\ SoundTo(Len(Entities))
  BY <1>1, Position DEF IInv, LoopsOK, EntitiesLoop
<1>3. TypeOK'
  BY <1>1 DEF IInv, TypeOK, LimitsAt
<1>4. LoopsOK' /\ ResultOK'
  BY <1>1, <1>2 DEF LoopsOK, ResultOK, DistinctTo, SoundTo
<1> QED
  BY <1>3, <1>4 DEF IInv

LEMMA StutterKeeps == ASSUME IInv, UNCHANGED vars PROVE IInv'
<1>1. UNCHANGED <<policy, pc, i, ids, limits, result>> /\ Entities' = Entities
  BY DEF vars, Entities
<1>2. TypeOK' /\ ResultOK'
  BY <1>1 DEF IInv, TypeOK, ResultOK, LimitsAt, DistinctTo, SoundTo
<1>3. LoopsOK'
  BY <1>1 DEF IInv, LoopsOK, IdsLoop, EntitiesLoop, DistinctTo, SoundTo
<1> QED
  BY <1>2, <1>3 DEF IInv

LEMMA StepKeeps == IInv /\ [Next]_vars => IInv'
BY StutterKeeps, CheckVersionKeeps, InsertIdKeeps, DuplicateIdKeeps, IdsDoneKeeps, EmptyIdKeeps,
     CheckLimitKeeps, NextEntityKeeps, AcceptKeeps DEF Next, Terminated

LEMMA Invariant == Spec => []IInv
BY InitInv, StepKeeps, PTL DEF Spec

-----------------------------------------------------------------------------
(* The theorems *)

\* The type invariant of the loops.
THEOREM TypeCorrect == Spec => []TypeOK
<1>1. IInv => TypeOK
  BY DEF IInv
<1> QED
  BY <1>1, Invariant, PTL

LEMMA DistinctAll == ASSUME TypeOK PROVE Distinct <=> DistinctTo(Len(Entities))
BY EntitiesSeq DEF Distinct, DistinctTo

\* Validation accepts exactly the sound policies (config.rs:273-324).
THEOREM ExactAcceptance == Spec => []AcceptsExactly
<1>1. IInv => AcceptsExactly
  <2> SUFFICES ASSUME IInv, pc = "done"
               PROVE  result = "ok" <=> /\ policy.version # NoText
                                        /\ Distinct
                                        /\ \A n \in DOMAIN Entities : Sound(Entities[n])
    BY DEF AcceptsExactly
  <2>1. TypeOK
    BY DEF IInv
  <2>2. result \in {"ok", "no version", "duplicate id", "empty id", "zero limit"}
    BY DEF IInv, TypeOK, ResultOK
  <2>3. /\ Distinct <=> DistinctTo(Len(Entities))
        /\ (\A n \in DOMAIN Entities : Sound(Entities[n])) <=> SoundTo(Len(Entities))
    BY <2>1, DistinctAll, Position DEF SoundTo
  <2>4. i \in 1..Len(Entities) /\ ~Sound(Entities[i]) => ~SoundTo(Len(Entities))
    BY DEF SoundTo
  <2> QED
    BY <2>2, <2>3, <2>4 DEF IInv, ResultOK
<1> QED
  BY <1>1, Invariant, PTL

\* A policy is refused for its fault, as a function of the policy alone: which
\* error is returned does not depend on the order of the hash map.
THEOREM DeterministicError == Spec => []ErrorIsDeterministic
<1>1. IInv => ErrorIsDeterministic
  <2> SUFFICES ASSUME IInv, result \notin {"none", "ok"} PROVE result = Fault
    BY DEF ErrorIsDeterministic
  <2>1. /\ result \in {"no version", "duplicate id", "empty id", "zero limit"}
        /\ Distinct <=> DistinctTo(Len(Entities))
    BY DistinctAll DEF IInv, TypeOK
  <2>2. CASE result = "no version"
    <3>1. policy.version = NoText
      BY <2>2 DEF IInv, ResultOK
    <3> QED
      BY <2>2, <3>1 DEF Fault
  <2>3. CASE result = "duplicate id"
    <3>1. policy.version # NoText /\ ~Distinct
      BY <2>1, <2>3 DEF IInv, ResultOK
    <3> QED
      BY <2>3, <3>1 DEF Fault
  <2>4. CASE result \in {"empty id", "zero limit"}
    <3>1. /\ policy.version # NoText /\ Distinct
          /\ i \in 1..Len(Entities) /\ ~Sound(Entities[i]) /\ SoundTo(i - 1)
          /\ Entities[i].id = NoText <=> result = "empty id"
      BY <2>1, <2>4 DEF IInv, ResultOK
    <3>2. FirstUnsound = {i}
      <4>1. i \in FirstUnsound
        <5>1. i \in DOMAIN Entities
          BY <3>1, Position
        <5> QED
          BY <3>1, <5>1 DEF FirstUnsound, SoundTo
      <4>2. ASSUME NEW n \in FirstUnsound PROVE n = i
        <5>1. /\ n \in 1..Len(Entities) /\ ~Sound(Entities[n])
              /\ \A m \in 1..n - 1 : Sound(Entities[m])
          BY Position DEF FirstUnsound
        <5>2. n \notin 1..i - 1 /\ i \notin 1..n - 1
          BY <3>1, <5>1 DEF SoundTo
        <5>3. n \in Nat /\ i \in Nat /\ 1 <= n /\ 1 <= i
          <6>1. i \in 1..Len(Entities) /\ n \in 1..Len(Entities) /\ Len(Entities) \in Nat
            BY <3>1, <5>1, Position
          <6> HIDE DEF Entities
          <6> QED
            BY <6>1
        <5> QED
          BY <5>2, <5>3
      <4> QED
        BY <4>1, <4>2
    <3>3. CASE result = "empty id"
      <4>1. /\ \E n \in FirstUnsound : Entities[n].id = NoText
            /\ ~\E n \in FirstUnsound : Entities[n].id # NoText
        BY <3>1, <3>2, <3>3
      <4> QED
        BY <3>1, <3>3, <4>1 DEF Fault
    <3>4. CASE result = "zero limit"
      <4>1. /\ \E n \in FirstUnsound : Entities[n].id # NoText
            /\ ~\E n \in FirstUnsound : Entities[n].id = NoText
        BY <3>1, <3>2, <3>4
      <4> QED
        BY <3>1, <3>4, <4>1 DEF Fault
    <3> QED
      BY <2>4, <3>3, <3>4
  <2> QED
    BY <2>1, <2>2, <2>3, <2>4
<1> QED
  BY <1>1, Invariant, PTL

\* A lookup on an accepted policy finds the one entity of that id
\* (config.rs:299-301).
THEOREM UnambiguousLookup == Spec => []LookupUnambiguous
<1>1. IInv => LookupUnambiguous
  <2> SUFFICES ASSUME IInv, result = "ok", NEW n \in DOMAIN Entities
               PROVE  find_entity(Entities[n].id) = Entities[n]
    BY DEF LookupUnambiguous
  <2> DEFINE id == Entities[n].id
  <2>1. Len(Entities) \in Nat /\ DOMAIN Entities = 1..Len(Entities) /\ DistinctTo(Len(Entities))
    BY EntitiesSeq DEF IInv, ResultOK
  <2>2. Matches(id) = {n}
    BY <2>1 DEF Matches, DistinctTo
  <2>3. n <= n
    BY <2>1
  <2>4. (CHOOSE k \in Matches(id) : \A m \in Matches(id) : k <= m) = n
    BY <2>2, <2>3
  <2> QED
    BY <2>4 DEF find_entity
<1> QED
  BY <1>1, Invariant, PTL

=============================================================================
