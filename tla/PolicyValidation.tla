-------------------------- MODULE PolicyValidation --------------------------
(***************************************************************************)
(* PolicyConfig::validate and EntityConfig::validate (config.rs:273-324),  *)
(* one loop iteration per step, and the lookups made on an accepted        *)
(* policy.  Every policy passes here before the service answers anything:  *)
(* when it is loaded (from_file, from_yaml) and again in                   *)
(* EnforcementService::new.  Only the fields validation reads are kept;    *)
(* rate_limits maps an interface to its operations_per_second.             *)
(***************************************************************************)
EXTENDS Integers, Sequences

CONSTANTS
  Version, EntityId, Interface,
  NoText,      \* the empty string, as a version or as an id
  Drafts       \* the parsed policies handed to validate

\* What serde yields for an entity and for a policy.
EntityDraft(e) ==
  /\ e.id \in EntityId \cup {NoText}
  /\ DOMAIN e.rate_limits \subseteq Interface
  /\ e.rate_limits \in [DOMAIN e.rate_limits -> Nat]

ASSUME DraftsAssumption ==
  \A d \in Drafts :
    /\ d.version \in Version \cup {NoText}
    /\ d.entities \in Seq({d.entities[n] : n \in DOMAIN d.entities})
    /\ \A n \in DOMAIN d.entities : EntityDraft(d.entities[n])
ASSUME NoTextAssumption == NoText \notin Version \cup EntityId

VARIABLES
  policy,
  pc,       \* "version", "ids", "entities" or "done"
  i,        \* the next entity of the current loop
  ids,      \* the HashSet of the ids seen
  limits,   \* the interfaces of entity i whose limit is still to be checked
  result    \* "none", "ok" or the error

vars == <<policy, pc, i, ids, limits, result>>

Entities == policy.entities

Init ==
  /\ policy \in Drafts
  /\ pc = "version" /\ i = 1 /\ ids = {} /\ limits = {} /\ result = "none"

Return(r) == pc' = "done" /\ result' = r

\* The interfaces with a limit of their own, for the entity at position n.
LimitsAt(n) == IF n \in DOMAIN Entities THEN DOMAIN Entities[n].rate_limits ELSE {}

-----------------------------------------------------------------------------
(* PolicyConfig::validate *)

CheckVersion ==
  /\ pc = "version"
  /\ IF policy.version = NoText
     THEN Return("no version")
     ELSE pc' = "ids" /\ UNCHANGED result
  /\ UNCHANGED <<policy, i, ids, limits>>

\* Mutant of Seen: an id is only compared with the one before it.
SeenPrevious(id) == {id}

\* The ids met once this one is inserted.
Seen(id) == ids \cup {id}

InsertId ==
  /\ pc = "ids" /\ i <= Len(Entities)
  /\ Entities[i].id \notin ids
  /\ ids' = Seen(Entities[i].id)
  /\ i' = i + 1
  /\ UNCHANGED <<policy, pc, limits, result>>

DuplicateId ==
  /\ pc = "ids" /\ i <= Len(Entities)
  /\ Entities[i].id \in ids
  /\ Return("duplicate id")
  /\ UNCHANGED <<policy, i, ids, limits>>

IdsDone ==
  /\ pc = "ids" /\ i > Len(Entities)
  /\ pc' = "entities" /\ i' = 1 /\ limits' = LimitsAt(1)
  /\ UNCHANGED <<policy, ids, result>>

-----------------------------------------------------------------------------
(* EntityConfig::validate, for entity i *)

EmptyId ==
  /\ pc = "entities" /\ i <= Len(Entities)
  /\ Entities[i].id = NoText
  /\ Return("empty id")
  /\ UNCHANGED <<policy, i, ids, limits>>

\* Mutant of IdAccepted: the limits are walked whatever the id is.
IdUnchecked == TRUE

IdAccepted == Entities[i].id # NoText

\* Mutant of Remaining: only one limit of the entity is looked at.
RemainingNone(interface) == {}

\* The limits still to be looked at after this one.
Remaining(interface) == limits \ {interface}

\* rate_limits is a HashMap: its entries come in any order.
CheckLimit ==
  /\ pc = "entities" /\ i <= Len(Entities)
  /\ IdAccepted
  /\ \E interface \in limits :
       IF Entities[i].rate_limits[interface] = 0
       THEN Return("zero limit") /\ UNCHANGED limits
       ELSE limits' = Remaining(interface) /\ UNCHANGED <<pc, result>>
  /\ UNCHANGED <<policy, i, ids>>

\* Mutant of NextLimits: the limits of the previous entity are walked again.
NextLimitsOld == LimitsAt(i)

NextLimits == LimitsAt(i + 1)

NextEntity ==
  /\ pc = "entities" /\ i <= Len(Entities)
  /\ Entities[i].id # NoText
  /\ limits = {}
  /\ i' = i + 1 /\ limits' = NextLimits
  /\ UNCHANGED <<policy, pc, ids, result>>

Accept ==
  /\ pc = "entities" /\ i > Len(Entities)
  /\ Return("ok")
  /\ UNCHANGED <<policy, i, ids, limits>>

Terminated == pc = "done" /\ UNCHANGED vars

Next ==
  \/ CheckVersion \/ InsertId \/ DuplicateId \/ IdsDone
  \/ EmptyId \/ CheckLimit \/ NextEntity \/ Accept
  \/ Terminated

Spec == Init /\ [][Next]_vars

-----------------------------------------------------------------------------
(* Lookups on a loaded policy *)

\* find_entity: the first entity with that id.
Matches(id)     == {n \in DOMAIN Entities : Entities[n].id = id}
find_entity(id) ==
  Entities[CHOOSE n \in Matches(id) : \A m \in Matches(id) : n <= m]

-----------------------------------------------------------------------------
(* Properties *)

\* Every variable has its type.
TypeOK ==
  /\ policy \in Drafts
  /\ pc \in {"version", "ids", "entities", "done"}
  /\ i \in 1..Len(Entities) + 1
  /\ ids \subseteq EntityId \cup {NoText}
  /\ limits \subseteq LimitsAt(i)
  /\ result \in {"none", "ok", "no version", "duplicate id", "empty id", "zero limit"}

Distinct ==
  \A m, n \in DOMAIN Entities : Entities[m].id = Entities[n].id => m = n

Sound(e) == e.id # NoText /\ \A f \in DOMAIN e.rate_limits : e.rate_limits[f] # 0

\* Validation accepts exactly the policies that have a version, ids that are
\* distinct and not empty, and no explicit limit of zero.
AcceptsExactly ==
  pc = "done" =>
    (result = "ok" <=> /\ policy.version # NoText
                       /\ Distinct
                       /\ \A n \in DOMAIN Entities : Sound(Entities[n]))

\* The first entity with a fault, if there is one.
FirstUnsound ==
  {n \in DOMAIN Entities :
     ~Sound(Entities[n]) /\ \A m \in 1..n - 1 : Sound(Entities[m])}

\* The fault of a policy, as a function of the policy alone.
Fault ==
  CASE policy.version = NoText -> "no version"
    [] policy.version # NoText /\ ~Distinct -> "duplicate id"
    [] policy.version # NoText /\ Distinct /\ \E n \in FirstUnsound : Entities[n].id = NoText
         -> "empty id"
    [] policy.version # NoText /\ Distinct /\ \E n \in FirstUnsound : Entities[n].id # NoText
         -> "zero limit"
    [] OTHER -> "none"

\* A policy with several faults is always refused for the same one: its version
\* before its duplicates, these before the first faulty entity, whose empty id
\* comes before its limits (config.rs:273-324).  In whatever order the hash map
\* of limits is walked (config.rs:314), the kind of the error does not change.
ErrorIsDeterministic == result \notin {"none", "ok"} => result = Fault

\* In an accepted policy a lookup by id finds the one entity of that id, so the
\* order of the list does not matter and no entity is shadowed by another.
LookupUnambiguous ==
  result = "ok" => \A n \in DOMAIN Entities : find_entity(Entities[n].id) = Entities[n]

=============================================================================
