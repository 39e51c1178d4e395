---------------------------- MODULE PolicyConfig ----------------------------
(***************************************************************************)
(* The policy data of config.rs: capability flags, entities and the        *)
(* lookups the service makes on a loaded policy.                           *)
(*                                                                         *)
(* A CapabilitiesConfig is a struct of eleven booleans; here it is a       *)
(* function from the capability names to BOOLEAN.  A policy that passed    *)
(* validation has no two entities with one id (module PolicyValidation),   *)
(* so its entities are a set and the first match of find_entity is the     *)
(* only one.                                                               *)
(***************************************************************************)

Capability ==
  {"platform", "capabilities", "crypto", "random", "clock", "storage",
   "sockets", "gpu", "resources", "events", "communication"}

CapabilitiesConfig == [Capability -> BOOLEAN]

\* CapabilitiesConfig::all and ::none.
all  == [c \in Capability |-> TRUE]
none == [c \in Capability |-> FALSE]

\* An unknown name is never granted.
has_capability(caps, cap) == cap \in Capability /\ caps[cap]

\* The names of the flags that are set (the order of the Vec is left out).
list_granted(caps) == {c \in Capability : caps[c]}

-----------------------------------------------------------------------------

\* EnforcementMode: Manual, or Auto with the name of a model.
ManualMode      == [kind |-> "manual"]
AutoMode(model) == [kind |-> "auto", model |-> model]

EnforcementMode(Model) == {ManualMode} \cup {AutoMode(m) : m \in Model}

EntityConfig(EntityId, Model) ==
  [id : EntityId, mode : EnforcementMode(Model),
   capabilities : CapabilitiesConfig]

PolicyConfigs(EntityId, Model) ==
  [strict_mode : BOOLEAN, entities : SUBSET EntityConfig(EntityId, Model)]

HasEntity(policy, id)   == \E e \in policy.entities : e.id = id
find_entity(policy, id) == CHOOSE e \in policy.entities : e.id = id

=============================================================================
