------------------------------ MODULE MCServer ------------------------------
(***************************************************************************)
(* Server with a policy of one auto entity and one of two manual entities, *)
(* two connections, two sessions, and two starts of the process.           *)
(***************************************************************************)
EXTENDS MCSessions, Server

MCServerEntityId == {manual_entity, auto_entity}

AutoPolicy ==
  [strict_mode |-> TRUE, entities |-> {Of(auto_entity, AutoMode(gpt), {"clock"})}]

MCServerPolicies == {AutoPolicy, EditedPolicy}

MCNone == {}

=============================================================================
