------------------------- MODULE MCPolicyValidation -------------------------
(* PolicyValidation on every policy of at most three entities drawn from a   *)
(* set with an empty id, two names, and limits that are absent, zero or one. *)
EXTENDS PolicyValidation, SequencesExt

CONSTANTS a, b, v1, clock, gpu

MCVersion   == {v1}
MCEntityId  == {a, b}
MCInterface == {clock, gpu}

EntityOf(id, limits_) == [id |-> id, rate_limits |-> limits_]

MCLimitMaps == {[f \in {} |-> 0], [f \in {clock} |-> 1], [f \in {clock, gpu} |-> 1],
                [f \in {clock, gpu} |-> IF f = gpu THEN 0 ELSE 1]}

MCDrafts ==
  [version : {v1, NoText},
   entities : SeqOf({EntityOf(id, m) : id \in {a, b, NoText}, m \in MCLimitMaps}, 3)]

=============================================================================
