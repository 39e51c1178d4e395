--------------------------- MODULE AccessControl ---------------------------
(***************************************************************************)
(* What the session service promises, without tasks, clocks or locks: a    *)
(* grant is given once, to an entity of the loaded policy, for exactly the *)
(* capabilities its mode prescribes and only if they cover the workload;   *)
(* it is never changed or withdrawn until the process restarts, which      *)
(* forgets every grant and may load another policy.  Module Sessions       *)
(* implements this.                                                        *)
(***************************************************************************)
EXTENDS Integers, Workload

CONSTANTS
  EntityId,   \* the names callers ask a session for
  Wasm,       \* the workloads they may submit
  NoWasm,     \* no workload was submitted
  Policies,   \* the policies a deployment may load
  Verdicts    \* the capability sets an analyzer may answer

VARIABLES
  policy,
  grants      \* a set of [id, entity, capabilities, workload]

vars == <<policy, grants>>

\* The capability sets the policy prescribes for an entity: the YAML block of
\* a manual entity, whatever the analyzer says for an auto entity.
Prescribed(entity) ==
  IF entity.mode.kind = "manual" THEN {entity.capabilities} ELSE Verdicts

\* Auto entities are granted nothing without a workload; a workload is granted
\* a session only if the grant covers every import it declares.
Acceptable(entity, caps, w) ==
  IF w = NoWasm THEN entity.mode.kind = "manual"
                ELSE check_workload(w, caps) = "ok"

\* g is a grant policy p allows.
Legitimate(p, g) ==
  \E entity \in p.entities : \E caps \in Prescribed(entity) :
    /\ g.entity = entity.id
    /\ g.workload \in Wasm \cup {NoWasm}
    /\ Acceptable(entity, caps, g.workload)
    /\ g.capabilities = list_granted(caps)

Init == policy \in Policies /\ grants = {}

Grant ==
  \E g \in grants' :
    /\ Legitimate(policy, g)
    /\ \A h \in grants : h.id # g.id
    /\ grants' = grants \cup {g}
    /\ UNCHANGED policy

Restart == policy' \in Policies /\ grants' = {}

Next == Grant \/ Restart

Spec == Init /\ [][Next]_vars

=============================================================================
