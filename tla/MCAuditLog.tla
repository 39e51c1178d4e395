----------------------------- MODULE MCAuditLog -----------------------------
(* AuditLog with two callers, two entities, and pages of none, one, two and  *)
(* more events than there are.                                               *)
EXTENDS AuditLog, TLC

CONSTANTS app, app2, t1, t2

MCEntityId == {app, app2}
MCTask     == {t1, t2}
MCLimits   == {0, 1, 2, 9}

Renaming == Permutations(MCEntityId) \cup Permutations(MCTask)

=============================================================================
