--------------------------- MODULE MCRateLimiter ---------------------------
(***************************************************************************)
(* RateLimiter with three pairs.  "tenant:a" on "gpu" and "tenant" on      *)
(* "a:gpu" are joined to the same key and differ in their limits; "tenant" *)
(* on "gpu" shares a name with each and a key with neither.                *)
(***************************************************************************)
EXTENDS RateLimiter, TLC

Joined    == <<<<"tenant", "a">>, <<"gpu">>>>
JoinedToo == <<<<"tenant">>, <<"a", "gpu">>>>
Gpu       == <<<<"tenant">>, <<"gpu">>>>

MCPair == {Joined, JoinedToo, Gpu}

Limits(ops) == [operations_per_second |-> ops, burst_size |-> 2 * ops]

MCRateLimits == Joined :> Limits(2) @@ Gpu :> Limits(2)

Back == {-1, -2}

=============================================================================
