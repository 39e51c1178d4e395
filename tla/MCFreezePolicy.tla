--------------------------- MODULE MCFreezePolicy ---------------------------
(***************************************************************************)
(* FreezePolicy with two entities, verdicts that grant nothing, two and    *)
(* three capabilities, a workload that reads files, the same workload      *)
(* tampered with to open sockets, one that imports nothing and one that    *)
(* does not parse.                                                         *)
(***************************************************************************)
EXTENDS FreezePolicy, FiniteSets

CONSTANTS frozen_app, other_app

MCEntityId == {frozen_app, other_app}

Flags(caps) == [c \in Capability |-> c \in caps]

MCVerdicts == {none, Flags({"storage", "events"}), Flags({"sockets", "storage", "clock"})}

Preview1(name) == [module |-> OtherModule("preview1"), name |-> name]

Original == <<ImportSection(<<Preview1("file"), Preview1("poll")>>), OtherPayload>>
Tampered == <<ImportSection(<<Preview1("file"), Preview1("poll"), Preview1("sock")>>), OtherPayload>>
Trivial  == <<OtherPayload>>
Damaged  == <<ParseError>>

MCWasm == {Original, Tampered, Trivial, Damaged}

=============================================================================
