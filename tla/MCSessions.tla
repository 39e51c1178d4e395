----------------------------- MODULE MCSessions -----------------------------
(***************************************************************************)
(* Sessions with a manual entity, an auto entity and a name no policy may  *)
(* know, two workloads (one needs storage, one crypto and gpu), and two    *)
(* policies that differ in what they grant and in the mode of an entity.   *)
(***************************************************************************)
EXTENDS Sessions

CONSTANTS manual_entity, auto_entity, stranger, gpt, t1, t2

MCEntityId == {manual_entity, auto_entity, stranger}
MCModel    == {gpt}
MCTask     == {t1, t2}

Flags(caps) == [c \in Capability |-> c \in caps]

Of(id, mode, caps) == [id |-> id, mode |-> mode, capabilities |-> Flags(caps)]

FirstPolicy ==
  [strict_mode |-> TRUE,
   entities |-> {Of(manual_entity, ManualMode, {"storage"}),
                 Of(auto_entity, AutoMode(gpt), {"clock"})}]

EditedPolicy ==
  [strict_mode |-> FALSE,
   entities |-> {Of(manual_entity, ManualMode, {"crypto", "gpu"}),
                 Of(auto_entity, ManualMode, {"storage", "crypto"})}]

MCPolicies == {FirstPolicy, EditedPolicy}

MCVerdicts == {Flags({"storage"}), all}

ImportOf(ns, iface, name) == [module |-> [ns |-> ns, iface |-> iface], name |-> name]

FileWorkload ==
  <<ImportSection(<<ImportOf("user", "any", "other"), ImportOf("preview1", "any", "file")>>),
    OtherPayload>>

CryptoWorkload ==
  <<ImportSection(<<ImportOf("wasi_crypto", "any", "other")>>),
    ImportSection(<<ImportOf("bare", "gpu", "other")>>), OtherPayload>>

MCWasm == {FileWorkload, CryptoWorkload}

=============================================================================
