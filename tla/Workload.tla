------------------------------ MODULE Workload ------------------------------
(***************************************************************************)
(* What a Wasm workload imports and which capability each import needs     *)
(* (enforcer.rs).  The bytes are abstracted to the stream of payloads the  *)
(* parser yields: import sections, payloads check_workload ignores, and    *)
(* the point where parsing fails.  An import is a module name and a field  *)
(* name; names import_to_capability treats alike are one value here.       *)
(***************************************************************************)
EXTENDS Sequences, PolicyConfig

(***************************************************************************)
(* Module names.  "preview1" stands for wasi_snapshot_preview1 and         *)
(* wasi_unstable, "wasi_crypto" for every name with the prefix wasi_crypto *)
(* or wasi-crypto, "wasi_sockets" for wasi_sockets and every name with the *)
(* prefix wasi:sockets, "user" for names no rule mentions.  An interface   *)
(* of the HAL is imported as "elastic:hal/<iface>" or as the bare name.    *)
(***************************************************************************)
HalModule(ns)   == [ns : {ns}, iface : Capability]
OtherModule(ns) == [ns |-> ns, iface |-> "any"]

ModuleName ==
  HalModule("elastic:hal") \cup HalModule("bare") \cup
    {OtherModule(ns) : ns \in {"preview1", "wasi_crypto", "wasi_sockets", "user"}}

\* Families of preview1 functions; "other" is any name without a bucket.
Preview1Bucket ==
  [sock |-> "sockets", clock |-> "clock", random_get |-> "random",
   file |-> "storage", process |-> "platform", poll |-> "events"]

FieldName == DOMAIN Preview1Bucket \cup {"other"}

Import == [module : ModuleName, name : FieldName]

Benign == "benign"   \* import_to_capability returned None

\* The HAL interfaces matched under their bare name as well.
BareNames == Capability \ {"capabilities"}

(***************************************************************************)
(* import_to_capability: the bucket an import needs, or Benign.            *)
(***************************************************************************)
import_to_capability(imp) ==
  CASE imp.module.ns = "preview1" /\ imp.name \in DOMAIN Preview1Bucket
                                       -> Preview1Bucket[imp.name]
    [] imp.module.ns = "wasi_crypto"   -> "crypto"
    [] imp.module.ns = "wasi_sockets"  -> "sockets"
    [] imp.module.ns = "elastic:hal"   -> imp.module.iface
    [] imp.module.ns = "bare" /\ imp.module.iface \in BareNames
                                       -> imp.module.iface
    [] OTHER                           -> Benign

Buckets == Capability \cup {Benign}

-----------------------------------------------------------------------------
(***************************************************************************)
(* Payload streams.  BadImport is an entry the section reader rejects.     *)
(***************************************************************************)
BadImport == [module |-> OtherModule("unreadable"), name |-> "other"]

ImportSection(entries) == [kind |-> "imports", entries |-> entries]
OtherPayload           == [kind |-> "other",   entries |-> <<>>]
ParseError             == [kind |-> "error",   entries |-> <<>>]

Payload ==
  [kind : {"imports"}, entries : Seq(Import \cup {BadImport})]
    \cup {OtherPayload, ParseError}

\* Mutant of Broken: unreadable entries are kept.
BrokenParseOnly(p) == p.kind = "error"

\* A payload that makes extract_imports return an error.
Broken(p) ==
  \/ p.kind = "error"
  \/ \E e \in DOMAIN p.entries : p.entries[e] = BadImport

Malformed(wasm) == \E k \in DOMAIN wasm : Broken(wasm[k])

\* Every import the module declares, whatever section it stands in.
Imports(wasm) ==
  UNION {{wasm[k].entries[e] : e \in DOMAIN wasm[k].entries} : k \in DOMAIN wasm}

\* The workload needs nothing that was not granted.
Allowed(imp, granted) ==
  \/ import_to_capability(imp) = Benign
  \/ has_capability(granted, import_to_capability(imp))

(***************************************************************************)
(* The verdict of check_workload.  The whole module is parsed before the   *)
(* first import is compared with the policy, so a malformed module is      *)
(* "invalid" even if it also imports something denied.  Module             *)
(* WorkloadCheck runs the loops and shows that this is what they compute.  *)
(***************************************************************************)
check_workload(wasm, granted) ==
  CASE Malformed(wasm)                                    -> "invalid"
    [] /\ ~Malformed(wasm)
       /\ \E imp \in Imports(wasm) : ~Allowed(imp, granted) -> "denied"
    [] OTHER                                              -> "ok"

=============================================================================
