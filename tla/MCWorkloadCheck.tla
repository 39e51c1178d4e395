-------------------------- MODULE MCWorkloadCheck --------------------------
(***************************************************************************)
(* WorkloadCheck on every stream of at most two payloads and an end, whose *)
(* sections hold at most two entries, one sample import for each kind of   *)
(* rule.  A parse yields its end-of-module payload or an error last.       *)
(***************************************************************************)
EXTENDS WorkloadCheck, SequencesExt

ImportOf(ns, iface, name) == [module |-> [ns |-> ns, iface |-> iface], name |-> name]

SampleImports ==
  { ImportOf("preview1", "any", "file"),          \* storage
    ImportOf("wasi_crypto", "any", "other"),      \* crypto
    ImportOf("elastic:hal", "capabilities", "other"),
    ImportOf("bare", "gpu", "other"),
    ImportOf("user", "any", "other") }            \* no bucket

Sections == SeqOf(SampleImports \cup {BadImport}, 2)

Streams(payloads) ==
  {Append(s, last) : s \in SeqOf(payloads, 2), last \in {OtherPayload, ParseError}}

MCWorkloads ==
  Streams({ImportSection(s) : s \in Sections} \cup {OtherPayload})

MCGrants ==
  { all, none, [none EXCEPT !["storage"] = TRUE, !["crypto"] = TRUE],
    [all EXCEPT !["gpu"] = FALSE] }

\* A workload that names the HAL interface "capabilities" in either spelling,
\* for the run about the names import_to_capability recognises.
BareWorkloads ==
  Streams({ImportSection(<<ImportOf(ns, iface, "other")>>) :
             ns \in {"bare", "elastic:hal"}, iface \in Capability})

=============================================================================
