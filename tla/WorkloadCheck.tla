--------------------------- MODULE WorkloadCheck ---------------------------
(***************************************************************************)
(* The two loops of enforcer.rs, one iteration per step.  extract_imports  *)
(* walks the payloads of the module and collects its imports; then         *)
(* check_workload walks the imports, looks up the bucket of each and stops *)
(* at the first one the policy did not grant.  The verdict must be the one *)
(* the operator check_workload of module Workload defines, which is the    *)
(* form the session service (module Sessions) uses.                        *)
(***************************************************************************)
EXTENDS Integers, Sequences, Workload

CONSTANTS
  Workloads,   \* the payload streams a caller may submit
  Grants       \* the capability sets they are checked against

ASSUME WorkloadsAssumption == Workloads \subseteq Seq(Payload)
ASSUME GrantsAssumption    == Grants \subseteq CapabilitiesConfig

VARIABLES
  wasm, granted,   \* the arguments
  pc,              \* "extract", "check" or "done"
  i,               \* the next payload of extract_imports
  imports,         \* the imports collected so far
  j,               \* the next import of check_workload
  checked,         \* the (import, bucket) pairs that passed
  result           \* "none" until the call returns

vars == <<wasm, granted, pc, i, imports, j, checked, result>>

Init ==
  /\ wasm \in Workloads /\ granted \in Grants
  /\ pc = "extract" /\ i = 1 /\ imports = <<>>
  /\ j = 1 /\ checked = <<>> /\ result = "none"

Return(verdict) == pc' = "done" /\ result' = verdict

-----------------------------------------------------------------------------
(* extract_imports *)

\* Mutant of Collected: a section replaces the imports of the one before.
CollectedLastSection(p) == p.entries

\* Mutant of Collected: a section is put in front of those before it.
CollectedInFront(p) == p.entries \o imports

Collected(p) == imports \o p.entries

ReadPayload ==
  /\ pc = "extract" /\ i <= Len(wasm)
  /\ ~Broken(wasm[i])
  /\ imports' = Collected(wasm[i])
  /\ i' = i + 1
  /\ UNCHANGED <<wasm, granted, pc, j, checked, result>>

RejectPayload ==
  /\ pc = "extract" /\ i <= Len(wasm)
  /\ Broken(wasm[i])
  /\ Return("invalid")
  /\ UNCHANGED <<wasm, granted, i, imports, j, checked>>

EndOfModule ==
  /\ pc = "extract" /\ i > Len(wasm)
  /\ pc' = "check"
  /\ UNCHANGED <<wasm, granted, i, imports, j, checked, result>>

-----------------------------------------------------------------------------
(* check_workload *)

Bucket(imp) == import_to_capability(imp)

SkipBenign ==
  /\ pc = "check" /\ j <= Len(imports)
  /\ Bucket(imports[j]) = Benign
  /\ j' = j + 1
  /\ UNCHANGED <<wasm, granted, pc, i, imports, checked, result>>

\* Mutant of Listed: a pair is listed once, as in a set.
ListedOnce(pair) ==
  IF \E k \in DOMAIN checked : checked[k] = pair THEN checked ELSE Append(checked, pair)

Listed(pair) == Append(checked, pair)

AcceptImport ==
  /\ pc = "check" /\ j <= Len(imports)
  /\ Bucket(imports[j]) # Benign
  /\ has_capability(granted, Bucket(imports[j]))
  /\ checked' = Listed(<<imports[j], Bucket(imports[j])>>)
  /\ j' = j + 1
  /\ UNCHANGED <<wasm, granted, pc, i, imports, result>>

RejectImport ==
  /\ pc = "check" /\ j <= Len(imports)
  /\ Bucket(imports[j]) # Benign
  /\ ~has_capability(granted, Bucket(imports[j]))
  /\ Return("denied")
  /\ UNCHANGED <<wasm, granted, i, imports, j, checked>>

Finish ==
  /\ pc = "check" /\ j > Len(imports)
  /\ Return("ok")
  /\ UNCHANGED <<wasm, granted, i, imports, j, checked>>

Terminated == pc = "done" /\ UNCHANGED vars

Next ==
  \/ ReadPayload \/ RejectPayload \/ EndOfModule
  \/ SkipBenign \/ AcceptImport \/ RejectImport \/ Finish
  \/ Terminated

Spec == Init /\ [][Next]_vars

-----------------------------------------------------------------------------
(* Properties *)

\* Every variable has its type; the cursors stay within their sequences.
TypeOK ==
  /\ wasm \in Workloads /\ granted \in Grants
  /\ pc \in {"extract", "check", "done"}
  /\ i \in 1..Len(wasm) + 1
  /\ imports \in Seq(Import)
  /\ j \in 1..Len(imports) + 1
  /\ checked \in Seq(Import \X Capability)
  /\ result \in {"none", "invalid", "denied", "ok"}

\* The loops compute the verdict of the operator check_workload: a broken
\* module is "invalid" wherever the damage is and whatever it imports, a sound
\* one is "denied" iff any import of any section needs an ungranted bucket.
VerdictCorrect ==
  pc = "done" => result = check_workload(wasm, granted)

\* The entries of a module, each by its payload and its place in the section.
Places(w) == UNION {{<<k, e>> : e \in DOMAIN w[k].entries} : k \in DOMAIN w}

ImportAt(w, place) == w[place[1]].entries[place[2]]

Before(p, q) == p[1] < q[1] \/ (p[1] = q[1] /\ p[2] < q[2])

\* A denial names the first offending import of the module (enforcer.rs:94
\* "listing the first violation"): one that the grant does not cover, while
\* every import the module declares before it, in its section or in an earlier
\* one, is allowed.
FirstViolationReported ==
  result = "denied" =>
    \E p \in Places(wasm) :
      /\ imports[j] = ImportAt(wasm, p)
      /\ ~Allowed(ImportAt(wasm, p), granted)
      /\ \A q \in Places(wasm) : Before(q, p) => Allowed(ImportAt(wasm, q), granted)

Needing(w) == {p \in Places(w) : Bucket(ImportAt(w, p)) # Benign}

\* The pairs returned on success are exactly the imports that need a bucket,
\* in the order the module declares them (enforcer.rs:95-96 "useful for
\* audit"): at[c] is the entry the pair c is about; the entries come in module
\* order, so none is listed twice, and none that needs a bucket is left out,
\* not at a section boundary either.
CheckedInOrder ==
  result = "ok" =>
    \E at \in [DOMAIN checked -> Needing(wasm)] :
      /\ \A c \in DOMAIN checked :
           checked[c] = <<ImportAt(wasm, at[c]), Bucket(ImportAt(wasm, at[c]))>>
      /\ \A c, d \in DOMAIN checked : c < d => Before(at[c], at[d])
      /\ \A p \in Needing(wasm) : \E c \in DOMAIN checked : at[c] = p

\* The HAL interfaces a workload names, in either spelling.
HalInterfaces(w) ==
  {imp.module.iface : imp \in {m \in Imports(w) : m.module.ns \in {"elastic:hal", "bare"}}}

\* enforcer.rs:93 "Verify that every WASM import maps to a capability the
\* policy granted", for the HAL interfaces of enforcer.rs:52: an admitted
\* workload was granted every HAL interface it imports.
EveryHalImportGranted ==
  result = "ok" => HalInterfaces(wasm) \subseteq list_granted(granted)

\* What is left of it: an admitted workload was granted every HAL interface it
\* imports under a name import_to_capability knows (enforcer.rs:52-75).
KnownHalImportsGranted ==
  result = "ok" =>
    \A imp \in Imports(wasm) :
      \/ imp.module.ns = "elastic:hal"
      \/ imp.module.ns = "bare" /\ imp.module.iface \in BareNames
      => imp.module.iface \in list_granted(granted)

=============================================================================
