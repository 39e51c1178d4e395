---------------------------- MODULE FreezePolicy ----------------------------
(***************************************************************************)
(* A verdict frozen into a policy file (examples/freeze_policy.rs) and the *)
(* workloads run against that file (examples/run_workload.rs, with         *)
(* PolicyConfig::from_file).  The freezer truncates the file and writes    *)
(* the policy into it; it may be killed, or find the disk full, at any     *)
(* point, and a run may load the file at any point.                        *)
(*                                                                         *)
(* A file is the lines written so far, comments left out: a head of five   *)
(* lines (version, entities, id, description, capabilities) followed by a  *)
(* line for each capability, or by braces if there is none.  A torn file   *)
(* ends within the line after those.  What serde_yaml makes of a key       *)
(* without a value, or of a torn line, is left open where it may either    *)
(* refuse the file or take the key for absent.                             *)
(***************************************************************************)
EXTENDS Integers, Workload

CONSTANTS
  EntityId,   \* the ids policies are frozen for and runs name
  NoText,     \* the empty id
  Wasm,       \* the workloads, original or tampered with
  Verdicts    \* what the analyzer may answer

ASSUME VerdictsAssumption == Verdicts \subseteq CapabilitiesConfig

VARIABLES
  file,      \* the policy file
  freezer,   \* the process that freezes a verdict
  runner,    \* the process that runs a workload
  \* History variables: read by properties only.
  freeze,    \* the freeze that last opened the file
  whole      \* that freeze wrote all of it

vars == <<file, freezer, runner, freeze, whole>>

HeadLines == 5

Empty == [head |-> 0, id |-> NoText, caps |-> {}, braces |-> FALSE, torn |-> FALSE]

Idle                == [at |-> "idle"]
Analyzing(e)        == [at |-> "analyze", entity |-> e]
Writing(e, caps)    == [at |-> "write", entity |-> e, granted |-> caps]
Loaded(p, e, f, ok) == [at |-> "loaded", policy |-> p, entity |-> e, freeze |-> f, whole |-> ok]
Ended(verdict, w, r) ==
  [at |-> verdict, policy |-> r.policy, entity |-> r.entity, freeze |-> r.freeze,
   whole |-> r.whole, wasm |-> w]

\* The workload matters to the analyzer only.
FreezeOf(e, v) == [entity |-> e, granted |-> list_granted(v)]

Init ==
  /\ file = Empty /\ freezer = Idle /\ runner = Idle
  /\ freeze = FreezeOf(NoText, none) /\ whole = FALSE

-----------------------------------------------------------------------------
(* freeze_policy *)

Freeze(e) ==
  /\ freezer.at = "idle"
  /\ freezer' = Analyzing(e)
  /\ UNCHANGED <<file, runner, freeze, whole>>

\* No verdict: the file is not touched.
NoVerdict ==
  /\ freezer.at = "analyze"
  /\ freezer' = Idle
  /\ UNCHANGED <<file, runner, freeze, whole>>

\* Mutant of Opened: the file is written over without being truncated.
OpenedInPlace == [file EXCEPT !.head = 0, !.torn = FALSE]

\* std::fs::write truncates the file first.
Opened == Empty

\* Mutant of Granted: a flag list_granted forgets.
GrantedButEvents(v) == list_granted(v) \ {"events"}

\* The capabilities rendered.
Granted(v) == list_granted(v)

\* There is one freezer: two that write one path at once are not modelled.
Open ==
  /\ freezer.at = "analyze"
  /\ \E v \in Verdicts :
       /\ freezer' = Writing(freezer.entity, Granted(v))
       /\ freeze' = FreezeOf(freezer.entity, v)
  /\ file' = Opened /\ whole' = FALSE
  /\ UNCHANGED runner

\* The third line of the head holds the id.
WriteHead ==
  /\ freezer.at = "write" /\ file.head < HeadLines
  /\ file' = [file EXCEPT !.head = @ + 1,
                          !.id = IF file.head = 2 THEN freezer.entity ELSE @]
  /\ UNCHANGED <<freezer, runner, freeze, whole>>

\* The lines come in the order of list_granted, which no reader depends on.
WriteCapability ==
  /\ freezer.at = "write" /\ file.head = HeadLines
  /\ \E c \in freezer.granted \ file.caps : file' = [file EXCEPT !.caps = @ \cup {c}]
  /\ UNCHANGED <<freezer, runner, freeze, whole>>

WriteBraces ==
  /\ freezer.at = "write" /\ file.head = HeadLines
  /\ freezer.granted = {} /\ ~file.braces
  /\ file' = [file EXCEPT !.braces = TRUE]
  /\ UNCHANGED <<freezer, runner, freeze, whole>>

Complete ==
  /\ file.head = HeadLines /\ freezer.granted \subseteq file.caps
  /\ freezer.granted = {} => file.braces

Close ==
  /\ freezer.at = "write" /\ Complete
  /\ freezer' = Idle /\ whole' = TRUE
  /\ UNCHANGED <<file, runner, freeze>>

\* Killed, or out of space: what was written stays.
Break ==
  /\ freezer.at = "write" /\ ~Complete
  /\ freezer' = Idle
  /\ \E torn \in BOOLEAN : file' = [file EXCEPT !.torn = torn]
  /\ UNCHANGED <<runner, freeze, whole>>

-----------------------------------------------------------------------------
(* PolicyConfig::from_file: parse and validate *)

\* Nothing the parser or validation insists on is missing.
Loadable == file.head >= 2 /\ (file.head >= 3 => file.id # NoText)

\* The parser may refuse: a required key or value is missing or cut.
Refusable ==
  \/ ~Loadable \/ file.torn \/ file.head = 2
  \/ file.head = HeadLines /\ file.caps = {} /\ ~file.braces

\* Capabilities that have no line are false, the mode is manual by default.
Frozen(f) ==
  [id |-> f.id, mode |-> ManualMode,
   capabilities |-> [c \in Capability |-> c \in f.caps]]

from_file ==
  [strict_mode |-> FALSE, entities |-> IF file.head < 3 THEN {} ELSE {Frozen(file)}]

-----------------------------------------------------------------------------
(* run_workload *)

Load(e) ==
  /\ runner.at = "idle" /\ Loadable
  /\ runner' = Loaded(from_file, e, freeze, whole)
  /\ UNCHANGED <<file, freezer, freeze, whole>>

LoadFails ==
  /\ runner.at = "idle" /\ Refusable
  /\ UNCHANGED vars

\* Mutant of Passes: the bytes are not handed to the service.
PassesUnchecked(w, p, e) == HasEntity(p, e)

\* create_session_with_wasm for the only mode a frozen policy has.
Passes(w, p, e) ==
  HasEntity(p, e) /\ check_workload(w, find_entity(p, e).capabilities) = "ok"

\* The bytes are read after the policy, and their imports listed first.
Run(w) ==
  /\ runner.at = "loaded"
  /\ runner' =
       CASE Malformed(w) -> Ended("unreadable", w, runner)
         [] ~Malformed(w) /\ Passes(w, runner.policy, runner.entity) ->
              Ended("pass", w, runner)
         [] OTHER -> Ended("denied", w, runner)
  /\ UNCHANGED <<file, freezer, freeze, whole>>

Exit ==
  /\ runner.at \in {"pass", "denied", "unreadable"}
  /\ runner' = Idle
  /\ UNCHANGED <<file, freezer, freeze, whole>>

-----------------------------------------------------------------------------

Next ==
  \/ \E e \in EntityId \cup {NoText} : Freeze(e)
  \/ NoVerdict \/ Open \/ WriteHead \/ WriteCapability \/ WriteBraces \/ Close \/ Break
  \/ \E e \in EntityId : Load(e)
  \/ LoadFails
  \/ \E w \in Wasm : Run(w)
  \/ Exit

Spec == Init /\ [][Next]_vars

-----------------------------------------------------------------------------
(* Properties *)

FreezeType ==
  [entity : EntityId \cup {NoText}, granted : SUBSET Capability]

FileType ==
  [head : 0..HeadLines, id : EntityId \cup {NoText}, caps : SUBSET Capability,
   braces : BOOLEAN, torn : BOOLEAN]

\* Every variable has its type, the runner's apart.
TypeOK ==
  /\ file \in FileType /\ freeze \in FreezeType /\ whole \in BOOLEAN
  /\ freezer \in {Idle}
       \cup [at : {"analyze"}, entity : EntityId \cup {NoText}]
       \cup [at : {"write"}, entity : EntityId \cup {NoText}, granted : SUBSET Capability]

\* However often it was rewritten and wherever a write stopped, the file is a
\* prefix of what the last freeze that opened it renders: never a mixture of
\* two verdicts, never an entity with another's capabilities.
FileIsOneFreeze ==
  /\ file.caps # {} \/ file.braces => file.head = HeadLines
  /\ file.head >= 3 => file.id = freeze.entity
  /\ file.caps \subseteq freeze.granted
  /\ file.braces => freeze.granted = {}

\* What workload w needs.
Needs(w) == {import_to_capability(imp) : imp \in Imports(w)} \ {Benign}

\* A run that passed names the entity of the freeze whose file it loaded, and
\* the workload, original or tampered with, needs nothing the model had not
\* granted the frozen one, even if the file was torn (record.sh:89-92).
RunsWithinVerdict ==
  runner.at = "pass" =>
    /\ runner.entity = runner.freeze.entity
    /\ Needs(runner.wasm) \subseteq runner.freeze.granted

\* record.sh:95 "Manual policies and frozen LLM verdicts behave the same way
\* at enforcement time": a run against a file that was written completely
\* passes exactly when the entity is the frozen one and check_workload accepts
\* the workload under the verdict itself.
WholeFilesDecideAlike ==
  runner.at \in {"pass", "denied"} /\ runner.whole =>
    (runner.at = "pass" <=>
       /\ runner.entity = runner.freeze.entity
       /\ check_workload(runner.wasm, [c \in Capability |-> c \in runner.freeze.granted]) = "ok")

=============================================================================
