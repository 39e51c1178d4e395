------------------------- MODULE FreezePolicyProofs -------------------------
(***************************************************************************)
(* Proofs about FreezePolicy, for any number of entities, verdicts and     *)
(* workloads.  The file is tied to the freeze that opened it, the runner   *)
(* to the file it loaded.                                                  *)
(***************************************************************************)
EXTENDS FreezePolicy, TLAPS

Flags(caps) == [c \in Capability |-> c \in caps]

\* While the freezer writes it writes its own freeze; a whole file is all of it.
WriterOK ==
  /\ freezer.at = "write" =>
       freezer.entity = freeze.entity /\ freezer.granted = freeze.granted /\ ~whole
  /\ whole => /\ file.head = HeadLines /\ file.caps = freeze.granted

\* Policy p is what a file of freeze f may be loaded as.
LoadedFrom(p, f, complete) ==
  \/ p.entities = {} /\ ~complete
  \/ \E caps \in SUBSET f.granted :
       /\ p.entities = {[id |-> f.entity, mode |-> ManualMode, capabilities |-> Flags(caps)]}
       /\ complete => caps = f.granted

\* What the runner holds came from the freeze it names.
RunnerOK ==
  runner.at # "idle" =>
    /\ runner.freeze \in FreezeType /\ runner.entity \in EntityId
    /\ runner.whole \in BOOLEAN
    /\ LoadedFrom(runner.policy, runner.freeze, runner.whole)
    /\ runner.at = "pass"   => Passes(runner.wasm, runner.policy, runner.entity)
    /\ runner.at = "denied" => ~Passes(runner.wasm, runner.policy, runner.entity)

IInv == TypeOK /\ FileIsOneFreeze /\ WriterOK /\ RunnerOK

-----------------------------------------------------------------------------
(* The freezer *)

LEMMA GrantedType == \A v : list_granted(v) \in SUBSET Capability
BY DEF list_granted

LEMMA FreezeOfType ==
  ASSUME NEW e \in EntityId \cup {NoText}, NEW v
  PROVE  FreezeOf(e, v) \in FreezeType
BY GrantedType DEF FreezeOf, FreezeType

LEMMA EmptyType == Empty \in FileType
BY DEF Empty, FileType, HeadLines

LEMMA Started == Init => TypeOK /\ FileIsOneFreeze /\ WriterOK /\ RunnerOK
<1> SUFFICES ASSUME Init PROVE TypeOK /\ FileIsOneFreeze /\ WriterOK /\ RunnerOK
  OBVIOUS
<1>1. TypeOK
  BY FreezeOfType, EmptyType DEF Init, TypeOK
<1>2. FileIsOneFreeze
  BY DEF Init, FileIsOneFreeze, Empty
<1>3. WriterOK /\ RunnerOK
  BY DEF Init, WriterOK, RunnerOK, Idle
<1>4. QED
  BY <1>1, <1>2, <1>3

\* What leaves the file and the freezer's side alone.
LEMMA RunnerOnly ==
  ASSUME IInv, UNCHANGED <<file, freezer, freeze, whole>>
  PROVE  TypeOK' /\ FileIsOneFreeze' /\ WriterOK'
BY DEF IInv, TypeOK, FileIsOneFreeze, WriterOK

LEMMA FreezerSteps ==
  ASSUME IInv,
         \/ \E e \in EntityId \cup {NoText} : Freeze(e)
         \/ NoVerdict \/ Open \/ WriteHead \/ WriteCapability \/ WriteBraces \/ Close \/ Break
  PROVE  TypeOK' /\ FileIsOneFreeze' /\ WriterOK' /\ UNCHANGED runner
<1> USE DEF IInv, TypeOK, FileIsOneFreeze, WriterOK, FileType, FreezeType, HeadLines, Idle
<1>1. CASE \E e \in EntityId \cup {NoText} : Freeze(e)
  BY <1>1 DEF Freeze, Analyzing
<1>2. CASE NoVerdict
  BY <1>2 DEF NoVerdict
<1>3. CASE Open
  <2>1. PICK v \in Verdicts : /\ freezer' = Writing(freezer.entity, Granted(v))
                              /\ freeze' = FreezeOf(freezer.entity, v)
    BY <1>3 DEF Open
  <2>2. /\ Granted(v) \in SUBSET Capability
        /\ freezer.entity \in EntityId \cup {NoText}
        /\ freeze'.entity = freezer.entity /\ freeze'.granted = Granted(v)
    BY <1>3, <2>1, GrantedType DEF Open, FreezeOf, Granted
  <2>3. TypeOK'
    BY <1>3, <2>1, <2>2, FreezeOfType, EmptyType DEF Open, Writing, Opened
  <2>4. file' = Empty /\ ~whole' /\ UNCHANGED runner
    BY <1>3 DEF Open, Opened
  <2>5. FileIsOneFreeze'
    BY <2>4 DEF Empty
  <2>6. WriterOK'
    BY <2>1, <2>2, <2>4 DEF Writing
  <2>7. QED
    BY <2>3, <2>4, <2>5, <2>6
<1>4. CASE WriteHead
  <2>1. /\ freezer.at = "write" /\ freezer.entity \in EntityId \cup {NoText}
        /\ file.head \in 0..4 /\ file.caps = {} /\ ~file.braces
    BY <1>4 DEF WriteHead
  <2>2. /\ file' \in FileType
        /\ file'.head = file.head + 1 /\ file'.caps = {} /\ file'.braces = FALSE
        /\ file'.id = IF file.head = 2 THEN freezer.entity ELSE file.id
    <3> DEFINE x == IF file.head = 2 THEN freezer.entity ELSE file.id
    <3>1. file' = [head |-> file.head + 1, id |-> x, caps |-> file.caps,
                   braces |-> file.braces, torn |-> file.torn]
      BY <1>4 DEF WriteHead
    <3>2. x \in EntityId \cup {NoText}
      BY <2>1
    <3> HIDE DEF x
    <3>3. file' \in FileType
      BY <2>1, <3>1, <3>2
    <3>4. QED
      BY <2>1, <3>1, <3>3 DEF x
  <2>3. QED
    BY <1>4, <2>1, <2>2 DEF WriteHead
<1>5. CASE WriteCapability
  BY <1>5 DEF WriteCapability
<1>6. CASE WriteBraces
  BY <1>6 DEF WriteBraces
<1>7. CASE Close
  BY <1>7 DEF Close, Complete
<1>8. CASE Break
  BY <1>8 DEF Break
<1>9. QED
  BY <1>1, <1>2, <1>3, <1>4, <1>5, <1>6, <1>7, <1>8

-----------------------------------------------------------------------------
(* The runner *)

LEMMA LoadOK ==
  ASSUME IInv, NEW e \in EntityId, Load(e) PROVE RunnerOK'
<1>1. LoadedFrom(from_file, freeze, whole)
  <2> USE DEF IInv, TypeOK, FileIsOneFreeze, WriterOK, FileType, FreezeType, HeadLines
  <2>1. CASE file.head < 3
    BY <2>1 DEF from_file, LoadedFrom
  <2>2. CASE ~(file.head < 3)
    <3>1. from_file.entities = {Frozen(file)}
      BY <2>2 DEF from_file
    <3>2. /\ Frozen(file) = [id |-> freeze.entity, mode |-> ManualMode,
                             capabilities |-> Flags(file.caps)]
          /\ file.caps \in SUBSET freeze.granted
          /\ whole => file.caps = freeze.granted
      BY <2>2 DEF Frozen, Flags
    <3>3. QED
      BY <3>1, <3>2 DEF LoadedFrom
  <2>3. QED
    BY <2>1, <2>2
<1>2. /\ runner' = Loaded(from_file, e, freeze, whole)
      /\ freeze \in FreezeType /\ whole \in BOOLEAN
  BY DEF Load, IInv, TypeOK
<1>3. QED
  BY <1>1, <1>2 DEF RunnerOK, Loaded

LEMMA RunOK ==
  ASSUME IInv, NEW w \in Wasm, Run(w) PROVE RunnerOK'
<1> DEFINE p == runner.policy
           e == runner.entity
<1>1. /\ runner.at = "loaded"
      /\ runner.freeze \in FreezeType /\ e \in EntityId /\ runner.whole \in BOOLEAN
      /\ LoadedFrom(p, runner.freeze, runner.whole)
  BY DEF Run, IInv, RunnerOK
<1>2. CASE Malformed(w)
  <2>1. runner' = Ended("unreadable", w, runner)
    BY <1>2 DEF Run
  <2>2. QED
    BY <1>1, <2>1 DEF RunnerOK, Ended
<1>3. CASE ~Malformed(w) /\ Passes(w, p, e)
  <2>1. runner' = Ended("pass", w, runner)
    BY <1>3 DEF Run
  <2>2. QED
    BY <1>1, <1>3, <2>1 DEF RunnerOK, Ended
<1>4. CASE ~Malformed(w) /\ ~Passes(w, p, e)
  <2>1. runner' = Ended("denied", w, runner)
    BY <1>4 DEF Run
  <2>2. QED
    BY <1>1, <1>4, <2>1 DEF RunnerOK, Ended
<1>5. QED
  BY <1>2, <1>3, <1>4

LEMMA StepKeeps == IInv /\ [Next]_vars => IInv'
<1> SUFFICES ASSUME IInv, [Next]_vars PROVE IInv'
  OBVIOUS
<1>1. CASE \/ \E e \in EntityId \cup {NoText} : Freeze(e)
           \/ NoVerdict \/ Open \/ WriteHead \/ WriteCapability \/ WriteBraces \/ Close \/ Break
  <2>1. RunnerOK'
    BY <1>1, FreezerSteps DEF IInv, RunnerOK
  <2>2. QED
    BY <1>1, <2>1, FreezerSteps DEF IInv
<1>2. CASE \E e \in EntityId : Load(e)
  BY <1>2, LoadOK, RunnerOnly DEF IInv, Load
<1>3. CASE \E w \in Wasm : Run(w)
  BY <1>3, RunOK, RunnerOnly DEF IInv, Run
<1>4. CASE Exit
  BY <1>4, RunnerOnly DEF IInv, Exit, RunnerOK, Idle
<1>5. CASE LoadFails \/ UNCHANGED vars
  <2>1. UNCHANGED <<file, freezer, runner, freeze, whole>>
    BY <1>5 DEF LoadFails, vars
  <2>2. QED
    BY <2>1, RunnerOnly DEF IInv, RunnerOK
<1>6. QED
  BY <1>1, <1>2, <1>3, <1>4, <1>5 DEF Next

THEOREM Invariance == Spec => []IInv
<1>1. Init => IInv
  BY Started DEF IInv
<1>2. QED
  BY <1>1, StepKeeps, PTL DEF Spec

-----------------------------------------------------------------------------
(* The properties of the run *)

\* The type invariant of FreezePolicy.
THEOREM TypeCorrect == Spec => []TypeOK
BY Invariance, PTL DEF IInv

\* The policy file is always a prefix of one freeze's rendering, for any ids
\* and verdicts (freeze_policy.rs:48-68).
THEOREM FileIntegrity == Spec => []FileIsOneFreeze
BY Invariance, PTL DEF IInv

\* The entity a lookup finds in what a file was loaded as.
LEMMA FoundEntity ==
  ASSUME NEW p, NEW f, NEW complete, NEW e, LoadedFrom(p, f, complete), HasEntity(p, e)
  PROVE  /\ e = f.entity
         /\ \E caps \in SUBSET f.granted :
              /\ find_entity(p, e).capabilities = Flags(caps)
              /\ complete => caps = f.granted
<1>1. PICK caps \in SUBSET f.granted :
        /\ p.entities = {[id |-> f.entity, mode |-> ManualMode, capabilities |-> Flags(caps)]}
        /\ complete => caps = f.granted
  BY DEF LoadedFrom, HasEntity
<1> DEFINE d == [id |-> f.entity, mode |-> ManualMode, capabilities |-> Flags(caps)]
<1>2. PICK x \in p.entities : x.id = e
  BY DEF HasEntity
<1>3. e = f.entity
  BY <1>1, <1>2
<1>4. find_entity(p, e) \in p.entities
  BY <1>2 DEF find_entity
<1>5. find_entity(p, e).capabilities = Flags(caps)
  BY <1>1, <1>4
<1>6. QED
  BY <1>1, <1>3, <1>5

\* A workload check_workload accepts needs only flags that are set.
LEMMA AcceptedNeeds ==
  ASSUME NEW w, NEW caps, check_workload(w, Flags(caps)) = "ok"
  PROVE  Needs(w) \subseteq caps
<1>1. ~\E imp \in Imports(w) : ~Allowed(imp, Flags(caps))
  BY DEF check_workload
<1>2. ASSUME NEW imp \in Imports(w), import_to_capability(imp) # Benign
      PROVE  import_to_capability(imp) \in caps
  BY <1>1, <1>2 DEF Allowed, has_capability, Flags
<1>3. QED
  BY <1>2 DEF Needs

\* No tampered or replaced workload passes with more than the model granted
\* the frozen one, whatever was written of the file (run_workload.rs:44-54).
THEOREM WithinVerdict == Spec => []RunsWithinVerdict
<1>1. ASSUME IInv PROVE RunsWithinVerdict
  <2>1. SUFFICES ASSUME runner.at = "pass"
                 PROVE  /\ runner.entity = runner.freeze.entity
                        /\ Needs(runner.wasm) \subseteq runner.freeze.granted
    BY DEF RunsWithinVerdict
  <2>2. /\ LoadedFrom(runner.policy, runner.freeze, runner.whole)
        /\ HasEntity(runner.policy, runner.entity)
        /\ check_workload(runner.wasm,
             find_entity(runner.policy, runner.entity).capabilities) = "ok"
    BY <1>1, <2>1 DEF IInv, RunnerOK, Passes
  <2>3. PICK caps \in SUBSET runner.freeze.granted :
          find_entity(runner.policy, runner.entity).capabilities = Flags(caps)
    BY <2>2, FoundEntity
  <2>4. Needs(runner.wasm) \subseteq caps
    BY <2>2, <2>3, AcceptedNeeds
  <2>5. QED
    BY <2>2, <2>3, <2>4, FoundEntity
<1>2. QED
  BY <1>1, Invariance, PTL

\* A completely written file decides a run as the verdict itself would
\* (record.sh:95).
THEOREM DecidesAlike == Spec => []WholeFilesDecideAlike
<1>1. ASSUME IInv PROVE WholeFilesDecideAlike
  <2> DEFINE f == runner.freeze
             p == runner.policy
             e == runner.entity
  <2>1. SUFFICES ASSUME runner.at \in {"pass", "denied"}, runner.whole
                 PROVE  runner.at = "pass" <=>
                          /\ e = f.entity
                          /\ check_workload(runner.wasm, Flags(f.granted)) = "ok"
    BY DEF WholeFilesDecideAlike, Flags
  <2>2. LoadedFrom(p, f, runner.whole) /\ p.entities # {}
    BY <1>1, <2>1 DEF IInv, RunnerOK, LoadedFrom
  <2>3. runner.at = "pass" <=> Passes(runner.wasm, p, e)
    BY <1>1, <2>1 DEF IInv, RunnerOK
  <2>4. HasEntity(p, e) <=> e = f.entity
    <3>1. HasEntity(p, e) => e = f.entity
      BY <2>2, FoundEntity
    <3>2. HasEntity(p, f.entity)
      BY <2>1, <2>2 DEF LoadedFrom, HasEntity
    <3>3. QED
      BY <3>1, <3>2
  <2>5. ASSUME HasEntity(p, e) PROVE find_entity(p, e).capabilities = Flags(f.granted)
    <3>1. PICK caps \in SUBSET f.granted :
            /\ find_entity(p, e).capabilities = Flags(caps)
            /\ runner.whole => caps = f.granted
      BY <2>2, <2>5, FoundEntity
    <3>2. QED
      BY <2>1, <3>1
  <2>6. QED
    BY <2>3, <2>4, <2>5 DEF Passes
<1>2. QED
  BY <1>1, Invariance, PTL

=============================================================================
