--------------------------- MODULE SessionsProofs ---------------------------
(***************************************************************************)
(* For any policies, workloads, analyzers and tasks: the session table     *)
(* only holds grants the policy or the analyzer stands behind, and the     *)
(* service implements AccessControl.                                       *)
(***************************************************************************)
EXTENDS Sessions, TLAPS

USE PoliciesAssumption, VerdictsAssumption, NoWasmAssumption, BoundsAssumption

-----------------------------------------------------------------------------
(* Lemmas about modes, entities and the states of a future *)

\* A mode is Manual or Auto with a model, and its tag tells which.
LEMMA ModeCases ==
  ASSUME NEW src \in EnforcementMode(Model)
  PROVE  /\ src.kind \in {"manual", "auto"}
         /\ src.kind = "manual" <=> src = ManualMode
         /\ src.kind = "auto" => src.model \in Model
BY DEF EnforcementMode, ManualMode, AutoMode

\* find_entity returns the entity of that name.
LEMMA FoundEntity ==
  ASSUME NEW p \in Policies, NEW e, HasEntity(p, e)
  PROVE  /\ find_entity(p, e) \in p.entities
         /\ find_entity(p, e).id = e
         /\ find_entity(p, e) \in EntityConfig(EntityId, Model)
<1>1. p.entities \subseteq EntityConfig(EntityId, Model)
  BY DEF PolicyConfigs
<1>2. find_entity(p, e) \in p.entities /\ find_entity(p, e).id = e
  BY Zenon DEF HasEntity, find_entity
<1> QED
  BY <1>1, <1>2

LEMMA EntityFields ==
  ASSUME NEW x \in EntityConfig(EntityId, Model)
  PROVE  x.id \in EntityId /\ x.mode \in EnforcementMode(Model)
           /\ x.capabilities \in CapabilitiesConfig
BY DEF EntityConfig

\* The tag of a future tells which record it is.
LEMMA CallCases ==
  ASSUME NEW c \in CallType
  PROVE  /\ c.at = "analyze" => c \in AnalyzingType
         /\ c.at = "check"   => c \in CheckingType
         /\ c.at = "insert"  => c \in InsertingType
BY DEF CallType, AnalyzingType, CheckingType, InsertingType, Idle

\* A new session is well typed.
LEMMA NewSession ==
  ASSUME NEW id \in Nat, NEW e \in EntityId, NEW caps,
         NEW src \in EnforcementMode(Model), NEW t \in Nat
  PROVE  Session(id, e, caps, src, t) \in SessionType
BY DEF Session, SessionType, list_granted

-----------------------------------------------------------------------------
(* Type correctness *)

LEMMA InitTypeOK == Init => TypeOK
BY DEF Init, TypeOK, CallType, Idle

LEMMA RequestType ==
  ASSUME TypeOK, NEW t \in Task, Request(t) PROVE TypeOK'
<1> USE DEF TypeOK, Unmoved, history
<1>1. PICK e \in EntityId :
        \/ RequestUnknown(t, e)
        \/ \E w \in Wasm \cup {NoWasm} : RequestManual(t, e, w) \/ RequestAuto(t, e, w)
  BY DEF Request
<1>2. CASE RequestUnknown(t, e)
  BY <1>2 DEF RequestUnknown
<1>3. ASSUME NEW w \in Wasm \cup {NoWasm}, RequestManual(t, e, w) PROVE TypeOK'
  <2>1. /\ find_entity(policy, e).capabilities \in CapabilitiesConfig
        /\ ManualMode \in EnforcementMode(Model)
    BY <1>3, FoundEntity, EntityFields DEF RequestManual, EnforcementMode
  <2>2. Checking(e, w, find_entity(policy, e).capabilities, ManualMode) \in CallType
    BY <2>1 DEF Checking, CallType, CheckingType
  <2> QED
    BY <2>2, <1>3 DEF RequestManual, Become
<1>4. ASSUME NEW w \in Wasm \cup {NoWasm}, RequestAuto(t, e, w) PROVE TypeOK'
  <2>1. find_entity(policy, e).mode \in EnforcementMode(Model)
    BY <1>4, FoundEntity, EntityFields DEF RequestAuto
  <2>2. w # NoWasm => Analyzing(e, w, find_entity(policy, e).mode) \in CallType
    BY <2>1 DEF Analyzing, CallType, AnalyzingType
  <2> QED
    BY <2>2, <1>4 DEF RequestAuto, Become
<1> QED
  BY <1>1, <1>2, <1>3, <1>4

LEMMA AnalyzerAnswersType ==
  ASSUME TypeOK, NEW t \in Task, AnalyzerAnswers(t), CallsOK
  PROVE  TypeOK'
<1> USE DEF TypeOK, Unmoved
<1>1. call[t] \in AnalyzingType
  BY CallCases DEF AnalyzerAnswers, Answer, Adopted
<1>2. PICK v \in Verdicts :
        /\ Become(t, Checking(call[t].entity, call[t].wasm, v, call[t].source))
        /\ verdicts' = verdicts \cup
             {[model |-> call[t].source.model, wasm |-> call[t].wasm,
               granted |-> list_granted(v)]}
  BY DEF AnalyzerAnswers, Answer, Adopted
<1>3. Checking(call[t].entity, call[t].wasm, v, call[t].source) \in CallType
  BY <1>1 DEF Checking, CallType, CheckingType, AnalyzingType
<1>4. call[t].source.model \in Model
  BY <1>1, ModeCases DEF CallsOK, CallOK, AnalyzerAnswers, Answer, Adopted, AnalyzingType
<1>5. [model |-> call[t].source.model, wasm |-> call[t].wasm, granted |-> list_granted(v)]
        \in [model : Model, wasm : Wasm, granted : SUBSET Capability]
  BY <1>1, <1>4 DEF AnalyzingType, list_granted
<1> QED
  BY <1>2, <1>3, <1>5 DEF AnalyzerAnswers, Answer, Adopted, Become

LEMMA AdmitType ==
  ASSUME TypeOK, NEW t \in Task, Admit(t) PROVE TypeOK'
<1> USE DEF TypeOK, history
<1>1. call[t] \in CheckingType
  BY CallCases DEF Admit, Reserved
<1> DEFINE s == Session(drawn + 1, call[t].entity, call[t].caps, call[t].source, now)
<1>2. s \in SessionType
  BY <1>1, NewSession DEF CheckingType
<1>3. Inserting(s, call[t].wasm) \in CallType
  BY <1>1, <1>2 DEF Inserting, CallType, InsertingType, CheckingType
<1> QED
  BY <1>3 DEF Admit, Reserved, Become

LEMMA InsertType ==
  ASSUME TypeOK, NEW t \in Task, Insert(t), IdsFresh PROVE TypeOK'
<1> USE DEF TypeOK
<1>1. call[t] \in InsertingType
  BY CallCases DEF Insert
<1>2. call[t].session \in SessionType /\ call[t].wasm \in Wasm \cup {NoWasm}
  BY <1>1 DEF InsertingType
<1>3. call[t].session.session_id \in 1..drawn
  BY DEF IdsFresh, Insert
<1>4. Idle \in CallType
  BY DEF CallType
<1> QED
  BY <1>2, <1>3, <1>4 DEF Insert, Put, Become

LEMMA TypeStep == ASSUME TypeOK, CallsOK, IdsFresh, [Next]_vars PROVE TypeOK'
<1> USE DEF TypeOK
<1>i. Idle \in CallType
  BY DEF CallType
<1>1. ASSUME NEW t \in Task, Step(t) PROVE TypeOK'
  <2>1. CASE AnalyzerFails(t) \/ Refuse(t) \/ Cancel(t)
    BY <2>1, <1>i DEF AnalyzerFails, Refuse, Cancel, Become, Unmoved, history
  <2> QED
    BY <1>1, <2>1, RequestType, AnalyzerAnswersType, AdmitType, InsertType DEF Step
<1>2. ASSUME NEW id \in 1..MaxSessions, Lookup(id) PROVE TypeOK'
  <2>1. get_session(id) = "expired" => id \in DOMAIN sessions
    BY DEF get_session
  <2> QED
    BY <2>1, <1>2 DEF Lookup, Unmoved
<1>3. CASE Tick
  BY <1>3 DEF Tick, history
<1>4. CASE StepBack
  BY <1>4 DEF StepBack, history
<1>5. CASE Restart
  BY <1>5, <1>i DEF Restart, Survivors
<1>6. CASE UNCHANGED vars
  BY <1>6 DEF vars
<1> QED
  BY <1>1, <1>2, <1>3, <1>4, <1>5, <1>6 DEF Next

-----------------------------------------------------------------------------
(* What a future or a session holds stays good *)

\* More answers of the analyzer take nothing back.
LEMMA MoreAnswers ==
  ASSUME NEW p, NEW old, NEW new, old \subseteq new
  PROVE  /\ \A s, w : SessionOK(p, old, s, w) => SessionOK(p, new, s, w)
         /\ \A c : CallOK(p, old, c) => CallOK(p, new, c)
<1>1. \A src, e, g, w : Backed(p, old, src, e, g, w) => Backed(p, new, src, e, g, w)
  BY DEF Backed
<1> QED
  BY <1>1 DEF SessionOK, CallOK

LEMMA IdleOK == ASSUME NEW p, NEW answers PROVE CallOK(p, answers, Idle)
BY DEF CallOK, Idle

\* The abstract specification reads a grant and a workload the same way.
LEMMA SameListGranted == ASSUME NEW caps PROVE AC!list_granted(caps) = list_granted(caps)
BY DEF AC!list_granted, list_granted, AC!Capability, Capability

LEMMA SameVerdict ==
  ASSUME NEW w, NEW caps
  PROVE  AC!check_workload(w, caps) = check_workload(w, caps)
<1>1. AC!Malformed(w) <=> Malformed(w)
  BY DEF AC!Malformed, Malformed, AC!Broken, Broken, AC!BadImport, BadImport,
         AC!OtherModule, OtherModule
<1>2. AC!Imports(w) = Imports(w)
  BY DEF AC!Imports, Imports
<1>3. \A imp : AC!import_to_capability(imp) = import_to_capability(imp)
  BY DEF AC!import_to_capability, import_to_capability, AC!Preview1Bucket,
         Preview1Bucket, AC!Benign, Benign, AC!BareNames, BareNames,
         AC!Capability, Capability
<1>4. \A imp : AC!Allowed(imp, caps) <=> Allowed(imp, caps)
  BY <1>3 DEF AC!Allowed, Allowed, AC!has_capability, has_capability,
              AC!Capability, Capability, AC!Benign, Benign
<1> QED
  BY <1>1, <1>2, <1>4 DEF AC!check_workload, check_workload

\* A call that passes the check holds a session that may enter the table.
LEMMA AdmittedOK ==
  ASSUME NEW p \in Policies, NEW answers, NEW c \in CheckingType,
         CallOK(p, answers, c), Passes(c.wasm, c.caps), NEW id, NEW t
  PROVE  SessionOK(p, answers, Session(id, c.entity, c.caps, c.source, t), c.wasm)
<1> DEFINE s == Session(id, c.entity, c.caps, c.source, t)
<1>1. /\ Backed(p, answers, c.source, c.entity, list_granted(c.caps), c.wasm)
      /\ c.caps \in AC!Prescribed(find_entity(p, c.entity))
      /\ c.wasm = NoWasm => c.source.kind = "manual"
  BY DEF CallOK, CheckingType
<1>2. /\ s.policy_source = c.source /\ s.entity_id = c.entity
      /\ s.granted_capabilities = list_granted(c.caps)
  BY DEF Session
<1>3. HasEntity(p, c.entity) /\ c.source = find_entity(p, c.entity).mode
  BY <1>1 DEF Backed
<1>4. AC!Acceptable(find_entity(p, c.entity), c.caps, c.wasm)
  BY <1>1, <1>3, SameVerdict DEF AC!Acceptable, Passes
<1>5. AC!Legitimate(p, GrantOf(s, c.wasm))
  <2>1. find_entity(p, c.entity) \in p.entities /\ find_entity(p, c.entity).id = c.entity
    BY <1>3, FoundEntity
  <2>2. c.wasm \in Wasm \cup {NoWasm}
    BY DEF CheckingType
  <2> QED
    BY <1>1, <1>2, <1>4, <2>1, <2>2, SameListGranted DEF AC!Legitimate, GrantOf
<1> QED
  BY <1>1, <1>2, <1>5 DEF SessionOK

-----------------------------------------------------------------------------
(* Every step keeps the calls, the ids and the table *)

\* A step that only moves task t, to a state that holds no id.
LEMMA OneTaskMoves ==
  ASSUME IInv, NEW t \in Task, NEW state, Become(t, state), state.at # "insert",
         CallOK(policy, verdicts', state), verdicts \subseteq verdicts',
         UNCHANGED <<policy, sessions, drawn, workload>>
  PROVE  CallsOK' /\ IdsFresh' /\ TableOK'
<1>1. call' = [call EXCEPT ![t] = state] /\ call \in [Task -> CallType]
  BY DEF Become, IInv, TypeOK
<1>2. CallsOK'
  BY <1>1, MoreAnswers DEF IInv, CallsOK
<1>3. IdsFresh'
  BY <1>1 DEF IInv, IdsFresh
<1>4. TableOK'
  BY MoreAnswers DEF IInv, TableOK
<1> QED
  BY <1>2, <1>3, <1>4

LEMMA RequestKeeps ==
  ASSUME IInv, NEW t \in Task, Request(t) PROVE CallsOK' /\ IdsFresh' /\ TableOK'
<1> USE DEF Unmoved, history
<1>1. PICK e \in EntityId :
        \/ RequestUnknown(t, e)
        \/ \E w \in Wasm \cup {NoWasm} : RequestManual(t, e, w) \/ RequestAuto(t, e, w)
  BY DEF Request
<1>2. CASE UNCHANGED call
  <2>1. UNCHANGED <<policy, sessions, drawn, workload, verdicts, call>>
    BY <1>1, <1>2 DEF RequestUnknown, RequestManual, RequestAuto
  <2> QED
    BY <2>1 DEF IInv, CallsOK, IdsFresh, TableOK
<1>3. ASSUME NEW w \in Wasm \cup {NoWasm}, RequestManual(t, e, w)
      PROVE  CallsOK' /\ IdsFresh' /\ TableOK'
  <2> DEFINE x == find_entity(policy, e)
             c == Checking(e, w, x.capabilities, ManualMode)
  <2>1. x.mode = ManualMode
    BY <1>3, FoundEntity, EntityFields, ModeCases DEF RequestManual, IInv, TypeOK
  <2>2. /\ Backed(policy, verdicts, ManualMode, e, list_granted(x.capabilities), w)
        /\ x.capabilities \in AC!Prescribed(x)
    BY <2>1, <1>3 DEF RequestManual, Backed, ManualMode, AC!Prescribed
  <2>3. CallOK(policy, verdicts, c) /\ c.at # "insert"
    BY <2>2 DEF CallOK, Checking, ManualMode
  <2> QED
    BY <2>3, <1>3, OneTaskMoves DEF RequestManual
<1>4. ASSUME NEW w \in Wasm, RequestAuto(t, e, w)
      PROVE  CallsOK' /\ IdsFresh' /\ TableOK'
  <2> DEFINE c == Analyzing(e, w, find_entity(policy, e).mode)
  <2>1. CallOK(policy, verdicts, c) /\ c.at # "insert"
    BY <1>4 DEF CallOK, Analyzing, RequestAuto
  <2> QED
    BY <2>1, <1>4, OneTaskMoves DEF RequestAuto
<1> QED
  BY <1>1, <1>2, <1>3, <1>4 DEF RequestUnknown, RequestAuto

LEMMA AnalyzerKeeps ==
  ASSUME IInv, NEW t \in Task, AnalyzerAnswers(t)
  PROVE  CallsOK' /\ IdsFresh' /\ TableOK'
<1> USE DEF Unmoved
<1>1. call[t] \in AnalyzingType
  BY CallCases DEF AnalyzerAnswers, Answer, Adopted, IInv, TypeOK
<1>2. PICK v \in Verdicts :
        /\ Become(t, Checking(call[t].entity, call[t].wasm, v, call[t].source))
        /\ verdicts' = verdicts \cup
             {[model |-> call[t].source.model, wasm |-> call[t].wasm,
               granted |-> list_granted(v)]}
  BY DEF AnalyzerAnswers, Answer, Adopted
<1> DEFINE c == Checking(call[t].entity, call[t].wasm, v, call[t].source)
           x == find_entity(policy, call[t].entity)
<1>3. HasEntity(policy, call[t].entity) /\ call[t].source = x.mode /\ x.mode.kind = "auto"
  BY DEF AnalyzerAnswers, Answer, Adopted, IInv, CallsOK, CallOK
<1>4. v \in AC!Prescribed(x)
  BY <1>3 DEF AC!Prescribed
<1>5. Backed(policy, verdicts', call[t].source, call[t].entity, list_granted(v), call[t].wasm)
  BY <1>2, <1>3 DEF Backed
<1>6. call[t].wasm # NoWasm
  BY <1>1 DEF AnalyzingType
<1>7. CallOK(policy, verdicts', c) /\ c.at # "insert"
  BY <1>4, <1>5, <1>6 DEF CallOK, Checking
<1>8. verdicts \subseteq verdicts'
  BY <1>2
<1> QED
  BY <1>2, <1>7, <1>8, OneTaskMoves DEF AnalyzerAnswers, Answer, Adopted

LEMMA AdmitKeeps ==
  ASSUME IInv, NEW t \in Task, Admit(t) PROVE CallsOK' /\ IdsFresh' /\ TableOK'
<1> USE DEF history
<1> DEFINE s == Session(drawn + 1, call[t].entity, call[t].caps, call[t].source, now)
           c == Inserting(s, call[t].wasm)
<1>1. /\ call' = [call EXCEPT ![t] = c] /\ call \in [Task -> CallType]
      /\ drawn \in Nat /\ drawn' = drawn + 1
      /\ UNCHANGED <<policy, sessions, workload, verdicts>>
  BY DEF Admit, Reserved, Become, IInv, TypeOK
<1>2. SessionOK(policy, verdicts, s, call[t].wasm)
  <2>1. call[t] \in CheckingType /\ CallOK(policy, verdicts, call[t])
    BY CallCases DEF Admit, Reserved, IInv, TypeOK, CallsOK
  <2> QED
    BY <2>1, AdmittedOK DEF Admit, Reserved, IInv, TypeOK
<1>3. CallOK(policy, verdicts, c)
  BY <1>2 DEF CallOK, Inserting
<1>4. s.session_id = drawn + 1 /\ c.session = s
  BY DEF Session, Inserting
<1>5. CallsOK'
  BY <1>1, <1>3 DEF IInv, CallsOK
<1>6. IdsFresh'
  <2>1. \A u \in Task \ {t} : call'[u] = call[u]
    BY <1>1
  <2>2. call'[t].session.session_id = drawn + 1
    BY <1>1, <1>4
  <2>3. \A u \in Task : call[u].at = "insert" => call[u].session.session_id \in 1..drawn
    BY DEF IInv, IdsFresh
  <2>4. drawn + 1 \in (1..drawn') \ DOMAIN sessions /\ 1..drawn \subseteq 1..drawn'
    BY <1>1 DEF IInv, TypeOK
  <2>5. drawn + 1 \notin 1..drawn
    BY <1>1
  <2> QED
    BY <1>1, <2>1, <2>2, <2>3, <2>4, <2>5 DEF IInv, IdsFresh
<1>7. TableOK'
  BY <1>1 DEF IInv, TableOK
<1> QED
  BY <1>5, <1>6, <1>7

LEMMA InsertKeeps ==
  ASSUME IInv, NEW t \in Task, Insert(t) PROVE CallsOK' /\ IdsFresh' /\ TableOK'
<1> DEFINE s == call[t].session
<1>1. /\ call' = [call EXCEPT ![t] = Idle] /\ call \in [Task -> CallType]
      /\ sessions' = Put(sessions, s.session_id, s)
      /\ workload' = Put(workload, s.session_id, call[t].wasm)
      /\ UNCHANGED <<policy, drawn, verdicts>>
  BY DEF Insert, Become, IInv, TypeOK
<1>2. SessionOK(policy, verdicts, s, call[t].wasm)
  BY DEF Insert, IInv, CallsOK, CallOK
<1>3. CallsOK'
  BY <1>1, IdleOK DEF IInv, CallsOK
<1>4. IdsFresh'
  BY <1>1 DEF IInv, IdsFresh, Insert, Put, Idle
<1>5. TableOK'
  <2> SUFFICES ASSUME NEW id \in DOMAIN sessions'
               PROVE  /\ sessions'[id].session_id = id
                      /\ SessionOK(policy, verdicts, sessions'[id], workload'[id])
    BY <1>1 DEF TableOK
  <2>1. CASE id = s.session_id
    BY <2>1, <1>1, <1>2 DEF Put, IInv, TypeOK
  <2>2. CASE id # s.session_id
    BY <2>2, <1>1 DEF Put, IInv, TypeOK, TableOK
  <2> QED
    BY <2>1, <2>2
<1> QED
  BY <1>3, <1>4, <1>5

LEMMA InvStep == IInv /\ [Next]_vars => IInv'
<1> SUFFICES ASSUME IInv, [Next]_vars PROVE IInv'
  OBVIOUS
<1>1. ASSUME UNCHANGED <<policy, sessions, call, drawn, workload, verdicts>>
      PROVE  CallsOK' /\ IdsFresh' /\ TableOK'
  BY <1>1 DEF IInv, CallsOK, IdsFresh, TableOK
<1>2. ASSUME NEW t \in Task, Step(t) PROVE CallsOK' /\ IdsFresh' /\ TableOK'
  <2>1. CASE AnalyzerFails(t) \/ Refuse(t) \/ Cancel(t)
    <3>1. /\ Become(t, Idle) /\ Idle.at # "insert"
          /\ UNCHANGED <<policy, sessions, drawn, workload, verdicts>>
      BY <2>1 DEF AnalyzerFails, Refuse, Cancel, Unmoved, history, Idle
    <3> QED
      BY <3>1, IdleOK, OneTaskMoves
  <2> QED
    BY <1>2, <2>1, RequestKeeps, AnalyzerKeeps, AdmitKeeps, InsertKeeps DEF Step
<1>3. ASSUME NEW id \in 1..MaxSessions, Lookup(id) PROVE CallsOK' /\ IdsFresh' /\ TableOK'
  BY <1>3, <1>1 DEF Lookup, Unmoved
<1>4. TypeOK'
  BY TypeStep DEF IInv
<1>5. CASE Tick \/ StepBack
  BY <1>4, <1>5, <1>1 DEF Tick, StepBack, history, IInv
<1>6. CASE Restart
  <2>1. /\ call' = [t \in Task |-> Idle]
        /\ DOMAIN sessions' = {}
    BY <1>6 DEF Restart, Survivors
  <2>2. CallsOK' /\ IdsFresh' /\ TableOK'
    BY <2>1, IdleOK DEF CallsOK, IdsFresh, TableOK, Idle
  <2> QED
    BY <2>2, <1>4 DEF IInv
<1>7. CASE UNCHANGED vars
  BY <1>4, <1>7, <1>1 DEF vars, IInv
<1> QED
  BY <1>2, <1>3, <1>4, <1>5, <1>6, <1>7 DEF Next, IInv

LEMMA InitInv == Init => IInv
<1> SUFFICES ASSUME Init PROVE IInv
  OBVIOUS
<1>1. CallsOK
  BY IdleOK DEF Init, CallsOK
<1> QED
  BY <1>1, InitTypeOK DEF Init, IInv, IdsFresh, TableOK, Idle

LEMMA Invariant == Spec => []IInv
BY InitInv, InvStep, PTL DEF Spec

-----------------------------------------------------------------------------
(* The theorems *)

\* Type correctness of the session table and of every suspended call.
THEOREM TypeCorrect == Spec => []TypeOK
<1>1. IInv => TypeOK
  BY DEF IInv
<1> QED
  BY <1>1, Invariant, PTL

\* The verdict "ok" on a workload means its imports are covered by the grant.
LEMMA OkIsCovered ==
  ASSUME NEW w, NEW caps, check_workload(w, caps) = "ok"
  PROVE  Covered(w, list_granted(caps))
<1>1. ~Malformed(w) /\ \A imp \in Imports(w) : Allowed(imp, caps)
  BY DEF check_workload
<1> QED
  BY <1>1 DEF Covered, Allowed, has_capability, list_granted

\* No session ever exists for a workload that needs more than it was granted
\* (service.rs:154-178).
THEOREM WorkloadsAreCovered == Spec => []WorkloadsCovered
<1>1. IInv => WorkloadsCovered
  <2> SUFFICES ASSUME IInv, NEW id \in DOMAIN sessions, workload[id] # NoWasm
               PROVE  Covered(workload[id], sessions[id].granted_capabilities)
    BY DEF WorkloadsCovered
  <2> DEFINE g == GrantOf(sessions[id], workload[id])
  <2>1. AC!Legitimate(policy, g)
    BY DEF IInv, TableOK, SessionOK
  <2>2. g.workload = workload[id] /\ g.capabilities = sessions[id].granted_capabilities
    BY DEF GrantOf
  <2>3. PICK entity, caps :
          /\ AC!Acceptable(entity, caps, workload[id])
          /\ sessions[id].granted_capabilities = AC!list_granted(caps)
    BY <2>1, <2>2 DEF AC!Legitimate
  <2>4. check_workload(workload[id], caps) = "ok"
    BY <2>3, SameVerdict DEF AC!Acceptable
  <2> QED
    BY <2>3, <2>4, OkIsCovered, SameListGranted
<1> QED
  BY <1>1, Invariant, PTL

\* What the invariant says of one session, in the terms of the properties.
LEMMA SessionBacked ==
  ASSUME IInv, NEW id \in DOMAIN sessions
  PROVE  LET s == sessions[id] IN
         /\ Backed(policy, verdicts, s.policy_source, s.entity_id,
                   s.granted_capabilities, workload[id])
         /\ s \in SessionType
         /\ s.policy_source \in EnforcementMode(Model)
         /\ s.policy_source.kind = "manual" <=> s.policy_source = ManualMode
         /\ s.policy_source.kind \in {"manual", "auto"}
<1>1. sessions[id] \in SessionType
  BY DEF IInv, TypeOK
<1>2. sessions[id].policy_source \in EnforcementMode(Model)
  BY <1>1 DEF SessionType
<1> QED
  BY <1>1, <1>2, ModeCases DEF IInv, TableOK, SessionOK

\* A Manual session holds the block of the running policy (service.rs:119).
THEOREM ManualGrants == Spec => []ManualGrantsFromPolicy
<1>1. IInv => ManualGrantsFromPolicy
  BY SessionBacked DEF ManualGrantsFromPolicy, Backed
<1> QED
  BY <1>1, Invariant, PTL

\* An Auto session holds an answer its model gave for its own workload in this
\* run of the process (service.rs:120-134).
THEOREM AutoGrants == Spec => []AutoGrantsFromAnalyzer
<1>1. IInv => AutoGrantsFromAnalyzer
  BY SessionBacked DEF AutoGrantsFromAnalyzer, Backed
<1> QED
  BY <1>1, Invariant, PTL

\* has_capability agrees with every session of the entity (service.rs:217-230).
THEOREM CapabilityAnswers == Spec => []CapabilityAnswersAgree
<1>1. IInv => CapabilityAnswersAgree
  <2> SUFFICES ASSUME IInv, NEW id \in DOMAIN sessions, NEW cap \in Capability
               PROVE  HasCapability(sessions[id].entity_id, cap) =
                        CASE sessions[id].policy_source # ManualMode -> "per session"
                          [] /\ sessions[id].policy_source = ManualMode
                             /\ cap \in sessions[id].granted_capabilities -> "yes"
                          [] OTHER -> "no"
    BY DEF CapabilityAnswersAgree
  <2> DEFINE s == sessions[id]
             x == find_entity(policy, s.entity_id)
  <2>1. /\ HasEntity(policy, s.entity_id) /\ s.policy_source = x.mode
        /\ s.policy_source.kind = "manual" =>
             s.granted_capabilities = list_granted(x.capabilities)
        /\ s.policy_source.kind = "manual" <=> s.policy_source = ManualMode
        /\ s.policy_source.kind \in {"manual", "auto"}
    BY SessionBacked DEF Backed
  <2>2. CASE s.policy_source # ManualMode
    BY <2>1, <2>2 DEF HasCapability
  <2>3. CASE s.policy_source = ManualMode
    BY <2>1, <2>3 DEF HasCapability, has_capability, list_granted
  <2> QED
    BY <2>2, <2>3
<1> QED
  BY <1>1, Invariant, PTL

-----------------------------------------------------------------------------
(* Steps of the table *)

\* A step inserts one new session, empties the table at a restart, or leaves
\* the policy and the table alone.
LEMMA TableSteps ==
  ASSUME IInv, [Next]_vars
  PROVE  \/ /\ \E t \in Task : Insert(t)
            /\ UNCHANGED <<policy, restarts, now, gone>>
         \/ Restart
         \/ UNCHANGED <<policy, sessions, workload>>
<1>1. ASSUME NEW t \in Task, Step(t)
      PROVE  \/ Insert(t) /\ UNCHANGED <<policy, restarts, now, gone>>
             \/ UNCHANGED <<policy, sessions, workload>>
  BY <1>1 DEF Step, Request, RequestUnknown, RequestManual, RequestAuto, AnalyzerAnswers, Answer, Adopted,
              AnalyzerFails, Refuse, Admit, Reserved, Insert, Cancel, Unmoved, history
<1>2. ASSUME NEW id \in 1..MaxSessions, Lookup(id)
      PROVE  UNCHANGED <<policy, sessions, workload>>
  BY <1>2 DEF Lookup, Unmoved
<1>3. CASE Tick \/ StepBack \/ UNCHANGED vars
  BY <1>3 DEF Tick, StepBack, history, vars
<1> QED
  BY <1>1, <1>2, <1>3 DEF Next

\* What an insertion does to the table: a new id, every other entry kept.
LEMMA InsertAdds ==
  ASSUME IInv, NEW t \in Task, Insert(t)
  PROVE  LET s == call[t].session IN
         /\ s.session_id \in (1..drawn) \ DOMAIN sessions
         /\ DOMAIN sessions' = DOMAIN sessions \cup {s.session_id}
         /\ DOMAIN workload' = DOMAIN sessions \cup {s.session_id}
         /\ sessions'[s.session_id] = s /\ workload'[s.session_id] = call[t].wasm
         /\ \A id \in DOMAIN sessions :
              sessions'[id] = sessions[id] /\ workload'[id] = workload[id]
BY DEF Insert, Put, IInv, IdsFresh, TypeOK

\* While the process lives the table only grows (service.rs:175-178).
THEOREM TableAppendOnly == Spec => SessionsAppendOnly
<1>1. IInv /\ [Next]_vars =>
        [restarts' = restarts =>
           /\ DOMAIN sessions \subseteq DOMAIN sessions'
           /\ \A id \in DOMAIN sessions : sessions'[id] = sessions[id]]_vars
  <2> SUFFICES ASSUME IInv, [Next]_vars, restarts' = restarts
               PROVE  /\ DOMAIN sessions \subseteq DOMAIN sessions'
                      /\ \A id \in DOMAIN sessions : sessions'[id] = sessions[id]
    OBVIOUS
  <2>1. CASE Restart
    BY <2>1 DEF Restart, Survivors, IInv, TypeOK
  <2>2. CASE UNCHANGED <<policy, sessions, workload>>
    BY <2>2
  <2>3. ASSUME NEW t \in Task, Insert(t)
        PROVE  /\ DOMAIN sessions \subseteq DOMAIN sessions'
               /\ \A id \in DOMAIN sessions : sessions'[id] = sessions[id]
    BY <2>3, InsertAdds
  <2> QED
    BY <2>1, <2>2, <2>3, TableSteps
<1> QED
  BY <1>1, Invariant, PTL DEF Spec, SessionsAppendOnly

\* The service implements AccessControl: an insertion is a Grant, a restart is
\* a Restart, every other step changes neither the policy nor the grants.
THEOREM RefinesAccessControl == Spec => ImplementsAccessControl
<1>1. Init => AC!Init
  BY DEF Init, AC!Init, SessionGrants
<1>2. IInv /\ [Next]_vars => [AC!Next]_(AC!vars)
  <2> SUFFICES ASSUME IInv, [Next]_vars PROVE [AC!Next]_(AC!vars)
    OBVIOUS
  <2>1. ASSUME NEW t \in Task, Insert(t), UNCHANGED policy PROVE AC!Grant
    <3> DEFINE s == call[t].session
               g == GrantOf(s, call[t].wasm)
    <3>1. SessionGrants' = SessionGrants \cup {g}
      <4>1. /\ \A id \in DOMAIN sessions :
                 GrantOf(sessions'[id], workload'[id]) = GrantOf(sessions[id], workload[id])
            /\ GrantOf(sessions'[s.session_id], workload'[s.session_id]) = g
            /\ DOMAIN sessions' = DOMAIN sessions \cup {s.session_id}
        BY <2>1, InsertAdds
      <4>2. SessionGrants' = {GrantOf(sessions'[id], workload'[id]) : id \in DOMAIN sessions'}
        BY DEF SessionGrants
      <4> QED
        BY <4>1, <4>2, Zenon DEF SessionGrants
    <3>2. AC!Legitimate(policy, g)
      BY <2>1 DEF Insert, IInv, CallsOK, CallOK, SessionOK
    <3>3. \A h \in SessionGrants : h.id # g.id
      <4> SUFFICES ASSUME NEW id \in DOMAIN sessions
                   PROVE  GrantOf(sessions[id], workload[id]).id # g.id
        BY DEF SessionGrants
      <4>1. sessions[id].session_id = id /\ s.session_id \notin DOMAIN sessions
        BY <2>1, InsertAdds DEF IInv, TableOK
      <4> QED
        BY <4>1 DEF GrantOf
    <3> QED
      BY <2>1, <3>1, <3>2, <3>3 DEF AC!Grant
  <2>2. CASE Restart
    BY <2>2 DEF Restart, Survivors, AC!Next, AC!Restart, SessionGrants
  <2>3. CASE UNCHANGED <<policy, sessions, workload>>
    BY <2>3 DEF AC!vars, SessionGrants
  <2> QED
    BY <2>1, <2>2, <2>3, TableSteps DEF AC!Next
<1> QED
  BY <1>1, <1>2, Invariant, PTL DEF Spec, ImplementsAccessControl, AC!Spec

-----------------------------------------------------------------------------
(* Expired and lost sessions *)

\* An id in gone is neither usable nor about to be inserted.
GoneIds ==
  \A id \in gone :
    /\ id \in DOMAIN sessions => Expired(sessions[id])
    /\ \A t \in Task : call[t].at = "insert" => call[t].session.session_id # id

LEMMA GoneStep ==
  ASSUME clock_steps = 0, clock_steps' = 0, IInv, GoneIds, [Next]_vars
  PROVE  GoneIds'
<1> USE DEF GoneIds
<1>1. CASE \E t \in Task : AnalyzerFails(t) \/ Refuse(t) \/ Cancel(t)
  BY <1>1 DEF AnalyzerFails, Refuse, Cancel, Become, Idle, Unmoved, history, Expired, IInv, TypeOK
<1>2. ASSUME NEW t \in Task, Request(t) \/ AnalyzerAnswers(t) PROVE GoneIds'
  <2>1. /\ UNCHANGED <<sessions, now, gone>>
        /\ \A u \in Task : call'[u] = call[u] \/ call'[u].at # "insert"
    BY <1>2 DEF Request, RequestUnknown, RequestManual, RequestAuto, AnalyzerAnswers, Answer, Adopted, Become,
                Checking, Analyzing, Unmoved, history, IInv, TypeOK
  <2> QED
    BY <2>1 DEF Expired
<1>3. ASSUME NEW t \in Task, Admit(t) PROVE GoneIds'
  <2> DEFINE s == Session(drawn + 1, call[t].entity, call[t].caps, call[t].source, now)
  <2>1. /\ call' = [call EXCEPT ![t] = Inserting(s, call[t].wasm)]
        /\ UNCHANGED <<sessions, now, gone>>
    BY <1>3 DEF Admit, Reserved, Become, history
  <2>2. Inserting(s, call[t].wasm).session.session_id = drawn + 1
    BY DEF Inserting, Session
  <2>3. drawn + 1 \notin gone
    BY DEF IInv, TypeOK
  <2> QED
    BY <2>1, <2>2, <2>3 DEF IInv, TypeOK, Expired
<1>4. ASSUME NEW t \in Task, Insert(t) PROVE GoneIds'
  <2>1. /\ call' = [call EXCEPT ![t] = Idle] /\ UNCHANGED <<now, gone>>
        /\ call[t].session.session_id \notin gone
    BY <1>4 DEF Insert, Become
  <2>2. \A u \in Task : call'[u] = call[u] \/ call'[u].at # "insert"
    BY <2>1 DEF Idle, IInv, TypeOK
  <2>3. \A id \in gone : id \in DOMAIN sessions' => Expired(sessions'[id])
    BY <2>1, <1>4, InsertAdds
  <2> QED
    BY <2>1, <2>2, <2>3 DEF Expired
<1>5. ASSUME NEW id \in 1..MaxSessions, Lookup(id) PROVE GoneIds'
  <2>1. get_session(id) = "expired" =>
          /\ id \in DOMAIN sessions /\ Expired(sessions[id])
          /\ \A t \in Task : call[t].at = "insert" => call[t].session.session_id # id
    BY DEF get_session, IInv, IdsFresh
  <2> QED
    BY <2>1, <1>5 DEF Lookup, Unmoved, Expired
<1>6. CASE Tick
  <2>1. \A s \in SessionType : Expired(s) => Expired(s)'
    BY <1>6 DEF Tick, Expired, SessionType, IInv, TypeOK
  <2> QED
    BY <2>1, <1>6 DEF Tick, Expired, history, IInv, TypeOK
<1>7. CASE StepBack
  BY <1>7 DEF StepBack
<1>8. CASE Restart
  BY <1>8 DEF Restart, Survivors, Idle
<1>9. CASE UNCHANGED vars
  BY <1>9 DEF vars, Expired
<1> QED
  BY <1>1, <1>2, <1>3, <1>4, <1>5, <1>6, <1>7, <1>8, <1>9 DEF Next, Step

\* The steps of the clock are counted up.
LEMMA ClockStepsGrow == TypeOK /\ [Next]_vars /\ clock_steps' = 0 => clock_steps = 0
<1> SUFFICES ASSUME TypeOK, [Next]_vars, clock_steps' = 0 PROVE clock_steps = 0
  OBVIOUS
<1>1. clock_steps \in Nat
  BY BoundsAssumption DEF TypeOK
<1>2. CASE StepBack
  BY <1>1, <1>2 DEF StepBack
<1>3. CASE ~StepBack
  <2>1. UNCHANGED clock_steps
    BY <1>3 DEF Next, Step, Request, RequestUnknown, RequestManual, RequestAuto,
                AnalyzerAnswers, Answer, Adopted, AnalyzerFails, Refuse, Admit, Reserved, Insert, Cancel, Lookup,
                Tick, Restart, Survivors, Unmoved, vars
  <2> QED
    BY <2>1
<1> QED
  BY <1>2, <1>3

\* While the clock has not been set back, what was reported expired or was lost
\* in a restart is never handed out again (service.rs:199-210).
THEOREM GoneIsGone == Spec => []GoneStayGone
<1> DEFINE GoneOK == clock_steps = 0 => GoneIds
<1>1. Init => GoneOK
  BY DEF Init, GoneIds
<1>2. GoneOK => GoneStayGone
  BY DEF GoneIds, GoneStayGone, get_session
<1>3. IInv /\ GoneOK /\ [Next]_vars => GoneOK'
  BY GoneStep, ClockStepsGrow DEF IInv
<1> HIDE DEF GoneOK
<1> QED
  BY <1>1, <1>2, <1>3, Invariant, PTL DEF Spec

=============================================================================
