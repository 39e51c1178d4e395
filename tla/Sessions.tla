------------------------------ MODULE Sessions ------------------------------
(***************************************************************************)
(* The session part of EnforcementService (service.rs): creation,          *)
(* including the wait for the analyzer and for the lock of the session     *)
(* table, lookup, and the counts and capability reports built on them.     *)
(*                                                                         *)
(* Each task runs one create_session_with_wasm at a time.  The future it   *)
(* polls has two await points, the analyzer and the write lock; call[t] is *)
(* the state of that future.  Between await points nothing another task    *)
(* does can be observed except the clock, so each stretch is one action.   *)
(***************************************************************************)
EXTENDS Integers, FiniteSets, Workload

CONSTANTS
  EntityId,      \* the names callers ask a session for
  Model,         \* analyzer models a policy may name
  Wasm,          \* the workloads callers submit
  NoWasm,        \* wasm_bytes = None: every call over HTTP
  Policies,      \* the policies a deployment may load at start-up
  Verdicts,      \* the capability sets an analyzer may answer
  Task,          \* concurrent callers
  SessionTTL,    \* 24 hours, in clock ticks
  MaxNow, MaxSessions, MaxRestarts, MaxClockSteps   \* bounds for TLC

ASSUME PoliciesAssumption ==
  /\ Policies \subseteq PolicyConfigs(EntityId, Model)
  /\ \A p \in Policies : \A d, e \in p.entities : d.id = e.id => d = e
ASSUME VerdictsAssumption == Verdicts \subseteq CapabilitiesConfig
ASSUME WasmAssumption     == Wasm \subseteq Seq(Payload)
ASSUME NoWasmAssumption   == NoWasm \notin Wasm
ASSUME BoundsAssumption   ==
  /\ SessionTTL \in Nat /\ MaxNow \in Nat /\ MaxSessions \in Nat
  /\ MaxRestarts \in Nat /\ MaxClockSteps \in Nat

VARIABLES
  policy,      \* loaded at start-up, immutable while the process lives
  now,         \* Utc::now(), the wall clock
  sessions,    \* the table: session id -> Session
  call,        \* call[t]: the create_session_with_wasm future of task t
  drawn,       \* the uuids drawn so far are 1..drawn: Uuid::new_v4 never repeats
  restarts, clock_steps,   \* how often the bounds were used
  \* History variables: read by properties only.
  workload,    \* session id -> the workload it was created for
  verdicts,    \* what the analyzer answered since start-up
  gone         \* ids reported expired, or of sessions a restart has lost

vars == <<policy, now, sessions, call, drawn, restarts, clock_steps,
          workload, verdicts, gone>>

history == <<workload, verdicts, gone>>

-----------------------------------------------------------------------------
(* The states of a future; policy_source repeats the mode of the entity. *)

Idle                      == [at |-> "idle"]
Analyzing(e, w, src)      == [at |-> "analyze", entity |-> e, wasm |-> w,
                              source |-> src]
Checking(e, w, caps, src) == [at |-> "check", entity |-> e, wasm |-> w,
                              caps |-> caps, source |-> src]
Inserting(s, w)           == [at |-> "insert", session |-> s, wasm |-> w]

Session(id, e, caps, src, t) ==
  [session_id |-> id, entity_id |-> e, granted_capabilities |-> list_granted(caps),
   policy_source |-> src, created_at |-> t, expires_at |-> t + SessionTTL]

Become(t, state) == call' = [call EXCEPT ![t] = state]

\* Ids in use or about to be: the bound MaxSessions is taken on these so that
\* a call, once started, is never cut short by it.
Busy == {t \in Task : call[t].at # "idle"}

Init ==
  /\ policy \in Policies /\ now = 0
  /\ sessions = [id \in {} |-> {}]
  /\ call = [t \in Task |-> Idle]
  /\ drawn = 0 /\ restarts = 0 /\ clock_steps = 0
  /\ workload = [id \in {} |-> {}] /\ verdicts = {} /\ gone = {}

-----------------------------------------------------------------------------
(* create_session_with_wasm, up to its first await point *)

Start(t) == call[t].at = "idle" /\ drawn + Cardinality(Busy) < MaxSessions

Unmoved == UNCHANGED <<policy, now, sessions, drawn, restarts, clock_steps>>

\* find_entity returned None: EntityNotFound, whatever strict_mode says, and
\* nothing changes.
RequestUnknown(t, e) ==
  /\ Start(t)
  /\ ~HasEntity(policy, e)
  /\ Unmoved /\ UNCHANGED call /\ UNCHANGED history

\* Manual: the capability block of the policy, verbatim.
RequestManual(t, e, w) ==
  /\ Start(t)
  /\ HasEntity(policy, e)
  /\ find_entity(policy, e).mode.kind = "manual"
  /\ Become(t, Checking(e, w, find_entity(policy, e).capabilities, ManualMode))
  /\ Unmoved /\ UNCHANGED history

\* Auto: an error without a workload, else the future waits for the analyzer.
RequestAuto(t, e, w) ==
  /\ Start(t)
  /\ HasEntity(policy, e)
  /\ find_entity(policy, e).mode.kind = "auto"
  /\ IF w = NoWasm THEN UNCHANGED call
     ELSE Become(t, Analyzing(e, w, find_entity(policy, e).mode))
  /\ Unmoved /\ UNCHANGED history

Request(t) ==
  \E e \in EntityId : \/ RequestUnknown(t, e)
                      \/ \E w \in Wasm \cup {NoWasm} :
                           RequestManual(t, e, w) \/ RequestAuto(t, e, w)

-----------------------------------------------------------------------------
(* The analyzer: it may answer, fail, or never return (no timeout is set). *)

\* Mutant of Adopted: the answer is added to the YAML block.
AdoptedOnTop(t, v) ==
  [c \in Capability |-> v[c] \/ find_entity(policy, call[t].entity).capabilities[c]]

\* The analyzer's verdict is the capability set: no intersection, no bound.
Adopted(t, v) == v

Answer(t, v) ==
  /\ call[t].at = "analyze"
  /\ Become(t, Checking(call[t].entity, call[t].wasm, Adopted(t, v), call[t].source))
  /\ verdicts' = verdicts \cup
       {[model |-> call[t].source.model, wasm |-> call[t].wasm,
         granted |-> list_granted(v)]}
  /\ UNCHANGED <<workload, gone>> /\ Unmoved

AnalyzerAnswers(t) == \E v \in Verdicts : Answer(t, v)

AnalyzerFails(t) ==
  /\ call[t].at = "analyze"
  /\ Become(t, Idle)
  /\ Unmoved /\ UNCHANGED history

-----------------------------------------------------------------------------
(* From the capability set to the session table *)

\* Mutant of Passes: a workload that parses is admitted.
PassesIfReadable(w, caps) == w # NoWasm => ~Malformed(w)

\* check_workload is skipped only when there are no bytes to check.
Passes(w, caps) == w # NoWasm => check_workload(w, caps) = "ok"

Refuse(t) ==
  /\ call[t].at = "check"
  /\ ~Passes(call[t].wasm, call[t].caps)
  /\ Become(t, Idle)
  /\ Unmoved /\ UNCHANGED history

\* Mutant of Reserved: the id is not taken before the wait for the lock.
ReservedLater == drawn

\* Uuid::new_v4: an id no session had before.
Reserved == drawn + 1

\* The session is stamped here, before the task waits for the write lock.
Admit(t) ==
  /\ call[t].at = "check"
  /\ Passes(call[t].wasm, call[t].caps)
  /\ drawn' = Reserved
  /\ Become(t, Inserting(Session(drawn + 1, call[t].entity, call[t].caps,
                                 call[t].source, now), call[t].wasm))
  /\ UNCHANGED <<policy, now, sessions, restarts, clock_steps>>
  /\ UNCHANGED history

\* f with k mapped to v.
Put(f, k, v) == [x \in DOMAIN f \cup {k} |-> IF x = k THEN v ELSE f[x]]

\* Mutant of LockHolders: a call keeps the lock while its analyzer works.
LockHoldersAnalyzing == {u \in Task : call[u].at = "analyze"}

\* The calls that keep the lock of the table across an await point.
LockHolders == {}

Insert(t) ==
  /\ call[t].at = "insert" /\ LockHolders = {}
  /\ LET s == call[t].session IN
       /\ sessions' = Put(sessions, s.session_id, s)
       /\ workload' = Put(workload, s.session_id, call[t].wasm)
  /\ Become(t, Idle)
  /\ UNCHANGED <<policy, now, drawn, restarts, clock_steps, verdicts, gone>>

\* The caller drops the future at an await point (a client disconnects).
Cancel(t) ==
  /\ call[t].at \in {"analyze", "insert"}
  /\ Become(t, Idle)
  /\ Unmoved /\ UNCHANGED history

-----------------------------------------------------------------------------
(* Reading the table *)

Expired(s) == now > s.expires_at

get_session(id) ==
  CASE id \notin DOMAIN sessions                            -> "not found"
    [] id \in DOMAIN sessions /\ Expired(sessions[id])      -> "expired"
    [] OTHER                                                -> "ok"

Lookup(id) ==
  /\ gone' = IF get_session(id) = "expired" THEN gone \cup {id} ELSE gone
  /\ UNCHANGED <<call, workload, verdicts>> /\ Unmoved

\* Mutant of active_sessions_count: the comparison is turned round.
active_sessions_count_turned ==
  Cardinality({id \in DOMAIN sessions : sessions[id].expires_at < now})

active_sessions_count ==
  Cardinality({id \in DOMAIN sessions : sessions[id].expires_at > now})

\* Mutant of HasCapability: the flags of an auto entity are answered too.
HasCapabilityByFlags(e, cap) ==
  IF ~HasEntity(policy, e) THEN "unknown entity"
  ELSE IF has_capability(find_entity(policy, e).capabilities, cap) THEN "yes" ELSE "no"

\* has_capability of the service: in auto mode the answer is per session.
HasCapability(e, cap) ==
  CASE ~HasEntity(policy, e)                                        -> "unknown entity"
    [] /\ HasEntity(policy, e)
       /\ find_entity(policy, e).mode.kind = "auto"                 -> "per session"
    [] OTHER -> IF has_capability(find_entity(policy, e).capabilities, cap)
                THEN "yes" ELSE "no"

\* GET /hal/capabilities: the YAML block, whatever the mode of the entity.
get_capabilities(e) ==
  IF HasEntity(policy, e) THEN list_granted(find_entity(policy, e).capabilities)
                          ELSE {}

-----------------------------------------------------------------------------
(* The environment *)

Tick ==
  /\ now < MaxNow
  /\ now' = now + 1
  /\ UNCHANGED <<policy, sessions, call, drawn, restarts, clock_steps>>
  /\ UNCHANGED history

\* The wall clock is set back (NTP, an operator).
StepBack ==
  /\ clock_steps < MaxClockSteps
  /\ clock_steps' = clock_steps + 1
  /\ now' \in 0..now - 1
  /\ UNCHANGED <<policy, sessions, call, drawn, restarts>>
  /\ UNCHANGED history

\* Mutant of Survivors: the session table outlives the process.
SurvivorsAll == DOMAIN sessions

\* The ids whose sessions outlive a restart: the table is in memory only.
Survivors == {}

\* The operator may have edited the policy file since the last start.
Restart ==
  /\ restarts < MaxRestarts
  /\ restarts' = restarts + 1
  /\ policy' \in Policies
  /\ sessions' = [id \in Survivors |-> sessions[id]]
  /\ workload' = [id \in Survivors |-> workload[id]]
  /\ call' = [t \in Task |-> Idle]
  /\ verdicts' = {}
  /\ gone' = gone \cup DOMAIN sessions
  /\ UNCHANGED <<now, drawn, clock_steps>>

Step(t) ==
  \/ Request(t) \/ AnalyzerAnswers(t) \/ AnalyzerFails(t)
  \/ Refuse(t) \/ Admit(t) \/ Insert(t) \/ Cancel(t)

Next ==
  \/ \E t \in Task : Step(t)
  \/ \E id \in 1..MaxSessions : Lookup(id)
  \/ Tick \/ StepBack \/ Restart

Spec == Init /\ [][Next]_vars

\* The runtime keeps polling a future that can run, and the table lock is only
\* held for synchronous sections.  Nothing is assumed of the analyzer.
Fairness == \A t \in Task : WF_vars(Refuse(t) \/ Admit(t) \/ Insert(t))

FairSpec == Spec /\ Fairness

-----------------------------------------------------------------------------
(* Properties *)

SessionType ==
  [session_id : Nat, entity_id : EntityId,
   granted_capabilities : SUBSET Capability,
   policy_source : EnforcementMode(Model), created_at : Nat, expires_at : Nat]

AnalyzingType ==
  [at : {"analyze"}, entity : EntityId, wasm : Wasm, source : EnforcementMode(Model)]

CheckingType ==
  [at : {"check"}, entity : EntityId, wasm : Wasm \cup {NoWasm},
   caps : CapabilitiesConfig, source : EnforcementMode(Model)]

InsertingType ==
  [at : {"insert"}, session : SessionType, wasm : Wasm \cup {NoWasm}]

CallType == {Idle} \cup AnalyzingType \cup CheckingType \cup InsertingType

\* Every variable has its type; the table only holds ids that were drawn.
TypeOK ==
  /\ policy \in Policies /\ now \in Nat /\ drawn \in Nat
  /\ DOMAIN sessions \subseteq 1..drawn
  /\ sessions \in [DOMAIN sessions -> SessionType]
  /\ call \in [Task -> CallType]
  /\ restarts \in 0..MaxRestarts /\ clock_steps \in 0..MaxClockSteps
  /\ workload \in [DOMAIN sessions -> Wasm \cup {NoWasm}]
  /\ verdicts \subseteq [model : Model, wasm : Wasm, granted : SUBSET Capability]
  /\ gone \subseteq 1..drawn

\* w is well formed and imports nothing outside the capabilities in granted.
Covered(w, granted) ==
  /\ ~Malformed(w)
  /\ \A imp \in Imports(w) : import_to_capability(imp) \in granted \cup {Benign}

\* No session exists for a workload that needs more than the session was
\* granted: whatever the analyzer said and however the calls interleaved, the
\* bytes that were analyzed, checked and stored belong to one another
\* (service.rs:154-178, ARCHITECTURE.md "capability checks").
WorkloadsCovered ==
  \A id \in DOMAIN sessions :
    workload[id] # NoWasm =>
      Covered(workload[id], sessions[id].granted_capabilities)

\* A session marked Manual holds exactly the block the running policy gives
\* its entity, even across restarts with an edited policy (service.rs:119).
ManualGrantsFromPolicy ==
  \A id \in DOMAIN sessions :
    LET s == sessions[id] IN
    s.policy_source = ManualMode =>
      /\ HasEntity(policy, s.entity_id)
      /\ find_entity(policy, s.entity_id).mode = ManualMode
      /\ s.granted_capabilities =
           list_granted(find_entity(policy, s.entity_id).capabilities)

\* A session marked Auto belongs to an auto entity, and its grant is an answer
\* the named model gave in this run of the process for this very workload: no
\* answer is applied to another call's bytes, none is made up when there are
\* no bytes, none is combined with the YAML block (service.rs:106-107).
AutoGrantsFromAnalyzer ==
  \A id \in DOMAIN sessions :
    LET s == sessions[id] IN
    s.policy_source # ManualMode =>
      /\ HasEntity(policy, s.entity_id)
      /\ s.policy_source = find_entity(policy, s.entity_id).mode
      /\ [model |-> s.policy_source.model, wasm |-> workload[id],
          granted |-> s.granted_capabilities] \in verdicts

\* What has_capability answers for an entity never contradicts a session of
\* it: the flag list of a manual session, no answer for an auto session
\* (service.rs:212-216).
CapabilityAnswersAgree ==
  \A id \in DOMAIN sessions, cap \in Capability :
    LET s == sessions[id] IN
    HasCapability(s.entity_id, cap) =
      CASE s.policy_source # ManualMode          -> "per session"
        [] s.policy_source = ManualMode /\ cap \in s.granted_capabilities  -> "yes"
        [] OTHER -> "no"

\* An id that was reported expired, or whose table was lost in a restart,
\* never gives a session again, as long as the wall clock was not set back
\* (SECURITY.md:65).
GoneStayGone == clock_steps = 0 => \A id \in gone : get_session(id) # "ok"

\* While the process lives a session is never dropped, replaced or altered,
\* whichever tasks insert at the same time (service.rs:175-178).
SessionsAppendOnly ==
  [][restarts' = restarts =>
       /\ DOMAIN sessions \subseteq DOMAIN sessions'
       /\ \A id \in DOMAIN sessions : sessions'[id] = sessions[id]]_vars

\* A call whose capabilities are known returns even if every other call waits
\* for an analyzer that never answers: no lock is held across that wait.
KnownCallsReturn ==
  \A t \in Task : call[t].at \in {"check", "insert"} ~> call[t].at = "idle"

\* A session, with the workload it was created for, as a grant of the
\* abstract specification.
GrantOf(s, w) ==
  [id |-> s.session_id, entity |-> s.entity_id,
   capabilities |-> s.granted_capabilities, workload |-> w]

SessionGrants == {GrantOf(sessions[id], workload[id]) : id \in DOMAIN sessions}

AC == INSTANCE AccessControl WITH grants <- SessionGrants

\* Every behaviour of the service is one of AccessControl.
ImplementsAccessControl == AC!Spec

-----------------------------------------------------------------------------
(* The inductive invariant behind the properties above *)

\* granted, obtained for entity e of policy p and workload w, is what the mode
\* of e prescribes, given the analyzer's answers.
Backed(p, answers, src, e, granted, w) ==
  /\ HasEntity(p, e)
  /\ src = find_entity(p, e).mode
  /\ src.kind = "manual" => granted = list_granted(find_entity(p, e).capabilities)
  /\ src.kind = "auto" =>
       [model |-> src.model, wasm |-> w, granted |-> granted] \in answers

\* A session that may stand in the table.
SessionOK(p, answers, s, w) ==
  /\ Backed(p, answers, s.policy_source, s.entity_id, s.granted_capabilities, w)
  /\ AC!Legitimate(p, GrantOf(s, w))

\* What a suspended future holds is already as good as the session it becomes.
CallOK(p, answers, c) ==
  /\ c.at = "analyze" =>
       /\ HasEntity(p, c.entity)
       /\ c.source = find_entity(p, c.entity).mode
       /\ c.source.kind = "auto"
  /\ c.at = "check" =>
       /\ Backed(p, answers, c.source, c.entity, list_granted(c.caps), c.wasm)
       /\ c.caps \in AC!Prescribed(find_entity(p, c.entity))
       /\ c.wasm = NoWasm => c.source.kind = "manual"
  /\ c.at = "insert" => SessionOK(p, answers, c.session, c.wasm)

CallsOK == \A t \in Task : CallOK(policy, verdicts, call[t])

\* An id about to be inserted was drawn, is not in the table and is nobody
\* else's.
IdsFresh ==
  \A t \in Task :
    call[t].at = "insert" =>
      /\ call[t].session.session_id \in (1..drawn) \ DOMAIN sessions
      /\ \A u \in Task \ {t} :
           call[u].at = "insert" =>
             call[u].session.session_id # call[t].session.session_id

TableOK ==
  \A id \in DOMAIN sessions :
    /\ sessions[id].session_id = id
    /\ SessionOK(policy, verdicts, sessions[id], workload[id])

IInv == TypeOK /\ CallsOK /\ IdsFresh /\ TableOK

-----------------------------------------------------------------------------
(* Statements of the documentation that the code does not honour *)

\* README.md, GET /api/v1/hal/capabilities: "An entity's capabilities".  What
\* a session of the entity was granted should be among them.
ReportedCapabilitiesCoverSessions ==
  \A id \in DOMAIN sessions :
    sessions[id].granted_capabilities \subseteq get_capabilities(sessions[id].entity_id)

=============================================================================
