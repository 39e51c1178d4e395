---------------------------- MODULE ServerProofs ----------------------------
(***************************************************************************)
(* Proofs about Server, for any policies, entities, tasks and editing of   *)
(* the policy file: the server runs Sessions, and what its clients were    *)
(* told stays true while the process lives.                                *)
(***************************************************************************)
EXTENDS Server, SessionsProofs, FiniteSetTheorems

-----------------------------------------------------------------------------
(* The server runs the session service *)

LEMMA StepRuns == [ServerNext]_server_vars => [Next]_vars
<1> SUFFICES ASSUME [ServerNext]_server_vars PROVE [Next]_vars
  OBVIOUS
<1>1. CASE Boot \/ Time
  BY <1>1 DEF Boot, Time, Next
<1>2. CASE BootFails \/ Bind \/ Kill \/ Edit \/ UNCHANGED server_vars
  BY <1>2 DEF BootFails, Bind, Kill, Edit, server_vars
<1>3. ASSUME NEW t \in Task,
             Work(t) \/ Created(t) \/ Stats(t) \/ Count(t) \/ Deliver(t) \/ HangUp(t)
      PROVE  [Next]_vars
  BY <1>3 DEF Work, Created, Stats, Count, Deliver, HangUp, Next, Step
<1>4. ASSUME NEW t \in Task, NEW e \in EntityId,
             AccessUnknown(t, e) \/ AccessAuto(t, e) \/ Access(t, e)
      PROVE  [Next]_vars
  BY <1>4 DEF AccessUnknown, AccessAuto, Access, Request, Next, Step
<1>5. ASSUME NEW t \in Task, NEW e, Capabilities(t, e) PROVE [Next]_vars
  BY <1>5 DEF Capabilities
<1> QED
  BY <1>1, <1>2, <1>3, <1>4, <1>5 DEF ServerNext

\* The server implements the session service (main.rs:49-101, api.rs): what is
\* proved of Sessions holds of the process behind HTTP.
THEOREM ServerRunsSessions == ServerSpec => Spec
<1>1. ServerInit => Init
  BY DEF ServerInit
<1> QED
  BY <1>1, StepRuns, PTL DEF ServerSpec, Spec

-----------------------------------------------------------------------------
(* What a client may be told *)

\* Session a stands in table tab as acknowledged.
Held(tab, a) == a.id \in DOMAIN tab /\ Ack(tab[a.id]) = a

\* What policy p says of entity e.
FactOf(p, e) ==
  IF HasEntity(p, e) THEN Known(e, list_granted(find_entity(p, e).capabilities))
  ELSE Unknown(e)

\* All that connection state c has promised its client, or is about to, is so.
Truthful(tab, p, c) ==
  /\ c.at \in {"count", "counted"} => \A a \in c.floor : Held(tab, a)
  /\ c.at = "reply" => /\ \A a \in c.acked : Held(tab, a)
                       /\ \A f \in c.told : f = FactOf(p, f.entity)

AnswersOK ==
  /\ verdicts = {} /\ \A t \in Task : call[t].at # "analyze"
  /\ \A a \in acked : Held(sessions, a)
  /\ \A f \in told : f = FactOf(policy, f.entity)
  /\ \A t \in Task : Truthful(sessions, policy, http[t])

SInv == ConnectionsOK /\ AnswersOK

LEMMA QuietTypes == ASSUME NEW tab, NEW p PROVE Quiet \in ConnectionType /\ Truthful(tab, p, Quiet)
BY DEF ConnectionType, Quiet, Truthful

\* A fact has its type and is about the entity it names.
LEMMA FactTypes ==
  ASSUME NEW p, NEW e \in EntityId
  PROVE  FactOf(p, e) \in FactType /\ FactOf(p, e).entity = e
BY DEF FactOf, FactType, Known, Unknown, list_granted

\* A step of the service that is no restart and asks no analyzer.
Ordinary ==
  /\ UNCHANGED <<policy, verdicts>>
  /\ drawn \in Nat /\ drawn' \in Nat /\ drawn <= drawn'
  /\ \A id \in DOMAIN sessions : id \in DOMAIN sessions' /\ sessions'[id] = sessions[id]
  /\ \A a : Held(sessions, a) => Held(sessions', a)

LEMMA OrdinarySteps ==
  ASSUME IInv, NEW t \in Task,
         \/ UNCHANGED vars \/ Tick \/ StepBack
         \/ \E e \in EntityId : \/ RequestUnknown(t, e) \/ RequestManual(t, e, NoWasm)
                                \/ RequestAuto(t, e, NoWasm)
         \/ Admit(t) \/ Insert(t) \/ Cancel(t)
  PROVE  Ordinary
<1>1. drawn \in Nat
  BY DEF IInv, TypeOK
<1>2. CASE Insert(t)
  <2>1. UNCHANGED <<policy, verdicts, drawn>>
    BY <1>2 DEF Insert
  <2>2. \A id \in DOMAIN sessions : id \in DOMAIN sessions' /\ sessions'[id] = sessions[id]
    BY <1>2, InsertAdds
  <2> QED
    BY <1>1, <2>1, <2>2 DEF Ordinary, Held
<1>3. CASE Admit(t)
  BY <1>1, <1>3 DEF Admit, Reserved, history, Ordinary
<1>4. CASE ~Insert(t) /\ ~Admit(t)
  <2>1. UNCHANGED <<policy, verdicts, drawn, sessions>>
    BY <1>4 DEF vars, Tick, StepBack, RequestUnknown, RequestManual, RequestAuto, Cancel,
                Unmoved, history
  <2> QED
    BY <1>1, <2>1 DEF Ordinary
<1> QED
  BY <1>2, <1>3, <1>4

\* What was true stays true, what had its type keeps it.
LEMMA OrdinaryKeeps ==
  ASSUME Ordinary
  PROVE  /\ AckType \subseteq AckType' /\ FactType' = FactType
         /\ ConnectionType \subseteq ConnectionType'
         /\ \A c : Truthful(sessions, policy, c) => Truthful(sessions', policy', c)
<1>1. AckType \subseteq AckType' /\ FactType' = FactType
  BY DEF Ordinary, AckType, FactType
<1>2. SUBSET AckType \subseteq SUBSET AckType'
  BY <1>1
<1>3. ConnectionType \subseteq ConnectionType'
  BY <1>1, <1>2 DEF ConnectionType
<1>4. \A c : Truthful(sessions, policy, c) => Truthful(sessions', policy', c)
  BY DEF Ordinary, Truthful
<1> QED
  BY <1>1, <1>3, <1>4

-----------------------------------------------------------------------------
(* Steps of one connection *)

LEMMA ConnectionMoves ==
  ASSUME SInv, Ordinary, NEW t \in Task, process = "up", UNCHANGED <<file, process>>,
         http' = [http EXCEPT ![t] = http'[t]],
         http'[t] \in ConnectionType', Truthful(sessions', policy', http'[t]),
         acked' \subseteq AckType', \A a \in acked' : Held(sessions', a),
         told' \subseteq FactType, \A f \in told' : f = FactOf(policy', f.entity),
         \A u \in Task : /\ http'[u].at = "create" <=> call'[u].at # "idle"
                         /\ call'[u].at # "analyze"
  PROVE  SInv'
<1>1. http \in [Task -> ConnectionType]
  BY DEF SInv, ConnectionsOK
<1>2. \A u \in Task : u # t => http'[u] = http[u]
  BY <1>1
<1>3. http' \in [Task -> ConnectionType']
  BY <1>1, <1>2, OrdinaryKeeps
<1>4. \A u \in Task : Truthful(sessions', policy', http'[u])
  BY <1>2, OrdinaryKeeps DEF SInv, AnswersOK
<1>5. ConnectionsOK'
  BY <1>3, OrdinaryKeeps DEF ConnectionsOK, SInv
<1>6. AnswersOK'
  BY <1>4 DEF AnswersOK, SInv, Ordinary
<1> QED
  BY <1>5, <1>6 DEF SInv

\* What had been told stays told.
LEMMA ToldKept ==
  ASSUME SInv, Ordinary
  PROVE  /\ acked \subseteq AckType' /\ \A a \in acked : Held(sessions', a)
         /\ told \subseteq FactType /\ \A f \in told : f = FactOf(policy', f.entity)
BY OrdinaryKeeps DEF SInv, ConnectionsOK, AnswersOK, Ordinary

\* A connection that moves to state, with no effect on what has been told.
LEMMA ConnectionTurns ==
  ASSUME SInv, Ordinary, NEW t \in Task, NEW state, process = "up",
         UNCHANGED <<file, process, acked, told>>,
         Connection(t, state), state \in ConnectionType',
         Truthful(sessions', policy', state),
         \A u \in Task \ {t} : UNCHANGED call[u],
         state.at = "create" <=> call'[t].at # "idle", call'[t].at # "analyze"
  PROVE  SInv'
<1>1. http' = [http EXCEPT ![t] = state] /\ http \in [Task -> ConnectionType]
  BY DEF Connection, SInv, ConnectionsOK
<1>2. http'[t] = state /\ \A u \in Task \ {t} : http'[u] = http[u]
  BY <1>1
<1>3. \A u \in Task : /\ http'[u].at = "create" <=> call'[u].at # "idle"
                      /\ call'[u].at # "analyze"
  BY <1>2 DEF SInv, ConnectionsOK, AnswersOK
<1> QED
  BY <1>1, <1>2, <1>3, ToldKept, ConnectionMoves

\* A call of task t leaves the other calls alone.
LEMMA OthersStay ==
  ASSUME IInv, NEW t \in Task, NEW state, Become(t, state)
  PROVE  call'[t] = state /\ \A u \in Task \ {t} : UNCHANGED call[u]
BY DEF IInv, TypeOK, Become

LEMMA AccessKeeps ==
  ASSUME SInv, IInv, NEW t \in Task, NEW e \in EntityId,
         AccessUnknown(t, e) \/ AccessAuto(t, e) \/ Access(t, e)
  PROVE  SInv'
<1>1. Ordinary
  BY OrdinarySteps DEF AccessUnknown, AccessAuto, Access
<1>2. process = "up" /\ UNCHANGED <<file, process, acked, told>> /\ call[t].at = "idle"
  BY DEF AccessUnknown, AccessAuto, Access, Serving, RequestUnknown, RequestAuto,
         RequestManual, Start
<1>3. CASE AccessUnknown(t, e)
  <2> DEFINE state == Replying({Unknown(e)}, {})
  <2>1. Unknown(e) = FactOf(policy', e) /\ Unknown(e).entity = e /\ Unknown(e) \in FactType
    BY <1>1, <1>3, FactTypes DEF AccessUnknown, RequestUnknown, FactOf, Ordinary, Unknown
  <2>2. state \in ConnectionType' /\ Truthful(sessions', policy', state)
    BY <1>1, <2>1, OrdinaryKeeps DEF ConnectionType, Replying, Truthful
  <2>3. Connection(t, state) /\ UNCHANGED call /\ state.at = "reply"
    BY <1>3 DEF AccessUnknown, RequestUnknown, Replying
  <2> QED
    BY <1>1, <1>2, <2>2, <2>3, ConnectionTurns
<1>4. CASE AccessAuto(t, e)
  <2> DEFINE state == Replying({}, {})
  <2>1. state \in ConnectionType' /\ Truthful(sessions', policy', state)
    BY DEF ConnectionType, Replying, Truthful
  <2>2. Connection(t, state) /\ UNCHANGED call /\ state.at = "reply"
    BY <1>4 DEF AccessAuto, RequestAuto, Replying
  <2> QED
    BY <1>1, <1>2, <2>1, <2>2, ConnectionTurns
<1>5. CASE Access(t, e)
  <2> DEFINE state == Creating(e)
             c == Checking(e, NoWasm, find_entity(policy, e).capabilities, ManualMode)
  <2>1. state \in ConnectionType' /\ Truthful(sessions', policy', state)
    BY DEF ConnectionType, Creating, Truthful
  <2>2. Connection(t, state) /\ Become(t, c) /\ state.at = "create" /\ c.at = "check"
    BY <1>5 DEF Access, RequestManual, Creating, Checking
  <2>3. call'[t].at = "check" /\ \A u \in Task \ {t} : UNCHANGED call[u]
    BY <2>2, OthersStay
  <2> QED
    BY <1>1, <1>2, <2>1, <2>2, <2>3, ConnectionTurns
<1> QED
  BY <1>3, <1>4, <1>5

\* The session a connection is about to insert is what the policy says.
LEMMA CreatedFact ==
  ASSUME SInv, IInv, NEW t \in Task, call[t].at = "insert"
  PROVE  LET s == call[t].session IN
         /\ s \in SessionType /\ s.session_id \in 1..drawn
         /\ Known(s.entity_id, s.granted_capabilities) = FactOf(policy, s.entity_id)
<1> DEFINE s == call[t].session
<1>1. call[t] \in InsertingType
  BY CallCases DEF IInv, TypeOK
<1>2. s \in SessionType /\ s.session_id \in 1..drawn
  BY <1>1 DEF InsertingType, IInv, IdsFresh
<1>3. Backed(policy, verdicts, s.policy_source, s.entity_id, s.granted_capabilities,
             call[t].wasm)
  BY DEF IInv, CallsOK, CallOK, SessionOK
<1>4. s.policy_source.kind = "manual"
  BY <1>2, <1>3, ModeCases DEF Backed, SInv, AnswersOK, SessionType
<1> QED
  BY <1>2, <1>3, <1>4 DEF Backed, FactOf

LEMMA CreatedKeeps ==
  ASSUME SInv, IInv, NEW t \in Task, Created(t) PROVE SInv'
<1> DEFINE s == call[t].session
           state == Replying({Known(s.entity_id, s.granted_capabilities)}, {Ack(s)})
<1>1. Insert(t) /\ Ordinary
  BY OrdinarySteps DEF Created
<1>2. process = "up" /\ UNCHANGED <<file, process, acked, told>> /\ Connection(t, state)
  BY DEF Created
<1>3. /\ call'[t] = Idle /\ \A u \in Task \ {t} : UNCHANGED call[u]
      /\ UNCHANGED policy /\ drawn' = drawn
  BY <1>1, OthersStay DEF Insert
<1>4. /\ s \in SessionType /\ s.session_id \in 1..drawn
      /\ Known(s.entity_id, s.granted_capabilities) = FactOf(policy, s.entity_id)
  BY <1>1, CreatedFact DEF Insert
<1>5. /\ FactOf(policy, s.entity_id) \in FactType
      /\ FactOf(policy, s.entity_id).entity = s.entity_id
  BY <1>4, FactTypes DEF SessionType
<1>6. Held(sessions', Ack(s))
  <2>1. s.session_id \in DOMAIN sessions' /\ sessions'[s.session_id] = s
    BY <1>1, InsertAdds
  <2> QED
    BY <2>1 DEF Held, Ack
<1>7. Ack(s) \in AckType'
  BY <1>3, <1>4 DEF Ack, AckType, SessionType
<1> HIDE DEF s
<1>8. state \in ConnectionType'
  <2>1. {Known(s.entity_id, s.granted_capabilities)} \in SUBSET FactType'
    BY <1>1, <1>4, <1>5, OrdinaryKeeps
  <2>2. {Ack(s)} \in SUBSET AckType'
    BY <1>7
  <2> QED
    BY <2>1, <2>2 DEF ConnectionType, Replying
<1>9. Truthful(sessions', policy', state)
  BY <1>3, <1>4, <1>5, <1>6 DEF Truthful, Replying
<1> QED
  BY <1>1, <1>2, <1>3, <1>8, <1>9, ConnectionTurns DEF Replying, Idle

LEMMA WorkKeeps ==
  ASSUME SInv, IInv, NEW t \in Task, Work(t) PROVE SInv'
<1>1. Ordinary /\ process = "up" /\ UNCHANGED web
  BY OrdinarySteps DEF Work
<1>2. http' = http /\ http \in [Task -> ConnectionType]
  BY <1>1 DEF web, SInv, ConnectionsOK
<1>3. call[t].at # "idle" /\ call'[t].at = "insert" /\ \A u \in Task \ {t} : UNCHANGED call[u]
  BY OthersStay DEF Work, Admit, Inserting
<1>4. Truthful(sessions', policy', http'[t]) /\ http'[t] \in ConnectionType'
  BY <1>1, <1>2, OrdinaryKeeps DEF SInv, AnswersOK
<1>5. \A u \in Task : /\ http'[u].at = "create" <=> call'[u].at # "idle"
                      /\ call'[u].at # "analyze"
  BY <1>1, <1>2, <1>3 DEF SInv, ConnectionsOK, AnswersOK
<1> QED
  BY <1>1, <1>2, <1>4, <1>5, ToldKept, ConnectionMoves DEF web

\* The requests that only read, and the count under the table lock.
LEMMA ReadKeeps ==
  ASSUME SInv, IInv, NEW t \in Task,
         Stats(t) \/ Count(t) \/ \E e \in EntityId \cup {NoEntity} : Capabilities(t, e)
  PROVE  SInv'
<1>1. UNCHANGED <<vars, file, process, acked, told>>
  BY DEF Stats, Count, Capabilities
<1>2. Ordinary /\ UNCHANGED <<call, policy, sessions, drawn>>
  BY <1>1, OrdinarySteps DEF vars
<1>3. AckType' = AckType
  BY <1>2 DEF AckType
<1>4. CASE Stats(t)
  <2>1. Serving(t) /\ Connection(t, Counting(acked))
    BY <1>4 DEF Stats
  <2>2. Counting(acked) \in ConnectionType'
    BY <1>3 DEF SInv, ConnectionsOK, ConnectionType, Counting
  <2>3. Truthful(sessions', policy', Counting(acked)) /\ Counting(acked).at = "count"
    BY <1>2, ToldKept DEF Truthful, Counting
  <2> QED
    BY <1>1, <1>2, <2>1, <2>2, <2>3, ConnectionTurns DEF Serving, SInv, ConnectionsOK
<1>5. CASE Count(t)
  <2> DEFINE n == active_sessions_count
             state == Counted(n, http[t].floor)
  <2>1. http[t].at = "count" /\ Connection(t, state) /\ process = "up" /\ call[t].at = "idle"
    BY <1>5 DEF Count, SInv, ConnectionsOK, Quiet
  <2>2. http[t].floor \in SUBSET AckType
    BY <2>1 DEF SInv, ConnectionsOK, ConnectionType, Quiet
  <2>3. n \in Nat
    <3>1. IsFiniteSet(1..drawn)
      BY <1>2, FS_Interval DEF Ordinary
    <3>2. {id \in DOMAIN sessions : sessions[id].expires_at > now} \subseteq 1..drawn
      BY DEF IInv, TypeOK
    <3> QED
      BY <3>1, <3>2, FS_Subset, FS_CardinalityType DEF active_sessions_count
  <2> HIDE DEF n
  <2>4. state \in ConnectionType' /\ state.at = "counted"
    BY <1>3, <2>2, <2>3 DEF ConnectionType, Counted
  <2>5. Truthful(sessions', policy', state)
    BY <1>2, <2>1 DEF Truthful, Counted, SInv, AnswersOK
  <2> QED
    BY <1>1, <1>2, <2>1, <2>4, <2>5, ConnectionTurns
<1>6. ASSUME NEW e \in EntityId \cup {NoEntity}, Capabilities(t, e) PROVE SInv'
  <2> DEFINE facts == IF e = NoEntity THEN {} ELSE {FactOf(policy, e)}
             state == Replying(facts, {})
  <2>1. Serving(t) /\ Connection(t, state)
    BY <1>6 DEF Capabilities, Fact, FactOf, Served
  <2>2. facts \in SUBSET FactType /\ \A f \in facts : f = FactOf(policy', f.entity)
    BY <1>2, FactTypes
  <2> HIDE DEF facts
  <2>3. state \in ConnectionType' /\ state.at = "reply"
    BY <1>2, <2>2, OrdinaryKeeps DEF ConnectionType, Replying
  <2>4. Truthful(sessions', policy', state)
    BY <2>2 DEF Truthful, Replying
  <2> QED
    BY <1>1, <1>2, <2>1, <2>3, <2>4, ConnectionTurns DEF Serving, SInv, ConnectionsOK
<1> QED
  BY <1>4, <1>5, <1>6

LEMMA EndKeeps ==
  ASSUME SInv, IInv, NEW t \in Task, Deliver(t) \/ HangUp(t) PROVE SInv'
<1>1. Connection(t, Quiet) /\ http[t].at # "quiet" /\ UNCHANGED <<file, process>>
  BY DEF Deliver, HangUp
<1>2. process = "up" /\ http \in [Task -> ConnectionType] /\ http[t] \in ConnectionType
  BY <1>1 DEF SInv, ConnectionsOK, Quiet
<1>3. CASE HangUp(t)
  <2>1. Ordinary /\ UNCHANGED <<acked, told>>
    BY <1>3, OrdinarySteps DEF HangUp
  <2>2. call'[t].at = "idle" /\ \A u \in Task \ {t} : UNCHANGED call[u]
    <3>1. CASE call[t].at = "insert"
      BY <1>3, <3>1, OthersStay DEF HangUp, Cancel, Idle
    <3>2. CASE call[t].at # "insert"
      <4>1. call[t].at = "idle"
        BY <1>3, <3>2, CallCases DEF HangUp, SInv, AnswersOK, IInv, TypeOK, CallType, Idle,
           AnalyzingType, CheckingType, InsertingType
      <4> QED
        BY <1>3, <3>2, <4>1 DEF HangUp, vars
    <3> QED
      BY <3>1, <3>2
  <2> QED
    BY <1>1, <1>2, <2>1, <2>2, QuietTypes, OrdinaryKeeps, ConnectionTurns DEF Quiet
<1>4. CASE Deliver(t)
  <2>1. http' = [http EXCEPT ![t] = Quiet] /\ UNCHANGED vars /\ http[t].at \in {"reply", "counted"}
    BY <1>1, <1>4 DEF Deliver, Connection
  <2>2. Ordinary /\ UNCHANGED <<call, policy, sessions, drawn>>
    BY <2>1, OrdinarySteps DEF vars
  <2>3. call[t].at = "idle"
    BY <1>2, <2>1 DEF SInv, ConnectionsOK
  <2>4. \A u \in Task : /\ http'[u].at = "create" <=> call'[u].at # "idle"
                        /\ call'[u].at # "analyze"
    BY <1>2, <2>1, <2>2, <2>3 DEF SInv, ConnectionsOK, AnswersOK, Quiet
  <2>5. CASE http[t].at = "counted"
    <3>1. UNCHANGED <<acked, told>>
      BY <1>4, <2>5 DEF Deliver
    <3> QED
      BY <1>1, <1>2, <2>1, <2>2, <2>4, <3>1, QuietTypes, OrdinaryKeeps, ToldKept, ConnectionMoves
  <2>6. CASE http[t].at = "reply"
    <3>1. acked' = acked \cup http[t].acked /\ told' = told \cup http[t].told
      BY <1>4, <2>6 DEF Deliver
    <3>2. http[t].acked \subseteq AckType /\ http[t].told \subseteq FactType
      BY <1>2, <2>6 DEF ConnectionType, Quiet
    <3>3. Truthful(sessions', policy', http[t])
      BY <2>2, OrdinaryKeeps DEF SInv, AnswersOK
    <3>4. /\ acked' \subseteq AckType' /\ \A a \in acked' : Held(sessions', a)
          /\ told' \subseteq FactType /\ \A x \in told' : x = FactOf(policy', x.entity)
      BY <2>2, <2>6, <3>1, <3>2, <3>3, OrdinaryKeeps, ToldKept DEF Truthful
    <3> QED
      BY <1>1, <1>2, <2>1, <2>2, <2>4, <3>4, QuietTypes, OrdinaryKeeps, ConnectionMoves
  <2> QED
    BY <2>1, <2>5, <2>6
<1> QED
  BY <1>3, <1>4

-----------------------------------------------------------------------------
(* The process and its surroundings *)

LEMMA BootKeeps ==
  ASSUME SInv, IInv, Boot PROVE SInv'
<1>1. /\ acked = {} /\ told = {} /\ http = [t \in Task |-> Quiet]
      /\ UNCHANGED <<file, http, acked, told, drawn>> /\ process' = "starting"
      /\ call' = [t \in Task |-> Idle] /\ verdicts' = {}
  BY DEF Boot, Restart, SInv, ConnectionsOK
<1>2. AckType' = AckType
  BY <1>1 DEF AckType
<1>3. ConnectionsOK'
  BY <1>1, <1>2 DEF SInv, ConnectionsOK, ConnectionType, Idle
<1>4. AnswersOK'
  BY <1>1, QuietTypes DEF AnswersOK, Idle
<1> QED
  BY <1>3, <1>4 DEF SInv

LEMMA KillKeeps ==
  ASSUME SInv, Kill PROVE SInv'
<1>1. /\ acked' = {} /\ told' = {} /\ http' = [t \in Task |-> Quiet] /\ process' = "down"
      /\ UNCHANGED <<file, call, verdicts>>
  BY DEF Kill, vars
<1>2. ConnectionsOK'
  BY <1>1, QuietTypes DEF SInv, ConnectionsOK, ConnectionType
<1>3. AnswersOK'
  BY <1>1, QuietTypes DEF SInv, AnswersOK
<1> QED
  BY <1>2, <1>3 DEF SInv

\* Steps that leave connections, calls and the table alone.
LEMMA SurroundingsKeep ==
  ASSUME SInv, IInv,
         BootFails \/ Bind \/ Edit \/ Time \/ UNCHANGED server_vars
  PROVE  SInv'
<1>1. /\ UNCHANGED <<http, acked, told, call, policy, sessions, drawn, verdicts>>
      /\ file' \in Policies \cup {Unloadable}
  BY DEF BootFails, Bind, Edit, Time, Tick, StepBack, web, vars, server_vars, history,
         SInv, ConnectionsOK
<1>2. AckType' = AckType
  BY <1>1 DEF AckType
<1>3. ConnectionType' = ConnectionType
  BY <1>2 DEF ConnectionType
<1>4. AnswersOK'
  BY <1>1 DEF SInv, AnswersOK
<1>5. CASE UNCHANGED process
  BY <1>1, <1>2, <1>3, <1>4, <1>5 DEF SInv, ConnectionsOK
<1>6. CASE process = "starting" /\ process' = "up"
  BY <1>1, <1>2, <1>3, <1>4, <1>6 DEF SInv, ConnectionsOK, Quiet
<1> QED
  BY <1>5, <1>6 DEF BootFails, Bind, Edit, Time, web, server_vars

LEMMA ServerStep == SInv /\ IInv /\ [ServerNext]_server_vars => SInv'
<1> SUFFICES ASSUME SInv, IInv, [ServerNext]_server_vars PROVE SInv'
  OBVIOUS
<1> QED
  BY BootKeeps, KillKeeps, SurroundingsKeep, AccessKeeps, CreatedKeeps, WorkKeeps,
     ReadKeeps, EndKeeps DEF ServerNext

LEMMA ServerStart == ServerInit => SInv
<1> SUFFICES ASSUME ServerInit PROVE SInv
  OBVIOUS
<1>1. /\ file \in Policies \cup {Unloadable} /\ process = "down"
      /\ http = [t \in Task |-> Quiet] /\ acked = {} /\ told = {}
      /\ call = [t \in Task |-> Idle] /\ verdicts = {}
  BY DEF ServerInit, Init
<1>2. ConnectionsOK
  BY <1>1, QuietTypes DEF ConnectionsOK
<1>3. AnswersOK
  BY <1>1, QuietTypes DEF AnswersOK, Idle
<1> QED
  BY <1>2, <1>3 DEF SInv

LEMMA ServerInvariant == ServerSpec => [](SInv /\ IInv)
BY ServerStart, ServerStep, ServerRunsSessions, Invariant, StepRuns, PTL DEF ServerSpec

-----------------------------------------------------------------------------
(* The theorems *)

\* The process behind HTTP implements AccessControl, from its first start on and
\* whatever connections break, and a session that is gone stays gone
\* (main.rs:49-101, api.rs:92-103).
THEOREM ServerImplementsAccessControl ==
  ServerSpec => ImplementsAccessControl /\ []GoneStayGone /\ SessionsAppendOnly
BY ServerRunsSessions, RefinesAccessControl, GoneIsGone, TableAppendOnly, PTL

\* Connections and calls belong together, and have their types (api.rs:92-103).
THEOREM ConnectionsCorrect == ServerSpec => []ConnectionsOK
<1>1. SInv => ConnectionsOK
  BY DEF SInv
<1> QED
  BY <1>1, ServerInvariant, PTL

\* A session a client was told of stands in the table as it was told, while the
\* process lives (api.rs:96-102, service.rs:175-181).
THEOREM AcknowledgedSessionsHeld == ServerSpec => []AckedSessionsHeld
<1>1. SInv => AckedSessionsHeld
  BY DEF SInv, AnswersOK, Held, AckedSessionsHeld
<1> QED
  BY <1>1, ServerInvariant, PTL

\* One process never contradicts itself about an entity, whatever happens to
\* the policy file (main.rs:49, api.rs:114-125).
THEOREM ConsistentAnswers == ServerSpec => []AnswersAgree
<1>1. SInv => AnswersAgree
  <2> SUFFICES ASSUME SInv, NEW a \in told, NEW b \in told, a.entity = b.entity PROVE a = b
    BY DEF AnswersAgree
  <2> QED
    BY DEF SInv, AnswersOK
<1> QED
  BY <1>1, ServerInvariant, PTL

-----------------------------------------------------------------------------
(* The count of the statistics *)

\* The sessions of floor that are still valid.
Valid(floor) == {a \in floor : sessions[a.id].expires_at > now}

Live == {id \in DOMAIN sessions : sessions[id].expires_at > now}

\* Sessions held are counted: each valid one stands under a live id of its own.
LEMMA HeldAreCounted ==
  ASSUME IInv, NEW floor, \A a \in floor : Held(sessions, a)
  PROVE  /\ IsFiniteSet(Valid(floor)) /\ IsFiniteSet(DOMAIN sessions)
         /\ Cardinality(Valid(floor)) \in Nat /\ active_sessions_count \in Nat
         /\ Cardinality(DOMAIN sessions) \in Nat
         /\ Cardinality(Valid(floor)) <= active_sessions_count
         /\ active_sessions_count <= Cardinality(DOMAIN sessions)
<1> DEFINE S == {id \in Live : Ack(sessions[id]) \in floor}
           f == [id \in S |-> Ack(sessions[id])]
<1>1. IsFiniteSet(DOMAIN sessions)
  <2>1. drawn \in Int /\ DOMAIN sessions \subseteq 1..drawn
    BY DEF IInv, TypeOK
  <2>2. IsFiniteSet(1..drawn)
    BY <2>1, FS_Interval
  <2> HIDE DEF S, f
  <2> QED
    BY <2>1, <2>2, FS_Subset
<1>2. /\ IsFiniteSet(Live) /\ Cardinality(Live) <= Cardinality(DOMAIN sessions)
      /\ active_sessions_count = Cardinality(Live)
  BY <1>1, FS_Subset DEF Live, active_sessions_count
<1>3. IsFiniteSet(S) /\ Cardinality(S) <= Cardinality(Live)
  BY <1>2, FS_Subset
<1>4. f \in Surjection(S, Valid(floor))
  <2>1. \A id \in S : f[id] \in Valid(floor)
    <3> SUFFICES ASSUME NEW id \in S PROVE Ack(sessions[id]) \in Valid(floor)
      OBVIOUS
    <3>1. Ack(sessions[id]).id = id
      BY DEF Live, Ack, IInv, TableOK
    <3> QED
      BY <3>1 DEF Valid, Live
  <2>2. ASSUME NEW a \in Valid(floor) PROVE \E id \in S : f[id] = a
    <3>1. a.id \in Live /\ Ack(sessions[a.id]) = a /\ a \in floor
      BY <2>2 DEF Valid, Live, Held
    <3> QED
      BY <3>1
  <2> HIDE DEF S
  <2> QED
    BY <2>1, <2>2 DEF Surjection
<1> HIDE DEF S, f
<1>5. IsFiniteSet(Valid(floor)) /\ Cardinality(Valid(floor)) <= Cardinality(S)
  BY <1>3, <1>4, FS_Surjection
<1>6. /\ Cardinality(Valid(floor)) \in Nat /\ Cardinality(S) \in Nat
      /\ Cardinality(Live) \in Nat /\ Cardinality(DOMAIN sessions) \in Nat
  BY <1>1, <1>2, <1>3, <1>5, FS_CardinalityType
<1> QED
  BY <1>1, <1>2, <1>3, <1>5, <1>6

\* Time only goes on, unless the clock is set back.
LEMMA TimeGoesOn ==
  ASSUME IInv, [ServerNext]_server_vars
  PROVE  /\ clock_steps \in Nat /\ now \in Nat
         /\ clock_steps' = 0 => clock_steps = 0 /\ now' >= now
<1>1. clock_steps \in Nat /\ now \in Nat
  BY DEF IInv, TypeOK
<1>2. CASE StepBack
  BY <1>1, <1>2 DEF StepBack
<1>3. CASE ~StepBack
  <2>1. UNCHANGED clock_steps /\ (UNCHANGED now \/ now' = now + 1)
    BY <1>3, StepRuns DEF Next, Step, Request, RequestUnknown, RequestManual, RequestAuto,
       AnalyzerAnswers, Answer, AnalyzerFails, Refuse, Admit, Insert, Cancel, Lookup, Tick,
       Restart, Unmoved, vars
  <2> QED
    BY <1>1, <2>1
<1> QED
  BY <1>1, <1>2, <1>3

\* A connection that has its count keeps it, while the service goes on.
LEMMA CountedBefore ==
  ASSUME SInv, IInv, [ServerNext]_server_vars, NEW t \in Task, http'[t].at = "counted"
  PROVE  \/ Count(t)
         \/ Ordinary /\ http'[t] = http[t]
<1> http \in [Task -> ConnectionType]
  BY DEF SInv, ConnectionsOK
<1>1. CASE UNCHANGED server_vars \/ BootFails \/ Bind \/ Edit \/ Time
  <2>1. http' = http /\ (UNCHANGED vars \/ Tick \/ StepBack)
    BY <1>1 DEF server_vars, web, BootFails, Bind, Edit, Time
  <2> QED
    BY <2>1, OrdinarySteps
<1>2. CASE Boot
  BY <1>2 DEF Boot, SInv, ConnectionsOK, Quiet
<1>3. CASE Kill
  BY <1>3 DEF Kill, Quiet
<1>4. ASSUME NEW u \in Task, Created(u) \/ Stats(u) \/ Deliver(u) \/ HangUp(u)
      PROVE  Ordinary /\ http'[t] = http[t]
  <2>1. Ordinary
    BY <1>4, OrdinarySteps DEF Created, Stats, Deliver, HangUp
  <2>2. PICK state : Connection(u, state) /\ state.at # "counted"
    BY <1>4 DEF Created, Stats, Deliver, HangUp, Replying, Counting, Quiet
  <2> QED
    BY <2>1, <2>2 DEF Connection
<1>c. ASSUME NEW u \in Task, Count(u), u # t PROVE Ordinary /\ http'[t] = http[t]
  BY <1>c, OrdinarySteps DEF Count, Connection
<1>5. ASSUME NEW u \in Task, Work(u) PROVE Ordinary /\ http'[t] = http[t]
  BY <1>5, OrdinarySteps DEF Work, web
<1>6. ASSUME NEW u \in Task, NEW e \in EntityId \cup {NoEntity},
             \/ e \in EntityId /\ (AccessUnknown(u, e) \/ AccessAuto(u, e) \/ Access(u, e))
             \/ Capabilities(u, e)
      PROVE  Ordinary /\ http'[t] = http[t]
  <2>1. Ordinary
    BY <1>6, OrdinarySteps DEF AccessUnknown, AccessAuto, Access, Capabilities
  <2>2. PICK state : Connection(u, state) /\ state.at # "counted"
    BY <1>6 DEF AccessUnknown, AccessAuto, Access, Capabilities, Replying, Creating
  <2> QED
    BY <2>1, <2>2 DEF Connection
<1>7. CASE \E u \in Task : \/ Work(u) \/ Created(u) \/ Stats(u) \/ Count(u)
                          \/ Deliver(u) \/ HangUp(u)
  <2>1. PICK u \in Task : \/ Work(u) \/ Created(u) \/ Stats(u) \/ Count(u)
                          \/ Deliver(u) \/ HangUp(u)
    BY <1>7
  <2>2. CASE Count(u)
    BY <2>2, <1>c
  <2>3. CASE Work(u)
    BY <2>3, <1>5
  <2>4. CASE Created(u) \/ Stats(u) \/ Deliver(u) \/ HangUp(u)
    BY <2>4, <1>4
  <2> QED
    BY <2>1, <2>2, <2>3, <2>4
<1>8. CASE \E u \in Task :
             \/ \E e \in EntityId : AccessUnknown(u, e) \/ AccessAuto(u, e) \/ Access(u, e)
             \/ \E e \in EntityId \cup {NoEntity} : Capabilities(u, e)
  BY <1>6, <1>8
<1> QED
  BY <1>1, <1>2, <1>3, <1>7, <1>8 DEF ServerNext

\* The statistics count every session acknowledged before they were asked for
\* that is still valid, and no more than there are (api.rs:169-178).
THEOREM CountsAcknowledged == ServerSpec => []StatsCountAcknowledged
<1>1. ServerInit => StatsCountAcknowledged
  BY DEF ServerInit, StatsCountAcknowledged, Quiet
<1>2. SInv /\ IInv /\ SInv' /\ IInv' /\ StatsCountAcknowledged /\ [ServerNext]_server_vars
        => StatsCountAcknowledged'
  <2> SUFFICES ASSUME SInv, IInv, SInv', IInv', StatsCountAcknowledged,
                      [ServerNext]_server_vars, NEW t \in Task, http'[t].at = "counted"
               PROVE  /\ http'[t].count <= Cardinality(DOMAIN sessions')
                      /\ clock_steps' = 0 =>
                           http'[t].count >= Cardinality(Valid(http[t].floor)')
    BY DEF StatsCountAcknowledged, Valid
  <2> DEFINE floor == http[t].floor
  <2>1. CASE Count(t)
    <3>1. /\ http'[t] = Counted(active_sessions_count, floor) /\ http[t].at = "count"
          /\ UNCHANGED <<sessions, now>>
      BY <2>1 DEF Count, Connection, SInv, ConnectionsOK, vars
    <3>2. \A a \in floor : Held(sessions, a)
      BY <3>1 DEF SInv, AnswersOK, Truthful
    <3>3. Valid(http[t].floor)' = Valid(floor)
      BY <3>1 DEF Valid, Counted
    <3>4. /\ Cardinality(Valid(floor)) \in Nat /\ active_sessions_count \in Nat
          /\ Cardinality(DOMAIN sessions) \in Nat
          /\ Cardinality(Valid(floor)) <= active_sessions_count
          /\ active_sessions_count <= Cardinality(DOMAIN sessions)
      BY <3>2, HeldAreCounted
    <3>5. http'[t].count = active_sessions_count /\ sessions' = sessions
      BY <3>1 DEF Counted
    <3> QED
      BY <3>3, <3>4, <3>5
  <2>2. CASE Ordinary /\ http'[t] = http[t]
    <3>1. http[t].at = "counted" /\ \A a \in floor : Held(sessions, a)
      BY <2>2 DEF SInv, AnswersOK, Truthful
    <3>2. \A a \in floor : Held(sessions', a)
      BY <2>2, <3>1 DEF Ordinary
    <3>3. DOMAIN sessions \subseteq DOMAIN sessions'
      BY <2>2 DEF Ordinary
    <3>4. clock_steps' = 0 => Valid(http[t].floor)' \subseteq Valid(floor)
      <4> SUFFICES ASSUME clock_steps' = 0, NEW a \in floor, sessions'[a.id].expires_at > now'
                   PROVE  sessions[a.id].expires_at > now
        BY <2>2 DEF Valid
      <4>1. a.id \in DOMAIN sessions /\ sessions'[a.id] = sessions[a.id]
        BY <2>2, <3>1 DEF Ordinary, Held
      <4>2. sessions[a.id].expires_at \in Nat
        BY <4>1 DEF IInv, TypeOK, SessionType
      <4>3. now \in Nat /\ now' \in Nat /\ now' >= now
        BY TimeGoesOn DEF IInv, TypeOK
      <4> QED
        BY <4>1, <4>2, <4>3
    <3>5. /\ IsFiniteSet(DOMAIN sessions') /\ Cardinality(DOMAIN sessions') \in Nat
      <4>1. drawn' \in Int /\ DOMAIN sessions' \subseteq 1..drawn'
        BY DEF IInv, TypeOK
      <4>2. IsFiniteSet(1..drawn')
        BY <4>1, FS_Interval
      <4>3. IsFiniteSet(DOMAIN sessions')
        BY <4>1, <4>2, FS_Subset
      <4> QED
        BY <4>3, FS_CardinalityType
    <3>6. /\ IsFiniteSet(Valid(floor)) /\ Cardinality(Valid(floor)) \in Nat
          /\ Cardinality(DOMAIN sessions) \in Nat
      BY <3>1, HeldAreCounted
    <3>7. Cardinality(DOMAIN sessions) <= Cardinality(DOMAIN sessions')
      BY <3>3, <3>5, FS_Subset
    <3>8. clock_steps' = 0 =>
            /\ Cardinality(Valid(http[t].floor)') \in Nat
            /\ Cardinality(Valid(http[t].floor)') <= Cardinality(Valid(floor))
      BY <3>4, <3>6, FS_Subset, FS_CardinalityType
    <3>9. /\ http[t].count \in Nat /\ http[t].count <= Cardinality(DOMAIN sessions)
          /\ clock_steps = 0 => http[t].count >= Cardinality(Valid(floor))
      BY <3>1 DEF StatsCountAcknowledged, Valid, SInv, ConnectionsOK, ConnectionType, Quiet
    <3>10. http'[t].count <= Cardinality(DOMAIN sessions')
      BY <2>2, <3>5, <3>6, <3>7, <3>9
    <3>11. clock_steps' = 0 => http'[t].count >= Cardinality(Valid(http[t].floor)')
      <4> SUFFICES ASSUME clock_steps' = 0
                   PROVE  http'[t].count >= Cardinality(Valid(http[t].floor)')
        OBVIOUS
      <4>1. http[t].count >= Cardinality(Valid(floor))
        BY <3>9, TimeGoesOn
      <4> QED
        BY <2>2, <3>6, <3>8, <3>9, <4>1
    <3> QED
      BY <3>10, <3>11
  <2> QED
    BY <2>1, <2>2, CountedBefore
<1> QED
  BY <1>1, <1>2, ServerInvariant, PTL DEF ServerSpec

=============================================================================
