----------------------- MODULE AnalyzedSessionsProofs -----------------------
(***************************************************************************)
(* Proofs about AnalyzedSessions, for any workloads, models, replies and   *)
(* tasks: the service with MockAnalyzer or OpenAiAnalyzer runs Sessions,   *)
(* and the grants of auto entities are traced to the reply they come from. *)
(***************************************************************************)
EXTENDS AnalyzedSessions, SessionsProofs, SequenceTheorems, WellFoundedInduction

USE RepliesAssumption, MockAssumption, AsksAssumption

\* A grant from source src for workload w: an auto one is what the analyzer
\* answered the n-th call, about that very workload.
Justified(n, src, w, granted) ==
  src # ManualMode =>
    IF analyzer = "mock" THEN granted = Capability
    ELSE AnsweredWith(n, src.model, w, granted)

\* A reply under way was recorded under the number of its call, and its workload
\* was read before.
RepliesOK ==
  \A t \in Task :
    /\ exchange[t].at # "none" => ~Unreadable(call[t].wasm)
    /\ exchange[t].at = "received" /\ exchange[t].reply.kind = "chat" =>
         [call |-> serial[t], request |-> exchange[t].request,
          choices |-> exchange[t].reply.choices] \in answered

\* The capabilities a call has obtained are traced to an answer it got itself.
CallTraced(t) ==
  /\ call[t].at = "check" =>
       Justified(serial[t], call[t].source, call[t].wasm, list_granted(call[t].caps))
  /\ call[t].at = "insert" =>
       Justified(serial[t], call[t].session.policy_source, call[t].wasm,
                 call[t].session.granted_capabilities)

CallsTraced == \A t \in Task : CallTraced(t)

\* The sessions of the table are traced to the calls that entered them.
TableTraced ==
  /\ DOMAIN maker = DOMAIN sessions
  /\ \A id \in DOMAIN sessions :
       Justified(maker[id], sessions[id].policy_source, workload[id],
                 sessions[id].granted_capabilities)

AInv == ExchangesOK /\ RepliesOK /\ AnalyzedCallsAreReadable /\ CallsTraced /\ TableTraced

-----------------------------------------------------------------------------
(* The verdict in a reply *)

\* Only a chat with an object of booleans as its first choice is adopted.
LEMMA VerdictReply ==
  ASSUME NEW r \in Replies, Outcome(r) = "verdict"
  PROVE  /\ r.kind = "chat" /\ r.choices # <<>> /\ 1 \in DOMAIN r.choices
         /\ IsVerdict(r.choices[1]) /\ Chosen(r.choices) = r.choices[1]
         /\ Verdict(r.choices[1]) \in Verdicts
<1>1. r.kind \in {"lost", "error", "garbled", "chat"}
  OBVIOUS
<1>2. r.kind = "chat" /\ r.choices # <<>> /\ IsVerdict(Chosen(r.choices))
  BY <1>1 DEF Outcome
<1>3. 1 \in DOMAIN r.choices
  BY <1>2
<1> QED
  BY <1>2, <1>3 DEF Chosen

\* What is granted are the keys of the object that are true.
LEMMA VerdictGrants ==
  ASSUME NEW text
  PROVE  list_granted(Verdict(text)) = {c \in Capability \cap DOMAIN text : text[c] = "true"}
BY DEF list_granted, Verdict, Flag

LEMMA AllGranted == list_granted(all) = Capability
BY DEF list_granted, all

-----------------------------------------------------------------------------
(* Every step is one of Sessions *)

LEMMA AdoptAnswers ==
  ASSUME ExchangesOK, NEW t \in Task, Adopt(t)
  PROVE  /\ exchange[t].reply \in Replies
         /\ Answer(t, Verdict(exchange[t].reply.choices[1]))
         /\ Verdict(exchange[t].reply.choices[1]) \in Verdicts
<1>1. exchange[t].reply \in Replies
  BY DEF Adopt, ExchangesOK, ExchangeType, NoExchange
<1> QED
  BY <1>1, VerdictReply DEF Adopt

LEMMA StepRuns == ASSUME ExchangesOK, [AnalyzedNext]_analyzed_vars PROVE [Next]_vars
<1>1. ASSUME NEW t \in Task, Adopt(t) PROVE Step(t)
  BY <1>1, AdoptAnswers DEF Step, AnalyzerAnswers
<1>2. ASSUME NEW t \in Task, Ask(t) \/ Apart(t) \/ Enter(t) PROVE Step(t)
  BY <1>2 DEF Ask, Apart, Enter, Step, Request
<1>3. ASSUME NEW t \in Task, MockAnswers(t) PROVE Step(t)
  BY <1>3 DEF MockAnswers, Step, AnalyzerAnswers
<1>4. ASSUME NEW t \in Task, NotExtracted(t) \/ Fail(t) \/ Drop(t) PROVE Step(t)
  BY <1>4 DEF NotExtracted, Fail, Drop, Step
<1>5. ASSUME NEW t \in Task, Post(t) \/ Respond(t) \/ Complete(t) PROVE UNCHANGED vars
  BY <1>5 DEF Post, Respond, Complete, Receive
<1>6. ASSUME NEW t \in Task, AnalyzedStep(t) PROVE [Next]_vars
  BY <1>1, <1>2, <1>3, <1>4, <1>5, <1>6 DEF AnalyzedStep, Next
<1>7. CASE Elsewhere \/ Reboot
  BY <1>7 DEF Elsewhere, Reboot, Next
<1> QED
  BY <1>6, <1>7 DEF AnalyzedNext, analyzed_vars

-----------------------------------------------------------------------------
(* Steps of the analyze future *)

\* The tasks other than t keep their call and their exchange.
Alone(t) == \A u \in Task \ {t} : UNCHANGED <<call[u], exchange[u], serial[u]>>

\* Answers are only added while a process lives: what one justifies stays so.
LEMMA TableKept ==
  ASSUME AInv, UNCHANGED <<analyzer, sessions, workload, maker>>, answered \subseteq answered'
  PROVE  TableTraced'
BY DEF AInv, TableTraced, Justified, AnsweredWith

LEMMA CallKept ==
  ASSUME AInv, NEW u \in Task, UNCHANGED <<analyzer, call[u], serial[u]>>,
         answered \subseteq answered'
  PROVE  CallTraced(u)'
<1>1. CallTraced(u)
  BY DEF AInv, CallsTraced
<1> QED
  BY <1>1 DEF CallTraced, Justified, AnsweredWith

\* What remains to be shown of task t when only t moved.
LEMMA OneTask ==
  ASSUME AInv, NEW t \in Task, Alone(t), UNCHANGED analyzer,
         asks' \in 0..MaxAsks, exchange' \in [Task -> ExchangeType], posted' \subseteq PromptType,
         serial' \in [Task -> 0..asks'], answered \subseteq answered',
         TableTraced', CallTraced(t)',
         exchange'[t].at # "none" =>
           /\ analyzer = "openai" /\ call'[t].at = "analyze"
           /\ exchange'[t].request = Prompt(call'[t]) /\ ~Unreadable(call'[t].wasm),
         exchange'[t].at = "received" /\ exchange'[t].reply.kind = "chat" =>
           [call |-> serial'[t], request |-> exchange'[t].request,
            choices |-> exchange'[t].reply.choices] \in answered',
         analyzer = "openai" /\ call'[t].at = "check" /\ call'[t].source # ManualMode
           => ~Malformed(call'[t].wasm)
  PROVE  AInv'
<1>1. \A u \in Task : u # t =>
        call'[u] = call[u] /\ exchange'[u] = exchange[u] /\ serial'[u] = serial[u]
  BY DEF Alone
<1>2. ExchangesOK'
  BY <1>1 DEF AInv, ExchangesOK, Prompt, TableTraced
<1>3. RepliesOK'
  BY <1>1 DEF AInv, RepliesOK
<1>4. AnalyzedCallsAreReadable'
  BY <1>1 DEF AInv, AnalyzedCallsAreReadable
<1>5. CallsTraced'
  <2>1. ASSUME NEW u \in Task PROVE CallTraced(u)'
    BY <1>1, CallKept
  <2> QED
    BY <2>1 DEF CallsTraced
<1> QED
  BY <1>2, <1>3, <1>4, <1>5 DEF AInv

\* The call of task t, and its exchange when the call waits for none.
LEMMA OneCall ==
  ASSUME IInv, AInv, NEW t \in Task, NEW state, Become(t, state)
  PROVE  /\ call'[t] = state /\ \A u \in Task \ {t} : UNCHANGED call[u]
         /\ call[t].at # "analyze" => exchange[t].at = "none"
BY DEF IInv, TypeOK, Become, AInv, ExchangesOK

LEMMA Exchanges ==
  ASSUME AInv
  PROVE  /\ exchange \in [Task -> ExchangeType] /\ NoExchange \in ExchangeType
         /\ asks \in 0..MaxAsks /\ posted \subseteq PromptType
         /\ serial \in [Task -> 0..asks]
         /\ \A t \in Task : exchange[t].at = "none" => exchange[t] = NoExchange
BY DEF AInv, ExchangesOK, ExchangeType, NoExchange

LEMMA AskKeeps == ASSUME IInv, AInv, NEW t \in Task, Ask(t) PROVE AInv'
<1>1. PICK e \in EntityId, w \in Wasm \cup {NoWasm} : RequestAuto(t, e, w)
  BY DEF Ask
<1>2. /\ call[t].at = "idle" /\ exchange' = exchange
      /\ UNCHANGED <<analyzer, posted, answered, sessions, workload, maker>>
  BY <1>1 DEF Ask, RequestAuto, Start, Unmoved, history
<1>3. /\ asks' = asks + 1 /\ asks' \in 0..MaxAsks
      /\ serial' = [serial EXCEPT ![t] = asks + 1]
  BY Exchanges DEF Ask
<1>4. serial' \in [Task -> 0..asks'] /\ \A u \in Task \ {t} : UNCHANGED serial[u]
  BY <1>3, Exchanges
<1>5. exchange[t].at = "none"
  BY <1>2 DEF AInv, ExchangesOK
<1>6. /\ call'[t].at \in {"idle", "analyze"} /\ \A u \in Task \ {t} : UNCHANGED call[u]
  BY <1>1, <1>2, OneCall DEF RequestAuto, Analyzing
<1>7. CallTraced(t)' /\ TableTraced'
  BY <1>2, <1>6, TableKept DEF CallTraced
<1> QED
  BY <1>2, <1>3, <1>4, <1>5, <1>6, <1>7, Exchanges, OneTask DEF Alone

\* What the service does without the analyzer.
LEMMA ApartKeeps == ASSUME IInv, AInv, NEW t \in Task, Apart(t) PROVE AInv'
<1>1. UNCHANGED <<analyzer, exchange, asks, serial, posted, answered, maker, sessions, workload>>
  BY DEF Apart, analysis, history_of_calls, RequestUnknown, RequestManual, Refuse, Admit,
         Unmoved, history
<1>2. call[t].at # "analyze" /\ exchange[t].at = "none" /\ CallTraced(t)
  BY DEF Apart, RequestUnknown, RequestManual, Start, Refuse, Admit, AInv, ExchangesOK,
         CallsTraced
<1>3. /\ call'[t].at = "check" => call'[t].source = ManualMode
      /\ \A u \in Task \ {t} : UNCHANGED call[u]
      /\ CallTraced(t)'
  <2>1. CASE \E e \in EntityId : RequestUnknown(t, e)
    BY <2>1 DEF RequestUnknown, Start, CallTraced
  <2>2. CASE \E e \in EntityId, w \in Wasm \cup {NoWasm} : RequestManual(t, e, w)
    BY <2>2, OneCall DEF RequestManual, Checking, CallTraced, Justified
  <2>3. CASE Refuse(t)
    BY <2>3, OneCall DEF Refuse, Idle, CallTraced
  <2>4. CASE Admit(t)
    <3> DEFINE s == Session(drawn + 1, call[t].entity, call[t].caps, call[t].source, now)
    <3>1. /\ call'[t] = Inserting(s, call[t].wasm) /\ call[t].at = "check"
          /\ \A u \in Task \ {t} : UNCHANGED call[u]
      BY <2>4, OneCall DEF Admit
    <3>2. /\ s.policy_source = call[t].source
          /\ s.granted_capabilities = list_granted(call[t].caps)
      BY DEF Session
    <3> HIDE DEF s
    <3>3. /\ call'[t].at = "insert" /\ call'[t].session = s /\ call'[t].wasm = call[t].wasm
      BY <3>1 DEF Inserting
    <3>4. CallTraced(t)'
      BY <1>1, <1>2, <3>1, <3>2, <3>3 DEF CallTraced, Justified, AnsweredWith
    <3> QED
      BY <3>1, <3>3, <3>4
  <2> QED
    BY <2>1, <2>2, <2>3, <2>4 DEF Apart
<1> QED
  BY <1>1, <1>2, <1>3, Exchanges, TableKept, OneTask DEF Alone

\* A session enters the table with the trace of the call that made it.
LEMMA EnterKeeps == ASSUME IInv, AInv, NEW t \in Task, Enter(t) PROVE AInv'
<1> DEFINE s == call[t].session
           id == s.session_id
<1>1. /\ UNCHANGED <<analyzer, exchange, asks, serial, posted, answered>>
      /\ call[t].at = "insert" /\ Become(t, Idle)
      /\ sessions' = Put(sessions, id, s) /\ workload' = Put(workload, id, call[t].wasm)
      /\ maker' = Put(maker, id, serial[t])
  BY DEF Enter, Insert
<1>2. /\ call'[t].at = "idle" /\ \A u \in Task \ {t} : UNCHANGED call[u]
      /\ exchange[t].at = "none"
  BY <1>1, OneCall DEF Idle
<1>3. Justified(serial[t], s.policy_source, call[t].wasm, s.granted_capabilities)
  BY <1>1 DEF AInv, CallsTraced, CallTraced
<1>4. /\ DOMAIN maker = DOMAIN sessions /\ DOMAIN workload = DOMAIN sessions
      /\ \A k \in DOMAIN sessions :
           Justified(maker[k], sessions[k].policy_source, workload[k],
                     sessions[k].granted_capabilities)
  BY DEF AInv, TableTraced, IInv, TypeOK
<1> HIDE DEF s, id
<1>5. TableTraced'
  <2>1. DOMAIN maker' = DOMAIN sessions' /\ DOMAIN sessions' = DOMAIN sessions \cup {id}
    BY <1>1, <1>4 DEF Put
  <2>2. ASSUME NEW k \in DOMAIN sessions'
        PROVE  Justified(maker'[k], sessions'[k].policy_source, workload'[k],
                         sessions'[k].granted_capabilities)
    <3>1. CASE k = id
      BY <1>1, <1>3, <1>4, <2>1, <3>1 DEF Put
    <3>2. CASE k # id
      BY <1>1, <1>4, <2>1, <2>2, <3>2 DEF Put
    <3> QED
      BY <3>1, <3>2
  <2> QED
    BY <1>1, <2>1, <2>2 DEF TableTraced, Justified, AnsweredWith
<1>6. CallTraced(t)'
  BY <1>2 DEF CallTraced
<1> QED
  BY <1>1, <1>2, <1>5, <1>6, Exchanges, OneTask DEF Alone

LEMMA MockKeeps == ASSUME IInv, AInv, NEW t \in Task, MockAnswers(t) PROVE AInv'
<1>1. /\ UNCHANGED <<analyzer, exchange, asks, serial, posted, answered, maker>>
      /\ analyzer = "mock" /\ exchange[t].at = "none" /\ Answer(t, all)
  BY DEF MockAnswers, Analyze, analysis, history_of_calls
<1>2. /\ \A u \in Task \ {t} : UNCHANGED call[u]
      /\ call'[t] = Checking(call[t].entity, call[t].wasm, all, call[t].source)
      /\ UNCHANGED <<sessions, workload>>
  BY <1>1, OneCall DEF Answer, Adopted, Unmoved
<1>3. call'[t].at = "check" /\ call'[t].caps = all
  BY <1>2 DEF Checking
<1>4. CallTraced(t)'
  BY <1>1, <1>3, AllGranted DEF CallTraced, Justified
<1> QED
  BY <1>1, <1>2, <1>4, Exchanges, TableKept, OneTask DEF Alone

\* The future ends without a verdict.
LEMMA EndsKeep ==
  ASSUME IInv, AInv, NEW t \in Task, NotExtracted(t) \/ Fail(t) \/ Drop(t) PROVE AInv'
<1>1. /\ Become(t, Idle) /\ exchange' = [exchange EXCEPT ![t] = NoExchange]
      /\ UNCHANGED <<analyzer, asks, serial, posted, answered, maker, sessions, workload>>
  <2>1. CASE NotExtracted(t)
    BY <2>1, Exchanges DEF NotExtracted, Analyze, AnalyzerFails, analysis, history_of_calls,
                           Unmoved, history
  <2>2. CASE Fail(t)
    BY <2>2 DEF Fail, AnalyzerFails, Exchange, history_of_calls, Unmoved, history
  <2>3. CASE Drop(t)
    BY <2>3 DEF Drop, Cancel, Exchange, history_of_calls, Unmoved, history
  <2> QED
    BY <2>1, <2>2, <2>3
<1>2. call'[t] = Idle /\ \A u \in Task \ {t} : UNCHANGED call[u]
  BY <1>1, OneCall
<1>3. exchange'[t] = NoExchange /\ exchange' \in [Task -> ExchangeType] /\ Alone(t)
  BY <1>1, <1>2, Exchanges DEF Alone
<1>4. exchange'[t].at = "none" /\ call'[t].at = "idle" /\ CallTraced(t)'
  BY <1>2, <1>3 DEF NoExchange, Idle, CallTraced
<1>5. /\ asks' \in 0..MaxAsks /\ posted' \subseteq PromptType
      /\ serial' \in [Task -> 0..asks'] /\ answered \subseteq answered'
  BY <1>1, Exchanges
<1> QED
  BY <1>1, <1>3, <1>4, <1>5, TableKept, OneTask

LEMMA PostKeeps == ASSUME IInv, AInv, NEW t \in Task, Post(t) PROVE AInv'
<1> DEFINE req == Prompt(call[t])
<1>1. /\ exchange' = [exchange EXCEPT ![t] = Sent(req)] /\ posted' = posted \cup {req}
      /\ call[t].at = "analyze" /\ ~Unreadable(call[t].wasm) /\ analyzer = "openai"
      /\ UNCHANGED <<call, sessions, workload, analyzer, asks, serial, answered, maker>>
  BY DEF Post, Analyze, Exchange, vars
<1>2. req \in PromptType
  <2>1. call[t] \in AnalyzingType
    BY <1>1, CallCases DEF IInv, TypeOK
  <2>2. call[t].source.model \in Model
    BY <1>1, <2>1, ModeCases DEF IInv, CallsOK, CallOK, AnalyzingType
  <2> QED
    BY <2>1, <2>2 DEF Prompt, PromptType, AnalyzingType
<1> HIDE DEF req
<1>3. Sent(req) \in ExchangeType
  BY <1>2 DEF Sent, ExchangeType
<1>4. exchange'[t] = Sent(req) /\ exchange' \in [Task -> ExchangeType] /\ Alone(t)
  BY <1>1, <1>3, Exchanges DEF Alone
<1>5. exchange'[t].at = "sent" /\ exchange'[t].request = Prompt(call'[t])
  BY <1>1, <1>4 DEF Sent, req
<1>6. CallTraced(t)' /\ TableTraced'
  BY <1>1, TableKept DEF CallTraced
<1> QED
  BY <1>1, <1>2, <1>4, <1>5, <1>6, Exchanges, OneTask

\* The call and the request of an exchange under way.
LEMMA UnderWay ==
  ASSUME AInv, NEW t \in Task, exchange[t].at \in {"sent", "headed"}
  PROVE  /\ exchange[t].request \in PromptType /\ exchange[t].request = Prompt(call[t])
         /\ analyzer = "openai" /\ call[t].at = "analyze" /\ ~Unreadable(call[t].wasm)
<1>1. exchange[t] \in ExchangeType /\ exchange[t].at # "none"
  BY Exchanges
<1>2. exchange[t].request \in PromptType
  BY <1>1 DEF ExchangeType, NoExchange
<1> QED
  BY <1>1, <1>2 DEF AInv, ExchangesOK, RepliesOK

LEMMA ReceiveKeeps ==
  ASSUME IInv, AInv, NEW t \in Task, NEW r \in Replies,
         exchange[t].at \in {"sent", "headed"}, Receive(t, r)
  PROVE  AInv'
<1>1. /\ exchange' = [exchange EXCEPT ![t] = Received(exchange[t].request, r)]
      /\ answered' = IF r.kind = "chat"
                     THEN answered \cup {[call |-> serial[t], request |-> exchange[t].request,
                                          choices |-> r.choices]}
                     ELSE answered
      /\ UNCHANGED <<call, sessions, workload, analyzer, asks, serial, posted, maker>>
  BY DEF Receive, Exchange, vars
<1> DEFINE x == Received(exchange[t].request, r)
<1>2. x \in ExchangeType /\ x.at = "received" /\ x.request = exchange[t].request /\ x.reply = r
  BY UnderWay DEF Received, ExchangeType
<1> HIDE DEF x
<1>3. exchange'[t] = x /\ exchange' \in [Task -> ExchangeType] /\ Alone(t)
  BY <1>1, <1>2, Exchanges DEF Alone, x
<1>4. answered \subseteq answered'
  BY <1>1
<1>5. CallTraced(t)' /\ TableTraced'
  BY <1>1, <1>4, UnderWay, TableKept DEF CallTraced
<1>6. x.reply.kind = "chat" =>
        [call |-> serial'[t], request |-> x.request, choices |-> x.reply.choices] \in answered'
  BY <1>1, <1>2
<1>7. /\ asks' \in 0..MaxAsks /\ posted' \subseteq PromptType /\ serial' \in [Task -> 0..asks']
      /\ analyzer = "openai" /\ call'[t].at = "analyze" /\ ~Unreadable(call'[t].wasm)
      /\ x.request = Prompt(call'[t])
  BY <1>1, <1>2, UnderWay, Exchanges
<1> QED
  BY <1>1, <1>2, <1>3, <1>4, <1>5, <1>6, <1>7, OneTask

LEMMA RespondKeeps ==
  ASSUME IInv, AInv, NEW t \in Task, Respond(t) \/ Complete(t) PROVE AInv'
<1>1. CASE \E r \in Replies : exchange[t].at \in {"sent", "headed"} /\ Receive(t, r)
  BY <1>1, ReceiveKeeps
<1>2. CASE exchange[t].at = "sent" /\ \E r \in Replies :
             /\ Exchange(t, Headed(exchange[t].request, r.kind # "error"))
             /\ UNCHANGED <<vars, analyzer, asks, history_of_calls>>
  <2>1. PICK r \in Replies : Exchange(t, Headed(exchange[t].request, r.kind # "error"))
    BY <1>2
  <2>2. UNCHANGED <<call, sessions, workload, analyzer, asks, serial, posted, answered, maker>>
    BY <1>2 DEF vars, history_of_calls
  <2> DEFINE x == Headed(exchange[t].request, r.kind # "error")
  <2>3. x \in ExchangeType /\ x.at = "headed" /\ x.request = exchange[t].request
    BY <1>2, UnderWay DEF Headed, ExchangeType
  <2> HIDE DEF x
  <2>4. exchange'[t] = x /\ exchange' \in [Task -> ExchangeType] /\ Alone(t)
    BY <2>1, <2>2, <2>3, Exchanges DEF Alone, Exchange, x
  <2>5. CallTraced(t)' /\ TableTraced'
    BY <1>2, <2>2, UnderWay, TableKept DEF CallTraced
  <2> QED
    BY <1>2, <2>2, <2>3, <2>4, <2>5, UnderWay, Exchanges, OneTask
<1> QED
  BY <1>1, <1>2 DEF Respond, Complete

LEMMA AdoptKeeps == ASSUME IInv, AInv, NEW t \in Task, Adopt(t) PROVE AInv'
<1> DEFINE r == exchange[t].reply
           text == r.choices[1]
           v == Verdict(text)
           c == Checking(call[t].entity, call[t].wasm, v, call[t].source)
<1>1. r \in Replies /\ Answer(t, v) /\ Outcome(r) = "verdict" /\ exchange[t].at = "received"
  BY AdoptAnswers DEF AInv, Adopt
<1>2. /\ exchange' = [exchange EXCEPT ![t] = NoExchange]
      /\ UNCHANGED <<analyzer, asks, serial, posted, answered, maker>>
  BY DEF Adopt, Exchange, history_of_calls
<1>3. /\ r.kind = "chat" /\ r.choices # <<>> /\ IsVerdict(text)
      /\ [call |-> serial[t], request |-> exchange[t].request, choices |-> r.choices]
           \in answered
      /\ exchange[t].request = Prompt(call[t]) /\ ~Unreadable(call[t].wasm)
      /\ analyzer = "openai"
  BY <1>1, VerdictReply DEF AInv, RepliesOK, ExchangesOK
<1>4. call'[t] = c /\ UNCHANGED <<sessions, workload>>
  BY <1>1, OneCall DEF Answer, Adopted, Unmoved
<1>5. AnsweredWith(serial[t], call[t].source.model, call[t].wasm, list_granted(v))
  <2>1. list_granted(v) = {k \in Capability \cap DOMAIN text : text[k] = "true"}
    BY VerdictGrants
  <2> DEFINE a == [call |-> serial[t], request |-> exchange[t].request, choices |-> r.choices]
  <2>2. a \in answered /\ a.call = serial[t] /\ a.choices = r.choices
    BY <1>3
  <2>3. a.request = [model |-> call[t].source.model, imports |-> Extracted(call[t].wasm)]
    BY <1>3 DEF Prompt
  <2>4. text # NotAnObject /\ \A k \in Capability \cap DOMAIN text : text[k] \in {"true", "false"}
    BY <1>3 DEF IsVerdict, Flag
  <2> HIDE DEF a, v
  <2> QED
    BY <1>3, <2>1, <2>2, <2>3, <2>4 DEF AnsweredWith
<1>6. exchange'[t] = NoExchange /\ exchange' \in [Task -> ExchangeType] /\ Alone(t)
  BY <1>1, <1>2, Exchanges, OneCall DEF Alone, Answer
<1>7. /\ c.at = "check" /\ c.source = call[t].source /\ c.wasm = call[t].wasm
      /\ list_granted(c.caps) = list_granted(v)
  BY DEF Checking
<1> HIDE DEF c, v, r, text
<1>8. CallTraced(t)' /\ TableTraced'
  BY <1>2, <1>3, <1>4, <1>5, <1>7, TableKept DEF CallTraced, Justified, AnsweredWith
<1>9. ~Malformed(call'[t].wasm)
  BY <1>3, <1>4, <1>7 DEF Unreadable, Malformed
<1>10. exchange'[t].at = "none"
  BY <1>6 DEF NoExchange
<1> QED
  BY <1>2, <1>6, <1>8, <1>9, <1>10, Exchanges, OneTask

-----------------------------------------------------------------------------
(* The invariant *)

LEMMA UntouchedKeep ==
  ASSUME AInv, UNCHANGED <<call, sessions, workload, analysis>>
  PROVE  AInv'
<1>1. UNCHANGED <<analyzer, exchange, asks, serial, posted, answered, maker>>
  BY DEF analysis, history_of_calls
<1>2. ExchangesOK'
  BY <1>1 DEF AInv, ExchangesOK
<1>3. RepliesOK' /\ AnalyzedCallsAreReadable'
  BY <1>1 DEF AInv, RepliesOK, AnalyzedCallsAreReadable
<1>4. CallsTraced'
  BY <1>1, CallKept DEF CallsTraced
<1>5. TableTraced'
  BY <1>1, TableKept
<1> QED
  BY <1>2, <1>3, <1>4, <1>5 DEF AInv

\* In a new process no call and no exchange is under way, and the table is empty.
LEMMA FreshProcess ==
  ASSUME analyzer \in {"mock", "openai"}, asks \in 0..MaxAsks, posted = {},
         exchange = [t \in Task |-> NoExchange], call = [t \in Task |-> Idle],
         serial = [t \in Task |-> 0], DOMAIN sessions = {}, DOMAIN maker = {}
  PROVE  AInv
<1>1. ExchangesOK
  BY DEF ExchangesOK, ExchangeType, NoExchange
<1>2. RepliesOK
  BY DEF RepliesOK, NoExchange
<1>3. AnalyzedCallsAreReadable /\ CallsTraced /\ TableTraced
  BY DEF AnalyzedCallsAreReadable, CallsTraced, CallTraced, TableTraced, Idle
<1> QED
  BY <1>1, <1>2, <1>3 DEF AInv

LEMMA RebootKeeps == ASSUME AInv, Reboot PROVE AInv'
<1>1. /\ analyzer' \in {"mock", "openai"} /\ asks' \in 0..MaxAsks /\ posted' = {}
      /\ exchange' = [t \in Task |-> NoExchange] /\ call' = [t \in Task |-> Idle]
      /\ serial' = [t \in Task |-> 0] /\ DOMAIN sessions' = {} /\ DOMAIN maker' = {}
  BY DEF Reboot, Restart, Survivors, AInv, ExchangesOK
<1>2. ExchangesOK'
  BY <1>1 DEF ExchangesOK, ExchangeType, NoExchange
<1>3. RepliesOK'
  BY <1>1 DEF RepliesOK, NoExchange
<1>4. AnalyzedCallsAreReadable' /\ CallsTraced' /\ TableTraced'
  BY <1>1 DEF AnalyzedCallsAreReadable, CallsTraced, CallTraced, TableTraced, Idle
<1> QED
  BY <1>2, <1>3, <1>4 DEF AInv

LEMMA AInvStep == IInv /\ AInv /\ [AnalyzedNext]_analyzed_vars => AInv'
<1> SUFFICES ASSUME IInv, AInv, [AnalyzedNext]_analyzed_vars PROVE AInv'
  OBVIOUS
<1>1. CASE Elsewhere \/ UNCHANGED analyzed_vars
  <2>1. UNCHANGED <<call, sessions, workload, analysis>>
    BY <1>1 DEF Elsewhere, Tick, StepBack, Lookup, Unmoved, history, analyzed_vars, vars
  <2> QED
    BY <2>1, UntouchedKeep
<1>2. ASSUME NEW t \in Task, AnalyzedStep(t) PROVE AInv'
  BY <1>2, AskKeeps, ApartKeeps, EnterKeeps, MockKeeps, EndsKeep, PostKeeps, RespondKeeps,
     AdoptKeeps
     DEF AnalyzedStep
<1> QED
  BY <1>1, <1>2, RebootKeeps DEF AnalyzedNext

LEMMA AInvariant == AnalyzedSpec => [](IInv /\ AInv)
<1>1. AnalyzedInit => IInv /\ AInv
  <2> SUFFICES ASSUME AnalyzedInit PROVE IInv /\ AInv
    OBVIOUS
  <2>1. IInv
    BY InitInv DEF AnalyzedInit
  <2>2. asks \in 0..MaxAsks
    BY DEF AnalyzedInit
  <2> QED
    BY <2>1, <2>2, FreshProcess DEF AnalyzedInit, Init
<1>2. IInv /\ AInv /\ [AnalyzedNext]_analyzed_vars => (IInv /\ AInv)'
  BY AInvStep, StepRuns, InvStep DEF AInv
<1> QED
  BY <1>1, <1>2, PTL DEF AnalyzedSpec

-----------------------------------------------------------------------------
(* What extract_imports computes *)

\* Induction over the naturals, with the set of the numbers that satisfy the
\* statement in place of the statement.
LEMMA NatSetInduction ==
  ASSUME NEW P, 0 \in P, \A n \in Nat : n \in P => n + 1 \in P
  PROVE  Nat \subseteq P
<1> DEFINE Less == {pair \in Nat \X Nat : pair[1] < pair[2]}
           Rest == Nat \ P
<1>1. IsWellFoundedOn(Less, Nat)
  BY NatLessThanWellFounded DEF OpToRel
<1> SUFFICES ASSUME Rest # {} PROVE FALSE
  OBVIOUS
<1> HIDE DEF Less
<1>2. PICK m \in Rest : \A n \in Rest : ~ (<<n, m>> \in Less)
  BY <1>1, WFMin
<1>3. m - 1 \in Nat /\ <<m - 1, m>> \in Less
  BY <1>2 DEF Less
<1> QED
  BY <1>2, <1>3

\* Extracted is the last value of a function that satisfies its equation.
LEMMA ExtractedUnfolds ==
  ASSUME NEW w \in Seq(Payload)
  PROVE  \E upto :
           /\ Extracted(w) = upto[Len(w)]
           /\ \A n \in 0..Len(w) :
                upto[n] = IF n = 0 THEN <<>> ELSE upto[n - 1] \o w[n].entries
<1> DEFINE Unfolds(f, n) ==
             f = [k \in 0..n |-> IF k = 0 THEN <<>> ELSE f[k - 1] \o w[k].entries]
           P == {n \in Nat : \E f : Unfolds(f, n)}
<1>1. 0 \in P
  <2>1. Unfolds([k \in 0..0 |-> <<>>], 0)
    OBVIOUS
  <2> QED
    BY <2>1
<1>2. ASSUME NEW n \in Nat, n \in P PROVE n + 1 \in P
  <2>1. PICK f : Unfolds(f, n)
    BY <1>2
  <2> DEFINE g == [k \in 0..n + 1 |-> IF k = n + 1 THEN f[n] \o w[k].entries ELSE f[k]]
  <2>2. \A k \in 0..n : f[k] = IF k = 0 THEN <<>> ELSE f[k - 1] \o w[k].entries
    BY <2>1
  <2>3. \A k \in 0..n + 1 : k # 0 => k - 1 \in 0..n
    OBVIOUS
  <2>4. ASSUME NEW k \in 0..n + 1
        PROVE  g[k] = IF k = 0 THEN <<>> ELSE g[k - 1] \o w[k].entries
    BY <2>2, <2>3
  <2>5. Unfolds(g, n + 1)
    BY <2>4
  <2> HIDE DEF g
  <2>6. n + 1 \in Nat
    OBVIOUS
  <2> QED
    BY <2>5, <2>6
<1>3. Len(w) \in P
  <2> HIDE DEF P
  <2> QED
    BY <1>1, <1>2, NatSetInduction
<1> DEFINE upto == CHOOSE f : Unfolds(f, Len(w))
<1>4. Unfolds(upto, Len(w))
  BY <1>3
<1>5. Extracted(w) = upto[Len(w)]
  BY DEF Extracted
<1> HIDE DEF upto
<1>6. \A n \in 0..Len(w) :
        upto[n] = IF n = 0 THEN <<>> ELSE upto[n - 1] \o w[n].entries
  BY <1>4
<1> QED
  BY <1>5, <1>6

Elements(s) == {s[n] : n \in DOMAIN s}

LEMMA PayloadEntries ==
  ASSUME NEW p \in Payload
  PROVE  p.entries \in Seq(Import \cup {BadImport})
<1>1. CASE p \in [kind : {"imports"}, entries : Seq(Import \cup {BadImport})]
  BY <1>1
<1>2. CASE p.entries = <<>>
  BY <1>2
<1> QED
  BY <1>1, <1>2 DEF Payload, OtherPayload, ParseError

\* Concatenation joins the elements.
LEMMA ConcatElements ==
  ASSUME NEW S, NEW s \in Seq(S), NEW t \in Seq(S)
  PROVE  s \o t \in Seq(S) /\ Elements(s \o t) = Elements(s) \cup Elements(t)
<1>1. Range(s \o t) = Range(s) \cup Range(t)
  BY RangeConcatenation
<1>2. \A r : Elements(r) = Range(r)
  BY Zenon DEF Elements, Range
<1> QED
  BY <1>1, <1>2

\* The list holds the imports of every section, and nothing else.
LEMMA ExtractedImports ==
  ASSUME NEW w \in Seq(Payload)
  PROVE  Elements(Extracted(w)) = Imports(w)
<1> DEFINE Entries == Seq(Import \cup {BadImport})
           Held(n) == UNION {Elements(w[k].entries) : k \in 1..n}
<1>1. PICK upto :
        /\ Extracted(w) = upto[Len(w)]
        /\ \A n \in 0..Len(w) :
             upto[n] = IF n = 0 THEN <<>> ELSE upto[n - 1] \o w[n].entries
  BY ExtractedUnfolds
<1>2. Len(w) \in Nat /\ DOMAIN w = 1..Len(w) /\ \A k \in 1..Len(w) : w[k].entries \in Entries
  BY PayloadEntries
<1> DEFINE P == {n \in Nat : n <= Len(w) => upto[n] \in Entries /\ Elements(upto[n]) = Held(n)}
<1>3. 0 \in P
  <2>1. upto[0] = <<>>
    BY <1>1, <1>2
  <2>2. Held(0) = {} /\ Elements(<<>>) = {} /\ <<>> \in Entries
    BY DEF Elements
  <2> HIDE DEF Held
  <2> QED
    BY <2>1, <2>2
<1>4. ASSUME NEW n \in Nat, n \in P PROVE n + 1 \in P
  <2> SUFFICES ASSUME n + 1 <= Len(w)
               PROVE  upto[n + 1] \in Entries /\ Elements(upto[n + 1]) = Held(n + 1)
    OBVIOUS
  <2> DEFINE s == upto[n]
             t == w[n + 1].entries
  <2>1. upto[n + 1] = s \o t
    <3>1. n + 1 \in 0..Len(w) /\ n + 1 # 0 /\ (n + 1) - 1 = n
      BY <1>2
    <3> QED
      BY <1>1, <3>1
  <2>2. s \in Entries /\ t \in Entries /\ Elements(s) = Held(n)
    <3>1. n <= Len(w) /\ n + 1 \in 1..Len(w)
      BY <1>2
    <3> HIDE DEF Held
    <3> QED
      BY <1>2, <1>4, <3>1
  <2>3. s \o t \in Entries /\ Elements(s \o t) = Elements(s) \cup Elements(t)
    <3> HIDE DEF s, t
    <3> QED
      BY <2>2, ConcatElements
  <2>4. Held(n + 1) = Held(n) \cup Elements(t)
    <3>1. 1..n + 1 = (1..n) \cup {n + 1}
      OBVIOUS
    <3>2. \A m, x : x \in Held(m) <=> \E k \in 1..m : x \in Elements(w[k].entries)
      BY Zenon
    <3> HIDE DEF Held
    <3> QED
      BY <3>1, <3>2, Zenon
  <2> HIDE DEF Held, s, t
  <2> QED
    BY <2>1, <2>2, <2>3, <2>4
<1>5. Len(w) \in P
  <2> HIDE DEF P
  <2> QED
    BY <1>2, <1>3, <1>4, NatSetInduction
<1>6. Held(Len(w)) = Imports(w)
  BY <1>2, Zenon DEF Imports, Elements
<1> HIDE DEF Held
<1> QED
  BY <1>1, <1>2, <1>5, <1>6

-----------------------------------------------------------------------------
(* What left the process *)

\* Every request was posted for a readable workload and an auto entity.
PostedOK ==
  \A r \in posted :
    /\ \E e \in policy.entities : e.mode = AutoMode(r.model)
    /\ \E w \in Wasm : ~Malformed(w) /\ r.imports = Extracted(w)

\* A call that waits for the analyzer is one for an auto entity.
LEMMA AnalyzingCall ==
  ASSUME IInv, NEW t \in Task, call[t].at = "analyze"
  PROVE  /\ call[t].wasm \in Wasm
         /\ \E e \in policy.entities : e.mode = AutoMode(call[t].source.model)
<1>1. call[t] \in AnalyzingType
  BY CallCases DEF IInv, TypeOK
<1>2. /\ HasEntity(policy, call[t].entity) /\ policy \in Policies
      /\ call[t].source = find_entity(policy, call[t].entity).mode
      /\ call[t].source.kind = "auto"
  BY DEF IInv, CallsOK, CallOK, TypeOK
<1>3. call[t].source = AutoMode(call[t].source.model)
  BY <1>1, <1>2 DEF AnalyzingType, EnforcementMode, ManualMode, AutoMode
<1>4. find_entity(policy, call[t].entity) \in policy.entities
  BY <1>2, FoundEntity
<1> QED
  BY <1>1, <1>2, <1>3, <1>4 DEF AnalyzingType

LEMMA PostedStep ==
  ASSUME IInv, PostedOK, [AnalyzedNext]_analyzed_vars PROVE PostedOK'
<1>1. ASSUME NEW t \in Task, Post(t) PROVE PostedOK'
  <2> DEFINE req == Prompt(call[t])
  <2>1. /\ policy' = policy /\ posted' = posted \cup {req}
        /\ call[t].at = "analyze" /\ ~Malformed(call[t].wasm)
    BY <1>1 DEF Post, Analyze, vars, Unreadable, Malformed
  <2>2. req.model = call[t].source.model /\ req.imports = Extracted(call[t].wasm)
    BY DEF Prompt
  <2> HIDE DEF req
  <2> QED
    BY <2>1, <2>2, AnalyzingCall DEF PostedOK
<1>2. CASE Reboot
  BY <1>2 DEF Reboot, PostedOK
<1>3. ASSUME NEW t \in Task, AnalyzedStep(t), ~Post(t) PROVE UNCHANGED <<policy, posted>>
  BY <1>3 DEF AnalyzedStep, Ask, RequestAuto, MockAnswers, NotExtracted, Respond, Complete,
              Receive, Adopt, Fail, Drop, Cancel, Apart, RequestUnknown, RequestManual, Refuse,
              Admit, Enter, Insert, Answer, AnalyzerFails, Unmoved, analysis,
              history_of_calls, vars
<1>4. CASE Elsewhere \/ UNCHANGED analyzed_vars
  <2>1. UNCHANGED <<policy, posted>>
    BY <1>4 DEF Elsewhere, Tick, StepBack, Lookup, Unmoved, analysis, history_of_calls,
                analyzed_vars, vars
  <2> QED
    BY <2>1 DEF PostedOK
<1> QED
  BY <1>1, <1>2, <1>3, <1>4 DEF AnalyzedNext, PostedOK

-----------------------------------------------------------------------------
(* The theorems *)

\* With either analyzer the service runs Sessions, whatever the endpoint
\* replies: what is proved of Sessions holds of it (analyzer.rs:36-43, 186-247).
THEOREM AnalyzersRunSessions == AnalyzedSpec => Spec
<1>1. AnalyzedInit => Init
  BY DEF AnalyzedInit
<1>2. IInv /\ AInv /\ [AnalyzedNext]_analyzed_vars => [Next]_vars
  BY StepRuns DEF AInv
<1> QED
  BY <1>1, <1>2, AInvariant, PTL DEF AnalyzedSpec, Spec

\* With either analyzer the service implements AccessControl: whatever the
\* endpoint replies, a grant goes to one entity, once, as its mode prescribes, is
\* never altered, and covers what its workload imports (service.rs:102-191,
\* analyzer.rs:186-247).
THEOREM AnalyzersImplementAccessControl ==
  AnalyzedSpec => ImplementsAccessControl /\ []WorkloadsCovered /\ SessionsAppendOnly
BY AnalyzersRunSessions, RefinesAccessControl, WorkloadsAreCovered, TableAppendOnly, PTL

\* An exchange belongs to the call that waits for it (analyzer.rs:212-219).
THEOREM ExchangesCorrect == AnalyzedSpec => []ExchangesOK
<1>1. AInv => ExchangesOK
  BY DEF AInv
<1> QED
  BY <1>1, AInvariant, PTL

\* No auto session holds anything but the first choice of an answer that the call
\* which made it got itself, about its own workload, or everything from
\* MockAnalyzer (analyzer.rs:229-246).
THEOREM GrantsTraced == AnalyzedSpec => []GrantsFromFirstChoice
<1>1. AInv => GrantsFromFirstChoice
  BY DEF AInv, TableTraced, Justified, GrantsFromFirstChoice
<1> QED
  BY <1>1, AInvariant, PTL

\* What one copy of extract_imports could read the other can (analyzer.rs:122,
\* enforcer.rs:77).
THEOREM ReadableTwice == AnalyzedSpec => []AnalyzedCallsAreReadable
<1>1. AInv => AnalyzedCallsAreReadable
  BY DEF AInv
<1> QED
  BY <1>1, AInvariant, PTL

\* All that leaves the process about a workload is its import list, complete,
\* and only for workloads that parse, of auto entities (analyzer.rs:68-70,
\* 191-210).
THEOREM ImportListsOnly == AnalyzedSpec => []OnlyImportListsPosted
<1>1. AnalyzedInit => PostedOK
  BY DEF AnalyzedInit, PostedOK
<1>2. IInv /\ PostedOK /\ [AnalyzedNext]_analyzed_vars => PostedOK'
  BY PostedStep
<1>3. PostedOK => OnlyImportListsPosted
  BY ExtractedImports, WasmAssumption DEF PostedOK, OnlyImportListsPosted, Elements
<1> QED
  BY <1>1, <1>2, <1>3, AInvariant, PTL DEF AnalyzedSpec

=============================================================================
