-------------------------- MODULE AnalyzedSessions --------------------------
(***************************************************************************)
(* The session service with the analyzer it delegates auto entities to     *)
(* (analyzer.rs).  Sessions lets an analyzer answer anything at any time;  *)
(* here the answer is what MockAnalyzer or OpenAiAnalyzer computes.  The   *)
(* second extracts the imports of the workload, posts them to the chat     *)
(* endpoint and takes the first choice of the reply as the verdict.  It    *)
(* has no timeout and no retry, and the caller may drop the future while   *)
(* the exchange is under way.                                              *)
(*                                                                         *)
(* A text the model writes is the function from the keys of its JSON       *)
(* object to their values, or NotAnObject if it does not parse (a repeated *)
(* capability included); serde takes an array for the object with its      *)
(* values in the order of the fields.  The prompt is constant and left out *)
(* of the request.                                                         *)
(***************************************************************************)
EXTENDS Sessions

CONSTANTS
  NotAnObject,   \* a text that is no JSON object
  Replies,       \* what the endpoint may answer
  MaxAsks        \* bound for TLC on the calls for auto entities

\* The request never reached the endpoint, or an answer with an error status,
\* an answer whose body is no ChatResponse, or one with a list of choices.
Lost       == [kind |-> "lost",    choices |-> <<>>]
ErrorReply == [kind |-> "error",   choices |-> <<>>]
Garbled    == [kind |-> "garbled", choices |-> <<>>]
Chat(choices) == [kind |-> "chat", choices |-> choices]

VARIABLES
  analyzer,   \* which LlmAnalyzer the service was built with
  exchange,   \* exchange[t]: the HTTP exchange of the analyze future of task t
  asks,       \* how often the bound was used
  \* History variables: read by properties only.
  serial,     \* serial[t]: the number of the last call task t made for an auto entity
  posted,     \* the requests posted since start-up
  answered,   \* the choices of every answer, with the call and its request
  maker       \* session id -> serial[t] when task t entered it

history_of_calls == <<serial, posted, answered, maker>>

analysis      == <<analyzer, exchange, asks, history_of_calls>>
analyzed_vars == <<vars, analysis>>

\* The request is under way; its status has arrived and its body has not; all
\* of the reply has arrived, or the exchange broke off.
NoExchange        == [at |-> "none"]
Sent(req)         == [at |-> "sent", request |-> req]
Headed(req, ok)   == [at |-> "headed", request |-> req, success |-> ok]
Received(req, r)  == [at |-> "received", request |-> req, reply |-> r]

AnalyzedInit ==
  /\ Init
  /\ analyzer \in {"mock", "openai"}
  /\ exchange = [t \in Task |-> NoExchange]
  /\ asks = 0 /\ posted = {} /\ answered = {}
  /\ serial = [t \in Task |-> 0] /\ maker = [id \in {} |-> 0]

-----------------------------------------------------------------------------
(* extract_imports, the copy of analyzer.rs *)

\* Mutant of Unreadable: an import that cannot be read is skipped.
UnreadablePayload(w) == \E k \in DOMAIN w : w[k].kind = "error"

Unreadable(w) == \E k \in DOMAIN w : Broken(w[k])

\* Mutant of Extracted: the imports of the first section only.
ExtractedFirst(w) == IF w = <<>> THEN <<>> ELSE w[1].entries

\* The imports in module order, section after section.
Extracted(w) ==
  LET upto[n \in 0..Len(w)] == IF n = 0 THEN <<>> ELSE upto[n - 1] \o w[n].entries
  IN  upto[Len(w)]

-----------------------------------------------------------------------------
(* From the reply to the verdict, in the order of the code *)

Flag(text, c) == IF c \in DOMAIN text THEN text[c] ELSE "false"

\* Keys that are no capability are ignored, missing ones are false.
Verdict(text) == [c \in Capability |-> Flag(text, c) = "true"]

IsVerdict(text) ==
  text # NotAnObject /\ \A c \in Capability : Flag(text, c) \in {"true", "false"}

\* Mutant of Chosen: the last choice is taken.
ChosenLast(choices) == choices[Len(choices)]

Chosen(choices) == choices[1]

Outcome(reply) ==
  CASE reply.kind = "lost"    -> "request failed"
    [] reply.kind = "error"   -> "error status"
    [] reply.kind = "garbled" -> "bad JSON"
    [] reply.kind = "chat" /\ reply.choices = <<>> -> "no choices"
    [] OTHER -> IF IsVerdict(Chosen(reply.choices)) THEN "verdict" ELSE "no verdict"

\* The outcomes that end the call with an error.
Failures ==
  {"request failed", "error status", "bad JSON", "no choices", "no verdict"}

ASSUME RepliesAssumption ==
  \A r \in Replies :
    /\ r.kind \in {"lost", "error", "garbled", "chat"}
    /\ r.choices = <<>> \/ 1 \in DOMAIN r.choices
    /\ \A n \in DOMAIN r.choices :
         IsVerdict(r.choices[n]) => Verdict(r.choices[n]) \in Verdicts
ASSUME MockAssumption == all \in Verdicts
ASSUME AsksAssumption == MaxAsks \in Nat

-----------------------------------------------------------------------------
(* The analyze future of the call of task t *)

Exchange(t, state) == exchange' = [exchange EXCEPT ![t] = state]

\* Mutant of Prompt: the entity is sent in place of its model.
PromptForEntity(c) == [model |-> c.entity, imports |-> Extracted(c.wasm)]

\* All that leaves the process about a workload is its import list.
Prompt(c) == [model |-> c.source.model, imports |-> Extracted(c.wasm)]

Analyze(t) == call[t].at = "analyze" /\ exchange[t].at = "none"

MockAnswers(t) ==
  /\ Analyze(t) /\ analyzer = "mock"
  /\ Answer(t, all)
  /\ UNCHANGED analysis

\* The workload does not parse: nothing is posted.
NotExtracted(t) ==
  /\ Analyze(t) /\ analyzer = "openai"
  /\ Unreadable(call[t].wasm)
  /\ AnalyzerFails(t)
  /\ UNCHANGED analysis

Post(t) ==
  /\ Analyze(t) /\ analyzer = "openai"
  /\ ~Unreadable(call[t].wasm)
  /\ Exchange(t, Sent(Prompt(call[t])))
  /\ posted' = posted \cup {Prompt(call[t])}
  /\ UNCHANGED <<vars, analyzer, asks, serial, answered, maker>>

\* The whole reply, or what is left of it when the exchange breaks off.
Receive(t, r) ==
  /\ Exchange(t, Received(exchange[t].request, r))
  /\ answered' = IF r.kind = "chat"
                 THEN answered \cup {[call |-> serial[t], request |-> exchange[t].request,
                                      choices |-> r.choices]}
                 ELSE answered
  /\ UNCHANGED <<vars, analyzer, asks, serial, posted, maker>>

\* send() resolves: the request failed, or the status of a reply is there and
\* the call goes on to wait for its body, without a timeout either.  It may also
\* never resolve.
Respond(t) ==
  /\ exchange[t].at = "sent"
  /\ \E r \in Replies :
       \/ r.kind = "lost" /\ Receive(t, r)
       \/ /\ r.kind # "lost"
          /\ Exchange(t, Headed(exchange[t].request, r.kind # "error"))
          /\ UNCHANGED <<vars, analyzer, asks, history_of_calls>>

\* text() or json() resolves: the body arrived or broke off, and it may also
\* never do either.  A body that broke off is Garbled, or part of an ErrorReply.
Complete(t) ==
  /\ exchange[t].at = "headed"
  /\ \E r \in Replies :
       /\ r.kind # "lost" /\ (r.kind # "error") = exchange[t].success
       /\ Receive(t, r)

Adopt(t) ==
  /\ exchange[t].at = "received"
  /\ Outcome(exchange[t].reply) = "verdict"
  /\ Answer(t, Verdict(Chosen(exchange[t].reply.choices)))
  /\ Exchange(t, NoExchange)
  /\ UNCHANGED <<analyzer, asks, history_of_calls>>

Fail(t) ==
  /\ exchange[t].at = "received"
  /\ Outcome(exchange[t].reply) \in Failures
  /\ AnalyzerFails(t)
  /\ Exchange(t, NoExchange)
  /\ UNCHANGED <<analyzer, asks, history_of_calls>>

-----------------------------------------------------------------------------
(* The rest of the service *)

Ask(t) ==
  /\ asks < MaxAsks /\ asks' = asks + 1
  /\ \E e \in EntityId, w \in Wasm \cup {NoWasm} : RequestAuto(t, e, w)
  /\ serial' = [serial EXCEPT ![t] = asks + 1]
  /\ UNCHANGED <<analyzer, exchange, posted, answered, maker>>

\* Dropping the future drops the exchange it awaits.
Drop(t) ==
  /\ Cancel(t)
  /\ Exchange(t, NoExchange)
  /\ UNCHANGED <<analyzer, asks, history_of_calls>>

\* The session of task t is entered in the table.
Enter(t) ==
  /\ Insert(t)
  /\ maker' = Put(maker, call[t].session.session_id, serial[t])
  /\ UNCHANGED <<analyzer, exchange, asks, serial, posted, answered>>

\* What the analyzer takes no part in.
Apart(t) ==
  /\ \/ \E e \in EntityId : RequestUnknown(t, e)
     \/ \E e \in EntityId, w \in Wasm \cup {NoWasm} : RequestManual(t, e, w)
     \/ Refuse(t) \/ Admit(t)
  /\ UNCHANGED analysis

Elsewhere ==
  /\ Tick \/ StepBack \/ \E id \in 1..MaxSessions : Lookup(id)
  /\ UNCHANGED analysis

\* The next process may be built with another analyzer.
Reboot ==
  /\ Restart
  /\ analyzer' \in {"mock", "openai"}
  /\ exchange' = [t \in Task |-> NoExchange]
  /\ serial' = [t \in Task |-> 0] /\ posted' = {} /\ answered' = {}
  /\ maker' = [id \in Survivors |-> maker[id]]
  /\ UNCHANGED asks

AnalyzedStep(t) ==
  \/ Ask(t) \/ MockAnswers(t) \/ NotExtracted(t) \/ Post(t) \/ Respond(t) \/ Complete(t)
  \/ Adopt(t) \/ Fail(t) \/ Drop(t) \/ Apart(t) \/ Enter(t)

AnalyzedNext == (\E t \in Task : AnalyzedStep(t)) \/ Elsewhere \/ Reboot

AnalyzedSpec == AnalyzedInit /\ [][AnalyzedNext]_analyzed_vars

\* The runtime polls what can run; nothing is assumed of the endpoint, neither
\* that it sends a status nor that it completes a body (Respond, Complete).
Runs(t) ==
  \/ MockAnswers(t) \/ NotExtracted(t) \/ Post(t) \/ Adopt(t) \/ Fail(t) \/ Enter(t)
  \/ (Refuse(t) \/ Admit(t)) /\ UNCHANGED analysis

FairAnalyzedSpec == AnalyzedSpec /\ \A t \in Task : WF_analyzed_vars(Runs(t))

-----------------------------------------------------------------------------
(* Properties *)

PromptType == {[model |-> m, imports |-> Extracted(w)] : m \in Model, w \in Wasm}

ExchangeType ==
  {NoExchange} \cup [at : {"sent"}, request : PromptType]
    \cup [at : {"headed"}, request : PromptType, success : BOOLEAN]
    \cup [at : {"received"}, request : PromptType, reply : Replies]

\* The analyzer's variables have their types, and an exchange belongs to the
\* call that waits for it: its request is the one for that call's workload.
ExchangesOK ==
  /\ analyzer \in {"mock", "openai"} /\ asks \in 0..MaxAsks
  /\ exchange \in [Task -> ExchangeType]
  /\ posted \subseteq PromptType
  /\ serial \in [Task -> 0..asks] /\ DOMAIN maker = DOMAIN sessions
  /\ \A t \in Task : exchange[t].at # "none" =>
       /\ analyzer = "openai" /\ call[t].at = "analyze"
       /\ exchange[t].request = Prompt(call[t])

\* The n-th call was answered, to a request for workload w under the model, with
\* choices of which the first is an object that gives no capability a value other
\* than a boolean and gives true to exactly the capabilities granted.
AnsweredWith(n, model, w, granted) ==
  \E a \in answered :
    /\ a.call = n
    /\ a.request = [model |-> model, imports |-> Extracted(w)]
    /\ a.choices # <<>> /\ a.choices[1] # NotAnObject
    /\ \A c \in Capability \cap DOMAIN a.choices[1] : a.choices[1][c] \in {"true", "false"}
    /\ granted = {c \in Capability \cap DOMAIN a.choices[1] : a.choices[1][c] = "true"}

\* Every auto session was granted what the first choice says of an answer to the
\* very call that made it, to the imports of its own workload under the model of
\* its entity, and only if that choice is a verdict (analyzer.rs:229-246).  An
\* answer to another call, to one that was dropped or ended with an error
\* included, counts for nothing.  MockAnalyzer grants everything.
GrantsFromFirstChoice ==
  \A id \in DOMAIN sessions :
    LET s == sessions[id] IN
    s.policy_source # ManualMode =>
      IF analyzer = "mock"
      THEN s.granted_capabilities = Capability
      ELSE AnsweredWith(maker[id], s.policy_source.model, workload[id], s.granted_capabilities)

\* What is posted is the whole import list of a workload that parses, under
\* the model of an auto entity: no request leaves for a workload the analyzer
\* could not read, none with part of its imports (analyzer.rs:68-70).  That
\* nothing but this list is sent is what SECURITY.md:44 says otherwise:
\* RequestsCarryWorkload below.
OnlyImportListsPosted ==
  \A r \in posted :
    /\ \E e \in policy.entities : e.mode = AutoMode(r.model)
    /\ \E w \in Wasm :
         /\ ~Malformed(w)
         /\ {r.imports[n] : n \in DOMAIN r.imports} = Imports(w)

\* The two copies of extract_imports agree: a workload that came back from the
\* endpoint with a verdict is never refused as malformed (analyzer.rs:122-137,
\* enforcer.rs:77-91).
AnalyzedCallsAreReadable ==
  analyzer = "openai" =>
    \A t \in Task :
      call[t].at = "check" /\ call[t].source # ManualMode => ~Malformed(call[t].wasm)

\* SECURITY.md:44 "`OpenAiAnalyzer` sends the **decrypted Wasm bytes** of the
\* workload to an external API".  Then no two workloads have the same request:
\* the one that is posted tells which workload it was made for.
RequestsCarryWorkload ==
  \A t \in Task, w \in Wasm :
    exchange[t].at # "none" /\ ~Unreadable(w)
      /\ exchange[t].request = Prompt([call[t] EXCEPT !.wasm = w])
      => w = call[t].wasm

\* A call whose reply came in full returns, whatever the reply holds, and even
\* if every other call waits for a status or a body that never comes.
AnsweredCallsReturn ==
  \A t \in Task : exchange[t].at = "received" ~> call[t].at = "idle"

=============================================================================
