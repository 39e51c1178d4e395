# A verification of the HAL enforcement service

TLA+ models of the policy-based access-control service in this repository,
model-checked with TLC, with machine-checked proofs (TLAPS) of the properties
that matter most. File and line references are to the repository.

## 1. The system

`hal-enforcer` loads a YAML policy, then decides which capabilities of the
ELASTIC HAL an entity's WebAssembly workload may use. It is one process; all
state but the policy file is in memory, behind `tokio` read-write locks.

| Component | State | Operations | Source |
| --- | --- | --- | --- |
| Policy data | the loaded `PolicyConfig`, immutable | `find_entity`, `has_capability`, `list_granted` | `src/config.rs` |
| Policy validation | none | `PolicyConfig::validate`, `EntityConfig::validate` | `src/config.rs:273-324` |
| Workload enforcer | none | `extract_imports`, `import_to_capability`, `check_workload` | `src/enforcer.rs` |
| Session service | `sessions: RwLock<HashMap<Uuid, Session>>` | `create_session_with_wasm`, `get_session`, `has_capability`, `active_sessions_count` | `src/service.rs` |
| Rate limiter | `operation_counters: RwLock<HashMap<String, OperationCounter>>` | `check_rate_limit` | `src/service.rs:233-272` |
| Audit log | `audit_log: RwLock<Vec<AuditEvent>>` | `audit`, `get_audit_log` | `src/service.rs:275-308` |
| Capability analyzer | none of its own | `analyze` (mock, OpenAI) | `src/analyzer.rs` |
| HTTP API | shares the service through an `Arc` | six routes | `src/api.rs` |
| Command line | none | load, validate, list, serve | `src/main.rs` |
| Policy file | a YAML text on disk | read at start-up, edited by hand, written by the freezer | `src/config.rs:256-270` |
| Policy freezer | the file it writes | analyze once, render, write | `examples/freeze_policy.rs` |
| Workload runner | none | load, read, check one workload | `examples/run_workload.rs` |
| Other examples, benchmark | none | sequential clients | `examples/` |

How they interact. A session request looks the entity up, obtains its
capabilities (the YAML block in manual mode; in auto mode an `await` on the
analyzer, which may answer anything, fail or never return), checks the imports of
the workload against them, stamps a session, waits for the write lock of the
table and inserts it. The OpenAI analyzer is itself several awaits: it extracts the
imports with a parser of its own, posts them, waits for the status of a reply and
then for its body. HTTP requests
never carry a workload; each is a task of the runtime that ends with its
connection. The freezer and the runner are processes that share nothing but the
policy file. `check_rate_limit`
and `audit` are offered to the host that embeds the library; nothing inside the
repository calls them except tests, examples and the benchmark. Validation runs
before anything else, twice (`from_file` and `new`).

What is hard about it:

* **Await points.** A call suspends with a resolved entity, capabilities and a
  stamped session in its hands. Other calls run, the clock moves, the caller may
  drop the future.
* **The analyzer** has no timeout, neither for a status nor for a body, and the
  service trusts its verdict. Its reply may be an error, hold no choice or several,
  or be no verdict; the call that waits for it may be dropped and its task may
  start another.
* **Connections** break while a handler waits or a reply is under way: a session
  may exist that no client knows of.
* **The policy file** is truncated before it is written, read at any moment, and
  edited while a process serves from what it read before.
* **Two clocks.** Expiry and rate windows use `Utc::now()`, which can be set.
* **Restarts** lose sessions, counters and events; the policy may be edited.
* **Windows and boundaries.** `>=`, `>` and `<` around expiry and window ends;
  whole seconds rounded towards zero; counters shared by joined keys.
* **Stamp before lock.** An audit event is stamped before its place in the log
  is decided.

For each component, what makes it correct:

* Validation accepts exactly the well-formed policies, with an error that does
  not depend on hash-map order, and leaves lookups unambiguous.
* The workload check computes one verdict, whatever the number and order of
  sections, and reports the violation that comes first in the module.
* A session holds what the mode of its entity prescribes, for the bytes it was
  created for, and covers them; it is never altered; it ends with its process.
* The limiter never admits more than its window's budget, admits all of it before
  it refuses, and never refuses a pair for somebody else's calls.
* The log holds every call that returned, once and in the order of calls, and a page
  is the newest part of it.
* A grant in auto mode is owed to an answer that its own call got, to the very
  imports of its workload, under the model of its entity; every call whose reply
  came in full ends.
* What a client is told (sessions, capabilities, counts) stays true of the process
  that told it.
* Whatever a policy file holds after any number of freezes, no run passes beyond
  the verdict that was frozen.

## 2. The modules

| Module | Models | Shape |
| --- | --- | --- |
| `PolicyConfig` | policy data and lookups | pure operators |
| `Workload` | imports, import table, the verdict `check_workload` | pure operators |
| `WorkloadCheck` | the loops of `enforcer.rs` | one iteration per step |
| `AccessControl` | what the session service promises | abstract specification |
| `Sessions` | the session service; uses `Workload`, implements `AccessControl` | tasks with await points |
| `RateLimiter` | `check_rate_limit` | one step per check, wall clock apart from real time |
| `AuditLog` | `audit`, `get_audit_log`, a client that pages | stamp and push are two steps |
| `PolicyValidation` | `validate` | one iteration per step |
| `AnalyzedSessions` | both analyzers, as part of the calls that wait for them | extends `Sessions`: the free choice of a verdict becomes an exchange with the endpoint |
| `Server` | `main` and the HTTP handlers | extends `Sessions`: one connection per task |
| `FreezePolicy` | freezer, policy file, runner | two processes and a file, line by line |
| `MC*` | instances for TLC | constants only |
| `*Proofs` | theorems about the module they extend | |

Definitions whose comment starts with "Mutant of" are plausible bugs. Nothing
uses them: each is substituted for its original to see that a property notices.

### Workload and WorkloadCheck

The bytes of a module are the stream of payloads the parser (`wasmparser`, a
library) yields: import sections, payloads that are ignored, a parse error. A
section entry is an import or unreadable. Import names that
`import_to_capability` treats alike are one value: `"sock"` stands for every
`sock_*`, `"file"` for `fd_*`, `path_*`, `file_open` and `file_close`, and so on.
Only the two namespaces in which the HAL interfaces appear are spelt out, because
the table treats them differently for one name.

`WorkloadCheck` has one action per path through a loop body: `ReadPayload`,
`RejectPayload`, `EndOfModule` for `extract_imports`; `SkipBenign`,
`AcceptImport`, `RejectImport`, `Finish` for `check_workload`. It shows that the
loops compute the operator `check_workload`, which `Sessions` then uses in one
step: the code between two await points cannot be observed by another task.

### Sessions

`call[t]` is the state of the future task `t` is polling: `idle`, `analyze`
(waiting for the analyzer), `check` (capabilities known), `insert` (session
stamped, waiting for the write lock).

| Action | Code |
| --- | --- |
| `RequestUnknown`, `RequestManual`, `RequestAuto` | `service.rs:149-152`, `108-127`: up to the first await |
| `AnalyzerAnswers`, `AnalyzerFails` | `service.rs:127-133`; no action obliges the analyzer to do either |
| `Refuse`, `Admit` | `service.rs:157-173`: check, uuid, clock, stamp |
| `Insert` | `service.rs:175-188` |
| `Cancel` | the caller drops the future at an await point |
| `Lookup` | `service.rs:199-210`, reads only; remembers what was reported expired |
| `Tick`, `StepBack`, `Restart` | wall clock; process restart with another policy |

A uuid is the number of ids drawn so far: `Uuid::new_v4` is taken never to
repeat. `workload`, `verdicts` and `gone` are history variables that only
properties read. Left out: `operation_count` (never changed by the code), the
order of `list_granted`, log lines.

### RateLimiter

A key is the two names joined with `:`, and both may contain `:`. A name is the
sequence of its parts, so joining is concatenation and collisions are possible
as in the code. `now` is `Utc::now()`, `real` the true time; `Jump` sets the
former. `log`, `fresh` and `opened` are history: when a pair was admitted, how
often since its counter restarted, and when that was. Entities are known to the
policy: for others the code returns `EntityNotFound` and changes nothing.
Overflow of the `u64` counter is out of reach, since it never passes its limit.

### AuditLog

`Stamp` builds the event with the current time (`service.rs:284-292`), `Push`
appends it under the lock (`service.rs:294`). Tasks may get the lock in any
order, because one can be preempted between its stamp and its place in the
queue. `get_audit_log` filters (`OfEntity`), reverses and cuts
(`service.rs:298-308`). `Poll`
is a client that follows the advice of SECURITY.md:60. `ticket`, `before` and
`returned` are history about when calls began and returned; `past` is what earlier
processes had logged, and `lost` what they took with them that the client had not
polled.

### PolicyValidation

One action per path through the two loops; the limits of an entity are walked in
any order, as a `HashMap` is. Parsing of YAML (`serde_yaml`) is outside: drafts
are what it yields.

### AnalyzedSessions

`exchange[t]` is the HTTP exchange of the `analyze` future of task `t`: none,
sent, headed (the status is there, the body is not), or received with its reply.
`MockAnswers` is `MockAnalyzer`; for `OpenAiAnalyzer` `NotExtracted` and `Post`
follow `extract_imports` and the request (`analyzer.rs:187-218`), `Respond` is the
await of the status (`:218`), `Complete` that of the body, of an error (`:223`) or
of a chat (`:231`), and `Adopt` and `Fail` take the reply through the code's checks
in their order (`Outcome`, `analyzer.rs:219-246`). A text the model writes is the map from its JSON keys to
their values, or not an object; serde ignores keys that are no capability and
takes missing ones for false, which `Verdict` does too. `Drop` drops the exchange
with the call; `Enter` is the insert of `Sessions`, with a note of the call that
made the session. `serial`, `posted`, `answered` and `maker` are history: which
call a task makes, what was posted, what the endpoint answered to which call, and
which call made which session. Every action is an action of `Sessions` or leaves its variables
alone, which the proofs state as a theorem. The system prompt, temperature, API
key and endpoint are constants of a request and not kept; a body that breaks off
counts as garbled.

### Server

| Action | Code |
| --- | --- |
| `Boot`, `BootFails`, `Bind` | `main.rs:49-103`; the file is read once |
| `Kill` | the process ends anywhere: killed, port taken, `--validate-only`, `--list-entities` |
| `AccessUnknown`, `AccessAuto`, `Access`, `Work`, `Created` | `api.rs:92-103`; the `Sessions` actions of the call, and the reply |
| `Capabilities` | `api.rs:106-125` |
| `Stats`, `Count` | `api.rs:169-178`, before and after the read lock |
| `Deliver`, `HangUp` | the reply reaches its client, or the connection breaks first |
| `Edit` | the file is edited or damaged |

`acked` and `told` are history: what clients of this process were told. They
change in `Deliver` only, so a reply that is lost acknowledges nothing.

### FreezePolicy

A file is as many lines of what `freeze_policy` renders as were written: a head of
five (comments left out), then a line per capability or `{}`, and perhaps a torn
line. `Open` truncates, `WriteHead`, `WriteCapability` and `WriteBraces` add a
line each, `Break` stops anywhere before the end. `Load` and `LoadFails` are
`from_file`: which prefixes `serde_yaml` refuses is decided only where the code
decides it (a version and a list of entities are required, an id is not empty);
for a key without a value or a torn line both outcomes are allowed. `Run` is
`run_workload` after the load, with `check_workload` of `Workload`. The writes are
modelled line by line although `std::fs::write` passes one buffer, because the
file system may keep any prefix of it.

## 3. The runs

All runs finish in well under five minutes on two workers.

| Run | Instance | What it shows |
| --- | --- | --- |
| `workload_check` | every stream of at most 2 payloads and an end, sections of at most 2 entries, 6 kinds of entry, 4 grants | verdict, first violation, list of checked imports |
| `sessions` | 2 tasks, 3 names, 2 policies, 2 workloads, 2 verdicts, 2 sessions, 1 restart, 1 clock setback | all session properties, and the refinement of `AccessControl` |
| `rate_limiter` | 3 pairs (2 with one key), limits 2, 1, 2, a second of 2 ticks, 5 ticks, 1 restart, 1 clock setback | budget, sliding bound, justified refusals |
| `audit_log` | 2 tasks, 2 entities, 4 events, pages of 0, 1, 2, 9, 1 restart, 1 clock setback | order, pages, and what a collecting client may miss |
| `policy_validation` | every policy of at most 3 entities over 3 ids (one empty) and 4 limit maps | acceptance, errors, lookups |
| `analyzed_sessions` | 2 tasks, 3 names, 2 models, 3 workloads (one unreadable), 8 replies, 2 calls for auto entities, 2 sessions, 1 restart; the clock stands still | requests, grants traced to the answer their own call got, the two import parsers, calls that return |
| `server` | 2 connections, 2 names, 2 policies and a broken file, 2 sessions, 2 starts | acknowledged sessions, consistent answers, counts, every request answered |
| `freeze_policy` | 2 entities, 3 verdicts (none, 2 and 3 capabilities), 4 workloads; no bound on freezes, breaks and runs | file integrity, no run beyond the verdict, equal decisions |

Why the bounds are enough. Two tasks are enough for every pair of concurrent
calls, and no property relates three of them. Two payloads with two entries reach
each loop from its first, middle and last iteration, with a section boundary in
between. The eight replies are one of each kind the code tells apart, with two
orders of two disagreeing choices; two calls for auto entities are a dropped one
and its successor; of two choices that would let a workload run, one has a value
that is no boolean. Time plays no part there, and expiry is checked in `sessions`
and `server`. The states of `FreezePolicy` are finite without a bound, so
every sequence of freezes and runs is covered. Two starts of the server are one
before and one after an edit. Two policies that swap the mode of an entity and the flags of another
make any grant kept across a restart visible. Five ticks hold two whole windows
and a window that starts between ticks; a limit of two tells "at the limit" from
"at one". Three entities allow a duplicate that is not adjacent. The theorems of
section 4 remove the bounds where they are proved.

The runs below violate one property each, taken from a document or comment:

| Run | Statement | What happens |
| --- | --- | --- |
| `workload_bare_names` | enforcer.rs:93 | module `capabilities`, alone among the HAL names, has no bucket under its bare name |
| `reported_capabilities` | README.md:213 | the endpoint reports the YAML block of an auto entity |
| `rate_isolation` | ARCHITECTURE.md:32 | two pairs with one joined key share a counter |
| `posted_bytes` | SECURITY.md:44 | what is posted is the import list (as `analyzer.rs:70` says), not the bytes of the workload: two workloads with the same imports have the same request |

Other statements the code does not honour, seen while reading and not run:
`strict_mode` has no effect (GETTING_STARTED.md:183; SECURITY.md:64 says so), a
`default_rate_limit` of zero passes validation, a counter is not reset after a
second if the clock was set back (GETTING_STARTED.md:375), `operation_count` is
never raised (ARCHITECTURE.md:27), the service logs none of the accesses it
decides itself (ARCHITECTURE.md:46), and the server offers a log that nothing in
its process writes; `burst_size` and the quotas are parsed and never read
(ARCHITECTURE.md:33-34 and 40-41, README.md:354); at the instant of expiry a
session is still given out and no longer counted (service.rs:205 and 324);
`--audit-log` has no effect (main.rs:33-35).

### Fairness

`Sessions` assumes only that a future that can run is polled: weak fairness on
`Refuse \/ Admit \/ Insert` per task. The runtime schedules woken tasks and the
table lock is held for synchronous sections only, so a waiter is granted it.
Nothing is assumed of the analyzer, of callers, of ticks or of restarts.
`AnalyzedSessions` assumes the same of every step the process takes by itself
(`Runs`): the mock's answer, the extraction and the request, the treatment of a
reply that came in full. Nothing is assumed of the endpoint, neither that it sends
a status nor that it completes a body (`Respond`, `Complete`): `AnsweredCallsReturn`
is about calls whose reply came in full, and holds while all others wait for ever.
`Server` assumes that a handler that can run is polled (`Work`, `Created`,
`Count`); a client may never read its reply. The other modules state safety only.

## 4. The proofs

`tlapm` proves these for every value of the constants that satisfies the named
assumptions of the modules; the assumptions restate types, and that entity ids
of a policy are distinct, which `policy_validation` shows of every accepted one.

* **`SessionsProofs`**. The invariant is `IInv == TypeOK /\ CallsOK /\ IdsFresh /\
  TableOK`. The properties speak of the table only; they are not inductive,
  because `Insert` moves a session there from a suspended call. `CallsOK`
  therefore says of each suspended call what it must already satisfy (its
  entity and mode, an answer for its own bytes, its check), `TableOK` the same of
  the table, `IdsFresh` that ids about to be inserted are nobody else's. From it
  follow `TypeCorrect`, `WorkloadsAreCovered`, `ManualGrants`, `AutoGrants`,
  `CapabilityAnswers`, `TableAppendOnly`, and, with `GoneIds` beside it,
  `GoneIsGone`. `RefinesAccessControl` maps `Insert` to `Grant`, `Restart` to
  `Restart` and every other step to a stutter.
* **`RateLimiterProofs`**. All changes of a check are first summed up in one
  lemma (`CheckEffect`). `BudgetInv` bounds a pair's admissions by its counter,
  `OwnCount` says that the counter of a pair with a key of its own is its own
  count; together they give `WindowBudgetHolds`, however the clock is set.
  `SharedOK` bounds what two pairs of one key were admitted by the counter they
  share, and the counter by a limit of that key, and gives `SharedBudgetHolds`.
  `SlidingInv` adds how the log lies around the last restart of the counter
  (`LogOK`) and that the wall clock has not run ahead of real time since
  (`ClockOK`), and gives `SlidingBoundHolds` if the clock is never set forward.
  `OwnCount` and `TrueAge`, that a counter is as old as it seems while the clock
  was not set, give `RefusalsAreJustified`.
* **`WorkloadCheckProofs`**. `LoopInv` relates the imports collected to the
  payloads read, and the imports passed to the grant; `VerdictIsCorrect` follows.
  `OrderInv` does the same with places (a section and an entry of it): the imports
  collected lie at the places read so far, in their order, and the pairs listed at
  those of them that need a bucket. `PairsInOrder` follows, and
  `FirstViolationIsReported`: the import the loop stopped at lies at the first
  place of the module with one that was not granted. `HalImportsGranted` follows
  from the verdict.
* **`PolicyValidationProofs`**. `LoopsOK` says what each loop has established at
  its position (ids so far distinct and exactly the set collected; entities so far
  sound, and of the current one the limits already looked at), `ResultOK` what
  each result says of the policy, the faults that come before it in the code
  included. `ExactAcceptance`, `DeterministicError` and
  `UnambiguousLookup` follow, for policies of any length. That lookups on an
  accepted policy are unambiguous is what lets the other modules take the entities
  of a policy for a set.
* **`AuditLogProofs`**. `LoggedOnceInOrder` is not inductive: `Push` could append a
  call another had seen return, or one logged before. `TicketsOK` adds that no
  begun call has a waiting call among those it saw return, and that tickets are
  unique; `StampsOK`, while the clock was not set back, that events are not from
  the future and that a call that began after another was logged is not older.
  `OrderOfCalls` and `DisorderBounded` follow. `TrailMissesOnlyLost` rests on one lemma
  about pages (`PageOfAll`), and follows what a restart takes into `lost`. `PagesAreNewest` is about any page of any log: the
  lemma `OfEntityLists` says what the filter returns, by the induction described
  below. `PagesAlmostRecent` combines it with `DisorderBounded`.
* **`AnalyzedSessionsProofs`**. `AnalyzersRunSessions` shows every behaviour to be
  one of `Sessions`, so that all theorems of `SessionsProofs` carry over; that
  needs `Verdicts` to hold what the replies and the mock amount to
  (`RepliesAssumption`, `MockAssumption`). `AnalyzersImplementAccessControl` draws
  the conclusion: the detailed service implements the abstract one. `AInv` adds
  that an exchange belongs to the call that waits (`ExchangesOK`), that a reply
  under way was recorded under the number of its call and its workload read before
  (`RepliesOK`), and that capabilities are traced to an answer of that call
  wherever they are: in a call that checks or waits for the lock (`CallsTraced`),
  and in the table (`TableTraced`). `GrantsTraced` is what the last of these says.
  It is not inductive by itself, since a session comes from a call that may have
  been suspended between its answer and its insert. `ImportListsOnly` needs that the analyzer's loop
  collects exactly the imports of a workload that parses (`ExtractedImports`), for
  streams of any length (`WasmAssumption`).
* **`ServerProofs`**. `ServerRunsSessions` and `ServerImplementsAccessControl` do the
  same for the server. What is under way on a connection is tied to the call of its
  task, what was told to the policy and the table (`Truthful`);
  `CountsAcknowledged` rests on a surjection from the live sessions of the table
  onto the valid ones a client was told of.
* **`FreezePolicyProofs`**. The file is a prefix of the last freeze, and what the
  runner loaded is a prefix of the freeze it remembers, whatever was written
  since. `DecidesAlike` adds that a file closed by its freezer is the whole of it.

Two of these need facts about all sequences. The library's induction theorems take
an operator, which the provers cannot instantiate; `NatSetInduction` says the same of
a set of numbers, and follows from `WFMin` and `NatLessThanWellFounded`. A recursive
function is a `CHOOSE` of the function that satisfies its equation: `OfEntityUnfolds`
and `ExtractedUnfolds` show by that induction that there is one, hence that the
chosen one satisfies it, and `OfEntityLists` and `ExtractedImports` say what it
computes.

Four statements of the documents do not hold (section 3). What is left of two of
them is proved, and is no property of a run: `KnownHalImportsGranted` (names the
table knows) and `SharedBudget` (a shared key takes admissions from a caller and
adds none). `PageRecentUnlessConcurrent`, also proved only, says how far a page
that is the newest by place can be from the newest by timestamp: only overlapping
calls are hidden.

Only model-checked: liveness (`KnownCallsReturn`, `AnsweredCallsReturn`,
`RequestsAnswered`), which the prover does not handle under fairness. Every other
property of a passing run is also a theorem.

## 5. What is not modelled

* `/health` and `/api/v1/entities`, JSON, the wording of errors, the listing of
  `--list-entities`, the banner, logging, error types and re-exports: no state and
  no control of their own.
* The Wasm parser, YAML parser, HTTP stack, uuid generator and runtime:
  libraries, taken at their interface. Files in `FreezePolicy` are prefixes of what
  the freezer renders; an id or path with a quote in it, which would end the YAML
  string early, is not among them.
* Demo programs, benchmark and the builder of demo modules: sequential, no state
  of their own. The benchmark's timings are outside any model here.
* Growth of the session table and of the log: nothing bounds them.
* Two freezers that write one path at the same time (`freeze_policy.rs:68`): there
  is one freezer, and files that mix two of them are not among those the runner
  reads.
* What no document decides: which of its two answers is right for a session at the
  very instant of its expiry.
* Limiter and audit log together with sessions in one process: the code never
  calls one from another, they share no state, and each is modelled under its own
  interleavings.

## 6. Order of work

Done, in this order: `PolicyConfig`, `Workload`, `WorkloadCheck`,
`AccessControl` and `Sessions`, `RateLimiter`, `AuditLog`, `PolicyValidation`, the
proofs of the first three components; then `AnalyzedSessions`, `FreezePolicy`,
`Server`, and the proofs of these three, of `AuditLog` and of `PolicyValidation`.

Then what had only been model-checked: the list of checked imports, pages and the
posted import lists, with the induction they rest on; the budget in full; the
refinement of `AccessControl` by the detailed modules; and what remains true of the
statements the code does not keep.

What a continuation would take up: a host that embeds the service and calls
`check_rate_limit` and `audit` for each operation of a session, once the repository
has one.
