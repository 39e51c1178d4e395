------------------------------- MODULE Server -------------------------------
(***************************************************************************)
(* The service as a process that answers HTTP requests (main.rs, api.rs):  *)
(* start-up from a policy file that may be edited or damaged at any time,  *)
(* one connection per task, replies that are lost with their connection,   *)
(* and a process that is killed and started again.  A session over HTTP is *)
(* asked for without a workload, so Wasm is empty in the instances.        *)
(*                                                                         *)
(* Three routes are left out: /health is constant, /api/v1/entities lists  *)
(* the ids of the policy that /capabilities answers from, and /api/v1/audit *)
(* reads a log nobody writes in this process (module AuditLog).            *)
(***************************************************************************)
EXTENDS Sessions

CONSTANTS
  Unloadable,   \* a file that does not parse or validate
  NoEntity      \* a query without entity_id

VARIABLES
  file,      \* what the policy file holds
  process,   \* "down", "starting" or "up"
  http,      \* http[t]: the request on connection t
  \* History variables: read by properties only, and about this process only.
  acked,     \* the sessions clients were told of
  told       \* what clients were told of entities

web         == <<file, process, http, acked, told>>
server_vars == <<vars, web>>

\* The states of a connection.
Quiet            == [at |-> "quiet"]
Creating(e)      == [at |-> "create", entity |-> e]
Counting(known)  == [at |-> "count", floor |-> known]
Counted(n, known) == [at |-> "counted", count |-> n, floor |-> known]
Replying(facts, sess) == [at |-> "reply", told |-> facts, acked |-> sess]

\* What a reply says of an entity, and of a session.
Unknown(e)     == [entity |-> e, known |-> FALSE, caps |-> {}]
Known(e, caps) == [entity |-> e, known |-> TRUE, caps |-> caps]
Ack(s) == [id |-> s.session_id, entity |-> s.entity_id, caps |-> s.granted_capabilities]

Connection(t, state) == http' = [http EXCEPT ![t] = state]

ServerInit ==
  /\ Init
  /\ file \in Policies \cup {Unloadable}
  /\ process = "down" /\ http = [t \in Task |-> Quiet]
  /\ acked = {} /\ told = {}

-----------------------------------------------------------------------------
(* main *)

\* EnforcementService::from_file: everything in memory starts anew.
Boot ==
  /\ process = "down" /\ file # Unloadable
  /\ Restart /\ policy' = file
  /\ process' = "starting"
  /\ UNCHANGED <<file, http, acked, told>>

BootFails ==
  /\ process = "down" /\ file = Unloadable
  /\ UNCHANGED server_vars

\* The file is not read again, whatever happens to it before or after this.
Bind ==
  /\ process = "starting"
  /\ process' = "up"
  /\ UNCHANGED <<vars, file, http, acked, told>>

\* Killed, the port is taken, or the process was to load the file only
\* (--validate-only, --list-entities).  Connections end with the process.
Kill ==
  /\ process # "down"
  /\ process' = "down"
  /\ http' = [t \in Task |-> Quiet]
  /\ acked' = {} /\ told' = {}
  /\ UNCHANGED <<vars, file>>

-----------------------------------------------------------------------------
(* The handlers *)

Serving(t) == process = "up" /\ http[t].at = "quiet"

\* EntityNotFound: 404.
AccessUnknown(t, e) ==
  /\ Serving(t)
  /\ RequestUnknown(t, e)
  /\ Connection(t, Replying({Unknown(e)}, {}))
  /\ UNCHANGED <<file, process, acked, told>>

\* Auto mode without a workload is a Policy error: 500.
AccessAuto(t, e) ==
  /\ Serving(t)
  /\ RequestAuto(t, e, NoWasm)
  /\ Connection(t, Replying({}, {}))
  /\ UNCHANGED <<file, process, acked, told>>

Access(t, e) ==
  /\ Serving(t)
  /\ RequestManual(t, e, NoWasm)
  /\ Connection(t, Creating(e))
  /\ UNCHANGED <<file, process, acked, told>>

Work(t) == process = "up" /\ Admit(t) /\ UNCHANGED web

\* Mutant of TableHolders: the lock is kept until the client has the reply.
TableHoldersReplying == {t \in Task : http[t].at \in {"reply", "counted"}}

\* The connections that keep the lock of the table between two steps.
TableHolders == {}

Created(t) ==
  /\ process = "up" /\ TableHolders = {}
  /\ Insert(t)
  /\ LET s == call[t].session IN
       Connection(t, Replying({Known(s.entity_id, s.granted_capabilities)}, {Ack(s)}))
  /\ UNCHANGED <<file, process, acked, told>>

\* Mutant of Served: the handler reads the file again.
ServedFile == IF file = Unloadable THEN policy ELSE file

\* The policy the handlers read.
Served == policy

Fact(e) ==
  IF HasEntity(Served, e)
  THEN Known(e, list_granted(find_entity(Served, e).capabilities))
  ELSE Unknown(e)

\* 500 without entity_id, 404 or 200 with one; no lock is taken.
Capabilities(t, e) ==
  /\ Serving(t)
  /\ Connection(t, Replying(IF e = NoEntity THEN {} ELSE {Fact(e)}, {}))
  /\ UNCHANGED <<vars, file, process, acked, told>>

Stats(t) ==
  /\ Serving(t)
  /\ Connection(t, Counting(acked))
  /\ UNCHANGED <<vars, file, process, acked, told>>

\* The read lock of the table is granted.
Count(t) ==
  /\ http[t].at = "count" /\ TableHolders = {}
  /\ Connection(t, Counted(active_sessions_count, http[t].floor))
  /\ UNCHANGED <<vars, file, process, acked, told>>

-----------------------------------------------------------------------------
(* The clients, the network and the operator *)

Deliver(t) ==
  /\ http[t].at \in {"reply", "counted"}
  /\ IF http[t].at = "reply"
     THEN acked' = acked \cup http[t].acked /\ told' = told \cup http[t].told
     ELSE UNCHANGED <<acked, told>>
  /\ Connection(t, Quiet)
  /\ UNCHANGED <<vars, file, process>>

\* The connection breaks: a handler is dropped where it waits, a reply is lost.
HangUp(t) ==
  /\ http[t].at # "quiet" /\ call[t].at # "check"
  /\ IF call[t].at = "insert" THEN Cancel(t) ELSE UNCHANGED vars
  /\ Connection(t, Quiet)
  /\ UNCHANGED <<file, process, acked, told>>

Edit ==
  /\ file' \in Policies \cup {Unloadable}
  /\ UNCHANGED <<vars, process, http, acked, told>>

Time == (Tick \/ StepBack) /\ UNCHANGED web

ServerNext ==
  \/ Boot \/ BootFails \/ Bind \/ Kill \/ Edit \/ Time
  \/ \E t \in Task :
       \/ Work(t) \/ Created(t) \/ Stats(t) \/ Count(t) \/ Deliver(t) \/ HangUp(t)
       \/ \E e \in EntityId : AccessUnknown(t, e) \/ AccessAuto(t, e) \/ Access(t, e)
       \/ \E e \in EntityId \cup {NoEntity} : Capabilities(t, e)

ServerSpec == ServerInit /\ [][ServerNext]_server_vars

\* The runtime polls the handlers that can run.  Nothing is assumed of the
\* clients: they may leave their replies unread.
FairServerSpec ==
  ServerSpec /\ \A t \in Task : WF_server_vars(Work(t) \/ Created(t) \/ Count(t))

-----------------------------------------------------------------------------
(* Properties *)

FactType == [entity : EntityId, known : BOOLEAN, caps : SUBSET Capability]
AckType  == [id : 1..drawn, entity : EntityId, caps : SUBSET Capability]

ConnectionType ==
  {Quiet} \cup [at : {"create"}, entity : EntityId]
    \cup [at : {"count"}, floor : SUBSET AckType]
    \cup [at : {"counted"}, count : Nat, floor : SUBSET AckType]
    \cup [at : {"reply"}, told : SUBSET FactType, acked : SUBSET AckType]

\* The server's variables have their types; a connection has a call under way
\* exactly when it waits for a session.
ConnectionsOK ==
  /\ file \in Policies \cup {Unloadable}
  /\ process \in {"down", "starting", "up"}
  /\ http \in [Task -> ConnectionType]
  /\ acked \subseteq AckType /\ told \subseteq FactType
  /\ process # "up" => acked = {} /\ told = {} /\ http = [t \in Task |-> Quiet]
  /\ process = "starting" => \A t \in Task : call[t].at = "idle"
  /\ process = "up" => \A t \in Task : http[t].at = "create" <=> call[t].at # "idle"

\* A session a client was told of is in the table of the running process with
\* the entity and the capabilities it was told, whichever connections were
\* dropped and whichever calls ran beside it (api.rs:96-102).
AckedSessionsHeld ==
  \A a \in acked : a.id \in DOMAIN sessions /\ Ack(sessions[a.id]) = a

\* What one process says of an entity never changes, however the file is
\* edited meanwhile: known or not, and for a known entity the capabilities of
\* the report and of every session (README.md:351 "restart the service after
\* editing the policy").
AnswersAgree == \A a, b \in told : a.entity = b.entity => a = b

\* A count is at least the sessions that had been acknowledged when it was asked
\* for and that are still valid, and at most those there are, as long as the
\* clock was not set back.
StatsCountAcknowledged ==
  \A t \in Task : http[t].at = "counted" =>
    /\ http[t].count <= Cardinality(DOMAIN sessions)
    /\ clock_steps = 0 =>
         http[t].count >=
           Cardinality({a \in http[t].floor : sessions[a.id].expires_at > now})

\* Every request is answered unless its connection breaks or the process ends,
\* even if other clients never read their replies.
RequestsAnswered ==
  \A t \in Task : http[t].at \in {"create", "count"} ~> http[t].at \notin {"create", "count"}

=============================================================================
