------------------------------ MODULE AuditLog ------------------------------
(***************************************************************************)
(* The audit log of EnforcementService (service.rs:275-308) and the query  *)
(* GET /api/v1/audit makes on it.  audit() stamps the event first and then *)
(* waits for the write lock of the log; between the two other tasks stamp, *)
(* push and query.  A task makes one call at a time and awaits it.         *)
(***************************************************************************)
EXTENDS Integers, Sequences, FiniteSets, SequencesExt

CONSTANTS
  EntityId, Task,
  AnyEntity,    \* a query without entity_id
  Limits,       \* page sizes of queries; usize, so never negative
  PollLimit,    \* the page size of the client that collects the trail
  MaxNow, MaxEvents, MaxClockSteps, MaxRestarts   \* bounds for TLC

ASSUME AnyEntityAssumption == AnyEntity \notin EntityId
ASSUME LimitsAssumption    == Limits \subseteq Nat /\ PollLimit \in Nat
ASSUME BoundsAssumption    ==
  MaxNow \in Nat /\ MaxEvents \in Nat /\ MaxClockSteps \in Nat /\ MaxRestarts \in Nat

VARIABLES
  now,         \* Utc::now()
  audit_log,   \* the Vec of events
  call,        \* call[t]: the audit() future of task t
  clock_steps, restarts,   \* how often the bounds were used
  \* History variables: read by properties only.
  begun,       \* the number of audit calls begun; call n has ticket n
  returned,    \* the tickets of the calls that returned since start-up
  before,      \* before[n]: what had returned when call n began
  collected,   \* the tickets in the pages the collecting client was given
  polled,      \* how long the log was when it asked last
  behind,      \* more events than a page holds came between two polls
  past,        \* the tickets in the logs of processes that ended
  lost         \* those of them logged after the client's last poll

client == <<collected, polled, behind, past, lost>>

vars == <<now, audit_log, call, clock_steps, restarts, begun, returned, before,
          client>>

\* An event; the ticket tells apart events with the same fields.
Event(ticket, t, e) == [ticket |-> ticket, timestamp |-> t, entity_id |-> e]

Idle           == [at |-> "idle"]
Waiting(event) == [at |-> "lock", event |-> event]

Init ==
  /\ now = 0 /\ audit_log = <<>> /\ call = [t \in Task |-> Idle]
  /\ clock_steps = 0 /\ restarts = 0
  /\ begun = 0 /\ returned = {} /\ before = <<>>
  /\ collected = {} /\ polled = 0 /\ behind = FALSE /\ past = {} /\ lost = {}

-----------------------------------------------------------------------------
(* audit() *)

Stamp(t, e) ==
  /\ call[t].at = "idle" /\ begun < MaxEvents
  /\ begun' = begun + 1 /\ before' = Append(before, returned)
  /\ call' = [call EXCEPT ![t] = Waiting(Event(begun + 1, now, e))]
  /\ UNCHANGED <<now, audit_log, clock_steps, restarts, returned, client>>

\* Mutant of Pushed: the newest event goes to the front.
PushedFront(event) == <<event>> \o audit_log

\* Mutant of Pushed: a log of two events is rotated.
PushedRotating(event) ==
  IF Len(audit_log) < 2 THEN Append(audit_log, event) ELSE <<event>>

Pushed(event) == Append(audit_log, event)

\* The write lock is granted; tasks may wait for it in any order, since one may
\* be preempted between its stamp and its place in the queue.
Push(t) ==
  /\ call[t].at = "lock"
  /\ audit_log' = Pushed(call[t].event)
  /\ call' = [call EXCEPT ![t] = Idle]
  /\ returned' = returned \cup {call[t].event.ticket}
  /\ UNCHANGED <<now, clock_steps, restarts, begun, before, client>>

\* The caller drops the future while it waits: the event is never logged.
Cancel(t) ==
  /\ call[t].at = "lock"
  /\ call' = [call EXCEPT ![t] = Idle]
  /\ UNCHANGED <<now, audit_log, clock_steps, restarts, begun, returned, before, client>>

-----------------------------------------------------------------------------
(* get_audit_log(entity_id, limit): filter, newest first, first limit. *)

\* The events of one entity in their order: SelectSeq as a recursive function,
\* which a proof can unfold.
OfEntity(log, id) ==
  LET kept[n \in 0..Len(log)] ==
        IF n = 0 THEN <<>>
        ELSE IF log[n].entity_id = id THEN Append(kept[n - 1], log[n]) ELSE kept[n - 1]
  IN  kept[Len(log)]

Selected(id) == IF id = AnyEntity THEN audit_log ELSE OfEntity(audit_log, id)

FirstOf(s, limit) == SubSeq(s, 1, IF limit < Len(s) THEN limit ELSE Len(s))

\* Mutant of get_audit_log: the oldest events come first.
get_audit_log_oldest(id, limit) == FirstOf(Selected(id), limit)

\* Mutant of get_audit_log: the page is cut before it is filtered.
get_audit_log_cut_first(id, limit) ==
  SelectSeq(FirstOf(Reverse(audit_log), limit),
            LAMBDA event : id = AnyEntity \/ event.entity_id = id)

get_audit_log(id, limit) == FirstOf(Reverse(Selected(id)), limit)

Tickets(events) == {events[n].ticket : n \in DOMAIN events}

\* The tickets of the events from one position of the log to another.
TicketsFrom(first, last) == {audit_log[n].ticket : n \in first..last}

\* A client collects the trail page by page (SECURITY.md:60).
Poll ==
  /\ collected' = collected \cup Tickets(get_audit_log(AnyEntity, PollLimit))
  /\ polled' = Len(audit_log)
  /\ behind' = (behind \/ Len(audit_log) - polled > PollLimit)
  /\ UNCHANGED <<now, audit_log, call, clock_steps, restarts, begun, returned, before,
                 past, lost>>

-----------------------------------------------------------------------------
(* The environment *)

Tick ==
  /\ now < MaxNow
  /\ now' = now + 1
  /\ UNCHANGED <<audit_log, call, clock_steps, restarts, begun, returned, before, client>>

\* The wall clock is set back.
StepBack ==
  /\ clock_steps < MaxClockSteps
  /\ clock_steps' = clock_steps + 1
  /\ now' \in 0..now - 1
  /\ UNCHANGED <<audit_log, call, restarts, begun, returned, before, client>>

\* The log is in memory only: it ends with its process, and so does what was
\* logged after the client's last poll.
Restart ==
  /\ restarts < MaxRestarts
  /\ restarts' = restarts + 1
  /\ audit_log' = <<>> /\ call' = [t \in Task |-> Idle] /\ returned' = {}
  /\ past' = past \cup Tickets(audit_log)
  /\ lost' = lost \cup TicketsFrom(polled + 1, Len(audit_log))
  /\ polled' = 0
  /\ UNCHANGED <<now, clock_steps, begun, before, collected, behind>>

Next ==
  \/ \E t \in Task : Push(t) \/ Cancel(t) \/ \E e \in EntityId : Stamp(t, e)
  \/ Poll
  \/ Tick \/ StepBack \/ Restart

Spec == Init /\ [][Next]_vars

-----------------------------------------------------------------------------
(* Properties *)

EventType == [ticket : 1..begun, timestamp : Nat, entity_id : EntityId]

\* Every variable has its type.
TypeOK ==
  /\ now \in Nat /\ begun \in Nat
  /\ audit_log \in Seq(EventType)
  /\ call \in [Task -> {Idle} \cup [at : {"lock"}, event : EventType]]
  /\ clock_steps \in 0..MaxClockSteps /\ restarts \in 0..MaxRestarts
  /\ returned \subseteq 1..begun
  /\ before \in [1..begun -> SUBSET (1..begun)]
  /\ collected \subseteq 1..begun /\ polled \in 0..Len(audit_log) /\ behind \in BOOLEAN
  /\ past \subseteq 1..begun /\ lost \subseteq 1..begun

\* The log holds the event of every call that returned since start-up, once, and
\* of no call that was dropped; and it respects the order of calls: an event
\* whose call returned before another began stands before it, whatever the
\* clock did meanwhile.
LoggedOnceInOrder ==
  /\ Tickets(audit_log) = returned
  /\ \A m, n \in DOMAIN audit_log :
       m < n => audit_log[n].ticket \notin
                  before[audit_log[m].ticket] \cup {audit_log[m].ticket}

\* Neither call had returned when the other began.
Overlapped(c, d) == c \notin before[d] /\ d \notin before[c]

\* Timestamps of the log are out of order only between calls that overlapped,
\* unless the wall clock was set back.
DisorderOnlyWhenConcurrent ==
  clock_steps = 0 =>
    \A m, n \in DOMAIN audit_log :
      m < n /\ audit_log[m].timestamp > audit_log[n].timestamp =>
        Overlapped(audit_log[m].ticket, audit_log[n].ticket)

\* A page holds the last events pushed for the entity, newest first: as many as
\* the limit allows, none of another entity, and none left out that was pushed
\* after one that is in (api.rs:142-145).
PageIsNewest ==
  \A id \in EntityId \cup {AnyEntity}, limit \in Limits :
    LET page  == get_audit_log(id, limit)
        match == {n \in DOMAIN audit_log :
                    id = AnyEntity \/ audit_log[n].entity_id = id}
    IN  /\ Len(page) <= limit
        /\ \A k \in DOMAIN page :
             \E n \in match :
               /\ audit_log[n] = page[k]
               /\ Cardinality({o \in match : o > n}) = k - 1
        /\ Len(page) < limit => Len(page) = Cardinality(match)

\* An event left out of a page that is more recent than one in it is that of a
\* call that overlapped, unless the wall clock was set back.
PageRecentUnlessConcurrent ==
  clock_steps = 0 =>
    \A limit \in Limits :
      LET page == get_audit_log(AnyEntity, limit) IN
      \A n \in DOMAIN audit_log, k \in DOMAIN page :
        /\ \A q \in DOMAIN page : page[q] # audit_log[n]
        /\ audit_log[n].timestamp > page[k].timestamp
        => Overlapped(audit_log[n].ticket, page[k].ticket)

\* The log is in memory, a page is cut to its limit and has no cursor
\* (service.rs:81, 307; SECURITY.md:58-60).  A client that never lets more than a
\* page of events come between two of its polls has, all the same, collected
\* everything that was logged before its last poll, by this process or by one
\* before it, except what a process took with it that was logged after the
\* client had polled it last.
CollectorMissesOnlyLost ==
  ~behind => past \cup TicketsFrom(1, polled) \subseteq collected \cup lost

=============================================================================
