--------------------------- MODULE AuditLogProofs ---------------------------
(***************************************************************************)
(* Proofs about AuditLog: the type of every variable, the order of the     *)
(* log, and the trail of a client that polls, for any number of tasks,     *)
(* entities and events and for pages of any size.                          *)
(***************************************************************************)
EXTENDS AuditLog, SequenceTheorems, FiniteSetTheorems, WellFoundedInduction, TLAPS

\* The tasks that wait for the write lock of the log.
Waiters == {t \in Task : call[t].at = "lock"}

Ticket(t) == call[t].event.ticket

\* The ticket of a waiting call is its own, and no call has seen it return.
TicketsOK ==
  \A t \in Waiters :
    /\ Ticket(t) \notin returned
    /\ \A n \in 1..begun : Ticket(t) \notin before[n]
    /\ \A u \in Waiters : u # t => Ticket(u) # Ticket(t)

\* While the clock is never set back no event is from the future, and an event
\* is not more recent than one of a call that began after it was logged.
StampsOK ==
  clock_steps = 0 =>
    /\ \A n \in DOMAIN audit_log : audit_log[n].timestamp <= now
    /\ \A t \in Waiters : call[t].event.timestamp <= now
    /\ \A m, n \in DOMAIN audit_log :
         audit_log[m].ticket \in before[audit_log[n].ticket] =>
           audit_log[m].timestamp <= audit_log[n].timestamp
    /\ \A m \in DOMAIN audit_log, t \in Waiters :
         audit_log[m].ticket \in before[Ticket(t)] =>
           audit_log[m].timestamp <= call[t].event.timestamp

IInv == TypeOK /\ TicketsOK /\ LoggedOnceInOrder /\ StampsOK /\ CollectorMissesOnlyLost

-----------------------------------------------------------------------------
(* Pages and calls *)

\* The first limit elements of a reversed sequence.
LEMMA FirstOfReverse ==
  ASSUME NEW S, NEW s \in Seq(S), NEW limit \in Nat
  PROVE  LET page == FirstOf(Reverse(s), limit) IN
         /\ Len(page) \in Nat /\ DOMAIN page = 1..Len(page)
         /\ Len(page) = IF limit < Len(s) THEN limit ELSE Len(s)
         /\ \A k \in 1..Len(page) :
              Len(s) - k + 1 \in 1..Len(s) /\ page[k] = s[Len(s) - k + 1]
<1> DEFINE L    == Len(s)
           r    == Reverse(s)
           last == IF limit < Len(r) THEN limit ELSE Len(r)
           page == SubSeq(r, 1, last)
<1>1. L \in Nat /\ DOMAIN s = 1..L
  OBVIOUS
<1>2. r \in Seq(S) /\ Len(r) = L /\ \A k \in 1..L : r[k] = s[L - k + 1]
  <2>1. r = [k \in 1..L |-> s[(L - k) + 1]]
    BY DEF Reverse
  <2>2. \A k \in 1..L : (L - k) + 1 \in 1..L
    BY <1>1
  <2>3. r \in [1..L -> S]
    BY <2>1, <2>2, <1>1
  <2>4. r \in Seq(S) /\ Len(r) = L
    BY <2>3, <1>1
  <2> QED
    BY <2>1, <2>4
<1>3. last \in Nat /\ last <= L /\ last = IF limit < L THEN limit ELSE L
  BY <1>1, <1>2
<1>4. /\ DOMAIN page = 1..last /\ Len(page) = last
      /\ \A k \in 1..last : page[k] = r[k]
  <2>1. \A k \in 1..last : r[k] \in S
    BY <1>1, <1>2, <1>3
  <2> HIDE DEF r, last
  <2>2. /\ page \in Seq(S) /\ Len(page) = IF 1 <= last THEN last - 1 + 1 ELSE 0
        /\ \A k \in 1..last - 1 + 1 : page[k] = r[1 + k - 1]
    BY <2>1, <1>3, SubSeqProperties
  <2> QED
    BY <2>2, <1>3
<1>5. FirstOf(Reverse(s), limit) = page
  BY DEF FirstOf
<1> HIDE DEF page, last, r, L
<1>6. ASSUME NEW k \in 1..last
      PROVE  L - k + 1 \in 1..L /\ page[k] = s[L - k + 1]
  <2>1. k \in 1..L /\ L - k + 1 \in 1..L
    BY <1>1, <1>3
  <2>2. r[k] = s[L - k + 1] /\ page[k] = r[k]
    BY <2>1, <1>2, <1>4
  <2> QED
    BY <2>1, <2>2
<1> QED
  BY <1>3, <1>4, <1>5, <1>6 DEF L

\* A page without entity_id holds events of the log, and all the events after
\* any position that is at most a page away from the end.
LEMMA PageOfAll ==
  ASSUME NEW S, audit_log \in Seq(S), NEW limit \in Nat
  PROVE  LET page == get_audit_log(AnyEntity, limit) IN
         /\ \A k \in DOMAIN page : \E n \in DOMAIN audit_log : page[k] = audit_log[n]
         /\ \A n \in DOMAIN audit_log :
              Len(audit_log) - n < limit => \E k \in DOMAIN page : page[k] = audit_log[n]
<1> DEFINE L    == Len(audit_log)
           page == get_audit_log(AnyEntity, limit)
           last == Len(page)
<1>1. L \in Nat /\ DOMAIN audit_log = 1..L
  OBVIOUS
<1>2. /\ last \in Nat /\ DOMAIN page = 1..last /\ last = IF limit < L THEN limit ELSE L
      /\ \A k \in 1..last : L - k + 1 \in 1..L /\ page[k] = audit_log[L - k + 1]
  BY FirstOfReverse, Zenon DEF get_audit_log, Selected
<1> HIDE DEF page, last, L
<1>3. ASSUME NEW n \in 1..L, L - n < limit
      PROVE  \E k \in DOMAIN page : page[k] = audit_log[n]
  <2> DEFINE k == L - n + 1
  <2>1. k \in 1..last /\ L - k + 1 = n
    BY <1>1, <1>2, <1>3
  <2>2. page[k] = audit_log[L - k + 1]
    BY <2>1, <1>2
  <2>3. k \in DOMAIN page
    BY <2>1, <1>2
  <2> QED
    BY <2>1, <2>2, <2>3
<1> QED
  BY <1>1, <1>2, <1>3 DEF L, page

\* Induction over the naturals, with the set of the numbers that satisfy the
\* statement in place of the statement.
LEMMA NatSetInduction ==
  ASSUME NEW P, 0 \in P, \A n \in Nat : n \in P => n + 1 \in P
  PROVE  Nat \subseteq P
<1> DEFINE Less == {pair \in Nat \X Nat : pair[1] < pair[2]}
           Rest == Nat \ P
<1>1. IsWellFoundedOn(Less, Nat)
  BY NatLessThanWellFounded DEF OpToRel
<1> SUFFICES ASSUME Rest # {} PROVE FALSE
  OBVIOUS
<1> HIDE DEF Less
<1>2. PICK m \in Rest : \A n \in Rest : ~ (<<n, m>> \in Less)
  BY <1>1, WFMin
<1>3. m - 1 \in Nat /\ <<m - 1, m>> \in Less
  BY <1>2 DEF Less
<1> QED
  BY <1>2, <1>3


\* OfEntity is the last value of a function that satisfies its equation.
LEMMA OfEntityUnfolds ==
  ASSUME NEW S, NEW s \in Seq(S), NEW id
  PROVE  \E kept :
           /\ OfEntity(s, id) = kept[Len(s)]
           /\ \A n \in 0..Len(s) :
                kept[n] = IF n = 0 THEN <<>>
                          ELSE IF s[n].entity_id = id THEN Append(kept[n - 1], s[n])
                                                      ELSE kept[n - 1]
<1> DEFINE Body(f, k) ==
             IF k = 0 THEN <<>>
             ELSE IF s[k].entity_id = id THEN Append(f[k - 1], s[k]) ELSE f[k - 1]
           Unfolds(f, n) == f = [k \in 0..n |-> Body(f, k)]
           P == {n \in Nat : \E f : Unfolds(f, n)}
<1>1. 0 \in P
  <2>1. Unfolds([k \in 0..0 |-> <<>>], 0)
    OBVIOUS
  <2> QED
    BY <2>1
<1>2. ASSUME NEW n \in Nat, n \in P PROVE n + 1 \in P
  <2>1. PICK f : Unfolds(f, n)
    BY <1>2
  <2> DEFINE g == [k \in 0..n + 1 |-> IF k = n + 1 THEN Body(f, k) ELSE f[k]]
  <2>2. \A k \in 0..n : f[k] = Body(f, k)
    BY <2>1
  <2>3. \A k \in 0..n + 1 : k # 0 => k - 1 \in 0..n
    OBVIOUS
  <2>4. ASSUME NEW k \in 0..n + 1 PROVE g[k] = Body(g, k)
    BY <2>2, <2>3
  <2>5. Unfolds(g, n + 1)
    BY <2>4
  <2> HIDE DEF g
  <2>6. n + 1 \in Nat
    OBVIOUS
  <2> QED
    BY <2>5, <2>6
<1>3. Len(s) \in P
  <2> HIDE DEF P
  <2> QED
    BY <1>1, <1>2, NatSetInduction
<1> DEFINE kept == CHOOSE f : Unfolds(f, Len(s))
<1>4. Unfolds(kept, Len(s))
  BY <1>3
<1>5. OfEntity(s, id) = kept[Len(s)]
  BY DEF OfEntity
<1> HIDE DEF kept
<1>6. \A n \in 0..Len(s) : kept[n] = Body(kept, n)
  BY <1>4
<1> QED
  BY <1>5, <1>6

\* The positions up to n that hold an event of entity id.
Matching(s, id, n) == {m \in 1..n : s[m].entity_id = id}

\* sel lists the events at the positions in match, in their order.
Lists(sel, s, match) ==
  /\ Len(sel) = Cardinality(match)
  /\ \A q \in 1..Len(sel) : \E m \in match :
       s[m] = sel[q] /\ Cardinality({o \in match : o > m}) = Len(sel) - q

LEMMA MatchingNext ==
  ASSUME NEW s, NEW id, NEW n \in Nat
  PROVE  /\ IsFiniteSet(Matching(s, id, n)) /\ n + 1 \notin Matching(s, id, n)
         /\ Matching(s, id, n) \subseteq 1..n
         /\ Matching(s, id, n + 1) =
              IF s[n + 1].entity_id = id THEN Matching(s, id, n) \cup {n + 1}
                                         ELSE Matching(s, id, n)
<1>1. Matching(s, id, n) \subseteq 1..n
  BY DEF Matching
<1>2. IsFiniteSet(Matching(s, id, n))
  BY <1>1, FS_Interval, FS_Subset
<1>3. 1..n + 1 = (1..n) \cup {n + 1} /\ n + 1 \notin 1..n
  OBVIOUS
<1> QED
  BY <1>1, <1>2, <1>3 DEF Matching

\* One more position adds its event at the end.
LEMMA ListsAppend ==
  ASSUME NEW S, NEW s, NEW sel \in Seq(S), NEW n \in Nat, NEW match, match \subseteq 1..n,
         IsFiniteSet(match), Lists(sel, s, match), s[n + 1] \in S
  PROVE  Lists(Append(sel, s[n + 1]), s, match \cup {n + 1})
<1> DEFINE longer == Append(sel, s[n + 1])
           more   == match \cup {n + 1}
           L      == Len(sel)
<1>1. L \in Nat /\ Len(longer) = L + 1 /\ longer[L + 1] = s[n + 1]
      /\ \A q \in 1..L : longer[q] = sel[q]
  BY AppendProperties
<1> HIDE DEF longer, L
<1>2. n + 1 \notin match /\ \A m \in match : m \in Nat /\ m < n + 1 /\ n + 1 > m
  OBVIOUS
<1>3. Cardinality(more) = L + 1
  <2>1. Cardinality(more) = Cardinality(match) + 1
    BY <1>2, FS_AddElement
  <2> QED
    BY <2>1 DEF Lists, L
<1>4. ASSUME NEW q \in 1..L + 1
      PROVE  \E m \in more : s[m] = longer[q] /\ Cardinality({o \in more : o > m}) = (L + 1) - q
  <2>1. CASE q = L + 1
    <3>1. \A o \in more : ~ (o > n + 1)
      BY <1>2
    <3>2. {o \in more : o > n + 1} = {}
      BY <3>1
    <3>3. Cardinality({o \in more : o > n + 1}) = 0
      BY <3>2, FS_EmptySet
    <3>4. 0 = (L + 1) - q
      BY <1>1, <2>1
    <3> QED
      BY <1>1, <2>1, <3>3, <3>4
  <2>2. CASE q \in 1..L
    <3>1. PICK m \in match : s[m] = sel[q] /\ Cardinality({o \in match : o > m}) = L - q
      BY <2>2 DEF Lists, L
    <3> DEFINE after == {o \in match : o > m}
    <3>2. {o \in more : o > m} = after \cup {n + 1}
      BY <1>2
    <3>3. IsFiniteSet(after) /\ n + 1 \notin after
      BY <1>2, FS_Subset
    <3>4. Cardinality(after \cup {n + 1}) = (L - q) + 1
      BY <3>1, <3>3, FS_AddElement
    <3>5. (L - q) + 1 = (L + 1) - q
      BY <1>1
    <3>6. Cardinality({o \in more : o > m}) = (L + 1) - q
      BY <3>2, <3>4, <3>5
    <3>7. m \in more /\ s[m] = longer[q]
      BY <1>1, <2>2, <3>1
    <3> QED
      BY <3>6, <3>7
  <2>3. q = L + 1 \/ q \in 1..L
    BY <1>1
  <2> HIDE DEF more
  <2> QED
    BY <2>1, <2>2, <2>3
<1> QED
  BY <1>1, <1>3, <1>4 DEF Lists, longer

\* OfEntity lists the matching events of the whole log, in their order.
LEMMA OfEntityLists ==
  ASSUME NEW S, NEW s \in Seq(S), NEW id
  PROVE  /\ OfEntity(s, id) \in Seq(S)
         /\ Lists(OfEntity(s, id), s, Matching(s, id, Len(s)))
<1>1. PICK kept :
        /\ OfEntity(s, id) = kept[Len(s)]
        /\ \A n \in 0..Len(s) :
             kept[n] = IF n = 0 THEN <<>>
                       ELSE IF s[n].entity_id = id THEN Append(kept[n - 1], s[n])
                                                   ELSE kept[n - 1]
  BY OfEntityUnfolds
<1> DEFINE Good(n) == kept[n] \in Seq(S) /\ Lists(kept[n], s, Matching(s, id, n))
           P == {n \in Nat : n <= Len(s) => Good(n)}
<1>2. Len(s) \in Nat /\ \A n \in 1..Len(s) : s[n] \in S
  OBVIOUS
<1>3. 0 \in P
  <2>1. kept[0] = <<>> /\ Matching(s, id, 0) = {}
    BY <1>1, <1>2 DEF Matching
  <2>2. kept[0] \in Seq(S) /\ Len(kept[0]) = 0
    BY <2>1
  <2>3. Lists(kept[0], s, Matching(s, id, 0))
    <3>1. Cardinality(Matching(s, id, 0)) = 0
      BY <2>1, FS_EmptySet
    <3>2. 1..Len(kept[0]) = {}
      BY <2>2
    <3> QED
      BY <2>2, <3>1, <3>2 DEF Lists
  <2> QED
    BY <2>2, <2>3
<1>4. ASSUME NEW n \in Nat, n \in P PROVE n + 1 \in P
  <2> SUFFICES ASSUME n + 1 <= Len(s) PROVE Good(n + 1)
    OBVIOUS
  <2>1. n + 1 \in 0..Len(s) /\ n + 1 # 0 /\ (n + 1) - 1 = n /\ n <= Len(s) /\ n + 1 \in 1..Len(s)
    BY <1>2
  <2>2. Good(n) /\ s[n + 1] \in S
    BY <1>2, <1>4, <2>1
  <2>3. kept[n + 1] = IF s[n + 1].entity_id = id THEN Append(kept[n], s[n + 1]) ELSE kept[n]
    BY <1>1, <2>1
  <2>4. CASE s[n + 1].entity_id = id
    <3>1. Append(kept[n], s[n + 1]) \in Seq(S)
      BY <2>2, AppendProperties
    <3>2. Lists(Append(kept[n], s[n + 1]), s, Matching(s, id, n) \cup {n + 1})
      BY <2>2, MatchingNext, ListsAppend
    <3> QED
      BY <2>3, <2>4, <3>1, <3>2, MatchingNext
  <2>5. CASE s[n + 1].entity_id # id
    <3>1. Matching(s, id, n + 1) = Matching(s, id, n)
      BY <2>5, MatchingNext, Zenon
    <3>2. kept[n + 1] = kept[n]
      BY <2>3, <2>5, Zenon
    <3> QED
      BY <2>2, <3>1, <3>2
  <2> QED
    BY <2>4, <2>5
<1>5. Len(s) \in P
  <2> HIDE DEF P
  <2> QED
    BY <1>2, <1>3, <1>4, NatSetInduction
<1> QED
  BY <1>1, <1>2, <1>5

\* The filter of a query, with or without entity_id.
LEMMA SelectedLists ==
  ASSUME NEW S, audit_log \in Seq(S), NEW id
  PROVE  /\ Selected(id) \in Seq(S)
         /\ Lists(Selected(id), audit_log,
                  {n \in DOMAIN audit_log : id = AnyEntity \/ audit_log[n].entity_id = id})
<1> DEFINE L == Len(audit_log)
<1>1. L \in Nat /\ DOMAIN audit_log = 1..L
  OBVIOUS
<1>2. CASE id = AnyEntity
  <2>1. Selected(id) = audit_log
    BY <1>2 DEF Selected
  <2> HIDE DEF L
  <2>2. Cardinality(1..L) = L
    BY <1>1, FS_Interval
  <2>3. ASSUME NEW q \in 1..L PROVE Cardinality({o \in 1..L : o > q}) = L - q
    <3>1. {o \in 1..L : o > q} = q + 1..L
      BY <1>1
    <3>2. Cardinality(q + 1..L) = L - q
      <4>1. Cardinality(q + 1..L) = IF q + 1 > L THEN 0 ELSE L - (q + 1) + 1
        BY <1>1, FS_Interval
      <4> QED
        BY <1>1, <4>1
    <3> QED
      BY <3>1, <3>2
  <2>4. Lists(audit_log, audit_log, 1..L)
    BY <1>1, <2>2, <2>3 DEF Lists, L
  <2> QED
    BY <1>1, <1>2, <2>1, <2>4
<1>3. CASE id # AnyEntity
  <2>1. Selected(id) = OfEntity(audit_log, id)
    BY <1>3 DEF Selected
  <2>2. {n \in DOMAIN audit_log : id = AnyEntity \/ audit_log[n].entity_id = id}
          = Matching(audit_log, id, L)
    BY <1>1, <1>3 DEF Matching
  <2> QED
    BY <2>1, <2>2, OfEntityLists
<1> QED
  BY <1>2, <1>3

\* What waits is an event of a call begun earlier.
LEMMA WaitersType ==
  ASSUME TypeOK, NEW t \in Waiters
  PROVE  /\ t \in Task /\ call[t].event \in EventType /\ Ticket(t) \in 1..begun
         /\ call[t].event.timestamp \in Nat
BY DEF TypeOK, Waiters, Ticket, EventType, Idle

LEMMA LogType ==
  ASSUME TypeOK
  PROVE  /\ Len(audit_log) \in Nat /\ DOMAIN audit_log = 1..Len(audit_log)
         /\ \A n \in DOMAIN audit_log :
              /\ audit_log[n] \in EventType /\ audit_log[n].ticket \in 1..begun
              /\ audit_log[n].timestamp \in Nat
<1>1. audit_log \in Seq(EventType)
  BY DEF TypeOK
<1>2. Len(audit_log) \in Nat /\ DOMAIN audit_log = 1..Len(audit_log)
      /\ \A n \in DOMAIN audit_log : audit_log[n] \in EventType
  BY <1>1
<1> QED
  BY <1>2 DEF EventType

\* A log that only grew at its end keeps what was collected of its prefix.
LEMMA CollectedKept ==
  ASSUME TypeOK, CollectorMissesOnlyLost,
         UNCHANGED <<client>>,
         \/ audit_log' = audit_log
         \/ \E event \in EventType : audit_log' = Append(audit_log, event)
  PROVE  CollectorMissesOnlyLost'
<1>1. audit_log \in Seq(EventType) /\ polled \in 0..Len(audit_log) /\ Len(audit_log) \in Nat
  BY DEF TypeOK
<1>2. /\ collected' = collected /\ polled' = polled /\ behind' = behind
      /\ past' = past /\ lost' = lost
  BY DEF client
<1>3. \A n \in 1..polled : audit_log'[n] = audit_log[n]
  BY <1>1
<1>4. TicketsFrom(1, polled)' = TicketsFrom(1, polled)
  BY <1>2, <1>3 DEF TicketsFrom
<1> QED
  BY <1>2, <1>4 DEF CollectorMissesOnlyLost

-----------------------------------------------------------------------------
(* Every step preserves the invariant. *)

LEMMA InitInv == Init => IInv
<1> SUFFICES ASSUME Init PROVE IInv
  OBVIOUS
<1>1. Len(audit_log) = 0 /\ DOMAIN audit_log = {} /\ audit_log \in Seq(EventType)
  BY DEF Init
<1>2. before \in [1..begun -> SUBSET (1..begun)]
  <2>1. 1..begun = {} /\ DOMAIN before = {}
    BY DEF Init
  <2> QED
    BY <2>1 DEF Init
<1>3. clock_steps \in 0..MaxClockSteps /\ restarts \in 0..MaxRestarts
  BY BoundsAssumption DEF Init
<1>4. call \in [Task -> {Idle}] /\ Waiters = {}
  BY DEF Init, Idle, Waiters
<1>5. TypeOK
  <2>1. call \in [Task -> {Idle} \cup [at : {"lock"}, event : EventType]]
    BY <1>4
  <2>2. polled \in 0..Len(audit_log) /\ begun \in Nat /\ now \in Nat
    BY <1>1 DEF Init
  <2>3. returned = {} /\ collected = {} /\ behind = FALSE /\ past = {} /\ lost = {}
    BY DEF Init
  <2> QED
    BY <1>1, <1>2, <1>3, <2>1, <2>2, <2>3 DEF TypeOK
<1>6. CollectorMissesOnlyLost
  <2>1. 1..polled = {} /\ past = {}
    BY DEF Init
  <2> QED
    BY <2>1 DEF CollectorMissesOnlyLost, TicketsFrom
<1>7. LoggedOnceInOrder
  <2>1. Tickets(audit_log) = {} /\ returned = {}
    BY <1>1 DEF Init, Tickets
  <2> QED
    BY <1>1, <2>1 DEF LoggedOnceInOrder
<1> QED
  BY <1>1, <1>4, <1>5, <1>6, <1>7 DEF IInv, TicketsOK, StampsOK

\* A begun call only adds a ticket that nothing else has.
LEMMA StampKeeps ==
  ASSUME IInv, NEW t \in Task, NEW e \in EntityId, Stamp(t, e) PROVE IInv'
<1> DEFINE event == Event(begun + 1, now, e)
<1>1. /\ call[t].at = "idle" /\ begun' = begun + 1 /\ before' = Append(before, returned)
      /\ call' = [call EXCEPT ![t] = Waiting(event)]
      /\ UNCHANGED <<now, audit_log, clock_steps, restarts, returned, client>>
  BY DEF Stamp
<1>2. begun \in Nat /\ now \in Nat /\ returned \subseteq 1..begun
  BY DEF IInv, TypeOK
<1>3. event \in EventType' /\ event.ticket = begun + 1 /\ event.timestamp = now
  BY <1>1, <1>2 DEF EventType, Event
<1>4. /\ before' \in [1..begun' -> SUBSET (1..begun')]
      /\ before'[begun + 1] = returned /\ \A n \in 1..begun : before'[n] = before[n]
  <2>1. before \in Seq(SUBSET (1..begun)) /\ Len(before) = begun
    BY <1>2 DEF IInv, TypeOK
  <2>2. /\ before' \in Seq(SUBSET (1..begun)) /\ Len(before') = begun + 1
        /\ \A n \in 1..begun : before'[n] = before[n]
        /\ before'[begun + 1] = returned
    BY <1>1, <1>2, <2>1, AppendProperties
  <2>3. before' \in [1..begun + 1 -> SUBSET (1..begun)]
    BY <2>2
  <2>4. SUBSET (1..begun) \subseteq SUBSET (1..begun + 1)
    BY <1>2
  <2> QED
    BY <1>1, <2>2, <2>3, <2>4
<1>5. EventType \subseteq EventType'
  BY <1>1, <1>2 DEF EventType
<1>6. audit_log' \in Seq(EventType')
  BY <1>1, <1>5, SeqMonotonic DEF IInv, TypeOK
<1>7. call' \in [Task -> {Idle} \cup [at : {"lock"}, event : EventType']]
  BY <1>1, <1>3, <1>5 DEF IInv, TypeOK, Waiting
<1>8. TypeOK'
  <2>1. 1..begun \subseteq 1..begun'
    BY <1>1, <1>2
  <2>2. begun' \in Nat
    BY <1>1, <1>2
  <2> QED
    BY <1>1, <1>4, <1>6, <1>7, <2>1, <2>2 DEF IInv, TypeOK, client
<1>9. /\ call'[t] = Waiting(event) /\ \A u \in Task \ {t} : call'[u] = call[u]
      /\ Waiters' = Waiters \cup {t} /\ t \notin Waiters
  BY <1>1 DEF IInv, TypeOK, Waiters, Waiting
<1>10. Ticket(t)' = begun + 1 /\ \A u \in Waiters : Ticket(u)' = Ticket(u) /\ Ticket(u) \in 1..begun
  BY <1>3, <1>9, WaitersType DEF Ticket, Waiting, IInv, Waiters
<1>11. begun + 1 \notin 1..begun /\ 1..begun' = (1..begun) \cup {begun + 1}
  BY <1>1, <1>2
<1>12. TicketsOK'
  <2>1. ASSUME NEW u \in Waiters
        PROVE  /\ Ticket(u)' \notin returned'
               /\ \A n \in 1..begun' : Ticket(u)' \notin before'[n]
               /\ Ticket(u)' # Ticket(t)'
    BY <1>1, <1>4, <1>10, <1>11 DEF IInv, TicketsOK
  <2>2. Ticket(t)' \notin returned' /\ \A n \in 1..begun' : Ticket(t)' \notin before'[n]
    <3>1. \A n \in 1..begun : before[n] \subseteq 1..begun
      BY DEF IInv, TypeOK
    <3> QED
      BY <1>1, <1>2, <1>4, <1>10, <1>11, <3>1
  <2> QED
    BY <1>9, <1>10, <2>1, <2>2 DEF IInv, TicketsOK
<1>13. \A n \in DOMAIN audit_log : audit_log[n].ticket \in 1..begun
  BY LogType DEF IInv
<1>14. LoggedOnceInOrder'
  BY <1>1, <1>4, <1>13 DEF IInv, LoggedOnceInOrder, Tickets
<1>15. StampsOK'
  <2> SUFFICES ASSUME clock_steps' = 0 PROVE StampsOK'
    BY DEF StampsOK
  <2>1. StampsOK /\ clock_steps = 0
    BY <1>1 DEF IInv
  <2>2. \A u \in Waiters' : call'[u].event.timestamp <= now
    BY <1>2, <1>3, <1>9, <2>1 DEF StampsOK, Waiting, Waiters
  <2>3. \A m, n \in DOMAIN audit_log :
          audit_log[m].ticket \in before'[audit_log[n].ticket] =>
            audit_log[m].timestamp <= audit_log[n].timestamp
    BY <1>4, <1>13, <2>1 DEF StampsOK
  <2>4. \A m \in DOMAIN audit_log, u \in Waiters' :
          audit_log[m].ticket \in before'[Ticket(u)'] =>
            audit_log[m].timestamp <= call'[u].event.timestamp
    <3>1. \A m \in DOMAIN audit_log : audit_log[m].timestamp <= call'[t].event.timestamp
      BY <1>3, <1>9, <2>1 DEF StampsOK, Waiting
    <3>2. \A u \in Waiters : call'[u] = call[u] /\ before'[Ticket(u)'] = before[Ticket(u)]
      BY <1>4, <1>9, <1>10 DEF Waiters
    <3> QED
      BY <1>9, <2>1, <3>1, <3>2 DEF StampsOK
  <2> QED
    BY <1>1, <2>1, <2>2, <2>3, <2>4 DEF StampsOK
<1>16. CollectorMissesOnlyLost'
  BY <1>1, CollectedKept DEF IInv
<1> QED
  BY <1>8, <1>12, <1>14, <1>15, <1>16 DEF IInv

\* The pushed event is younger than what is logged, or overlaps it.
LEMMA PushKeeps == ASSUME IInv, NEW t \in Task, Push(t) PROVE IInv'
<1> DEFINE event == call[t].event
           L     == Len(audit_log)
<1>1. /\ t \in Waiters /\ audit_log' = Append(audit_log, event)
      /\ call' = [call EXCEPT ![t] = Idle]
      /\ returned' = returned \cup {event.ticket}
      /\ UNCHANGED <<now, clock_steps, restarts, begun, before, client>>
  BY DEF Push, Pushed, Waiters
<1>2. event \in EventType /\ event.ticket \in 1..begun /\ event.ticket = Ticket(t)
  BY <1>1, WaitersType DEF IInv, Ticket
<1>3. audit_log \in Seq(EventType) /\ L \in Nat /\ DOMAIN audit_log = 1..L
  BY DEF IInv, TypeOK
<1> HIDE DEF event
<1>4. /\ audit_log' \in Seq(EventType) /\ DOMAIN audit_log' = (1..L) \cup {L + 1}
      /\ Len(audit_log') = L + 1
      /\ \A n \in 1..L : audit_log'[n] = audit_log[n]
      /\ audit_log'[L + 1] = event
  <2>1. /\ audit_log' \in Seq(EventType) /\ Len(audit_log') = L + 1
        /\ \A n \in 1..L : audit_log'[n] = audit_log[n]
        /\ audit_log'[L + 1] = event
    BY <1>1, <1>2, <1>3, AppendProperties
  <2>2. DOMAIN audit_log' = 1..L + 1
    BY <2>1
  <2> HIDE DEF L
  <2> QED
    BY <1>3, <2>1, <2>2
<1> HIDE DEF L
<1>5. TypeOK'
  <2>1. call' \in [Task -> {Idle} \cup [at : {"lock"}, event : EventType]]
    BY <1>1 DEF IInv, TypeOK
  <2>2. polled' \in 0..Len(audit_log')
    BY <1>1, <1>3, <1>4 DEF IInv, TypeOK, client, L
  <2> QED
    BY <1>1, <1>2, <1>4, <2>1, <2>2 DEF IInv, TypeOK, EventType, client
<1>6. Waiters' = Waiters \ {t} /\ \A u \in Waiters' : call'[u] = call[u] /\ Ticket(u)' = Ticket(u)
  BY <1>1 DEF IInv, TypeOK, Waiters, Idle, Ticket
<1>7. TicketsOK'
  BY <1>1, <1>2, <1>6 DEF IInv, TicketsOK
<1>8. \A n \in 1..begun : event.ticket \notin before[n]
  BY <1>1, <1>2 DEF IInv, TicketsOK
<1>9. \A n \in 1..L : audit_log[n].ticket \in 1..begun
  BY <1>3, LogType DEF IInv
<1>10. LoggedOnceInOrder'
  <2>1. Tickets(audit_log') = returned'
    <3>1. Tickets(audit_log') = {audit_log'[n].ticket : n \in 1..L} \cup {event.ticket}
      BY <1>4 DEF Tickets
    <3>2. {audit_log'[n].ticket : n \in 1..L} = Tickets(audit_log)
      BY <1>3, <1>4 DEF Tickets
    <3> QED
      BY <1>1, <3>1, <3>2 DEF IInv, LoggedOnceInOrder
  <2>2. ASSUME NEW m \in DOMAIN audit_log', NEW n \in DOMAIN audit_log', m < n
        PROVE  /\ audit_log'[n].ticket \notin before'[audit_log'[m].ticket]
               /\ audit_log'[n].ticket # audit_log'[m].ticket
    <3>1. m \in 1..L
      BY <1>3, <1>4, <2>2
    <3>2. CASE n = L + 1
      <4>1. audit_log[m].ticket \in returned
        BY <1>3, <3>1 DEF IInv, LoggedOnceInOrder, Tickets
      <4>2. event.ticket \notin returned
        BY <1>1, <1>2 DEF IInv, TicketsOK
      <4> QED
        BY <1>1, <1>4, <1>8, <1>9, <3>1, <3>2, <4>1, <4>2
    <3>3. CASE n \in 1..L
      BY <1>1, <1>3, <1>4, <2>2, <3>1, <3>3 DEF IInv, LoggedOnceInOrder
    <3> QED
      BY <1>4, <3>2, <3>3
  <2> QED
    BY <2>1, <2>2 DEF LoggedOnceInOrder, Tickets
<1>11. StampsOK'
  <2> SUFFICES ASSUME clock_steps' = 0 PROVE StampsOK'
    BY DEF StampsOK
  <2>1. StampsOK /\ clock_steps = 0
    BY <1>1 DEF IInv
  <2>2. event.timestamp <= now
    BY <1>1, <2>1 DEF StampsOK, event
  <2>3. \A n \in DOMAIN audit_log' : audit_log'[n].timestamp <= now'
    BY <1>1, <1>3, <1>4, <2>1, <2>2 DEF StampsOK
  <2>4. \A u \in Waiters' : call'[u].event.timestamp <= now'
    BY <1>1, <1>6, <2>1 DEF StampsOK
  <2>5. ASSUME NEW m \in DOMAIN audit_log', NEW n \in DOMAIN audit_log',
               audit_log'[m].ticket \in before[audit_log'[n].ticket]
        PROVE  audit_log'[m].timestamp <= audit_log'[n].timestamp
    <3>1. m # L + 1
      BY <1>2, <1>4, <1>8, <1>9, <2>5
    <3>2. m \in 1..L
      BY <1>4, <3>1
    <3>3. CASE n \in 1..L
      BY <1>3, <1>4, <2>1, <2>5, <3>2, <3>3 DEF StampsOK
    <3>4. CASE n = L + 1
      BY <1>1, <1>2, <1>3, <1>4, <2>1, <2>5, <3>2, <3>4 DEF StampsOK, event
    <3> QED
      BY <1>4, <3>3, <3>4
  <2>6. ASSUME NEW m \in DOMAIN audit_log', NEW u \in Waiters',
               audit_log'[m].ticket \in before[Ticket(u)']
        PROVE  audit_log'[m].timestamp <= call'[u].event.timestamp
    <3>1. Ticket(u)' = Ticket(u) /\ Ticket(u) \in 1..begun /\ u \in Waiters /\ call'[u] = call[u]
      BY <1>6, WaitersType DEF IInv
    <3>2. m \in 1..L
      BY <1>4, <1>8, <2>6, <3>1
    <3> QED
      BY <1>3, <1>4, <2>1, <2>6, <3>1, <3>2 DEF StampsOK
  <2> QED
    BY <1>1, <2>3, <2>4, <2>5, <2>6 DEF StampsOK
<1>12. CollectorMissesOnlyLost'
  BY <1>1, <1>2, CollectedKept DEF IInv
<1> QED
  BY <1>5, <1>7, <1>10, <1>11, <1>12 DEF IInv

LEMMA CancelKeeps == ASSUME IInv, NEW t \in Task, Cancel(t) PROVE IInv'
<1>1. /\ call' = [call EXCEPT ![t] = Idle]
      /\ UNCHANGED <<now, audit_log, clock_steps, restarts, begun, returned, before, client>>
  BY DEF Cancel
<1>2. call' \in [Task -> {Idle} \cup [at : {"lock"}, event : EventType]]
  BY <1>1 DEF IInv, TypeOK
<1>3. TypeOK'
  BY <1>1, <1>2 DEF IInv, TypeOK, EventType, client
<1>4. Waiters' \subseteq Waiters /\ \A u \in Waiters' : call'[u] = call[u] /\ Ticket(u)' = Ticket(u)
  BY <1>1 DEF IInv, TypeOK, Waiters, Idle, Ticket
<1>5. TicketsOK'
  BY <1>1, <1>4 DEF IInv, TicketsOK
<1>6. LoggedOnceInOrder' /\ StampsOK'
  BY <1>1, <1>4 DEF IInv, LoggedOnceInOrder, Tickets, StampsOK
<1>7. CollectorMissesOnlyLost'
  BY <1>1, CollectedKept DEF IInv
<1> QED
  BY <1>3, <1>5, <1>6, <1>7 DEF IInv

\* A client that kept up finds in the page all that was logged since it asked.
LEMMA PollKeeps == ASSUME IInv, Poll PROVE IInv'
<1> DEFINE page == get_audit_log(AnyEntity, PollLimit)
<1>1. /\ collected' = collected \cup Tickets(page) /\ polled' = Len(audit_log)
      /\ behind' = (behind \/ Len(audit_log) - polled > PollLimit)
      /\ UNCHANGED <<now, audit_log, call, clock_steps, restarts, begun, returned, before, past, lost>>
  BY DEF Poll
<1>2. audit_log \in Seq(EventType) /\ Len(audit_log) \in Nat /\ polled \in 0..Len(audit_log)
      /\ DOMAIN audit_log = 1..Len(audit_log)
  BY DEF IInv, TypeOK
<1>3. /\ \A k \in DOMAIN page : \E n \in DOMAIN audit_log : page[k] = audit_log[n]
      /\ \A n \in DOMAIN audit_log :
           Len(audit_log) - n < PollLimit => \E k \in DOMAIN page : page[k] = audit_log[n]
  BY <1>2, LimitsAssumption, PageOfAll
<1> HIDE DEF page
<1>4. Tickets(page) \subseteq 1..begun
  BY <1>3, LogType DEF IInv, Tickets
<1>5. TypeOK'
  <2>1. polled' \in 0..Len(audit_log') /\ behind' \in BOOLEAN
    BY <1>1, <1>2 DEF IInv, TypeOK
  <2> QED
    BY <1>1, <1>4, <2>1 DEF IInv, TypeOK, EventType
<1>6. TicketsOK' /\ LoggedOnceInOrder'
  BY <1>1 DEF IInv, TicketsOK, LoggedOnceInOrder, Tickets, Waiters, Ticket
<1>7. StampsOK'
  BY <1>1 DEF IInv, StampsOK, Waiters, Ticket
<1>8. CollectorMissesOnlyLost'
  <2> SUFFICES ASSUME ~behind'
               PROVE  past' \cup TicketsFrom(1, polled)' \subseteq collected' \cup lost'
    BY DEF CollectorMissesOnlyLost
  <2>1. ~behind /\ Len(audit_log) - polled <= PollLimit
    <3>1. ~behind /\ ~(Len(audit_log) - polled > PollLimit)
      BY <1>1, Zenon
    <3> QED
      BY <1>2, <3>1, LimitsAssumption
  <2>2. TicketsFrom(1, polled)' = {audit_log[n].ticket : n \in 1..Len(audit_log)}
    BY <1>1 DEF TicketsFrom
  <2>3. /\ \A n \in 1..polled : audit_log[n].ticket \in collected \cup lost
        /\ past \subseteq collected \cup lost
    BY <2>1 DEF IInv, CollectorMissesOnlyLost, TicketsFrom
  <2>4. ASSUME NEW n \in 1..Len(audit_log), n \notin 1..polled
        PROVE  audit_log[n].ticket \in Tickets(page)
    <3>1. Len(audit_log) - n < PollLimit
      BY <1>2, <2>1, <2>4, LimitsAssumption
    <3> QED
      BY <1>2, <1>3, <3>1 DEF Tickets
  <2> QED
    BY <1>1, <2>2, <2>3, <2>4
<1> QED
  BY <1>5, <1>6, <1>7, <1>8 DEF IInv

LEMMA TickKeeps == ASSUME IInv, Tick PROVE IInv'
<1>1. /\ now' = now + 1 /\ now \in Nat
      /\ UNCHANGED <<audit_log, call, clock_steps, restarts, begun, returned, before, client>>
  BY DEF Tick, IInv, TypeOK
<1>2. TypeOK'
  BY <1>1 DEF IInv, TypeOK, EventType, client
<1>3. TicketsOK' /\ LoggedOnceInOrder'
  BY <1>1 DEF IInv, TicketsOK, LoggedOnceInOrder, Tickets, Waiters, Ticket
<1>4. StampsOK'
  <2> SUFFICES ASSUME clock_steps' = 0 PROVE StampsOK'
    BY DEF StampsOK
  <2>1. StampsOK /\ clock_steps = 0 /\ Waiters' = Waiters
    BY <1>1 DEF IInv, Waiters
  <2>2. \A n \in DOMAIN audit_log : audit_log[n].timestamp <= now'
    BY <1>1, <2>1, LogType DEF IInv, StampsOK
  <2>3. \A t \in Waiters : call[t].event.timestamp <= now'
    BY <1>1, <2>1, WaitersType DEF IInv, StampsOK
  <2> QED
    BY <1>1, <2>1, <2>2, <2>3 DEF StampsOK, Ticket
<1>5. CollectorMissesOnlyLost'
  BY <1>1, CollectedKept DEF IInv
<1> QED
  BY <1>2, <1>3, <1>4, <1>5 DEF IInv

LEMMA StepBackKeeps == ASSUME IInv, StepBack PROVE IInv'
<1>1. /\ clock_steps < MaxClockSteps /\ clock_steps' = clock_steps + 1 /\ now' \in 0..now - 1
      /\ UNCHANGED <<audit_log, call, restarts, begun, returned, before, client>>
  BY DEF StepBack
<1>2. clock_steps' \in 0..MaxClockSteps /\ clock_steps' # 0 /\ now' \in Nat
  BY <1>1, BoundsAssumption DEF IInv, TypeOK
<1>3. TypeOK'
  BY <1>1, <1>2 DEF IInv, TypeOK, EventType, client
<1>4. TicketsOK' /\ LoggedOnceInOrder'
  BY <1>1 DEF IInv, TicketsOK, LoggedOnceInOrder, Tickets, Waiters, Ticket
<1>5. StampsOK'
  BY <1>2 DEF StampsOK
<1>6. CollectorMissesOnlyLost'
  BY <1>1, CollectedKept DEF IInv
<1> QED
  BY <1>3, <1>4, <1>5, <1>6 DEF IInv

LEMMA RestartKeeps == ASSUME IInv, Restart PROVE IInv'
<1>1. /\ restarts < MaxRestarts /\ restarts' = restarts + 1
      /\ audit_log' = <<>> /\ call' = [t \in Task |-> Idle] /\ returned' = {} /\ polled' = 0
      /\ past' = past \cup Tickets(audit_log)
      /\ lost' = lost \cup TicketsFrom(polled + 1, Len(audit_log))
      /\ UNCHANGED <<now, clock_steps, begun, before, collected, behind>>
  BY DEF Restart
<1>2. Len(audit_log') = 0 /\ DOMAIN audit_log' = {} /\ audit_log' \in Seq(EventType')
  BY <1>1
<1>3. call' \in [Task -> {Idle}] /\ Waiters' = {}
  BY <1>1 DEF Idle, Waiters
<1>4. TypeOK'
  <2>1. call' \in [Task -> {Idle} \cup [at : {"lock"}, event : EventType']]
    BY <1>3
  <2>2. restarts' \in 0..MaxRestarts /\ polled' \in 0..Len(audit_log')
    BY <1>1, <1>2, BoundsAssumption DEF IInv, TypeOK
  <2>3. past' \subseteq 1..begun /\ lost' \subseteq 1..begun
    <3>1. /\ Len(audit_log) \in Nat /\ polled \in 0..Len(audit_log)
          /\ past \subseteq 1..begun /\ lost \subseteq 1..begun
          /\ \A n \in 1..Len(audit_log) : audit_log[n].ticket \in 1..begun
          /\ DOMAIN audit_log = 1..Len(audit_log)
      BY LogType DEF IInv, TypeOK
    <3>2. polled + 1..Len(audit_log) \subseteq 1..Len(audit_log)
      BY <3>1
    <3> QED
      BY <1>1, <3>1, <3>2 DEF Tickets, TicketsFrom
  <2> QED
    BY <1>1, <1>2, <2>1, <2>2, <2>3 DEF IInv, TypeOK
<1>5. CollectorMissesOnlyLost'
  <2>1. TicketsFrom(1, polled)' = {}
    <3>1. 1..polled' = {}
      BY <1>1
    <3> QED
      BY <3>1 DEF TicketsFrom
  <2>2. Tickets(audit_log) \subseteq TicketsFrom(1, polled) \cup TicketsFrom(polled + 1, Len(audit_log))
    <3>1. /\ Len(audit_log) \in Nat /\ polled \in 0..Len(audit_log)
          /\ DOMAIN audit_log = 1..Len(audit_log)
      BY DEF IInv, TypeOK
    <3>2. DOMAIN audit_log = (1..polled) \cup (polled + 1..Len(audit_log))
      BY <3>1
    <3> QED
      BY <3>2 DEF Tickets, TicketsFrom
  <2>3. ~behind => past \cup TicketsFrom(1, polled) \subseteq collected \cup lost
    BY DEF IInv, CollectorMissesOnlyLost
  <2> QED
    BY <1>1, <2>1, <2>2, <2>3 DEF CollectorMissesOnlyLost
<1>6. LoggedOnceInOrder'
  <2>1. Tickets(audit_log') = {} /\ returned' = {}
    BY <1>1, <1>2 DEF Tickets
  <2>2. Tickets(audit_log)' = {}
    BY <2>1 DEF Tickets
  <2> QED
    BY <1>2, <2>1, <2>2 DEF LoggedOnceInOrder
<1> QED
  BY <1>2, <1>3, <1>4, <1>5, <1>6 DEF IInv, TicketsOK, StampsOK

LEMMA StutterKeeps == ASSUME IInv, UNCHANGED vars PROVE IInv'
<1>1. UNCHANGED <<now, audit_log, call, clock_steps, restarts, begun, returned, before, client>>
  BY DEF vars, client
<1>2. TypeOK'
  BY <1>1 DEF IInv, TypeOK, EventType, client
<1>3. TicketsOK' /\ LoggedOnceInOrder' /\ StampsOK'
  BY <1>1 DEF IInv, TicketsOK, LoggedOnceInOrder, Tickets, StampsOK, Waiters, Ticket
<1>4. CollectorMissesOnlyLost'
  BY <1>1, CollectedKept DEF IInv
<1> QED
  BY <1>2, <1>3, <1>4 DEF IInv

-----------------------------------------------------------------------------

\* The invariant holds in every state of the audit log (service.rs:275-308).
THEOREM Invariance == Spec => []IInv
<1>1. IInv /\ [Next]_vars => IInv'
  BY StampKeeps, PushKeeps, CancelKeeps, PollKeeps, TickKeeps, StepBackKeeps, RestartKeeps,
     StutterKeeps DEF Next
<1> QED
  BY InitInv, <1>1, PTL DEF Spec

\* Every variable keeps its type, whatever is logged, asked or lost at a
\* restart (service.rs:285-294).
THEOREM TypeCorrect == Spec => []TypeOK
<1>1. IInv => TypeOK
  BY DEF IInv
<1> QED
  BY <1>1, Invariance, PTL

\* The log holds each call that returned once, dropped calls never, and never
\* shows a call before one that had returned when it began, for any number of
\* tasks between their stamp and the lock (service.rs:294).
THEOREM OrderOfCalls == Spec => []LoggedOnceInOrder
<1>1. IInv => LoggedOnceInOrder
  BY DEF IInv
<1> QED
  BY <1>1, Invariance, PTL

\* Unless the wall clock is set back, two events out of time order come from
\* calls that overlapped (service.rs:285, 294).
THEOREM DisorderBounded == Spec => []DisorderOnlyWhenConcurrent
<1>1. IInv => DisorderOnlyWhenConcurrent
  <2> SUFFICES ASSUME IInv, clock_steps = 0,
                      NEW m \in DOMAIN audit_log, NEW n \in DOMAIN audit_log,
                      m < n, audit_log[m].timestamp > audit_log[n].timestamp
               PROVE  Overlapped(audit_log[m].ticket, audit_log[n].ticket)
    BY DEF DisorderOnlyWhenConcurrent
  <2>1. audit_log[n].ticket \notin before[audit_log[m].ticket]
    BY DEF IInv, LoggedOnceInOrder
  <2>2. audit_log[m].timestamp \in Nat /\ audit_log[n].timestamp \in Nat
    BY LogType DEF IInv
  <2>3. audit_log[m].ticket \notin before[audit_log[n].ticket]
    BY <2>2 DEF IInv, StampsOK
  <2> QED
    BY <2>1, <2>3 DEF Overlapped
<1> QED
  BY <1>1, Invariance, PTL

\* A client that asks before more than a page of events has come misses only
\* what a process logged after the client's last poll and took with it, over any
\* number of restarts and for pages of any size (service.rs:298-308,
\* api.rs:142-145).
THEOREM TrailMissesOnlyLost == Spec => []CollectorMissesOnlyLost
<1>1. IInv => CollectorMissesOnlyLost
  BY DEF IInv
<1> QED
  BY <1>1, Invariance, PTL

\* A page holds the newest events of its entity, newest first, none left out
\* and none of another entity, whatever the log and the limit
\* (service.rs:298-308).
THEOREM PagesAreNewest == Spec => []PageIsNewest
<1>1. TypeOK => PageIsNewest
  <2> SUFFICES ASSUME TypeOK, NEW id \in EntityId \cup {AnyEntity}, NEW limit \in Limits
               PROVE  LET page  == get_audit_log(id, limit)
                          match == {n \in DOMAIN audit_log :
                                      id = AnyEntity \/ audit_log[n].entity_id = id}
                      IN  /\ Len(page) <= limit
                          /\ \A k \in DOMAIN page :
                               \E n \in match :
                                 /\ audit_log[n] = page[k]
                                 /\ Cardinality({o \in match : o > n}) = k - 1
                          /\ Len(page) < limit => Len(page) = Cardinality(match)
    BY DEF PageIsNewest
  <2> DEFINE sel   == Selected(id)
             page  == get_audit_log(id, limit)
             match == {n \in DOMAIN audit_log :
                         id = AnyEntity \/ audit_log[n].entity_id = id}
             C     == Len(sel)
  <2>1. limit \in Nat /\ audit_log \in Seq(EventType)
    BY LimitsAssumption DEF TypeOK
  <2>2. sel \in Seq(EventType) /\ Lists(sel, audit_log, match)
    BY <2>1, SelectedLists
  <2>3. /\ C \in Nat /\ Len(page) \in Nat /\ DOMAIN page = 1..Len(page)
        /\ Len(page) = IF limit < C THEN limit ELSE C
        /\ \A k \in 1..Len(page) : C - k + 1 \in 1..C /\ page[k] = sel[C - k + 1]
    BY <2>1, <2>2, FirstOfReverse DEF get_audit_log
  <2>4. C = Cardinality(match)
    BY <2>2 DEF Lists
  <2>5. \A q \in 1..C : \E n \in match :
          audit_log[n] = sel[q] /\ Cardinality({o \in match : o > n}) = C - q
    BY <2>2 DEF Lists
  <2> HIDE DEF page, sel, match, C
  <2>6. ASSUME NEW k \in 1..Len(page)
        PROVE  \E n \in match :
                 audit_log[n] = page[k] /\ Cardinality({o \in match : o > n}) = k - 1
    <3>1. C - k + 1 \in 1..C /\ page[k] = sel[C - k + 1] /\ C - (C - k + 1) = k - 1
      BY <2>3
    <3> QED
      BY <2>5, <3>1
  <2>7. Len(page) <= limit /\ (Len(page) < limit => Len(page) = Cardinality(match))
    BY <2>1, <2>3, <2>4
  <2> QED
    BY <2>3, <2>6, <2>7 DEF page, match
<1> QED
  BY <1>1, TypeCorrect, PTL

\* What a page leaves out.
LEMMA LeftOut ==
  ASSUME TypeOK, NEW limit \in Limits, NEW n \in DOMAIN audit_log,
         NEW k \in DOMAIN get_audit_log(AnyEntity, limit),
         \A q \in DOMAIN get_audit_log(AnyEntity, limit) :
           get_audit_log(AnyEntity, limit)[q] # audit_log[n]
  PROVE  \E m \in DOMAIN audit_log :
           n < m /\ get_audit_log(AnyEntity, limit)[k] = audit_log[m]
<1> DEFINE L    == Len(audit_log)
           page == get_audit_log(AnyEntity, limit)
<1>1. audit_log \in Seq(EventType) /\ limit \in Nat /\ L \in Nat /\ DOMAIN audit_log = 1..L
  BY LimitsAssumption DEF TypeOK
<1>2. /\ Len(page) \in Nat /\ DOMAIN page = 1..Len(page)
      /\ Len(page) = IF limit < L THEN limit ELSE L
      /\ \A q \in 1..Len(page) : L - q + 1 \in 1..L /\ page[q] = audit_log[L - q + 1]
  BY <1>1, FirstOfReverse, Zenon DEF get_audit_log, Selected
<1>3. ~ (L - n < limit)
  BY <1>1, PageOfAll
<1> HIDE DEF page, L
<1>4. k \in 1..Len(page)
  BY <1>2 DEF page
<1>5. L - k + 1 \in 1..L /\ page[k] = audit_log[L - k + 1] /\ n < L - k + 1
  BY <1>1, <1>2, <1>3, <1>4
<1> QED
  BY <1>1, <1>5 DEF page

\* An event left out of a page although it is more recent than one in it is
\* that of an overlapping call, unless the clock is set back: what the stamp
\* taken before the lock does to a page is bounded by it (service.rs:285-308).
THEOREM PagesAlmostRecent == Spec => []PageRecentUnlessConcurrent
<1>1. TypeOK /\ DisorderOnlyWhenConcurrent => PageRecentUnlessConcurrent
  <2> SUFFICES ASSUME TypeOK, DisorderOnlyWhenConcurrent, clock_steps = 0,
                      NEW limit \in Limits, NEW n \in DOMAIN audit_log,
                      NEW k \in DOMAIN get_audit_log(AnyEntity, limit),
                      \A q \in DOMAIN get_audit_log(AnyEntity, limit) :
                        get_audit_log(AnyEntity, limit)[q] # audit_log[n],
                      audit_log[n].timestamp > get_audit_log(AnyEntity, limit)[k].timestamp
               PROVE  Overlapped(audit_log[n].ticket,
                                 get_audit_log(AnyEntity, limit)[k].ticket)
    BY DEF PageRecentUnlessConcurrent
  <2>1. PICK m \in DOMAIN audit_log :
          n < m /\ get_audit_log(AnyEntity, limit)[k] = audit_log[m]
    BY LeftOut
  <2> QED
    BY <2>1 DEF DisorderOnlyWhenConcurrent
<1> QED
  BY <1>1, TypeCorrect, DisorderBounded, PTL

=============================================================================
