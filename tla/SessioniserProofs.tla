-------------------------- MODULE SessioniserProofs --------------------------
(***************************************************************************)
(* Theorems about Sessioniser, for every value of its constants: the state *)
(* is well typed, a row counts an event once, a session in memory has a    *)
(* row that it agrees with, alerts are justified by their rows, and closed *)
(* rows are final; and, as long as every statement succeeds, what is       *)
(* settled is counted (it implements AtLeastOnce) and no alert is missing. *)
(***************************************************************************)
EXTENDS Sessioniser, TLAPS, FiniteSetTheorems, SequenceTheorems,
        WellFoundedInduction

(* An entry is in hand at every statement; at all but the first of a session *)
(* there is a session for it.                                                *)
InHand ==
    pc \in Statements => /\ todo # {}
                         /\ pc # "open" => IsOpen(K)

(* A process that is down has forgotten its sessions. *)
Forgotten == pc = "down" => \A k \in Keys : ~IsOpen(k)

(* The event in hand is one of the session it was given to. *)
HandedOver ==
    pc \in {"update", "link", "hit", "alert"} =>
        \E n \in DOMAIN open[K].events : open[K].events[n] = E

(* After the UPDATE the row has caught up with the memory. *)
RowCaughtUp ==
    pc \in {"link", "hit", "alert"} =>
        /\ conn
        /\ sessions[open[K].sid].of = open[K].events

(* No event is twice in a session in memory. *)
SeenOnce ==
    \A k \in Keys : IsOpen(k) =>
        \A m, n \in DOMAIN open[k].events :
            open[k].events[m].id = open[k].events[n].id => m = n

(* Whatever a session in memory has triggered, or is about to, has evidence. *)
TriggeredHasEvidence ==
    /\ \A k \in Keys : IsOpen(k) => open[k].triggered \subseteq Evidence(open[k].events)
    /\ pc = "hit" => fresh \subseteq Evidence(open[K].events)

(* The alert about to be written is worth one. *)
WorthAnAlert == pc = "alert" => RaisesAlert(open[K].triggered)

(* Every alert has its session's row. *)
AlertsHaveRows == \A a \in 1 .. Len(alerts) : alerts[a].sid \in Rows

IInv ==
    /\ TypeOK
    /\ InHand
    /\ Forgotten
    /\ HandedOver
    /\ RowCaughtUp
    /\ SeenOnce
    /\ CountedOnce
    /\ MemoryHasItsRow
    /\ TriggeredHasEvidence
    /\ WorthAnAlert
    /\ AlertsHaveRows
    /\ AlertsAreJustified

-----------------------------------------------------------------------------
(* A set of ids has a least one. *)
LEMMA LeastExists ==
    ASSUME NEW S \in SUBSET Nat, S # {}
    PROVE  \E i \in S : \A j \in S : i <= j
  <1>1. PICK x \in S : \A y \in S : ~ (<<y, x>> \in OpToRel(<, Nat))
    BY NatLessThanWellFounded, WFMin, Zenon
  <1>2. \A y \in S : ~ (y < x)
    BY <1>1 DEF OpToRel
  <1> QED BY <1>2

(* The entry in hand is one of the batch, and its event is of the stream. *)
LEMMA EntryInHand ==
    ASSUME TypeOK, todo # {}
    PROVE  /\ Entry \in todo /\ Entry \in Ids
           /\ E \in Event /\ K \in Keys
  <1>1. todo \in SUBSET Nat /\ todo \subseteq Ids
    BY DEF TypeOK, Ids
  <1>2. Entry \in todo
    BY <1>1, LeastExists DEF Entry
  <1>3. E \in Event
    BY <1>1, <1>2, ElementOfSeq DEF TypeOK, Ids, E
  <1> QED BY <1>1, <1>2, <1>3 DEF K, Event

(* While nothing is done with the batch, the entry in hand stays. *)
LEMMA EntryStays ==
    ASSUME TypeOK, todo # {}, todo' = todo,
           \A i \in Ids : stream'[i] = stream[i]
    PROVE  E' = E /\ K' = K
  <1>1. Entry' = Entry
    BY DEF Entry
  <1> QED BY <1>1, EntryInHand DEF E, K

(* Events have ids that are all numbers: there are finitely many. *)
LEMMA HappenedFinite ==
    ASSUME TypeOK
    PROVE  IsFiniteSet(Happened) /\ Cardinality(Happened) \in Nat
  <1>1. Len(stream) \in Nat /\ \A i \in Ids : stream[i] \in Event
    BY LenProperties, ElementOfSeq DEF TypeOK, Ids
  <1>2. Happened \subseteq 1 .. MaxEvents
    BY <1>1 DEF Happened, Event, EventIds
  <1>3. IsFiniteSet(1 .. MaxEvents)
    BY SessioniserAssumption, FS_Interval DEF SessioniserAssumption
  <1> QED BY <1>2, <1>3, FS_Subset, FS_CardinalityType

(* What a read returns new is an interval of ids. *)
LEMMA NewIdsInterval ==
    ASSUME TypeOK, NewIds # {}
    PROVE  \E hi \in Ids :
              /\ lastId < hi
              /\ NewIds = (lastId + 1) .. hi
              /\ lastId + Cardinality(NewIds) = hi
  <1> USE SessioniserAssumption DEF SessioniserAssumption
  <1>1. Len(stream) \in Nat /\ lastId \in 0 .. Len(stream)
    BY LenProperties DEF TypeOK
  <1> DEFINE hi == IF Len(stream) < lastId + Batch THEN Len(stream)
                   ELSE lastId + Batch
  <1>2. NewIds = (lastId + 1) .. hi
    BY <1>1 DEF NewIds, Undelivered
  <1>3. hi \in Int /\ lastId \in Int /\ lastId < hi /\ hi \in Ids
    BY <1>1, <1>2 DEF Ids
  <1>4. Cardinality(NewIds) = hi - lastId
    BY <1>2, <1>3, FS_Interval
  <1> HIDE DEF hi
  <1> QED BY <1>2, <1>3, <1>4

(* An event joins a session. *)
LEMMA JoinedSession ==
    ASSUME NEW s \in SessionState, NEW e \in Event
    PROVE  /\ Joined(s, e) \in SessionState
           /\ Joined(s, e) # None
           /\ Joined(s, e).sid = s.sid
           /\ Joined(s, e).started = s.started
           /\ Joined(s, e).triggered = s.triggered
           /\ s.last <= Joined(s, e).last
           /\ Joined(s, e).events = Append(s.events, e)
  <1> USE SessioniserAssumption DEF SessioniserAssumption
  <1>1. Append(s.events, e) \in Seq(Event)
    BY AppendProperties DEF SessionState
  <1>2. (IF e.ts > s.last THEN e.ts ELSE s.last) \in 0 .. MaxTime
    BY DEF SessionState, Event
  <1>3. s.last <= (IF e.ts > s.last THEN e.ts ELSE s.last)
    BY DEF SessionState, Event
  <1> DEFINE events == Append(s.events, e)
             last == IF e.ts > s.last THEN e.ts ELSE s.last
  <1>4. Joined(s, e) = [[s EXCEPT !.events = events] EXCEPT !.last = last]
    BY DEF Joined
  <1> HIDE DEF events, last
  <1>5. /\ [[s EXCEPT !.events = events] EXCEPT !.last = last] \in SessionState
        /\ [[s EXCEPT !.events = events] EXCEPT !.last = last].sid = s.sid
        /\ [[s EXCEPT !.events = events] EXCEPT !.last = last].started = s.started
        /\ [[s EXCEPT !.events = events] EXCEPT !.last = last].triggered = s.triggered
        /\ [[s EXCEPT !.events = events] EXCEPT !.last = last].last = last
        /\ [[s EXCEPT !.events = events] EXCEPT !.last = last].events = events
    BY <1>1, <1>2 DEF SessionState, events, last
  <1>6. Joined(s, e).sid # 0
    BY <1>4, <1>5 DEF SessionState
  <1>7. None.sid = 0
    BY DEF None
  <1>8. s.last <= last
    BY <1>3 DEF last
  <1> QED BY <1>4, <1>5, <1>6, <1>7, <1>8, Zenon DEF events

-----------------------------------------------------------------------------
(* The credentials and passwords that the features count. *)
Credentials(events) ==
    {n \in DOMAIN events : events[n].what.action \in CredentialActions}

Passwords(events) ==
    UNION {Field(events[n].what.payload, "password") : n \in Credentials(events)}

LEMMA FeaturesCount ==
    ASSUME NEW events
    PROVE  /\ DOMAIN Features(events) = {"credential_attempts", "distinct_passwords"}
           /\ Features(events)["credential_attempts"] = Cardinality(Credentials(events))
           /\ Features(events)["distinct_passwords"] = Cardinality(Passwords(events))
  BY DEF Features, Credentials, Passwords

LEMMA CountsFinite ==
    ASSUME NEW events \in Seq(Event)
    PROVE  /\ IsFiniteSet(Credentials(events))
           /\ IsFiniteSet(Passwords(events))
  <1>1. DOMAIN events = 1 .. Len(events) /\ Len(events) \in Nat
    BY LenProperties
  <1>2. IsFiniteSet(Credentials(events))
    <2>1. IsFiniteSet(DOMAIN events)
      BY <1>1, FS_Interval
    <2>2. Credentials(events) \subseteq DOMAIN events
      BY DEF Credentials
    <2> QED BY <2>1, <2>2, FS_Subset
  <1> DEFINE word == [n \in Credentials(events) |-> Field(events[n].what.payload, "password")]
             words == {Field(events[n].what.payload, "password") : n \in Credentials(events)}
  <1>3. word \in Surjection(Credentials(events), words)
    BY DEF Surjection
  <1>4. IsFiniteSet(words)
    BY <1>2, <1>3, FS_Surjection
  <1>5. \A w \in words : IsFiniteSet(w)
    BY FS_EmptySet, FS_Singleton DEF Field
  <1>6. Passwords(events) = UNION words
    BY DEF Passwords
  <1> HIDE DEF words
  <1> QED BY <1>2, <1>4, <1>5, <1>6, FS_UNION

(* Features never fall as a session grows. *)
LEMMA FeaturesGrow ==
    ASSUME NEW s \in Seq(Event), NEW t \in Seq(Event), Len(s) <= Len(t),
           \A n \in DOMAIN s : s[n] = t[n], NEW f \in DOMAIN Features(s)
    PROVE  /\ f \in DOMAIN Features(t)
           /\ Features(s)[f] \in Nat /\ Features(t)[f] \in Nat
           /\ Features(s)[f] <= Features(t)[f]
  <1>1. DOMAIN s \subseteq DOMAIN t
    BY LenProperties
  <1>2. Credentials(s) \subseteq Credentials(t)
    BY <1>1 DEF Credentials
  <1>3. Passwords(s) \subseteq Passwords(t)
    BY <1>2 DEF Passwords, Credentials
  <1>4. /\ Cardinality(Credentials(s)) \in Nat /\ Cardinality(Credentials(t)) \in Nat
        /\ Cardinality(Credentials(s)) <= Cardinality(Credentials(t))
    BY <1>2, CountsFinite, FS_Subset, FS_CardinalityType
  <1>5. /\ Cardinality(Passwords(s)) \in Nat /\ Cardinality(Passwords(t)) \in Nat
        /\ Cardinality(Passwords(s)) <= Cardinality(Passwords(t))
    BY <1>3, CountsFinite, FS_Subset, FS_CardinalityType
  <1> QED BY <1>4, <1>5, FeaturesCount

(* So a rule that an event of the session matches is matched for good. *)
LEMMA MatchesGrow ==
    ASSUME NEW s \in Seq(Event), NEW t \in Seq(Event), Len(s) <= Len(t),
           \A n \in DOMAIN s : s[n] = t[n],
           NEW r \in RuleIds, NEW payload,
           RuleMatches(Rules[r], Features(s), payload)
    PROVE  RuleMatches(Rules[r], Features(t), payload)
  <1>1. ASSUME NEW c \in Rules[r].all \cup Rules[r].any,
               ClauseMatches(c, Features(s), payload)
        PROVE  ClauseMatches(c, Features(t), payload)
    <2>1. CASE c.op = "gte" /\ \E v \in Field(Features(s), c.field) : v >= c.value
      <3>1. /\ c.field \in DOMAIN Features(s)
            /\ Features(s)[c.field] >= c.value
        BY <2>1 DEF Field
      <3>2. /\ c.field \in DOMAIN Features(t)
            /\ Features(s)[c.field] \in Nat /\ Features(t)[c.field] \in Nat
            /\ Features(s)[c.field] <= Features(t)[c.field]
        BY <3>1, FeaturesGrow
      <3>3. c.value \in Int
        BY <2>1, DetectionAssumption DEF DetectionAssumption
      <3>4. Features(t)[c.field] >= c.value
        BY <3>1, <3>2, <3>3
      <3> QED BY <2>1, <3>2, <3>4 DEF ClauseMatches, Field
    <2>2. CASE c.op = "regex" /\ \E v \in Field(payload, c.field) : c.value \in v
      BY <2>2 DEF ClauseMatches
    <2> QED BY <1>1, <2>1, <2>2 DEF ClauseMatches
  <1> QED BY <1>1 DEF RuleMatches

LEMMA EvidenceGrows ==
    ASSUME NEW s \in Seq(Event), NEW t \in Seq(Event), Len(s) <= Len(t),
           \A n \in DOMAIN s : s[n] = t[n]
    PROVE  Evidence(s) \subseteq Evidence(t)
  <1> SUFFICES ASSUME NEW r \in Evidence(s)
               PROVE  r \in Evidence(t)
    OBVIOUS
  <1>1. PICK n \in DOMAIN s :
           RuleMatches(Rules[r], Features(s), s[n].what.payload)
    BY DEF Evidence
  <1>2. n \in DOMAIN t /\ t[n] = s[n]
    BY LenProperties
  <1>3. RuleMatches(Rules[r], Features(t), t[n].what.payload)
    BY <1>1, <1>2, MatchesGrow DEF Evidence
  <1> QED BY <1>2, <1>3 DEF Evidence

-----------------------------------------------------------------------------
(* Nothing has happened yet: the invariant holds. *)
LEMMA InitIInv == Init => IInv
  <1> SUFFICES ASSUME Init PROVE IInv
    OBVIOUS
  <1> USE SessioniserAssumption DEF SessioniserAssumption
  <1>1. TypeOK
    <2>1. /\ stream \in Seq(Event) /\ sessions \in Seq(SessionRow)
          /\ alerts \in Seq([sid : Nat \ {0}, triggered : SUBSET RuleIds])
          /\ Len(stream) = 0
      BY EmptySeq DEF Init
    <2>2. open \in [Keys -> SessionState \cup {None}]
      BY DEF Init
    <2>3. hits \in [RuleIds -> Nat] /\ links \in [EventIds -> Nat]
      BY DEF Init
    <2>4. /\ now \in 0 .. MaxTime /\ faults \in 0 .. MaxFaults
          /\ lastId \in 0 .. Len(stream)
      BY <2>1 DEF Init
    <2>5. /\ pel = {} /\ batch = {} /\ todo = {} /\ fresh = {} /\ sweeping = {}
          /\ pc = "down" /\ cursor = "0" /\ conn = FALSE
      BY DEF Init
    <2> QED BY <2>1, <2>2, <2>3, <2>4, <2>5 DEF TypeOK
  <1>2. sessions = <<>> /\ alerts = <<>> /\ Len(sessions) = 0 /\ Len(alerts) = 0
    BY EmptySeq DEF Init
  <1>3. CountedOnce /\ AlertsHaveRows /\ AlertsAreJustified
    BY <1>2 DEF CountedOnce, AlertsHaveRows, AlertsAreJustified, Rows
  <1>4. \A k \in Keys : ~IsOpen(k)
    BY DEF Init, IsOpen
  <1>5. InHand /\ Forgotten /\ HandedOver /\ RowCaughtUp /\ WorthAnAlert
    BY <1>4 DEF Init, InHand, Forgotten, HandedOver, RowCaughtUp, WorthAnAlert, Statements
  <1>6. SeenOnce /\ MemoryHasItsRow /\ TriggeredHasEvidence
    BY <1>4 DEF Init, SeenOnce, MemoryHasItsRow, TriggeredHasEvidence
  <1> QED BY <1>1, <1>3, <1>5, <1>6 DEF IInv

(* A step that neither executes a statement nor touches a session: between   *)
(* batches and entries the invariant is about the sessions alone.            *)
LEMMA LoopStep ==
    ASSUME IInv, TypeOK', UNCHANGED <<open, sessions, alerts>>,
           pc' \in {"down", "idle", "next", "sweep"},
           pc' = "down" => pc = "down",
           conn' => conn \/ pc = "down"
    PROVE  IInv'
  <1>1. /\ open' = open /\ sessions' = sessions /\ alerts' = alerts
    OBVIOUS
  <1>2. InHand' /\ HandedOver' /\ RowCaughtUp' /\ WorthAnAlert'
    BY DEF InHand, HandedOver, RowCaughtUp, WorthAnAlert, Statements
  <1>3. Forgotten'
    BY <1>1 DEF IInv, Forgotten, IsOpen
  <1>4. SeenOnce' /\ CountedOnce' /\ AlertsHaveRows' /\ AlertsAreJustified'
    BY <1>1 DEF IInv, SeenOnce, CountedOnce, AlertsHaveRows, AlertsAreJustified,
                IsOpen, Rows
  <1>5. MemoryHasItsRow'
    BY <1>1 DEF IInv, MemoryHasItsRow, Forgotten, IsOpen, Rows
  <1>6. TriggeredHasEvidence'
    BY <1>1 DEF IInv, TriggeredHasEvidence, IsOpen
  <1> QED BY <1>2, <1>3, <1>4, <1>5, <1>6 DEF IInv

(* A step of the world: the stream at most grows. *)
LEMMA WorldStep ==
    ASSUME IInv, TypeOK', UNCHANGED <<loop, open, conn, db>>,
           \A i \in Ids : stream'[i] = stream[i]
    PROVE  IInv'
  <1>1. /\ pc' = pc /\ todo' = todo /\ fresh' = fresh /\ conn' = conn
        /\ open' = open /\ sessions' = sessions /\ alerts' = alerts
    BY DEF db, loop
  <1>2. ASSUME pc \in Statements
        PROVE  E' = E /\ K' = K
    BY <1>1, <1>2, EntryStays DEF IInv, InHand
  <1>3. InHand'
    BY <1>1, <1>2 DEF IInv, InHand, IsOpen
  <1>4. HandedOver' /\ RowCaughtUp' /\ WorthAnAlert'
    BY <1>1, <1>2 DEF IInv, HandedOver, RowCaughtUp, WorthAnAlert, Statements
  <1>5. Forgotten' /\ SeenOnce' /\ CountedOnce' /\ AlertsHaveRows' /\ AlertsAreJustified'
    BY <1>1 DEF IInv, Forgotten, SeenOnce, CountedOnce, AlertsHaveRows,
                AlertsAreJustified, IsOpen, Rows
  <1>6. MemoryHasItsRow'
    BY <1>1 DEF IInv, MemoryHasItsRow, IsOpen, Rows
  <1>7. TriggeredHasEvidence'
    BY <1>1, <1>2 DEF IInv, TriggeredHasEvidence, IsOpen, Statements
  <1> QED BY <1>3, <1>4, <1>5, <1>6, <1>7 DEF IInv

(* The stream grows by one event of the right type. *)
LEMMA StreamGrows ==
    ASSUME IInv, NEW e \in Event, stream' = Append(stream, e),
           UNCHANGED <<now, lastId, pel, loop, open, conn, db, faults>>
    PROVE  IInv'
  <1>1. /\ stream' \in Seq(Event) /\ Len(stream') = Len(stream) + 1
        /\ Len(stream) \in Nat
        /\ \A i \in Ids : stream'[i] = stream[i]
    BY AppendProperties, LenProperties DEF IInv, TypeOK, Ids
  <1>2. Ids \subseteq Ids' /\ 0 .. Len(stream) \subseteq 0 .. Len(stream')
    BY <1>1 DEF Ids
  <1>3. TypeOK'
    BY <1>1, <1>2 DEF IInv, TypeOK, loop, db
  <1> QED BY <1>1, <1>3, WorldStep

LEMMA HappenStep == ASSUME IInv, Happen PROVE IInv'
  <1> USE SessioniserAssumption DEF SessioniserAssumption
  <1>1. PICK k \in Keys, w \in Kinds :
           stream' = Append(stream, [id |-> Cardinality(Happened) + 1,
                                     key |-> k, ts |-> now, what |-> w])
    BY DEF Happen
  <1>2. Cardinality(Happened) + 1 \in EventIds
    BY HappenedFinite DEF IInv, Happen, EventIds
  <1>3. [id |-> Cardinality(Happened) + 1, key |-> k, ts |-> now, what |-> w] \in Event
    BY <1>2 DEF IInv, TypeOK, Event
  <1> QED BY <1>1, <1>3, StreamGrows DEF Happen

LEMMA ReplayStep == ASSUME IInv, Replay PROVE IInv'
  <1>1. PICK i \in Ids : stream' = Append(stream, stream[i])
    BY DEF Replay
  <1>2. stream[i] \in Event
    BY ElementOfSeq DEF IInv, TypeOK, Ids
  <1> QED BY <1>1, <1>2, StreamGrows DEF Replay

LEMMA TickStep == ASSUME IInv, Tick PROVE IInv'
  <1> USE SessioniserAssumption DEF SessioniserAssumption
  <1>1. /\ now' = now + 1 /\ now < MaxTime
        /\ UNCHANGED <<stream, lastId, pel, loop, open, conn, db, faults>>
    BY DEF Tick, group
  <1>2. TypeOK'
    BY <1>1 DEF IInv, TypeOK, loop, db, Ids
  <1> QED BY <1>1, <1>2, WorldStep

(* A delivery gives the group ids of the stream. *)
LEMMA DeliverTypes ==
    ASSUME TypeOK, Deliver
    PROVE  /\ NewIds \subseteq Ids
           /\ lastId' \in 0 .. Len(stream)
           /\ pel' \subseteq Ids
  <1>1. Len(stream) \in Nat /\ lastId \in 0 .. Len(stream)
    BY LenProperties DEF TypeOK
  <1>2. PICK hi \in Ids :
           /\ lastId < hi
           /\ NewIds = (lastId + 1) .. hi
           /\ lastId + Cardinality(NewIds) = hi
    BY NewIdsInterval DEF Deliver
  <1> QED BY <1>1, <1>2 DEF TypeOK, Deliver, Ids

LEMMA FaultCounts ==
    ASSUME TypeOK, NEW kind, Fault(kind)
    PROVE  faults' \in 0 .. MaxFaults
  BY SessioniserAssumption DEF SessioniserAssumption, TypeOK, Fault

(* The steps of the loop between batches. *)
LEMMA StartStep == ASSUME IInv, Start PROVE IInv'
  <1>1. TypeOK'
    BY DEF IInv, TypeOK, Start, group, loop, db, Ids
  <1> QED BY <1>1, LoopStep DEF Start, db

LEMMA PendingDrainedStep == ASSUME IInv, PendingDrained PROVE IInv'
  <1>1. TypeOK'
    BY DEF IInv, TypeOK, PendingDrained, group, loop, db, Ids
  <1> QED BY <1>1, LoopStep DEF PendingDrained, db

LEMMA ReadPendingStep == ASSUME IInv, ReadPending PROVE IInv'
  <1>1. OldestPending(pel, Batch) \subseteq Ids
    BY DEF IInv, TypeOK, OldestPending
  <1>2. TypeOK'
    BY <1>1 DEF IInv, TypeOK, ReadPending, Receive, db, Ids
  <1> QED BY <1>2, LoopStep DEF ReadPending, Receive, db

LEMMA ReadNewStep == ASSUME IInv, ReadNew PROVE IInv'
  <1>1. /\ NewIds \subseteq Ids
        /\ lastId' \in 0 .. Len(stream)
        /\ pel' \subseteq Ids
    BY DeliverTypes DEF IInv, ReadNew
  <1>2. TypeOK'
    BY <1>1 DEF IInv, TypeOK, ReadNew, Receive, db, Ids
  <1> QED BY <1>2, LoopStep DEF ReadNew, Receive, db

LEMMA ReadReplyLostStep == ASSUME IInv, ReadReplyLost PROVE IInv'
  <1>1. /\ lastId' \in 0 .. Len(stream)
        /\ pel' \subseteq Ids
        /\ faults' \in 0 .. MaxFaults
    BY DeliverTypes, FaultCounts DEF IInv, ReadReplyLost
  <1>2. TypeOK'
    BY <1>1 DEF IInv, TypeOK, ReadReplyLost, loop, db, Ids
  <1> QED BY <1>2, WorldStep DEF ReadReplyLost

LEMMA AckStep ==
    ASSUME IInv, Acknowledge, pel' \in {pel, pel \ batch},
           faults' \in 0 .. MaxFaults
    PROVE  IInv'
  <1>1. TypeOK'
    BY DEF IInv, TypeOK, Acknowledge, db, Ids
  <1> QED BY <1>1, LoopStep DEF Acknowledge, db

LEMMA SweepStep == ASSUME IInv, Sweep PROVE IInv'
  <1>1. TypeOK'
    BY DEF IInv, TypeOK, Sweep, Quiet, group, db, Ids
  <1> QED BY <1>1, LoopStep DEF Sweep, db

LEMMA StutterStep == ASSUME IInv, UNCHANGED vars PROVE IInv'
  <1>1. TypeOK'
    BY DEF IInv, TypeOK, vars, group, loop, db, Ids
  <1> QED BY <1>1, WorldStep DEF vars, group

LEMMA KillStep == ASSUME IInv, Kill PROVE IInv'
  <1>1. faults' \in 0 .. MaxFaults
    BY FaultCounts DEF IInv, Kill
  <1>2. TypeOK'
    BY <1>1 DEF IInv, TypeOK, Kill, group, db, Ids
  <1>3. /\ pc' = "down" /\ ~conn' /\ \A k \in Keys : ~IsOpen(k)'
        /\ sessions' = sessions /\ alerts' = alerts
    BY DEF Kill, IsOpen, db
  <1>4. /\ InHand' /\ HandedOver' /\ RowCaughtUp' /\ WorthAnAlert' /\ Forgotten'
        /\ SeenOnce' /\ MemoryHasItsRow' /\ TriggeredHasEvidence'
    BY <1>3 DEF InHand, HandedOver, RowCaughtUp, WorthAnAlert, Forgotten, SeenOnce,
                MemoryHasItsRow, TriggeredHasEvidence, Statements
  <1>5. CountedOnce' /\ AlertsHaveRows' /\ AlertsAreJustified'
    BY <1>3 DEF IInv, CountedOnce, AlertsHaveRows, AlertsAreJustified, Rows
  <1> QED BY <1>2, <1>4, <1>5 DEF IInv

-----------------------------------------------------------------------------
(* Rows that keep their events, and new ones without any, keep what the      *)
(* invariant says of the tables.                                             *)
LEMMA SameEvents ==
    ASSUME IInv, alerts' = alerts, Rows \subseteq Rows',
           \A s \in Rows : sessions'[s].of = sessions[s].of,
           \A s \in Rows' \ Rows : sessions'[s].of = <<>>
    PROVE  CountedOnce' /\ AlertsHaveRows' /\ AlertsAreJustified'
  <1>1. CountedOnce'
    BY DEF IInv, CountedOnce
  <1>2. AlertsHaveRows' /\ AlertsAreJustified'
    BY DEF IInv, AlertsHaveRows, AlertsAreJustified
  <1> QED BY <1>1, <1>2

(* Closing a row changes nothing else, and nothing at all without the row. *)
LEMMA CloseRowDoes ==
    ASSUME TypeOK, NEW sid, CloseRow(sid)
    PROVE  /\ sessions' \in Seq(SessionRow)
           /\ Len(sessions') = Len(sessions)
           /\ \A s \in Rows :
                 /\ sessions'[s] = IF s = sid THEN [sessions[s] EXCEPT !.closed = TRUE]
                                   ELSE sessions[s]
                 /\ sessions'[s].of = sessions[s].of
           /\ UNCHANGED <<alerts, hits, links>>
  <1>1. /\ Len(sessions) \in Nat /\ sessions \in [1 .. Len(sessions) -> SessionRow]
        /\ sessions \in Seq(SessionRow)
    BY LenProperties DEF TypeOK
  <1>2. sessions' = [sessions EXCEPT ![sid] = [sessions[sid] EXCEPT !.closed = TRUE]]
    BY DEF CloseRow
  <1>3. UNCHANGED <<alerts, hits, links>>
    BY DEF CloseRow
  <1>4. CASE sid \in Rows
    <2> DEFINE row == [sessions[sid] EXCEPT !.closed = TRUE]
    <2>1. row \in SessionRow /\ row.of = sessions[sid].of
      BY <1>1, <1>4 DEF Rows, SessionRow
    <2> HIDE DEF row
    <2>2. /\ [sessions EXCEPT ![sid] = row] \in Seq(SessionRow)
          /\ Len([sessions EXCEPT ![sid] = row]) = Len(sessions)
          /\ \A j \in Rows : [sessions EXCEPT ![sid] = row][j] = IF j = sid THEN row ELSE sessions[j]
      BY <1>1, <1>4, <2>1, ExceptSeq DEF Rows
    <2>3. sessions' = [sessions EXCEPT ![sid] = row]
      BY <1>2 DEF row
    <2> QED BY <1>3, <2>1, <2>2, <2>3 DEF row
  <1>5. CASE sid \notin Rows
    <2>1. sessions' = sessions
      BY <1>1, <1>2, <1>5 DEF Rows
    <2> QED BY <1>1, <1>3, <1>5, <2>1
  <1> QED BY <1>4, <1>5

LEMMA CloseRowKeeps ==
    ASSUME IInv, NEW sid, CloseRow(sid)
    PROVE  CountedOnce' /\ AlertsHaveRows' /\ AlertsAreJustified'
  <1>1. TypeOK
    BY DEF IInv
  <1>2. /\ Rows' = Rows /\ alerts' = alerts
        /\ \A s \in Rows : sessions'[s].of = sessions[s].of
    BY <1>1, CloseRowDoes DEF Rows
  <1> QED BY <1>2, SameEvents

(* A new row is the last, open, and has no events yet. *)
LEMMA InsertRowDoes ==
    ASSUME TypeOK, todo # {}, InsertRow
    PROVE  /\ sessions' \in Seq(SessionRow)
           /\ Len(sessions) \in Nat /\ Len(sessions') = Len(sessions) + 1
           /\ \A s \in Rows : sessions'[s] = sessions[s]
           /\ sessions'[Len(sessions) + 1] =
                 [key |-> K, started |-> E.ts, ended |-> E.ts, of |-> <<>>, closed |-> FALSE]
           /\ UNCHANGED <<alerts, hits, links>>
  <1>1. K \in Keys /\ E.ts \in 0 .. MaxTime
    BY EntryInHand DEF Event
  <1>2. <<>> \in Seq(Event)
    BY EmptySeq
  <1> DEFINE row == [key |-> K, started |-> E.ts, ended |-> E.ts, of |-> <<>>, closed |-> FALSE]
  <1>3. row \in SessionRow
    BY <1>1, <1>2 DEF SessionRow
  <1>4. sessions' = Append(sessions, row) /\ UNCHANGED <<alerts, hits, links>>
    BY DEF InsertRow
  <1> HIDE DEF row
  <1>5. /\ sessions' \in Seq(SessionRow)
        /\ Len(sessions) \in Nat /\ Len(sessions') = Len(sessions) + 1
        /\ \A s \in Rows : sessions'[s] = sessions[s]
        /\ sessions'[Len(sessions) + 1] = row
    BY <1>3, <1>4, AppendProperties, LenProperties DEF TypeOK, Rows
  <1> QED BY <1>4, <1>5 DEF row

LEMMA InsertRowKeeps ==
    ASSUME IInv, todo # {}, InsertRow
    PROVE  CountedOnce' /\ AlertsHaveRows' /\ AlertsAreJustified'
  <1>1. TypeOK
    BY DEF IInv
  <1>2. /\ Len(sessions) \in Nat /\ Len(sessions') = Len(sessions) + 1
        /\ \A s \in Rows : sessions'[s].of = sessions[s].of
        /\ sessions'[Len(sessions) + 1].of = <<>>
        /\ alerts' = alerts
    BY <1>1, InsertRowDoes
  <1>3. Rows \subseteq Rows' /\ Rows' \ Rows = {Len(sessions) + 1}
    BY <1>2 DEF Rows
  <1> QED BY <1>2, <1>3, SameEvents

(* The session in hand, its row and its event, at any statement but the      *)
(* first of a session.                                                       *)
LEMMA SessionInHand ==
    ASSUME IInv, pc \in Statements, pc # "open"
    PROVE  /\ todo # {} /\ K \in Keys /\ E \in Event /\ Entry \in todo
           /\ IsOpen(K) /\ open[K] \in SessionState
           /\ conn => open[K].sid \in Rows
  <1>1. todo # {} /\ IsOpen(K)
    BY DEF IInv, InHand
  <1>2. TypeOK
    BY DEF IInv
  <1>3. K \in Keys /\ E \in Event /\ Entry \in todo
    BY <1>1, <1>2, EntryInHand
  <1> QED BY <1>1, <1>3 DEF IInv, TypeOK, IsOpen, MemoryHasItsRow

(* The UPDATE writes the session in hand to its row. *)
LEMMA UpdateRowDoes ==
    ASSUME IInv, pc = "update", conn, UpdateRow
    PROVE  /\ sessions' \in Seq(SessionRow)
           /\ Len(sessions') = Len(sessions)
           /\ \A s \in Rows : s # open[K].sid => sessions'[s] = sessions[s]
           /\ LET row == sessions'[open[K].sid]
                  old == sessions[open[K].sid]
              IN  /\ row.key = old.key /\ row.started = old.started
                  /\ row.closed = old.closed
                  /\ row.ended = open[K].last /\ row.of = open[K].events
           /\ UNCHANGED <<alerts, hits, links>>
  <1> DEFINE sid == open[K].sid
             last == open[K].last
             events == open[K].events
             row == [[sessions[sid] EXCEPT !.ended = last] EXCEPT !.of = events]
  <1>1. /\ sid \in Rows /\ last \in 0 .. MaxTime /\ events \in Seq(Event)
    BY SessionInHand DEF Statements, SessionState
  <1>2. Len(sessions) \in Nat /\ sessions \in Seq(SessionRow) /\ sessions[sid] \in SessionRow
        /\ sessions \in [1 .. Len(sessions) -> SessionRow]
    BY <1>1, LenProperties, ElementOfSeq DEF IInv, TypeOK, Rows
  <1>3. sessions' = [[sessions EXCEPT ![sid].ended = last] EXCEPT ![sid].of = events]
        /\ UNCHANGED <<alerts, hits, links>>
    BY DEF UpdateRow
  <1> HIDE DEF sid, last, events
  <1>4. /\ row \in SessionRow
        /\ row.key = sessions[sid].key /\ row.started = sessions[sid].started
        /\ row.closed = sessions[sid].closed
        /\ row.ended = last /\ row.of = events
    BY <1>1, <1>2 DEF SessionRow
  <1>5. sessions' = [sessions EXCEPT ![sid] = row]
    BY <1>1, <1>2, <1>3 DEF Rows
  <1> HIDE DEF row
  <1>6. /\ sessions' \in Seq(SessionRow)
        /\ Len(sessions') = Len(sessions)
        /\ \A j \in Rows : sessions'[j] = IF j = sid THEN row ELSE sessions[j]
    BY <1>1, <1>2, <1>4, <1>5, ExceptSeq DEF Rows
  <1> QED BY <1>1, <1>3, <1>4, <1>6 DEF sid, last, events

LEMMA UpdateRowKeeps ==
    ASSUME IInv, pc = "update", conn, UpdateRow
    PROVE  CountedOnce' /\ AlertsHaveRows' /\ AlertsAreJustified'
  <1> DEFINE sid == open[K].sid
  <1>1. /\ Rows' = Rows /\ alerts' = alerts
        /\ \A s \in Rows : s # sid => sessions'[s] = sessions[s]
        /\ sessions'[sid].of = open[K].events
    BY UpdateRowDoes DEF Rows
  <1>2. /\ sid \in Rows /\ K \in Keys /\ IsOpen(K)
        /\ open[K].events \in Seq(Event)
        /\ sessions[sid].of \in Seq(Event)
    <2>1. sid \in Rows /\ K \in Keys /\ IsOpen(K) /\ open[K] \in SessionState
      BY SessionInHand DEF Statements
    <2>2. sessions[sid] \in SessionRow
      BY <2>1, ElementOfSeq DEF IInv, TypeOK, Rows
    <2> QED BY <2>1, <2>2 DEF SessionState, SessionRow
  <1>3. CountedOnce'
    BY <1>1, <1>2 DEF IInv, CountedOnce, SeenOnce
  <1>4. Evidence(sessions[sid].of) \subseteq Evidence(open[K].events)
    <2>1. /\ Len(sessions[sid].of) <= Len(open[K].events)
          /\ \A n \in DOMAIN sessions[sid].of : sessions[sid].of[n] = open[K].events[n]
      BY <1>2 DEF IInv, MemoryHasItsRow
    <2> QED BY <1>2, <2>1, EvidenceGrows
  <1>5. \A s \in Rows : Evidence(sessions[s].of) \subseteq Evidence(sessions'[s].of)
    BY <1>1, <1>4
  <1>6. AlertsHaveRows'
    BY <1>1 DEF IInv, AlertsHaveRows
  <1>7. AlertsAreJustified'
    BY <1>1, <1>5 DEF IInv, AlertsAreJustified, AlertsHaveRows
  <1> QED BY <1>3, <1>6, <1>7

(* The alert of the session in hand is inserted, or replaced. *)
LEMMA UpsertAlertDoes ==
    ASSUME IInv, pc = "alert", UpsertAlert
    PROVE  /\ alerts' \in Seq([sid : Nat \ {0}, triggered : SUBSET RuleIds])
           /\ AlertsHaveRows' /\ AlertsAreJustified'
           /\ UNCHANGED <<sessions, hits, links>>
  <1> DEFINE alert == [sid |-> open[K].sid, triggered |-> open[K].triggered]
             Type == [sid : Nat \ {0}, triggered : SUBSET RuleIds]
  <1>1. conn /\ sessions[open[K].sid].of = open[K].events
    BY DEF IInv, RowCaughtUp
  <1>2. K \in Keys /\ IsOpen(K) /\ open[K] \in SessionState /\ open[K].sid \in Rows
    BY <1>1, SessionInHand DEF Statements
  <1>3. alert \in Type /\ alert.sid \in Rows
    BY <1>2 DEF SessionState
  <1>4. RaisesAlert(alert.triggered) /\ alert.triggered \subseteq Evidence(sessions[alert.sid].of)
    BY <1>1, <1>2 DEF IInv, WorthAnAlert, TriggeredHasEvidence
  <1>5. UNCHANGED <<sessions, hits, links>>
    BY DEF UpsertAlert
  <1>6. alerts \in Seq(Type) /\ Len(alerts) \in Nat
    BY LenProperties DEF IInv, TypeOK
  <1>7. \/ AlertsOf(alert.sid) = {} /\ alerts' = Append(alerts, alert)
        \/ \E a \in AlertsOf(alert.sid) : alerts' = [alerts EXCEPT ![a] = alert]
    BY DEF UpsertAlert
  <1> HIDE DEF alert, Type
  <1>8. CASE AlertsOf(alert.sid) = {} /\ alerts' = Append(alerts, alert)
    <2>1. /\ alerts' \in Seq(Type) /\ Len(alerts') = Len(alerts) + 1
          /\ \A a \in 1 .. Len(alerts) : alerts'[a] = alerts[a]
          /\ alerts'[Len(alerts) + 1] = alert
      BY <1>3, <1>6, <1>8, AppendProperties
    <2>2. \A a \in 1 .. Len(alerts) : alerts[a].sid # alert.sid
      BY <1>8 DEF AlertsOf
    <2>3. \A a \in 1 .. Len(alerts') :
             a \in 1 .. Len(alerts) \/ a = Len(alerts) + 1
      BY <1>6, <2>1
    <2>4. AlertsHaveRows'
      BY <1>3, <1>5, <2>1, <2>3 DEF IInv, AlertsHaveRows, Rows
    <2>5. AlertsAreJustified'
      BY <1>4, <1>5, <2>1, <2>2, <2>3 DEF IInv, AlertsAreJustified
    <2> QED BY <1>5, <2>1, <2>4, <2>5 DEF Type
  <1>9. CASE \E a \in AlertsOf(alert.sid) : alerts' = [alerts EXCEPT ![a] = alert]
    <2>1. PICK b \in AlertsOf(alert.sid) : alerts' = [alerts EXCEPT ![b] = alert]
      BY <1>9
    <2>2. b \in 1 .. Len(alerts) /\ alerts[b].sid = alert.sid
      BY DEF AlertsOf
    <2>3. /\ alerts' \in Seq(Type) /\ Len(alerts') = Len(alerts)
          /\ \A a \in 1 .. Len(alerts) : alerts'[a] = IF a = b THEN alert ELSE alerts[a]
      BY <1>3, <1>6, <2>1, <2>2, ExceptSeq
    <2>4. AlertsHaveRows'
      BY <1>3, <1>5, <2>3 DEF IInv, AlertsHaveRows, Rows
    <2>5. AlertsAreJustified'
      BY <1>4, <1>5, <2>2, <2>3 DEF IInv, AlertsAreJustified
    <2> QED BY <1>5, <2>3, <2>4, <2>5 DEF Type
  <1> QED BY <1>7, <1>8, <1>9

(* The statements on other tables. *)
LEMMA LinkEventDoes ==
    ASSUME IInv, pc = "link", LinkEvent
    PROVE  links' \in [EventIds -> Nat] /\ UNCHANGED <<sessions, alerts, hits>>
  <1>1. open[K].sid \in Nat
    BY SessionInHand DEF Statements, SessionState
  <1> QED BY <1>1 DEF IInv, TypeOK, LinkEvent

LEMMA CountHitDoes ==
    ASSUME IInv, CountHit
    PROVE  hits' \in [RuleIds -> Nat] /\ UNCHANGED <<sessions, alerts, links>>
  <1>1. hits \in [RuleIds -> Nat]
    BY DEF IInv, TypeOK
  <1>2. hits' = [r \in RuleIds |-> IF r = Rule THEN hits[r] + 1 ELSE hits[r]]
    BY <1>1 DEF CountHit
  <1>3. \A r \in RuleIds : hits[r] \in Nat /\ hits[r] + 1 \in Nat
    BY <1>1
  <1> QED BY <1>2, <1>3 DEF CountHit

(* Whatever statement runs, and whatever becomes of the process in it, the   *)
(* tables stay as the invariant says.                                        *)
LEMMA StatementKeeps ==
    ASSUME IInv, pc \in Statements, conn, Statement
    PROVE  /\ sessions' \in Seq(SessionRow)
           /\ alerts' \in Seq([sid : Nat \ {0}, triggered : SUBSET RuleIds])
           /\ hits' \in [RuleIds -> Nat] /\ links' \in [EventIds -> Nat]
           /\ CountedOnce' /\ AlertsHaveRows' /\ AlertsAreJustified'
  <1>1. TypeOK /\ todo # {}
    BY DEF IInv, InHand
  <1> DEFINE Alert == [sid : Nat \ {0}, triggered : SUBSET RuleIds]
  <1>2. /\ sessions \in Seq(SessionRow) /\ alerts \in Seq(Alert)
        /\ hits \in [RuleIds -> Nat] /\ links \in [EventIds -> Nat]
    BY <1>1 DEF TypeOK
  <1> HIDE DEF Alert
  <1>3. CASE pc = "close"
    <2>1. CloseRow(open[K].sid)
      BY <1>3 DEF Statement
    <2> QED BY <1>1, <1>2, <2>1, CloseRowDoes, CloseRowKeeps DEF Alert
  <1>4. CASE pc = "open"
    <2>1. InsertRow
      BY <1>4 DEF Statement
    <2> QED BY <1>1, <1>2, <2>1, InsertRowDoes, InsertRowKeeps DEF Alert
  <1>5. CASE pc = "update"
    <2>1. UpdateRow
      BY <1>5 DEF Statement
    <2> QED BY <1>2, <1>5, <2>1, UpdateRowDoes, UpdateRowKeeps DEF Alert
  <1>6. ASSUME UNCHANGED <<sessions, alerts>>
        PROVE  CountedOnce' /\ AlertsHaveRows' /\ AlertsAreJustified'
    BY <1>6 DEF IInv, CountedOnce, AlertsHaveRows, AlertsAreJustified, Rows
  <1>7. CASE pc = "link"
    <2>1. LinkEvent
      BY <1>7 DEF Statement
    <2> QED BY <1>2, <1>6, <1>7, <2>1, LinkEventDoes DEF Alert
  <1>8. CASE pc = "hit"
    <2>1. CountHit
      BY <1>8 DEF Statement
    <2> QED BY <1>2, <1>6, <2>1, CountHitDoes DEF Alert
  <1>9. CASE pc = "alert"
    <2>1. UpsertAlert
      BY <1>9 DEF Statement
    <2>2. CountedOnce'
      BY <1>9, <2>1, UpsertAlertDoes DEF IInv, CountedOnce, Rows
    <2> QED BY <1>2, <1>9, <2>1, <2>2, UpsertAlertDoes DEF Alert
  <1> QED BY <1>3, <1>4, <1>5, <1>7, <1>8, <1>9 DEF Statements

-----------------------------------------------------------------------------
(* The entry in hand is done with: on to the next one. *)
LEMMA DoneStep ==
    ASSUME IInv, todo # {}, NextEntry, UNCHANGED <<open, sessions, alerts, conn>>,
           hits' \in [RuleIds -> Nat], links' \in [EventIds -> Nat],
           faults' \in 0 .. MaxFaults,
           UNCHANGED <<now, group, cursor, batch, sweeping>>
    PROVE  IInv'
  <1>1. TypeOK'
    BY DEF IInv, TypeOK, NextEntry, group, Ids
  <1> QED BY <1>1, LoopStep DEF NextEntry

(* The event joins the session of its key, whose row there is already. *)
LEMMA JoinStep ==
    ASSUME IInv, pc = "next", todo # {}, IsOpen(K), E.id \notin Seen(open[K]),
           open' = [open EXCEPT ![K] = Joined(@, E)], pc' = "update",
           UNCHANGED <<now, group, cursor, batch, todo, fresh, sweeping, conn, db, faults>>
    PROVE  IInv'
  <1> DEFINE s == open[K]
             t == Joined(s, E)
  <1>1. /\ K \in Keys /\ E \in Event /\ s \in SessionState
        /\ E' = E /\ K' = K
    BY EntryInHand, EntryStays DEF IInv, TypeOK, IsOpen, group
  <1>2. /\ t \in SessionState /\ t # None /\ t.sid = s.sid /\ t.started = s.started
        /\ t.triggered = s.triggered /\ s.last <= t.last
        /\ t.events = Append(s.events, E)
    BY <1>1, JoinedSession
  <1>3. /\ open' = [open EXCEPT ![K] = t]
        /\ open \in [Keys -> SessionState \cup {None}]
    BY DEF IInv, TypeOK
  <1> HIDE DEF t
  <1>4. /\ open'[K] = t /\ \A k \in Keys : k # K => open'[k] = open[k]
        /\ open' \in [Keys -> SessionState \cup {None}]
    BY <1>1, <1>2, <1>3
  <1>5. s.events \in Seq(Event) /\ t.events \in Seq(Event)
    BY <1>1, <1>2 DEF SessionState
  <1>6. /\ Len(s.events) \in Nat /\ Len(t.events) = Len(s.events) + 1
        /\ DOMAIN s.events = 1 .. Len(s.events)
        /\ DOMAIN t.events = 1 .. Len(t.events)
        /\ \A n \in 1 .. Len(s.events) : t.events[n] = s.events[n]
        /\ t.events[Len(s.events) + 1] = E
    BY <1>1, <1>2, <1>5, AppendProperties, LenProperties
  <1>7. TypeOK'
    BY <1>4 DEF IInv, TypeOK, group, db, Ids, Statements
  <1>8. /\ sessions' = sessions /\ alerts' = alerts /\ conn' = conn
        /\ todo' = todo
    BY DEF db
  <1>9. InHand'
    BY <1>1, <1>2, <1>4, <1>8 DEF InHand, IsOpen
  <1>10. HandedOver'
    BY <1>1, <1>4, <1>6 DEF HandedOver
  <1>11. Forgotten' /\ RowCaughtUp' /\ WorthAnAlert'
    BY DEF Forgotten, RowCaughtUp, WorthAnAlert
  <1>12. SeenOnce'
    <2>1. \A m, n \in DOMAIN t.events : t.events[m].id = t.events[n].id => m = n
      <3>1. \A n \in 1 .. Len(s.events) : s.events[n].id # E.id
        BY <1>6 DEF Seen
      <3>2. \A m, n \in 1 .. Len(s.events) : s.events[m].id = s.events[n].id => m = n
        BY <1>1, <1>6 DEF IInv, SeenOnce
      <3>3. \A n \in DOMAIN t.events : n \in 1 .. Len(s.events) \/ n = Len(s.events) + 1
        BY <1>6
      <3> QED BY <1>6, <3>1, <3>2, <3>3
    <2> QED BY <1>1, <1>4, <2>1 DEF IInv, SeenOnce, IsOpen
  <1>13. CountedOnce' /\ AlertsHaveRows' /\ AlertsAreJustified'
    BY <1>8 DEF IInv, CountedOnce, AlertsHaveRows, AlertsAreJustified, Rows
  <1>14. MemoryHasItsRow'
    <2> SUFFICES ASSUME conn, NEW k \in Keys, open'[k] # None
                 PROVE  /\ open'[k].sid \in Rows
                        /\ LET row == sessions[open'[k].sid] IN
                             /\ ~row.closed
                             /\ row.key = k
                             /\ row.started = open'[k].started
                             /\ row.ended <= open'[k].last
                             /\ Len(row.of) <= Len(open'[k].events)
                             /\ \A n \in DOMAIN row.of : row.of[n] = open'[k].events[n]
      BY <1>8 DEF MemoryHasItsRow, IsOpen, Rows
    <2>1. CASE k # K
      BY <1>4, <2>1 DEF IInv, MemoryHasItsRow, IsOpen
    <2>2. CASE k = K
      <3> DEFINE row == sessions[s.sid]
      <3>1. /\ s.sid \in Rows
            /\ ~row.closed /\ row.key = K /\ row.started = s.started
            /\ row.ended <= s.last
            /\ Len(row.of) <= Len(s.events)
            /\ \A n \in DOMAIN row.of : row.of[n] = s.events[n]
        BY <1>1 DEF IInv, MemoryHasItsRow
      <3>2. row \in SessionRow
        BY <3>1, ElementOfSeq DEF IInv, TypeOK, Rows
      <3>3. DOMAIN row.of = 1 .. Len(row.of) /\ Len(row.of) \in Nat
        BY <3>2, LenProperties DEF SessionRow
      <3>4. \A n \in DOMAIN row.of : row.of[n] = t.events[n]
        BY <1>6, <3>1, <3>3
      <3>5. row.ended \in Int /\ s.last \in Int /\ t.last \in Int
        BY <1>1, <1>2, <3>2, SessioniserAssumption
           DEF SessionRow, SessionState, SessioniserAssumption
      <3>6. row.ended <= t.last
        BY <1>2, <3>1, <3>5
      <3>7. Len(row.of) <= Len(t.events)
        BY <1>6, <3>1, <3>3
      <3> QED BY <1>2, <1>4, <2>2, <3>1, <3>4, <3>6, <3>7
    <2> QED BY <2>1, <2>2
  <1>15. TriggeredHasEvidence'
    <2>1. Evidence(s.events) \subseteq Evidence(t.events)
      <3>1. /\ Len(s.events) <= Len(t.events)
            /\ \A n \in DOMAIN s.events : s.events[n] = t.events[n]
        BY <1>6
      <3> QED BY <1>5, <3>1, EvidenceGrows
    <2>2. t.triggered \subseteq Evidence(t.events)
      BY <1>1, <1>2, <2>1 DEF IInv, TriggeredHasEvidence
    <2> QED BY <1>1, <1>4, <2>2 DEF IInv, TriggeredHasEvidence, IsOpen
  <1> QED BY <1>7, <1>9, <1>10, <1>11, <1>12, <1>13, <1>14, <1>15 DEF IInv

(* An entry that calls for the end or the beginning of a session. *)
LEMMA TurnStep ==
    ASSUME IInv, pc = "next", todo # {}, pc' \in {"open", "close"},
           pc' = "close" => IsOpen(K),
           UNCHANGED <<now, group, cursor, batch, todo, fresh, sweeping, open, conn, db, faults>>
    PROVE  IInv'
  <1>1. E' = E /\ K' = K
    BY EntryStays DEF IInv, group
  <1>2. TypeOK'
    BY DEF IInv, TypeOK, group, db, Ids, Statements
  <1>3. InHand' /\ Forgotten' /\ HandedOver' /\ RowCaughtUp' /\ WorthAnAlert'
    BY <1>1 DEF InHand, Forgotten, HandedOver, RowCaughtUp, WorthAnAlert, IsOpen
  <1>4. SeenOnce' /\ CountedOnce' /\ AlertsHaveRows' /\ AlertsAreJustified'
    BY DEF IInv, SeenOnce, CountedOnce, AlertsHaveRows, AlertsAreJustified, IsOpen, Rows, db
  <1>5. MemoryHasItsRow' /\ TriggeredHasEvidence'
    BY DEF IInv, MemoryHasItsRow, TriggeredHasEvidence, IsOpen, Rows, db
  <1> QED BY <1>2, <1>3, <1>4, <1>5 DEF IInv

LEMMA TakeStep == ASSUME IInv, Take PROVE IInv'
  <1>1. /\ pc = "next" /\ todo # {}
        /\ UNCHANGED <<now, group, cursor, batch, sweeping, conn, db, faults>>
    BY DEF Take
  <1>2. CASE /\ IsOpen(K) /\ pc' \in {"close"}
             /\ UNCHANGED <<open, todo, fresh>>
    BY <1>1, <1>2, TurnStep
  <1>3. CASE /\ pc' = "open"
             /\ UNCHANGED <<open, todo, fresh>>
    BY <1>1, <1>3, TurnStep
  <1>4. CASE /\ IsOpen(K) /\ E.id \notin Seen(open[K])
             /\ open' = [open EXCEPT ![K] = Joined(@, E)]
             /\ pc' = "update"
             /\ UNCHANGED <<todo, fresh>>
    BY <1>1, <1>4, JoinStep
  <1>5. CASE NextEntry /\ UNCHANGED open
    BY <1>1, <1>5, DoneStep DEF IInv, TypeOK, db
  <1> QED BY <1>2, <1>3, <1>4, <1>5 DEF Take

-----------------------------------------------------------------------------
(* Closing the row of a session and forgetting it leaves the others as they  *)
(* are: no two sessions share a row.                                         *)
LEMMA CloseForgets ==
    ASSUME IInv, conn, NEW k \in Keys, CloseRow(open[k].sid),
           open' = [open EXCEPT ![k] = None]
    PROVE  /\ sessions' \in Seq(SessionRow)
           /\ open' \in [Keys -> SessionState \cup {None}]
           /\ SeenOnce' /\ CountedOnce' /\ MemoryHasItsRow'
           /\ AlertsHaveRows' /\ AlertsAreJustified'
           /\ \A j \in Keys : IsOpen(j)' => IsOpen(j) /\ open'[j] = open[j]
           /\ UNCHANGED <<alerts, hits, links>>
  <1> DEFINE sid == open[k].sid
  <1>1. /\ sessions' \in Seq(SessionRow)
        /\ Rows' = Rows
        /\ \A s \in Rows : s # sid => sessions'[s] = sessions[s]
        /\ UNCHANGED <<alerts, hits, links>>
    BY CloseRowDoes DEF IInv, Rows
  <1>2. /\ open' \in [Keys -> SessionState \cup {None}]
        /\ \A j \in Keys : open'[j] = IF j = k THEN None ELSE open[j]
    BY DEF IInv, TypeOK
  <1>3. \A j \in Keys : IsOpen(j)' => IsOpen(j) /\ j # k /\ open'[j] = open[j]
    BY <1>2 DEF IsOpen
  <1>4. \A j \in Keys : IsOpen(j) /\ j # k => open[j].sid # sid
    <2> SUFFICES ASSUME NEW j \in Keys, IsOpen(j), j # k, open[j].sid = sid
                 PROVE  FALSE
      OBVIOUS
    <2>1. open[j].sid \in Rows /\ sessions[open[j].sid].key = j
      BY DEF IInv, MemoryHasItsRow
    <2>2. CASE IsOpen(k)
      BY <2>1, <2>2 DEF IInv, MemoryHasItsRow
    <2>3. CASE ~IsOpen(k)
      <3>1. sid = 0
        BY <2>3 DEF IsOpen, None
      <3> QED BY <2>1, <3>1 DEF Rows
    <2> QED BY <2>2, <2>3
  <1>5. SeenOnce'
    BY <1>3 DEF IInv, SeenOnce
  <1>6. MemoryHasItsRow'
    <2> SUFFICES ASSUME NEW j \in Keys, IsOpen(j)'
                 PROVE  /\ open'[j].sid \in Rows
                        /\ LET row == sessions'[open'[j].sid] IN
                             /\ ~row.closed
                             /\ row.key = j
                             /\ row.started = open'[j].started
                             /\ row.ended <= open'[j].last
                             /\ Len(row.of) <= Len(open'[j].events)
                             /\ \A n \in DOMAIN row.of : row.of[n] = open'[j].events[n]
      BY <1>1 DEF MemoryHasItsRow
    <2>1. IsOpen(j) /\ open'[j] = open[j] /\ open[j].sid # sid
      BY <1>3, <1>4
    <2>2. open[j].sid \in Rows /\ sessions'[open[j].sid] = sessions[open[j].sid]
      BY <1>1, <2>1 DEF IInv, MemoryHasItsRow
    <2> QED BY <2>1, <2>2 DEF IInv, MemoryHasItsRow
  <1>7. CountedOnce' /\ AlertsHaveRows' /\ AlertsAreJustified'
    BY CloseRowKeeps
  <1> QED BY <1>1, <1>2, <1>3, <1>5, <1>6, <1>7

LEMMA ClosedStep ==
    ASSUME IInv, conn, CloseRow(open[K].sid), Closed, UNCHANGED <<conn, faults>>,
           UNCHANGED <<now, group, cursor, batch, sweeping>>
    PROVE  IInv'
  <1>1. /\ K \in Keys /\ todo # {} /\ pc' = "open" /\ todo' = todo /\ fresh' = fresh
        /\ open' = [open EXCEPT ![K] = None]
    BY SessionInHand DEF Closed, Statements
  <1>2. /\ sessions' \in Seq(SessionRow)
        /\ open' \in [Keys -> SessionState \cup {None}]
        /\ SeenOnce' /\ CountedOnce' /\ MemoryHasItsRow'
        /\ AlertsHaveRows' /\ AlertsAreJustified'
        /\ \A j \in Keys : IsOpen(j)' => IsOpen(j) /\ open'[j] = open[j]
        /\ UNCHANGED <<alerts, hits, links>>
    BY <1>1, CloseForgets
  <1>3. TypeOK'
    BY <1>1, <1>2 DEF IInv, TypeOK, group, Ids, Statements
  <1>4. InHand' /\ Forgotten' /\ HandedOver' /\ RowCaughtUp' /\ WorthAnAlert'
    BY <1>1 DEF InHand, Forgotten, HandedOver, RowCaughtUp, WorthAnAlert
  <1>5. TriggeredHasEvidence'
    BY <1>1, <1>2 DEF IInv, TriggeredHasEvidence
  <1> QED BY <1>2, <1>3, <1>4, <1>5 DEF IInv

LEMMA SweepOneStep == ASSUME IInv, SweepOne PROVE IInv'
  <1>1. PICK k \in sweeping :
           /\ conn /\ CloseRow(open[k].sid) /\ UNCHANGED <<conn, faults>>
           /\ open' = [open EXCEPT ![k] = None]
           /\ sweeping' = sweeping \ {k}
           /\ pc' \in {"idle", "sweep"}
    BY DEF SweepOne, Returns
  <1>2. k \in Keys /\ UNCHANGED <<now, group, cursor, batch, todo, fresh>>
    BY DEF IInv, TypeOK, SweepOne
  <1>3. /\ sessions' \in Seq(SessionRow)
        /\ open' \in [Keys -> SessionState \cup {None}]
        /\ SeenOnce' /\ CountedOnce' /\ MemoryHasItsRow'
        /\ AlertsHaveRows' /\ AlertsAreJustified'
        /\ \A j \in Keys : IsOpen(j)' => IsOpen(j) /\ open'[j] = open[j]
        /\ UNCHANGED <<alerts, hits, links>>
    BY <1>1, <1>2, CloseForgets
  <1>4. TypeOK'
    BY <1>1, <1>2, <1>3 DEF IInv, TypeOK, group, Ids
  <1>5. InHand' /\ Forgotten' /\ HandedOver' /\ RowCaughtUp' /\ WorthAnAlert'
    BY <1>1 DEF InHand, Forgotten, HandedOver, RowCaughtUp, WorthAnAlert, Statements
  <1>6. TriggeredHasEvidence'
    BY <1>1, <1>3 DEF IInv, TriggeredHasEvidence
  <1> QED BY <1>3, <1>4, <1>5, <1>6 DEF IInv

LEMMA SweepFailsStep == ASSUME IInv, SweepFails PROVE IInv'
  <1>1. PICK k \in sweeping : Raises(CloseRow(open[k].sid))
    BY DEF SweepFails
  <1>2. /\ sweeping' = {} /\ pc' = "idle"
        /\ UNCHANGED <<now, group, cursor, batch, todo, fresh, open>>
    BY DEF SweepFails
  <1>3. faults' \in 0 .. MaxFaults /\ (conn' = conn \/ conn' = FALSE)
    BY <1>1, FaultCounts DEF IInv, TypeOK, Raises
  <1>4. CASE UNCHANGED db
    <2>1. TypeOK'
      BY <1>2, <1>3, <1>4 DEF IInv, TypeOK, group, db, Ids
    <2> QED BY <1>2, <1>3, <1>4, <2>1, LoopStep DEF db
  <1>5. CASE CloseRow(open[k].sid) /\ conn' = FALSE
    <2>1. /\ sessions' \in Seq(SessionRow)
          /\ CountedOnce' /\ AlertsHaveRows' /\ AlertsAreJustified'
          /\ UNCHANGED <<alerts, hits, links>>
      BY <1>5, CloseRowDoes, CloseRowKeeps DEF IInv
    <2>2. TypeOK'
      BY <1>2, <1>3, <2>1 DEF IInv, TypeOK, group, Ids
    <2>3. InHand' /\ Forgotten' /\ HandedOver' /\ RowCaughtUp' /\ WorthAnAlert'
      BY <1>2 DEF InHand, Forgotten, HandedOver, RowCaughtUp, WorthAnAlert, Statements
    <2>4. SeenOnce' /\ MemoryHasItsRow' /\ TriggeredHasEvidence'
      BY <1>2, <1>5 DEF IInv, SeenOnce, MemoryHasItsRow, TriggeredHasEvidence, IsOpen
    <2> QED BY <2>1, <2>2, <2>3, <2>4 DEF IInv
  <1> QED BY <1>1, <1>4, <1>5 DEF Raises

(* A new session has the row that was inserted for it. *)
LEMMA OpenedStep ==
    ASSUME IInv, conn, InsertRow, Opened, UNCHANGED <<conn, faults>>,
           UNCHANGED <<now, group, cursor, batch, sweeping>>
    PROVE  IInv'
  <1> USE SessioniserAssumption DEF SessioniserAssumption
  <1> DEFINE s == NewSession(Len(sessions) + 1, E)
             t == Joined(s, E)
  <1>1. /\ pc = "open" /\ todo # {} /\ pc' = "update" /\ todo' = todo /\ fresh' = fresh
        /\ open' = [open EXCEPT ![K] = t]
    BY DEF Opened, IInv, InHand, Statements
  <1>2. K \in Keys /\ E \in Event /\ E' = E /\ K' = K
    BY <1>1, EntryInHand, EntryStays DEF IInv, group
  <1>3. /\ sessions' \in Seq(SessionRow)
        /\ Len(sessions) \in Nat /\ Len(sessions') = Len(sessions) + 1
        /\ \A r \in Rows : sessions'[r] = sessions[r]
        /\ sessions'[Len(sessions) + 1] =
              [key |-> K, started |-> E.ts, ended |-> E.ts, of |-> <<>>, closed |-> FALSE]
        /\ UNCHANGED <<alerts, hits, links>>
    BY <1>1, InsertRowDoes DEF IInv
  <1>4. /\ s \in SessionState
        /\ s.sid = Len(sessions) + 1 /\ s.started = E.ts /\ s.last = E.ts
        /\ s.events = <<>> /\ s.triggered = {}
    BY <1>2, <1>3, EmptySeq DEF NewSession, SessionState, Event
  <1>5. /\ t \in SessionState /\ t # None
        /\ t.sid = Len(sessions) + 1 /\ t.started = E.ts /\ t.triggered = {}
        /\ E.ts <= t.last /\ t.events = Append(<<>>, E)
    BY <1>2, <1>4, JoinedSession
  <1>6. DOMAIN t.events = {1} /\ t.events[1] = E /\ Len(t.events) = 1
    <2>1. <<>> \in Seq(Event) /\ Len(<<>>) = 0
      BY EmptySeq
    <2>2. /\ Append(<<>>, E) \in Seq(Event) /\ Len(Append(<<>>, E)) = 0 + 1
          /\ Append(<<>>, E)[0 + 1] = E
      BY <1>2, <2>1, AppendProperties
    <2> HIDE DEF s, t
    <2>3. /\ t.events \in Seq(Event) /\ Len(t.events) = 1 /\ t.events[1] = E
      BY <1>5, <2>2
    <2>4. DOMAIN t.events = 1 .. 1
      BY <2>3, LenProperties
    <2> QED BY <2>3, <2>4
  <1> HIDE DEF s, t
  <1>7. /\ open'[K] = t /\ \A k \in Keys : k # K => open'[k] = open[k]
        /\ open' \in [Keys -> SessionState \cup {None}]
    BY <1>1, <1>2, <1>5 DEF IInv, TypeOK
  <1>8. TypeOK'
    BY <1>1, <1>3, <1>7 DEF IInv, TypeOK, group, Ids, Statements
  <1>9. InHand' /\ HandedOver'
    BY <1>1, <1>2, <1>5, <1>6, <1>7 DEF InHand, HandedOver, IsOpen
  <1>10. Forgotten' /\ RowCaughtUp' /\ WorthAnAlert'
    BY <1>1 DEF Forgotten, RowCaughtUp, WorthAnAlert
  <1>11. SeenOnce'
    <2>1. \A m, n \in DOMAIN t.events : t.events[m].id = t.events[n].id => m = n
      BY <1>6
    <2> QED BY <1>2, <1>7, <2>1 DEF IInv, SeenOnce, IsOpen
  <1>12. CountedOnce' /\ AlertsHaveRows' /\ AlertsAreJustified'
    BY <1>1, InsertRowKeeps
  <1>13. MemoryHasItsRow'
    <2> SUFFICES ASSUME NEW k \in Keys, open'[k] # None
                 PROVE  /\ open'[k].sid \in Rows'
                        /\ LET row == sessions'[open'[k].sid] IN
                             /\ ~row.closed
                             /\ row.key = k
                             /\ row.started = open'[k].started
                             /\ row.ended <= open'[k].last
                             /\ Len(row.of) <= Len(open'[k].events)
                             /\ \A n \in DOMAIN row.of : row.of[n] = open'[k].events[n]
      BY DEF MemoryHasItsRow, IsOpen
    <2>1. CASE k # K
      <3>1. open'[k] = open[k] /\ IsOpen(k)
        BY <1>7, <2>1 DEF IsOpen
      <3>2. open[k].sid \in Rows /\ open[k].sid \in Rows'
        BY <1>3, <3>1 DEF IInv, MemoryHasItsRow, Rows
      <3> QED BY <1>3, <3>1, <3>2 DEF IInv, MemoryHasItsRow
    <2>2. CASE k = K
      <3> DEFINE row == sessions'[Len(sessions) + 1]
      <3>1. /\ ~row.closed /\ row.key = K /\ row.started = E.ts
            /\ row.ended = E.ts /\ row.of = <<>>
        BY <1>3
      <3>2. Len(sessions) + 1 \in Rows'
        BY <1>3 DEF Rows
      <3>3. Len(<<>>) = 0 /\ DOMAIN <<>> = {}
        BY EmptySeq
      <3> HIDE DEF row
      <3>4. /\ row.started = t.started /\ row.ended <= t.last
            /\ Len(row.of) <= Len(t.events)
            /\ \A n \in DOMAIN row.of : row.of[n] = t.events[n]
        BY <1>5, <1>6, <3>1, <3>3
      <3> QED BY <1>5, <1>7, <2>2, <3>1, <3>2, <3>4 DEF row
    <2> QED BY <2>1, <2>2
  <1>14. TriggeredHasEvidence'
    BY <1>1, <1>2, <1>5, <1>7 DEF IInv, TriggeredHasEvidence, IsOpen
  <1> QED BY <1>8, <1>9, <1>10, <1>11, <1>12, <1>13, <1>14 DEF IInv

(* The row has caught up with the session. *)
LEMMA UpdatedStep ==
    ASSUME IInv, conn, UpdateRow, Updated, UNCHANGED <<conn, faults>>,
           UNCHANGED <<now, group, cursor, batch, sweeping>>
    PROVE  IInv'
  <1> DEFINE sid == open[K].sid
  <1>1. /\ pc = "update" /\ pc' = "link" /\ todo' = todo /\ fresh' = fresh /\ open' = open
    BY DEF Updated
  <1>2. /\ todo # {} /\ K \in Keys /\ IsOpen(K) /\ open[K] \in SessionState /\ sid \in Rows
        /\ E' = E /\ K' = K
    BY <1>1, SessionInHand, EntryStays DEF IInv, group, Statements
  <1>3. /\ sessions' \in Seq(SessionRow)
        /\ Rows' = Rows
        /\ \A s \in Rows : s # sid => sessions'[s] = sessions[s]
        /\ LET row == sessions'[sid]
               old == sessions[sid]
           IN  /\ row.key = old.key /\ row.started = old.started
               /\ row.closed = old.closed
               /\ row.ended = open[K].last /\ row.of = open[K].events
        /\ UNCHANGED <<alerts, hits, links>>
    BY <1>1, UpdateRowDoes DEF Rows
  <1> HIDE DEF sid
  <1>4. TypeOK'
    BY <1>1, <1>3 DEF IInv, TypeOK, group, Ids, Statements
  <1>5. InHand' /\ HandedOver'
    BY <1>1, <1>2 DEF IInv, InHand, HandedOver, IsOpen
  <1>6. RowCaughtUp'
    BY <1>1, <1>2, <1>3 DEF RowCaughtUp, sid
  <1>7. Forgotten' /\ WorthAnAlert' /\ SeenOnce' /\ TriggeredHasEvidence'
    BY <1>1 DEF IInv, Forgotten, WorthAnAlert, SeenOnce, TriggeredHasEvidence, IsOpen
  <1>8. CountedOnce' /\ AlertsHaveRows' /\ AlertsAreJustified'
    BY <1>1, UpdateRowKeeps
  <1>9. MemoryHasItsRow'
    <2> SUFFICES ASSUME NEW k \in Keys, IsOpen(k)
                 PROVE  /\ open[k].sid \in Rows
                        /\ LET row == sessions'[open[k].sid] IN
                             /\ ~row.closed
                             /\ row.key = k
                             /\ row.started = open[k].started
                             /\ row.ended <= open[k].last
                             /\ Len(row.of) <= Len(open[k].events)
                             /\ \A n \in DOMAIN row.of : row.of[n] = open[k].events[n]
      BY <1>1, <1>3 DEF MemoryHasItsRow, IsOpen
    <2>1. CASE open[k].sid # sid
      BY <1>3, <2>1 DEF IInv, MemoryHasItsRow
    <2>2. CASE open[k].sid = sid
      <3>1. /\ sessions[sid].key = k /\ sessions[sid].key = K
            /\ ~sessions[sid].closed /\ sessions[sid].started = open[k].started
        BY <1>2, <2>2 DEF IInv, MemoryHasItsRow, sid
      <3>2. /\ ~sessions'[sid].closed /\ sessions'[sid].key = k
            /\ sessions'[sid].started = open[k].started
            /\ sessions'[sid].ended = open[k].last
            /\ sessions'[sid].of = open[k].events
        BY <1>3, <3>1
      <3>3. open[k].last \in Int /\ Len(open[k].events) \in Int
        BY <1>2, <3>1, LenProperties, SessioniserAssumption
           DEF SessionState, SessioniserAssumption
      <3> QED BY <1>2, <2>2, <3>2, <3>3
    <2> QED BY <2>1, <2>2
  <1> QED BY <1>4, <1>5, <1>6, <1>7, <1>8, <1>9 DEF IInv

(* A rule with evidence is triggered, or several are found. *)
LEMMA TriggerStep ==
    ASSUME IInv, pc \in {"link", "hit"}, NEW rules \in SUBSET Evidence(open[K].events),
           Trigger(rules), UNCHANGED <<sessions, alerts, conn, faults>>,
           hits' \in [RuleIds -> Nat], links' \in [EventIds -> Nat],
           UNCHANGED <<now, group, cursor, batch, sweeping>>
    PROVE  IInv'
  <1> DEFINE s == open[K]
             first == {r \in rules : \A q \in rules : r <= q}
             t == [s EXCEPT !.triggered = @ \cup first]
  <1>1. /\ todo # {} /\ K \in Keys /\ IsOpen(K) /\ s \in SessionState
        /\ E' = E /\ K' = K /\ todo' = todo /\ pc' = "hit" /\ fresh' = rules
        /\ open' = [open EXCEPT ![K] = t]
    BY SessionInHand, EntryStays DEF IInv, Trigger, group, Statements
  <1>2. rules \subseteq RuleIds /\ first \subseteq rules
    BY DEF Evidence
  <1> HIDE DEF first
  <1>3. /\ t \in SessionState /\ t.sid = s.sid /\ t.started = s.started /\ t.last = s.last
        /\ t.events = s.events /\ t.triggered = s.triggered \cup first
    BY <1>1, <1>2 DEF SessionState
  <1>4. t # None
    <2>1. t.sid # 0 /\ None.sid = 0
      BY <1>3 DEF SessionState, None
    <2> QED BY <2>1
  <1> HIDE DEF t
  <1>5. /\ open'[K] = t /\ \A k \in Keys : k # K => open'[k] = open[k]
        /\ open' \in [Keys -> SessionState \cup {None}]
    BY <1>1, <1>3 DEF IInv, TypeOK
  <1>6. \A k \in Keys :
           /\ IsOpen(k)' <=> IsOpen(k)
           /\ open'[k].sid = open[k].sid /\ open'[k].events = open[k].events
           /\ IsOpen(k) => /\ open'[k].started = open[k].started
                           /\ open'[k].last = open[k].last
    BY <1>1, <1>3, <1>4, <1>5 DEF IsOpen
  <1>7. TypeOK'
    BY <1>1, <1>2, <1>5 DEF IInv, TypeOK, group, Ids, Statements
  <1>8. InHand' /\ HandedOver' /\ RowCaughtUp'
    BY <1>1, <1>6 DEF IInv, InHand, HandedOver, RowCaughtUp, Statements
  <1>9. Forgotten' /\ WorthAnAlert'
    BY <1>1 DEF Forgotten, WorthAnAlert
  <1>10. SeenOnce'
    BY <1>6 DEF IInv, SeenOnce
  <1>11. CountedOnce' /\ AlertsHaveRows' /\ AlertsAreJustified'
    <2>1. CountedOnce'
      BY DEF IInv, CountedOnce, Rows
    <2>2. AlertsHaveRows'
      BY DEF IInv, AlertsHaveRows, Rows
    <2>3. AlertsAreJustified'
      BY DEF IInv, AlertsAreJustified, Rows
    <2> QED BY <2>1, <2>2, <2>3
  <1>12. MemoryHasItsRow'
    BY <1>6 DEF IInv, MemoryHasItsRow, Rows
  <1>13. TriggeredHasEvidence'
    <2>1. t.triggered \subseteq Evidence(s.events)
      BY <1>1, <1>2, <1>3 DEF IInv, TriggeredHasEvidence
    <2>2. fresh' \subseteq Evidence(open'[K].events)
      BY <1>1, <1>3, <1>5
    <2> QED BY <1>1, <1>3, <1>5, <1>6, <2>1, <2>2 DEF IInv, TriggeredHasEvidence
  <1> QED BY <1>7, <1>8, <1>9, <1>10, <1>11, <1>12, <1>13 DEF IInv

(* What the event in hand matches has evidence: the event is one of the      *)
(* session's.                                                                *)
LEMMA NewMatchesHaveEvidence ==
    ASSUME IInv, pc = "link"
    PROVE  NewMatches \subseteq Evidence(open[K].events)
  <1>1. PICK n \in DOMAIN open[K].events : open[K].events[n] = E
    BY DEF IInv, HandedOver
  <1> QED BY <1>1 DEF NewMatches, Evaluate, Evidence

LEMMA LinkedStep ==
    ASSUME IInv, conn, LinkEvent, Linked, UNCHANGED <<conn, faults>>,
           UNCHANGED <<now, group, cursor, batch, sweeping>>
    PROVE  IInv'
  <1>1. /\ pc = "link" /\ todo # {} /\ faults' \in 0 .. MaxFaults
        /\ hits' \in [RuleIds -> Nat] /\ links' \in [EventIds -> Nat]
        /\ UNCHANGED <<sessions, alerts>>
    BY LinkEventDoes DEF Linked, IInv, TypeOK, InHand, Statements
  <1>2. CASE Trigger(NewMatches)
    BY <1>1, <1>2, NewMatchesHaveEvidence, TriggerStep
  <1>3. CASE NextEntry /\ UNCHANGED open
    BY <1>1, <1>3, DoneStep
  <1> QED BY <1>2, <1>3 DEF Linked

LEMMA HitCountedStep ==
    ASSUME IInv, conn, CountHit, HitCounted, UNCHANGED <<conn, faults>>,
           UNCHANGED <<now, group, cursor, batch, sweeping>>
    PROVE  IInv'
  <1>1. /\ pc = "hit" /\ todo # {} /\ faults' \in 0 .. MaxFaults
        /\ hits' \in [RuleIds -> Nat] /\ links' \in [EventIds -> Nat]
        /\ UNCHANGED <<sessions, alerts>>
    BY CountHitDoes DEF HitCounted, IInv, TypeOK, InHand, Statements
  <1>2. CASE Trigger(fresh \ {Rule})
    <2>1. fresh \ {Rule} \subseteq Evidence(open[K].events)
      BY <1>1 DEF IInv, TriggeredHasEvidence
    <2> QED BY <1>1, <1>2, <2>1, TriggerStep
  <1>3. CASE NextEntry /\ UNCHANGED open
    BY <1>1, <1>3, DoneStep
  <1>4. CASE RaisesAlert(open[K].triggered) /\ pc' = "alert" /\ fresh' = {} /\ UNCHANGED <<open, todo>>
    <2>1. E' = E /\ K' = K
      BY <1>1, <1>4, EntryStays DEF IInv, group
    <2>2. TypeOK'
      BY <1>1, <1>4 DEF IInv, TypeOK, group, Ids, Statements
    <2>3. InHand' /\ HandedOver' /\ RowCaughtUp' /\ WorthAnAlert'
      BY <1>1, <1>4, <2>1 DEF IInv, InHand, HandedOver, RowCaughtUp, WorthAnAlert,
                              Statements, IsOpen
    <2>4. Forgotten' /\ SeenOnce' /\ TriggeredHasEvidence'
      BY <1>4 DEF IInv, Forgotten, SeenOnce, TriggeredHasEvidence, IsOpen
    <2>5. /\ CountedOnce' /\ MemoryHasItsRow' /\ AlertsHaveRows' /\ AlertsAreJustified'
      BY <1>1, <1>4 DEF IInv, CountedOnce, MemoryHasItsRow, AlertsHaveRows,
                        AlertsAreJustified, IsOpen, Rows
    <2> QED BY <2>2, <2>3, <2>4, <2>5 DEF IInv
  <1> QED BY <1>2, <1>3, <1>4 DEF HitCounted

LEMMA AlertedStep ==
    ASSUME IInv, conn, UpsertAlert, Alerted, UNCHANGED <<conn, faults>>,
           UNCHANGED <<now, group, cursor, batch, sweeping>>
    PROVE  IInv'
  <1>1. /\ pc = "alert" /\ todo # {} /\ todo' = todo \ {Entry} /\ fresh' = {} /\ pc' = "next"
        /\ open' = open /\ conn' = conn
    BY DEF Alerted, NextEntry, IInv, InHand, Statements
  <1>2. /\ alerts' \in Seq([sid : Nat \ {0}, triggered : SUBSET RuleIds])
        /\ AlertsHaveRows' /\ AlertsAreJustified'
        /\ UNCHANGED <<sessions, hits, links>>
    BY <1>1, UpsertAlertDoes
  <1>3. TypeOK'
    BY <1>1, <1>2 DEF IInv, TypeOK, group, Ids
  <1>4. /\ InHand' /\ Forgotten' /\ HandedOver' /\ RowCaughtUp' /\ WorthAnAlert'
    BY <1>1 DEF InHand, Forgotten, HandedOver, RowCaughtUp, WorthAnAlert, Statements
  <1>5. SeenOnce' /\ CountedOnce' /\ MemoryHasItsRow' /\ TriggeredHasEvidence'
    BY <1>1, <1>2 DEF IInv, SeenOnce, CountedOnce, MemoryHasItsRow,
                      TriggeredHasEvidence, IsOpen, Rows
  <1> QED BY <1>2, <1>3, <1>4, <1>5 DEF IInv

LEMMA ExecuteStep == ASSUME IInv, Execute PROVE IInv'
  <1>1. /\ pc \in Statements /\ conn /\ Statement /\ UNCHANGED <<conn, faults>>
        /\ UNCHANGED <<now, group, cursor, batch, sweeping>>
    BY DEF Execute, Returns
  <1>2. CASE Closed
    BY <1>1, <1>2, ClosedStep DEF Statement, Closed
  <1>3. CASE Opened
    BY <1>1, <1>3, OpenedStep DEF Statement, Opened
  <1>4. CASE Updated
    BY <1>1, <1>4, UpdatedStep DEF Statement, Updated
  <1>5. CASE Linked
    BY <1>1, <1>5, LinkedStep DEF Statement, Linked
  <1>6. CASE HitCounted
    BY <1>1, <1>6, HitCountedStep DEF Statement, HitCounted
  <1>7. CASE Alerted
    BY <1>1, <1>7, AlertedStep DEF Statement, Alerted
  <1> QED BY <1>2, <1>3, <1>4, <1>5, <1>6, <1>7 DEF Execute

(* A statement that raises leaves the session in memory as it is; if it was  *)
(* executed all the same, the connection is gone with it.                    *)
LEMMA SkipEntryStep == ASSUME IInv, SkipEntry PROVE IInv'
  <1>1. /\ pc \in Statements /\ todo # {} /\ NextEntry /\ Raises(Statement)
        /\ UNCHANGED <<now, group, cursor, batch, sweeping, open>>
    BY DEF SkipEntry, IInv, InHand
  <1>2. faults' \in 0 .. MaxFaults /\ (conn' = conn \/ conn' = FALSE)
    BY <1>1, FaultCounts DEF IInv, TypeOK, Raises
  <1>3. CASE UNCHANGED db
    <2>1. TypeOK'
      BY <1>1, <1>2, <1>3 DEF IInv, TypeOK, NextEntry, group, db, Ids
    <2> QED BY <1>1, <1>2, <1>3, <2>1, LoopStep DEF NextEntry, db
  <1>4. CASE conn /\ Statement /\ conn' = FALSE
    <2>1. /\ sessions' \in Seq(SessionRow)
          /\ alerts' \in Seq([sid : Nat \ {0}, triggered : SUBSET RuleIds])
          /\ hits' \in [RuleIds -> Nat] /\ links' \in [EventIds -> Nat]
          /\ CountedOnce' /\ AlertsHaveRows' /\ AlertsAreJustified'
      BY <1>1, <1>4, StatementKeeps
    <2>2. pc' = "next" /\ fresh' = {} /\ todo' = todo \ {Entry} /\ open' = open
      BY <1>1 DEF NextEntry
    <2>3. TypeOK'
      BY <1>1, <1>2, <2>1, <2>2 DEF IInv, TypeOK, group, Ids
    <2>4. InHand' /\ Forgotten' /\ HandedOver' /\ RowCaughtUp' /\ WorthAnAlert'
      BY <2>2 DEF InHand, Forgotten, HandedOver, RowCaughtUp, WorthAnAlert, Statements
    <2>5. SeenOnce' /\ MemoryHasItsRow' /\ TriggeredHasEvidence'
      BY <1>4, <2>2 DEF IInv, SeenOnce, MemoryHasItsRow, TriggeredHasEvidence, IsOpen
    <2> QED BY <2>1, <2>3, <2>4, <2>5 DEF IInv
  <1> QED BY <1>1, <1>3, <1>4 DEF Raises

-----------------------------------------------------------------------------
LEMMA NextStep == IInv /\ [Next]_vars => IInv'
  <1> SUFFICES ASSUME IInv, [Next]_vars PROVE IInv'
    OBVIOUS
  <1>1. CASE Start                BY <1>1, StartStep
  <1>2. CASE ReadPending          BY <1>2, ReadPendingStep
  <1>3. CASE PendingDrained       BY <1>3, PendingDrainedStep
  <1>4. CASE ReadNew              BY <1>4, ReadNewStep
  <1>5. CASE Take                 BY <1>5, TakeStep
  <1>6. CASE Execute              BY <1>6, ExecuteStep
  <1>7. CASE Ack
    BY <1>7, AckStep DEF Ack, IInv, TypeOK
  <1>8. CASE Sweep                BY <1>8, SweepStep
  <1>9. CASE SweepOne             BY <1>9, SweepOneStep
  <1>10. CASE ReadTimeout         BY <1>10, StutterStep DEF ReadTimeout
  <1>11. CASE SkipEntry           BY <1>11, SkipEntryStep
  <1>12. CASE SweepFails          BY <1>12, SweepFailsStep
  <1>13. CASE Happen              BY <1>13, HappenStep
  <1>14. CASE Replay              BY <1>14, ReplayStep
  <1>15. CASE Tick                BY <1>15, TickStep
  <1>16. CASE ReadReplyLost       BY <1>16, ReadReplyLostStep
  <1>17. CASE AckLost
    BY <1>17, AckStep, FaultCounts DEF AckLost, IInv
  <1>18. CASE Kill                BY <1>18, KillStep
  <1>19. CASE UNCHANGED vars      BY <1>19, StutterStep
  <1> QED
    BY <1>1, <1>2, <1>3, <1>4, <1>5, <1>6, <1>7, <1>8, <1>9, <1>10, <1>11,
       <1>12, <1>13, <1>14, <1>15, <1>16, <1>17, <1>18, <1>19
       DEF Next, Process, Environment, Reads

(* The invariant that carries the properties below. *)
THEOREM Invariant == Spec => []IInv
  BY InitIInv, NextStep, PTL DEF Spec

(* Every variable keeps its type: session ids are of rows that can be, times *)
(* within the clock, and what is in hand is of the batch.                    *)
THEOREM TypeCorrect == Spec => []TypeOK
  <1>1. IInv => TypeOK
    BY DEF IInv
  <1> QED BY <1>1, Invariant, PTL

(* No row counts an event twice, however often it is delivered, replayed or  *)
(* half processed (sessioniser.py:209-211).                                  *)
THEOREM OnceEach == Spec => []CountedOnce
  <1>1. IInv => CountedOnce
    BY DEF IInv
  <1> QED BY <1>1, Invariant, PTL

(* While the connection lives, a session in memory has an open row of its    *)
(* own, which is never ahead of it (sessioniser.py:195-216).                 *)
THEOREM MemoryAgrees == Spec => []MemoryHasItsRow
  <1>1. IInv => MemoryHasItsRow
    BY DEF IInv
  <1> QED BY <1>1, Invariant, PTL

(* One alert a session, worth an alert, with evidence in the row for every   *)
(* rule it names (sessioniser.py:161-173, 226-234).                          *)
THEOREM Justified == Spec => []AlertsAreJustified
  <1>1. IInv => AlertsAreJustified
    BY DEF IInv
  <1> QED BY <1>1, Invariant, PTL

-----------------------------------------------------------------------------
(* Closing a row that is closed changes nothing. *)
LEMMA CloseRowFreezes ==
    ASSUME TypeOK, NEW sid, CloseRow(sid), NEW s \in Rows, sessions[s].closed
    PROVE  sessions'[s] = sessions[s]
  <1>1. sessions[s] \in SessionRow
    BY ElementOfSeq DEF TypeOK, Rows
  <1>2. [sessions[s] EXCEPT !.closed = TRUE] = sessions[s]
    BY <1>1 DEF SessionRow
  <1> QED BY <1>2, CloseRowDoes

(* Nor does any statement change it: the UPDATE is of a row still open.      *)
LEMMA StatementFreezes ==
    ASSUME IInv, pc \in Statements, conn, Statement,
           NEW s \in Rows, sessions[s].closed
    PROVE  sessions'[s] = sessions[s]
  <1>1. CASE pc = "close"
    BY <1>1, CloseRowFreezes DEF IInv, Statement
  <1>2. CASE pc = "open"
    BY <1>2, InsertRowDoes DEF IInv, InHand, Statement, Statements
  <1>3. CASE pc = "update"
    <2>1. K \in Keys /\ IsOpen(K)
      BY <1>3, SessionInHand DEF Statements
    <2>2. open[K].sid # s
      BY <2>1 DEF IInv, MemoryHasItsRow
    <2> QED BY <1>3, <2>2, UpdateRowDoes DEF Statement
  <1>4. CASE pc \in {"link", "hit", "alert"}
    BY <1>4 DEF Statement, LinkEvent, CountHit, UpsertAlert
  <1> QED BY <1>1, <1>2, <1>3, <1>4 DEF Statements

LEMMA StepFreezes ==
    ASSUME IInv, [Next]_vars, NEW s \in Rows, sessions[s].closed
    PROVE  sessions'[s] = sessions[s]
  <1>1. CASE Execute
    BY <1>1, StatementFreezes DEF Execute, Returns
  <1>2. CASE SkipEntry
    BY <1>2, StatementFreezes DEF SkipEntry, Raises, db
  <1>3. CASE SweepOne
    BY <1>3, CloseRowFreezes DEF SweepOne, Returns, IInv
  <1>4. CASE SweepFails
    BY <1>4, CloseRowFreezes DEF SweepFails, Raises, IInv, db
  <1>5. CASE UNCHANGED sessions
    BY <1>5
  <1> QED
    BY <1>1, <1>2, <1>3, <1>4, <1>5
       DEF Next, Process, Environment, Reads, Start, ReadPending, PendingDrained,
           ReadNew, Receive, Take, Ack, Acknowledge, AckLost, Sweep, ReadTimeout,
           Happen, Replay, Tick, ReadReplyLost, Kill, vars, db

(* A closed row is final, whatever is late, replayed or fails                *)
(* (sessioniser.py:194-196, 245-247).                                        *)
THEOREM Frozen == Spec => ClosedRowsFrozen
  <1>1. IInv /\ [Next]_vars =>
           [\A s \in Rows : sessions[s].closed => sessions'[s] = sessions[s]]_vars
    BY StepFreezes
  <1> QED BY <1>1, Invariant, PTL DEF Spec, ClosedRowsFrozen

-----------------------------------------------------------------------------
(* Where no statement fails (a kill may still come between two, and Redis    *)
(* may lose its replies), more holds.                                        *)
StatementsSucceed == FaultKinds \cap {"statement", "connection"} = {}

(* The process has a connection for as long as it runs. *)
Connected == pc # "down" => conn

(* Between statements every row is level with the memory, but for the        *)
(* session that has just been given an event.                                *)
RowsCaughtUp ==
    \A k \in Keys : IsOpen(k) =>
        \/ pc = "update" /\ k = K
        \/ sessions[open[k].sid].of = open[k].events

Counted(id) == \E s \in Rows : CountedIn(id, s)

(* What is done of the batch is counted. *)
ProcessedIsCounted == \A i \in batch \ todo : Counted(stream[i].id)

CountInv ==
    /\ Connected
    /\ RowsCaughtUp
    /\ ProcessedIsCounted
    /\ SettledIsCounted


(* The stream is only added to. *)
LEMMA StreamStays ==
    ASSUME IInv, [Next]_vars
    PROVE  \A i \in Ids : stream'[i] = stream[i]
  <1>1. CASE Happen
    <2>1. PICK k \in Keys, w \in Kinds :
             stream' = Append(stream, [id |-> Cardinality(Happened) + 1,
                                       key |-> k, ts |-> now, what |-> w])
      BY <1>1 DEF Happen
    <2>2. stream \in Seq(Event)
      BY DEF IInv, TypeOK
    <2> DEFINE e == [id |-> Cardinality(Happened) + 1, key |-> k, ts |-> now, what |-> w]
    <2>3. stream \in Seq(Event \cup {e}) /\ e \in Event \cup {e} /\ stream' = Append(stream, e)
      BY <2>1, <2>2, SeqMonotonic
    <2> HIDE DEF e
    <2> QED BY <2>3, AppendProperties DEF Ids
  <1>2. CASE Replay
    BY <1>2, AppendProperties, ElementOfSeq DEF Replay, IInv, TypeOK, Ids
  <1>3. CASE UNCHANGED stream
    BY <1>3
  <1> QED
    BY <1>1, <1>2, <1>3
       DEF Next, Process, Environment, Reads, Start, ReadPending, PendingDrained,
           ReadNew, Receive, Take, Execute, Ack, Acknowledge, AckLost, Sweep,
           ReadTimeout, SkipEntry, SweepOne, SweepFails, Tick, ReadReplyLost, Kill,
           vars, group

(* A row that is there stays, and what it counts it goes on counting. *)
LEMMA StatementGrows ==
    ASSUME IInv, pc \in Statements, conn, Statement, NEW s \in Rows
    PROVE  /\ s \in Rows'
           /\ \A n \in DOMAIN sessions[s].of :
                 /\ n \in DOMAIN sessions'[s].of
                 /\ sessions'[s].of[n] = sessions[s].of[n]
  <1>1. CASE pc = "close"
    BY <1>1, CloseRowDoes DEF IInv, Statement, Rows
  <1>2. CASE pc = "open"
    BY <1>2, InsertRowDoes DEF IInv, InHand, Statement, Statements, Rows
  <1>3. CASE pc = "update"
    <2>1. K \in Keys /\ IsOpen(K) /\ open[K].events \in Seq(Event) /\ open[K].sid \in Rows
      BY <1>3, SessionInHand DEF Statements, SessionState
    <2>2. /\ Rows' = Rows
          /\ s # open[K].sid => sessions'[s] = sessions[s]
          /\ sessions'[open[K].sid].of = open[K].events
      BY <1>3, UpdateRowDoes DEF Statement, Rows
    <2>3. CASE s = open[K].sid
      <3>1. /\ Len(sessions[s].of) <= Len(open[K].events)
            /\ \A n \in DOMAIN sessions[s].of : sessions[s].of[n] = open[K].events[n]
        BY <2>1, <2>3 DEF IInv, MemoryHasItsRow
      <3>2. sessions[s].of \in Seq(Event)
        <4>1. sessions[s] \in SessionRow
          BY ElementOfSeq DEF IInv, TypeOK, Rows
        <4> QED BY <4>1 DEF SessionRow
      <3>3. DOMAIN sessions[s].of \subseteq DOMAIN open[K].events
        BY <2>1, <3>1, <3>2, LenProperties
      <3> QED BY <2>2, <2>3, <3>1, <3>3
    <2> QED BY <2>2, <2>3
  <1>4. CASE pc \in {"link", "hit", "alert"}
    <2>1. sessions' = sessions
      BY <1>4 DEF Statement, LinkEvent, CountHit, UpsertAlert
    <2> QED BY <2>1 DEF Rows
  <1> QED BY <1>1, <1>2, <1>3, <1>4 DEF Statements

LEMMA RowsGrow ==
    ASSUME IInv, [Next]_vars, NEW s \in Rows
    PROVE  /\ s \in Rows'
           /\ \A n \in DOMAIN sessions[s].of :
                 /\ n \in DOMAIN sessions'[s].of
                 /\ sessions'[s].of[n] = sessions[s].of[n]
  <1>1. CASE UNCHANGED sessions
    BY <1>1 DEF Rows
  <1>2. CASE pc \in Statements /\ conn /\ Statement
    BY <1>2, StatementGrows
  <1>3. CASE \E k \in sweeping : CloseRow(open[k].sid)
    BY <1>3, CloseRowDoes DEF IInv, Rows
  <1>4. CASE Execute
    BY <1>2, <1>4 DEF Execute, Returns
  <1>5. CASE SkipEntry
    BY <1>1, <1>2, <1>5 DEF SkipEntry, Raises, db
  <1>6. CASE SweepOne
    BY <1>3, <1>6 DEF SweepOne, Returns
  <1>7. CASE SweepFails
    BY <1>1, <1>3, <1>7 DEF SweepFails, Raises, db
  <1> QED
    BY <1>1, <1>4, <1>5, <1>6, <1>7
       DEF Next, Process, Environment, Reads, Start, ReadPending, PendingDrained,
           ReadNew, Receive, Take, Ack, Acknowledge, AckLost, Sweep, ReadTimeout,
           Happen, Replay, Tick, ReadReplyLost, Kill, vars, db

LEMMA CountedStays ==
    ASSUME IInv, [Next]_vars, NEW id, Counted(id)
    PROVE  Counted(id)'
  <1>1. PICK s \in Rows : CountedIn(id, s)
    BY DEF Counted
  <1> QED BY <1>1, RowsGrow DEF Counted, CountedIn

(* Two sessions in memory have two rows. *)
LEMMA RowsApart ==
    ASSUME IInv, conn, NEW j \in Keys, NEW k \in Keys, IsOpen(j), IsOpen(k), j # k
    PROVE  open[j].sid # open[k].sid
  BY DEF IInv, MemoryHasItsRow

(* The connection is given up in no step but a kill. *)
LEMMA NothingRaises ==
    ASSUME StatementsSucceed, Connected
    PROVE  ~SkipEntry /\ ~SweepFails
  <1>1. ASSUME NEW statement, Raises(statement), pc # "down"
        PROVE  FALSE
    BY <1>1 DEF StatementsSucceed, Connected, Raises, Fault
  <1> QED BY <1>1 DEF SkipEntry, SweepFails, Statements

LEMMA ConnectedStep ==
    ASSUME StatementsSucceed, IInv, Connected, [Next]_vars
    PROVE  Connected'
  <1>1. CASE Start
    BY <1>1 DEF Start, Connected
  <1>2. CASE Kill
    BY <1>2 DEF Kill, Connected
  <1>3. CASE UNCHANGED conn /\ pc # "down"
    BY <1>3 DEF Connected
  <1>4. CASE UNCHANGED <<conn, pc>>
    BY <1>4 DEF Connected
  <1>5. CASE Reads
    BY <1>3, <1>5 DEF Reads, ReadPending, PendingDrained, ReadNew, Receive, Deliver
  <1>6. CASE Take \/ Execute \/ Sweep \/ SweepOne
    BY <1>3, <1>6 DEF Take, Execute, Returns, Sweep, SweepOne, Statements
  <1>7. CASE Ack \/ AckLost
    BY <1>3, <1>7 DEF Ack, AckLost, Acknowledge
  <1>8. CASE \/ Happen \/ Replay \/ Tick \/ ReadReplyLost
             \/ ReadTimeout \/ UNCHANGED vars
    BY <1>4, <1>8 DEF Happen, Replay, Tick, ReadReplyLost, ReadTimeout, loop, vars
  <1> QED
    BY <1>1, <1>2, <1>5, <1>6, <1>7, <1>8, NothingRaises DEF Next, Process, Environment

(* What follows a statement of the session in hand, row and memory apart. *)
LEMMA CaughtUpAfter ==
    ASSUME IInv, Connected, RowsCaughtUp, Execute
    PROVE  RowsCaughtUp'
  <1>1. /\ pc \in Statements /\ conn /\ Statement /\ todo # {}
        /\ UNCHANGED <<now, group, cursor, batch, sweeping>>
    BY DEF Execute, Returns, IInv, InHand
  <1>2. CASE Closed
    <2>1. K \in Keys /\ CloseRow(open[K].sid) /\ open' = [open EXCEPT ![K] = None]
      BY <1>1, <1>2, SessionInHand DEF Closed, Statement, Statements
    <2>2. \A j \in Keys : IsOpen(j)' => IsOpen(j) /\ open'[j] = open[j]
      BY <1>1, <2>1, CloseForgets
    <2>3. \A s \in Rows : sessions'[s].of = sessions[s].of
      BY <2>1, CloseRowDoes DEF IInv
    <2>4. \A j \in Keys : IsOpen(j) => open[j].sid \in Rows
      BY <1>1 DEF IInv, MemoryHasItsRow
    <2> QED BY <1>2, <2>2, <2>3, <2>4 DEF RowsCaughtUp, Closed
  <1>3. CASE Opened
    <2>1. InsertRow
      BY <1>1, <1>3 DEF Opened, Statement
    <2>2. /\ K' = K /\ pc' = "update"
          /\ \A k \in Keys : k # K => open'[k] = open[k]
      BY <1>1, <1>3, EntryStays DEF Opened, IInv, TypeOK, group
    <2>3. \A s \in Rows : sessions'[s] = sessions[s]
      BY <1>1, <2>1, InsertRowDoes DEF IInv
    <2>4. \A j \in Keys : IsOpen(j) => open[j].sid \in Rows
      BY <1>1 DEF IInv, MemoryHasItsRow
    <2> QED BY <1>3, <2>2, <2>3, <2>4 DEF RowsCaughtUp, Opened, IsOpen
  <1>4. CASE Updated
    <2>1. UpdateRow /\ pc = "update" /\ open' = open
      BY <1>1, <1>4 DEF Updated, Statement
    <2>2. /\ \A s \in Rows : s # open[K].sid => sessions'[s] = sessions[s]
          /\ sessions'[open[K].sid].of = open[K].events
      BY <1>1, <2>1, UpdateRowDoes
    <2>3. \A j \in Keys : IsOpen(j) => open[j].sid \in Rows
      BY <1>1 DEF IInv, MemoryHasItsRow
    <2>4. K \in Keys /\ IsOpen(K)
      BY <1>1, <2>1, SessionInHand
    <2>5. \A j \in Keys : IsOpen(j) /\ j # K => open[j].sid # open[K].sid
      BY <1>1, <2>4, RowsApart
    <2> QED BY <2>1, <2>2, <2>3, <2>5 DEF RowsCaughtUp, IsOpen
  <1>5. ASSUME pc \in {"link", "hit"}, NEW rules, Trigger(rules), sessions' = sessions
        PROVE  RowsCaughtUp'
    <2>1. K \in Keys /\ open[K] \in SessionState
      BY <1>5, SessionInHand DEF Statements
    <2>2. \A k \in Keys : /\ open'[k].sid = open[k].sid /\ open'[k].events = open[k].events
                          /\ k # K => open'[k] = open[k]
      BY <1>5, <2>1 DEF Trigger, IInv, TypeOK, SessionState
    <2>3. IsOpen(K)
      BY <1>5, SessionInHand DEF Statements
    <2> QED BY <1>5, <2>2, <2>3 DEF RowsCaughtUp, IsOpen
  <1>6. ASSUME pc # "update", UNCHANGED <<open, sessions>>
        PROVE  RowsCaughtUp'
    BY <1>6 DEF RowsCaughtUp, IsOpen
  <1>7. CASE Linked
    <2>1. sessions' = sessions
      BY <1>1, <1>7 DEF Linked, Statement, LinkEvent
    <2> QED BY <1>5, <1>6, <1>7, <2>1 DEF Linked
  <1>8. CASE HitCounted
    <2>1. sessions' = sessions
      BY <1>1, <1>8 DEF HitCounted, Statement, CountHit
    <2> QED BY <1>5, <1>6, <1>8, <2>1 DEF HitCounted
  <1>9. CASE Alerted
    <2>1. sessions' = sessions
      BY <1>1, <1>9 DEF Alerted, Statement, UpsertAlert
    <2> QED BY <1>6, <1>9, <2>1 DEF Alerted
  <1> QED BY <1>2, <1>3, <1>4, <1>7, <1>8, <1>9 DEF Execute

LEMMA CaughtUpStep ==
    ASSUME StatementsSucceed, IInv, Connected, RowsCaughtUp, [Next]_vars
    PROVE  RowsCaughtUp'
  <1>1. CASE Execute
    BY <1>1, CaughtUpAfter
  <1>2. CASE Take
    <2>1. pc = "next" /\ todo # {} /\ sessions' = sessions
      BY <1>2 DEF Take, db
    <2>2. CASE open' = open
      BY <2>1, <2>2 DEF RowsCaughtUp, IsOpen
    <2>3. CASE open' = [open EXCEPT ![K] = Joined(@, E)] /\ pc' = "update" /\ todo' = todo
      <3>1. K' = K
        BY <1>2, <2>1, <2>3, EntryStays DEF Take, IInv, group
      <3>2. \A k \in Keys : k # K => open'[k] = open[k]
        BY <2>3 DEF IInv, TypeOK
      <3> QED BY <2>1, <2>3, <3>1, <3>2 DEF RowsCaughtUp, IsOpen
    <2> QED BY <1>2, <2>2, <2>3 DEF Take
  <1>3. CASE SweepOne
    <2>1. PICK k \in Keys : /\ conn /\ CloseRow(open[k].sid)
                            /\ open' = [open EXCEPT ![k] = None]
      BY <1>3 DEF SweepOne, Returns, IInv, TypeOK
    <2>2. \A j \in Keys : IsOpen(j)' => IsOpen(j) /\ open'[j] = open[j]
      BY <2>1, CloseForgets
    <2>3. \A s \in Rows : sessions'[s].of = sessions[s].of
      BY <2>1, CloseRowDoes DEF IInv
    <2>4. \A j \in Keys : IsOpen(j) => open[j].sid \in Rows
      BY <2>1 DEF IInv, MemoryHasItsRow
    <2> QED BY <1>3, <2>2, <2>3, <2>4 DEF RowsCaughtUp, SweepOne
  <1>4. CASE Kill
    BY <1>4 DEF Kill, RowsCaughtUp, IsOpen
  <1>5. CASE UNCHANGED <<open, sessions>> /\ pc # "update"
    BY <1>5 DEF RowsCaughtUp, IsOpen
  <1>6. CASE UNCHANGED <<open, sessions, pc, todo>>
    <2>1. pc = "update" => K' = K
      BY <1>6, EntryStays, StreamStays DEF IInv, InHand, Statements
    <2> QED BY <1>6, <2>1 DEF RowsCaughtUp, IsOpen
  <1>7. CASE Start \/ Sweep \/ Reads
    BY <1>5, <1>7
       DEF Start, Sweep, Reads, ReadPending, PendingDrained, ReadNew, Receive, Deliver, db
  <1>8. CASE Ack \/ AckLost
    BY <1>5, <1>8 DEF Ack, AckLost, Acknowledge, db
  <1>9. CASE \/ Happen \/ Replay \/ Tick \/ ReadReplyLost
             \/ ReadTimeout \/ UNCHANGED vars
    BY <1>6, <1>9 DEF Happen, Replay, Tick, ReadReplyLost, ReadTimeout, loop, vars, db
  <1> QED
    BY <1>1, <1>2, <1>3, <1>4, <1>7, <1>8, <1>9, NothingRaises DEF Next, Process, Environment

(* The event of an entry done with is counted: its session has it, and the   *)
(* row is level with the session.                                            *)
LEMMA HandIsCounted ==
    ASSUME IInv, pc \in {"link", "hit", "alert"}
    PROVE  Entry \in Ids /\ Counted(stream[Entry].id)
  <1>1. /\ open[K].sid \in Rows /\ Entry \in todo
        /\ sessions[open[K].sid].of = open[K].events
    BY SessionInHand DEF IInv, RowCaughtUp, Statements
  <1>2. PICK n \in DOMAIN open[K].events : open[K].events[n] = E
    BY DEF IInv, HandedOver
  <1>3. Entry \in Ids
    BY <1>1, EntryInHand DEF IInv
  <1> QED BY <1>1, <1>2, <1>3 DEF Counted, CountedIn, E

LEMMA SeenIsCounted ==
    ASSUME IInv, CountInv, pc = "next", todo # {}, IsOpen(K), E.id \in Seen(open[K])
    PROVE  Entry \in Ids /\ Counted(stream[Entry].id)
  <1>1. /\ K \in Keys /\ Entry \in Ids
    BY EntryInHand DEF IInv
  <1>2. /\ open[K].sid \in Rows
        /\ sessions[open[K].sid].of = open[K].events
    BY <1>1 DEF CountInv, Connected, RowsCaughtUp, IInv, MemoryHasItsRow
  <1>3. PICK n \in DOMAIN open[K].events : open[K].events[n].id = E.id
    BY DEF Seen
  <1> QED BY <1>1, <1>2, <1>3 DEF Counted, CountedIn, E

(* What a step adds to the entries processed or settled was counted before. *)
LEMMA SettledStays ==
    ASSUME IInv, [Next]_vars, CountInv,
           \A i \in batch' \ todo' :
              i \in batch \ todo \/ (i \in Ids /\ Counted(stream[i].id)),
           \A i \in (1 .. lastId') \ pel' :
              i \in (1 .. lastId) \ pel \/ i \in batch \ todo
    PROVE  ProcessedIsCounted' /\ SettledIsCounted'
  <1>1. \A i \in batch \ todo : i \in Ids /\ Counted(stream[i].id)
    BY DEF CountInv, ProcessedIsCounted, IInv, TypeOK
  <1>2. \A i \in (1 .. lastId) \ pel : i \in Ids /\ Counted(stream[i].id)
    <2>1. Len(stream) \in Nat /\ lastId \in 0 .. Len(stream)
      BY LenProperties DEF IInv, TypeOK
    <2> QED BY <2>1 DEF CountInv, SettledIsCounted, Counted, Ids
  <1>3. ASSUME NEW i \in Ids, Counted(stream[i].id)
        PROVE  \E s \in Rows' : \E n \in DOMAIN sessions'[s].of :
                  sessions'[s].of[n].id = stream'[i].id
    <2> DEFINE id == stream[i].id
    <2>1. stream'[i].id = id
      BY StreamStays
    <2>2. Counted(id)
      BY <1>3
    <2> HIDE DEF id
    <2>3. PICK s \in Rows : CountedIn(id, s)
      BY <2>2 DEF Counted
    <2>4. PICK n \in DOMAIN sessions[s].of : sessions[s].of[n].id = id
      BY <2>3 DEF CountedIn
    <2> QED BY <2>1, <2>4, RowsGrow
  <1>4. ProcessedIsCounted'
    BY <1>1, <1>3 DEF ProcessedIsCounted, Counted, CountedIn
  <1>5. SettledIsCounted'
    BY <1>1, <1>2, <1>3 DEF SettledIsCounted, CountedIn
  <1> QED BY <1>4, <1>5

(* A delivery settles nothing. *)
LEMMA DeliverSettlesNothing ==
    ASSUME TypeOK, Deliver
    PROVE  \A i \in (1 .. lastId') \ pel' : i \in (1 .. lastId) \ pel
  <1>1. Len(stream) \in Nat /\ lastId \in 0 .. Len(stream)
    BY LenProperties DEF TypeOK
  <1>2. PICK hi \in Ids :
           /\ lastId < hi
           /\ NewIds = (lastId + 1) .. hi
           /\ lastId + Cardinality(NewIds) = hi
    BY NewIdsInterval DEF Deliver
  <1>3. lastId' = hi /\ pel' = pel \cup NewIds
    BY <1>2 DEF Deliver
  <1> QED BY <1>1, <1>2, <1>3 DEF Ids

LEMMA ProcessedStep ==
    ASSUME StatementsSucceed, IInv, CountInv, [Next]_vars
    PROVE  ProcessedIsCounted' /\ SettledIsCounted'
  <1>1. ASSUME batch' \ todo' \subseteq batch \ todo, UNCHANGED <<lastId, pel>>
        PROVE  ProcessedIsCounted' /\ SettledIsCounted'
    BY <1>1, SettledStays
  <1>2. ASSUME NextEntry, Entry \in Ids, Counted(stream[Entry].id),
               UNCHANGED <<batch, lastId, pel>>
        PROVE  ProcessedIsCounted' /\ SettledIsCounted'
    <2>1. \A i \in batch' \ todo' : i \in batch \ todo \/ i = Entry
      BY <1>2 DEF NextEntry
    <2> QED BY <1>2, <2>1, SettledStays
  <1>3. CASE ReadNew \/ ReadReplyLost
    <2>1. \A i \in (1 .. lastId') \ pel' : i \in (1 .. lastId) \ pel
      BY <1>3, DeliverSettlesNothing DEF ReadNew, ReadReplyLost, IInv
    <2>2. batch' \ todo' \subseteq batch \ todo
      BY <1>3 DEF ReadNew, Receive, ReadReplyLost, loop
    <2> QED BY <2>1, <2>2, SettledStays
  <1>4. CASE Ack \/ AckLost
    <2>1. /\ todo = {} /\ batch' = {} /\ lastId' = lastId
          /\ pel' = pel \/ pel' = pel \ batch
      BY <1>4 DEF Ack, AckLost, Acknowledge
    <2> QED BY <2>1, SettledStays
  <1>5. CASE Take
    <2>1. UNCHANGED <<batch, lastId, pel>> /\ pc = "next" /\ todo # {}
      BY <1>5 DEF Take, group
    <2>2. CASE todo' = todo
      BY <1>1, <2>1, <2>2
    <2>3. CASE IsOpen(K) /\ E.id \in Seen(open[K]) /\ NextEntry
      BY <1>2, <2>1, <2>3, SeenIsCounted
    <2> QED BY <1>5, <2>2, <2>3 DEF Take
  <1>6. CASE Execute
    <2>1. UNCHANGED <<batch, lastId, pel>>
      BY <1>6 DEF Execute, group
    <2>2. CASE todo' = todo
      BY <1>1, <2>1, <2>2
    <2>3. CASE pc \in {"link", "hit", "alert"} /\ NextEntry
      BY <1>2, <2>1, <2>3, HandIsCounted
    <2> QED
      BY <1>6, <2>2, <2>3
         DEF Execute, Closed, Opened, Updated, Linked, HitCounted, Alerted, Trigger
  <1>7. CASE Kill \/ ReadPending
    BY <1>1, <1>7 DEF Kill, ReadPending, Receive, group
  <1>8. CASE UNCHANGED <<batch, todo, lastId, pel>>
    BY <1>1, <1>8
  <1>9. CASE Start \/ PendingDrained \/ Sweep \/ SweepOne
    BY <1>8, <1>9 DEF Start, PendingDrained, Sweep, SweepOne, group
  <1>10. CASE Happen \/ Replay \/ Tick \/ ReadTimeout \/ UNCHANGED vars
    BY <1>8, <1>10 DEF Happen, Replay, Tick, ReadTimeout, vars, group, loop
  <1> QED
    BY <1>3, <1>4, <1>5, <1>6, <1>7, <1>9, <1>10, NothingRaises
       DEF Next, Process, Environment, Reads, CountInv

LEMMA CountInvStep ==
    ASSUME StatementsSucceed, IInv, CountInv, [Next]_vars
    PROVE  CountInv'
  BY ConnectedStep, CaughtUpStep, ProcessedStep DEF CountInv

(* Where no statement fails, an acknowledged entry is counted in some row,   *)
(* through kills and lost replies (sessioniser.py:268-276).                  *)
THEOREM Settled ==
    ASSUME StatementsSucceed
    PROVE  Spec => []SettledIsCounted
  <1>1. Init => CountInv
    <2> SUFFICES ASSUME Init PROVE CountInv
      OBVIOUS
    <2>1. Connected /\ RowsCaughtUp /\ ProcessedIsCounted
      BY DEF Init, Connected, RowsCaughtUp, ProcessedIsCounted, IsOpen
    <2>2. SettledIsCounted
      BY DEF Init, SettledIsCounted
    <2> QED BY <2>1, <2>2 DEF CountInv
  <1>2. IInv /\ CountInv /\ [Next]_vars => CountInv'
    BY CountInvStep
  <1>3. CountInv => SettledIsCounted
    BY DEF CountInv
  <1> QED BY <1>1, <1>2, <1>3, Invariant, PTL DEF Spec

-----------------------------------------------------------------------------
(* Completeness of the alerts, where in addition each rule asks for features *)
(* only or for patterns only, or for any of its clauses, as every rule in    *)
(* config/rules does, and an alert needs a score (scoring.yaml).             *)
AllOf(r, Matcher(_)) == \A c \in Rules[r].all \cup Rules[r].any : Matcher(c)

SimpleRules ==
    \A r \in RuleIds :
        \/ Rules[r].all = {}
        \/ AllOf(r, LAMBDA c : c.op = "gte")
        \/ AllOf(r, LAMBDA c : c.op = "regex")

AlertsNeedAScore == AlertMinimum \in Int /\ AlertMinimum > 0

Handling == {"update", "link", "hit", "alert"}

(* A session's alert, if it is worth one, names the rules it has triggered.  *)
AlertStands(k) ==
    RaisesAlert(open[k].triggered) =>
        \E a \in AlertsOf(open[k].sid) : alerts[a].triggered = open[k].triggered

CompleteAt(k) ==
    /\ open[k].triggered = Evidence(open[k].events)
    /\ AlertStands(k)

(* Every session but the one in hand is complete. *)
OthersComplete ==
    \A k \in Keys : IsOpen(k) => (pc \in Handling /\ k = K) \/ CompleteAt(k)

(* What the one in hand has not triggered is still to be: the event in hand  *)
(* gives it, or it waits to be counted.                                      *)
HandComplete ==
    LET evidence == Evidence(open[K].events)
        triggered == open[K].triggered
        matches == Evaluate(Features(open[K].events), E.what.payload)
    IN  /\ pc \in {"update", "link"} =>
              /\ evidence \subseteq triggered \cup matches
              /\ AlertStands(K)
        /\ pc = "hit" =>
              /\ fresh # {} /\ Rule \in triggered
              /\ evidence \subseteq triggered \cup fresh
        /\ pc = "alert" => evidence \subseteq triggered

CompleteInv == OthersComplete /\ HandComplete

(* What a new event adds to the evidence, the event itself matches. *)
LEMMA EvidenceSplits ==
    ASSUME SimpleRules, NEW s \in Seq(Event), NEW e \in Event
    PROVE  Evidence(Append(s, e)) \subseteq
              Evidence(s) \cup Evaluate(Features(Append(s, e)), e.what.payload)
  <1> DEFINE t == Append(s, e)
  <1>1. /\ Len(s) \in Nat /\ DOMAIN s = 1 .. Len(s)
        /\ DOMAIN t = 1 .. Len(s) + 1
        /\ t[Len(s) + 1] = e
        /\ \A n \in DOMAIN s : t[n] = s[n]
    BY LenProperties, AppendProperties
  <1> HIDE DEF t
  <1> SUFFICES ASSUME NEW r \in Evidence(t)
               PROVE  r \in Evidence(s) \cup Evaluate(Features(t), e.what.payload)
    BY DEF t
  <1>2. PICK n \in DOMAIN t : RuleMatches(Rules[r], Features(t), t[n].what.payload)
    BY DEF Evidence
  <1>3. r \in RuleIds
    BY DEF Evidence
  <1>4. CASE n = Len(s) + 1
    BY <1>1, <1>2, <1>3, <1>4 DEF Evaluate
  <1>5. CASE n \in DOMAIN s
    <2> DEFINE p == s[n].what.payload
    <2>1. RuleMatches(Rules[r], Features(t), p)
      BY <1>1, <1>2, <1>5
    <2> HIDE DEF p
    <2>2. \A c : c.op = "gte" /\ ClauseMatches(c, Features(t), p)
                    => ClauseMatches(c, Features(t), e.what.payload)
      BY DEF ClauseMatches
    <2>3. \A c : c.op = "regex" /\ ClauseMatches(c, Features(t), p)
                    => ClauseMatches(c, Features(s), p)
      BY DEF ClauseMatches
    <2>4. \A c : ClauseMatches(c, Features(t), p) => c.op = "gte" \/ c.op = "regex"
      BY DEF ClauseMatches
    <2>5. ASSUME RuleMatches(Rules[r], Features(s), p)
          PROVE  r \in Evidence(s)
      BY <1>3, <1>5, <2>5 DEF Evidence, p
    <2>6. ASSUME RuleMatches(Rules[r], Features(t), e.what.payload)
          PROVE  r \in Evaluate(Features(t), e.what.payload)
      BY <1>3, <2>6 DEF Evaluate
    <2>7. CASE AllOf(r, LAMBDA c : c.op = "gte")
      <3>1. RuleMatches(Rules[r], Features(t), e.what.payload)
        BY <2>1, <2>2, <2>7 DEF RuleMatches, AllOf
      <3> QED BY <2>6, <3>1
    <2>8. CASE AllOf(r, LAMBDA c : c.op = "regex")
      <3>1. RuleMatches(Rules[r], Features(s), p)
        BY <2>1, <2>3, <2>8 DEF RuleMatches, AllOf
      <3> QED BY <2>5, <3>1
    <2>9. CASE Rules[r].all = {}
      <3>1. PICK c \in Rules[r].any : ClauseMatches(c, Features(t), p)
        BY <2>1, <2>9 DEF RuleMatches
      <3>2. CASE c.op = "gte"
        <4>1. RuleMatches(Rules[r], Features(t), e.what.payload)
          BY <2>1, <2>2, <2>9, <3>1, <3>2 DEF RuleMatches
        <4> QED BY <2>6, <4>1
      <3>3. CASE c.op = "regex"
        <4>1. RuleMatches(Rules[r], Features(s), p)
          BY <2>1, <2>3, <2>9, <3>1, <3>3 DEF RuleMatches
        <4> QED BY <2>5, <4>1
      <3> QED BY <2>4, <3>1, <3>2, <3>3
    <2> QED BY <1>3, <2>7, <2>8, <2>9 DEF SimpleRules
  <1> QED BY <1>1, <1>2, <1>4, <1>5

(* Nothing follows from no event, and no alert from no rule. *)
LEMMA NoEvidence ==
    /\ Evidence(<<>>) = {}
    /\ AlertsNeedAScore => ~RaisesAlert({})
  BY DEF Evidence, AlertsNeedAScore, RaisesAlert, Score

-----------------------------------------------------------------------------
(* A session that is let be stays complete. *)
LEMMA CompleteStays ==
    ASSUME NEW k \in Keys, CompleteAt(k), open'[k] = open[k], alerts' = alerts
    PROVE  CompleteAt(k)'
  BY DEF CompleteAt, AlertStands, AlertsOf

(* No event is in hand, and sessions are at most forgotten. *)
LEMMA CompleteIdle ==
    ASSUME CompleteInv, alerts' = alerts, pc \notin Handling, pc' \notin Handling,
           \A k \in Keys : IsOpen(k)' => IsOpen(k) /\ open'[k] = open[k]
    PROVE  CompleteInv'
  <1>1. \A k \in Keys : IsOpen(k)' => CompleteAt(k)'
    BY CompleteStays DEF CompleteInv, OthersComplete
  <1> QED BY <1>1 DEF CompleteInv, OthersComplete, HandComplete, Handling

(* Nothing happens to the sessions, or to the event in hand. *)
LEMMA CompleteWaits ==
    ASSUME CompleteInv, UNCHANGED <<open, alerts, pc, fresh>>,
           pc \in Handling => E' = E /\ K' = K
    PROVE  CompleteInv'
  <1>1. OthersComplete'
    BY CompleteStays DEF CompleteInv, OthersComplete, IsOpen
  <1>2. Rule' = Rule
    BY DEF Rule
  <1>3. HandComplete'
    BY <1>2 DEF CompleteInv, HandComplete, Handling, AlertStands, AlertsOf
  <1> QED BY <1>1, <1>3 DEF CompleteInv

(* The session in hand is complete when its entry is done with. *)
LEMMA CompleteDone ==
    ASSUME CompleteInv, NextEntry, UNCHANGED <<open, alerts>>,
           pc \in Handling => CompleteAt(K)
    PROVE  CompleteInv'
  <1>1. \A k \in Keys : IsOpen(k) => CompleteAt(k)
    BY DEF CompleteInv, OthersComplete
  <1>2. \A k \in Keys : IsOpen(k) => CompleteAt(k)'
    BY <1>1, CompleteStays
  <1>3. pc' = "next"
    BY DEF NextEntry
  <1> QED BY <1>2, <1>3 DEF CompleteInv, OthersComplete, HandComplete, IsOpen

(* Rules are triggered in their order, the first of those left now. *)
LEMMA TriggerFirst ==
    ASSUME TypeOK, K \in Keys, open[K] \in SessionState,
           NEW rules \in SUBSET RuleIds, rules # {}, Trigger(rules)
    PROVE  /\ fresh' = rules /\ Rule' \in open'[K].triggered
           /\ open[K].triggered \subseteq open'[K].triggered
           /\ open'[K].sid = open[K].sid /\ open'[K].events = open[K].events
           /\ \A k \in Keys : k # K => open'[k] = open[k]
  <1>1. rules \in SUBSET Nat
    BY DEF RuleIds
  <1>2. PICK r \in rules : \A q \in rules : r <= q
    BY <1>1, LeastExists
  <1>3. Rule' \in {q \in rules : \A i \in rules : q <= i}
    BY <1>2 DEF Rule, Trigger
  <1>4. /\ open'[K].triggered =
              open[K].triggered \cup {q \in rules : \A i \in rules : q <= i}
        /\ open'[K].sid = open[K].sid /\ open'[K].events = open[K].events
    BY DEF Trigger, TypeOK, SessionState
  <1> QED BY <1>3, <1>4 DEF Trigger, TypeOK

LEMMA CompleteTrigger ==
    ASSUME IInv, OthersComplete, pc \in {"link", "hit"}, todo' = todo,
           UNCHANGED <<stream, alerts>>,
           NEW rules \in SUBSET RuleIds, rules # {}, Trigger(rules),
           Evidence(open[K].events) \subseteq open[K].triggered \cup rules
    PROVE  CompleteInv'
  <1>1. K \in Keys /\ open[K] \in SessionState /\ todo # {}
    BY SessionInHand DEF Statements
  <1>2. K' = K /\ E' = E
    BY <1>1, EntryStays DEF IInv
  <1>3. /\ fresh' = rules /\ Rule' \in open'[K].triggered
        /\ open[K].triggered \subseteq open'[K].triggered
        /\ open'[K].events = open[K].events
        /\ \A k \in Keys : k # K => open'[k] = open[k]
    BY <1>1, TriggerFirst DEF IInv
  <1>4. pc' = "hit"
    BY DEF Trigger
  <1>5. \A k \in Keys : k # K /\ IsOpen(k)' => CompleteAt(k)'
    BY <1>3, CompleteStays DEF OthersComplete, IsOpen
  <1>6. OthersComplete'
    BY <1>2, <1>4, <1>5 DEF OthersComplete, Handling
  <1>7. HandComplete'
    BY <1>2, <1>3, <1>4 DEF HandComplete
  <1> QED BY <1>6, <1>7 DEF CompleteInv

(* An event joins a session that is complete. *)
LEMMA CompleteJoin ==
    ASSUME IInv, CompleteInv, SimpleRules, todo # {}, pc \notin Handling,
           NEW s \in SessionState, s.triggered = Evidence(s.events),
           RaisesAlert(s.triggered) =>
              \E a \in AlertsOf(s.sid) : alerts[a].triggered = s.triggered,
           open' = [open EXCEPT ![K] = Joined(s, E)], pc' = "update",
           UNCHANGED <<stream, todo, alerts>>
    PROVE  CompleteInv'
  <1>1. K \in Keys /\ E \in Event /\ K' = K /\ E' = E
    BY EntryInHand, EntryStays DEF IInv
  <1> DEFINE t == Joined(s, E)
  <1>2. /\ t.sid = s.sid /\ t.triggered = s.triggered
        /\ t.events = Append(s.events, E)
    BY <1>1, JoinedSession
  <1>3. /\ open'[K] = t
        /\ \A k \in Keys : k # K => open'[k] = open[k]
    BY <1>1 DEF IInv, TypeOK
  <1> HIDE DEF t
  <1>4. \A k \in Keys : k # K /\ IsOpen(k)' => CompleteAt(k)'
    BY <1>3, CompleteStays DEF CompleteInv, OthersComplete, IsOpen
  <1>5. OthersComplete'
    BY <1>1, <1>4 DEF OthersComplete, Handling
  <1>6. Evidence(t.events) \subseteq
           s.triggered \cup Evaluate(Features(t.events), E.what.payload)
    BY <1>1, <1>2, EvidenceSplits DEF SessionState
  <1>7. HandComplete'
    BY <1>1, <1>2, <1>3, <1>6 DEF HandComplete, AlertStands, AlertsOf
  <1> QED BY <1>5, <1>7 DEF CompleteInv

(* The alert of the session in hand is written; the others stand. *)
LEMMA UpsertAlertWrites ==
    ASSUME TypeOK, K \in Keys, UpsertAlert
    PROVE  /\ \E a \in 1 .. Len(alerts') : /\ alerts'[a].sid = open[K].sid
                                           /\ alerts'[a].triggered = open[K].triggered
           /\ \A a \in 1 .. Len(alerts) :
                 alerts[a].sid # open[K].sid =>
                    a \in 1 .. Len(alerts') /\ alerts'[a] = alerts[a]
  <1> DEFINE alert == [sid |-> open[K].sid, triggered |-> open[K].triggered]
             Row == [sid : Nat \ {0}, triggered : SUBSET RuleIds]
  <1>1. alerts \in Seq(Row) /\ Len(alerts) \in Nat
    BY LenProperties DEF TypeOK
  <1>2. alert.sid = open[K].sid /\ alert.triggered = open[K].triggered
    OBVIOUS
  <1>3. \/ alerts' = Append(alerts, alert)
        \/ \E a \in AlertsOf(open[K].sid) : alerts' = [alerts EXCEPT ![a] = alert]
    BY DEF UpsertAlert
  <1> HIDE DEF alert, Row
  <1>4. CASE alerts' = Append(alerts, alert)
    <2>1. alerts \in Seq(Row \cup {alert}) /\ alert \in Row \cup {alert}
      BY <1>1, SeqMonotonic
    <2>2. /\ Len(alerts') = Len(alerts) + 1
          /\ alerts'[Len(alerts) + 1] = alert
          /\ \A a \in 1 .. Len(alerts) : alerts'[a] = alerts[a]
      BY <1>4, <2>1, AppendProperties
    <2> QED BY <1>1, <1>2, <2>2 DEF AlertsOf
  <1>5. ASSUME NEW b \in AlertsOf(open[K].sid), alerts' = [alerts EXCEPT ![b] = alert]
        PROVE  /\ \E a \in 1 .. Len(alerts') : /\ alerts'[a].sid = open[K].sid
                                               /\ alerts'[a].triggered = open[K].triggered
               /\ \A a \in 1 .. Len(alerts) :
                     alerts[a].sid # open[K].sid =>
                        a \in 1 .. Len(alerts') /\ alerts'[a] = alerts[a]
    <2>1. DOMAIN alerts = 1 .. Len(alerts) /\ b \in 1 .. Len(alerts)
          /\ alerts[b].sid = open[K].sid
      BY <1>1, LenProperties DEF AlertsOf
    <2>2. Len(alerts') = Len(alerts) /\ alerts'[b] = alert
          /\ \A a \in 1 .. Len(alerts) : a # b => alerts'[a] = alerts[a]
      BY <1>1, <1>5, <2>1, ExceptSeq
    <2> QED BY <1>2, <2>1, <2>2
  <1> QED BY <1>3, <1>4, <1>5 DEF AlertsOf

LEMMA CompleteAlerted ==
    ASSUME IInv, CompleteInv, pc = "alert", conn, UpsertAlert, NextEntry, open' = open
    PROVE  CompleteInv'
  <1>1. K \in Keys /\ IsOpen(K) /\ E \in Event
    BY SessionInHand DEF Statements
  <1>2. open[K].triggered = Evidence(open[K].events)
    BY <1>1 DEF CompleteInv, HandComplete, IInv, TriggeredHasEvidence
  <1>3. /\ \E a \in 1 .. Len(alerts') : /\ alerts'[a].sid = open[K].sid
                                        /\ alerts'[a].triggered = open[K].triggered
        /\ \A a \in 1 .. Len(alerts) :
              alerts[a].sid # open[K].sid =>
                 a \in 1 .. Len(alerts') /\ alerts'[a] = alerts[a]
    BY <1>1, UpsertAlertWrites DEF IInv
  <1>4. ASSUME NEW k \in Keys, IsOpen(k)
        PROVE  /\ open'[k].triggered = Evidence(open'[k].events)
               /\ RaisesAlert(open'[k].triggered) =>
                    \E a \in 1 .. Len(alerts') :
                       /\ alerts'[a].sid = open'[k].sid
                       /\ alerts'[a].triggered = open'[k].triggered
    <2>1. CASE k = K
      BY <1>2, <1>3, <2>1 DEF AlertsOf
    <2>2. CASE k # K
      <3>1. open[k].sid # open[K].sid
        BY <1>1, <1>4, <2>2, RowsApart
      <3>2. CompleteAt(k)
        BY <1>4, <2>2 DEF CompleteInv, OthersComplete
      <3> QED BY <1>3, <3>1, <3>2 DEF CompleteAt, AlertStands, AlertsOf
    <2> QED BY <2>1, <2>2
  <1>5. \A k \in Keys : IsOpen(k)' => CompleteAt(k)'
    BY <1>4 DEF CompleteAt, AlertStands, AlertsOf, IsOpen
  <1>6. pc' = "next"
    BY DEF NextEntry
  <1> QED BY <1>5, <1>6 DEF CompleteInv, OthersComplete, HandComplete

-----------------------------------------------------------------------------
LEMMA CompleteExecute ==
    ASSUME SimpleRules, AlertsNeedAScore, IInv, CompleteInv, Execute
    PROVE  CompleteInv'
  <1>1. /\ pc \in Statements /\ conn /\ Statement /\ todo # {}
        /\ UNCHANGED <<now, group, cursor, batch, sweeping>>
    BY DEF Execute, Returns, IInv, InHand
  <1>2. CASE Closed
    <2>1. K \in Keys /\ CloseRow(open[K].sid) /\ open' = [open EXCEPT ![K] = None]
      BY <1>1, <1>2, SessionInHand DEF Closed, Statement
    <2>2. /\ \A j \in Keys : IsOpen(j)' => IsOpen(j) /\ open'[j] = open[j]
          /\ alerts' = alerts
      BY <1>1, <2>1, CloseForgets
    <2> QED BY <1>2, <2>2, CompleteIdle DEF Closed, Handling
  <1>3. CASE Opened
    <2> DEFINE s == NewSession(Len(sessions) + 1, E)
    <2>1. E \in Event /\ Len(sessions) \in Nat
      BY <1>1, EntryInHand, LenProperties DEF IInv, TypeOK
    <2>2. /\ s \in SessionState /\ s.events = <<>> /\ s.triggered = {}
      BY <2>1 DEF NewSession, SessionState, Event
    <2>3. open' = [open EXCEPT ![K] = Joined(s, E)] /\ pc = "open" /\ pc' = "update"
          /\ todo' = todo
      BY <1>3 DEF Opened
    <2>4. alerts' = alerts /\ stream' = stream
      BY <1>1, <2>3 DEF Statement, InsertRow, group
    <2> HIDE DEF s
    <2> QED
      BY <1>1, <2>2, <2>3, <2>4, NoEvidence, CompleteJoin DEF Handling
  <1>4. CASE Updated
    <2>1. alerts' = alerts /\ stream' = stream
      BY <1>1, <1>4 DEF Statement, Updated, UpdateRow, group
    <2>2. /\ pc = "update" /\ pc' = "link" /\ UNCHANGED <<open, todo, fresh>>
      BY <1>4 DEF Updated
    <2>3. K' = K /\ E' = E
      BY <1>1, <2>1, <2>2, EntryStays DEF IInv
    <2>4. OthersComplete'
      BY <2>1, <2>2, <2>3, CompleteStays DEF CompleteInv, OthersComplete, Handling, IsOpen
    <2>5. HandComplete'
      BY <2>1, <2>2, <2>3 DEF CompleteInv, HandComplete, AlertStands, AlertsOf
    <2> QED BY <2>4, <2>5 DEF CompleteInv
  <1>5. CASE Linked
    <2>1. alerts' = alerts /\ stream' = stream
      BY <1>1, <1>5 DEF Statement, Linked, LinkEvent, group
    <2>2. K \in Keys /\ IsOpen(K)
      BY <1>1, <1>5, SessionInHand DEF Linked
    <2>3. /\ Evidence(open[K].events) \subseteq open[K].triggered \cup NewMatches
          /\ AlertStands(K)
      BY <1>5 DEF Linked, CompleteInv, HandComplete, NewMatches
    <2>4. CASE NewMatches # {} /\ Trigger(NewMatches)
      <3>1. NewMatches \subseteq RuleIds /\ todo' = todo
        BY <2>4 DEF NewMatches, Evaluate, Trigger
      <3> QED BY <1>5, <2>1, <2>3, <2>4, <3>1, CompleteTrigger DEF Linked, CompleteInv
    <2>5. CASE NewMatches = {} /\ NextEntry /\ UNCHANGED open
      <3>1. CompleteAt(K)
        BY <2>2, <2>3, <2>5 DEF CompleteAt, IInv, TriggeredHasEvidence
      <3> QED BY <2>1, <2>5, <3>1, CompleteDone
    <2> QED BY <1>5, <2>4, <2>5 DEF Linked
  <1>6. CASE HitCounted
    <2>1. alerts' = alerts /\ stream' = stream /\ pc = "hit"
      BY <1>1, <1>6 DEF Statement, HitCounted, CountHit, group
    <2>2. K \in Keys /\ IsOpen(K)
      BY <1>1, <2>1, SessionInHand
    <2>3. /\ Evidence(open[K].events) \subseteq open[K].triggered \cup fresh
          /\ fresh # {} /\ Rule \in open[K].triggered /\ fresh \subseteq RuleIds
      BY <2>1 DEF CompleteInv, HandComplete, IInv, TypeOK
    <2>4. CASE fresh # {Rule} /\ Trigger(fresh \ {Rule})
      <3>1. fresh \ {Rule} # {} /\ fresh \ {Rule} \subseteq RuleIds /\ todo' = todo
        BY <2>3, <2>4 DEF Trigger
      <3>2. Evidence(open[K].events) \subseteq open[K].triggered \cup (fresh \ {Rule})
        BY <2>3
      <3> QED BY <2>1, <2>4, <3>1, <3>2, CompleteTrigger DEF CompleteInv
    <2>5. ASSUME fresh = {Rule}
          PROVE  open[K].triggered = Evidence(open[K].events)
      BY <2>2, <2>3, <2>5 DEF IInv, TriggeredHasEvidence
    <2>6. CASE /\ fresh = {Rule} /\ RaisesAlert(open[K].triggered)
               /\ pc' = "alert" /\ fresh' = {} /\ UNCHANGED <<open, todo>>
      <3>1. K' = K /\ E' = E
        BY <1>1, <2>1, <2>6, EntryStays DEF IInv
      <3>2. OthersComplete'
        BY <2>1, <2>6, <3>1, CompleteStays
           DEF CompleteInv, OthersComplete, Handling, IsOpen
      <3>3. HandComplete'
        BY <2>5, <2>6, <3>1 DEF HandComplete
      <3> QED BY <3>2, <3>3 DEF CompleteInv
    <2>7. CASE /\ fresh = {Rule} /\ ~RaisesAlert(open[K].triggered)
               /\ NextEntry /\ UNCHANGED open
      <3>1. CompleteAt(K)
        BY <2>5, <2>7 DEF CompleteAt, AlertStands
      <3> QED BY <2>1, <2>7, <3>1, CompleteDone
    <2> QED BY <1>6, <2>4, <2>6, <2>7 DEF HitCounted
  <1>7. CASE Alerted
    BY <1>1, <1>7, CompleteAlerted DEF Alerted, Statement
  <1> QED BY <1>2, <1>3, <1>4, <1>5, <1>6, <1>7 DEF Execute

LEMMA CompleteStep ==
    ASSUME StatementsSucceed, SimpleRules, AlertsNeedAScore,
           IInv, Connected, CompleteInv, [Next]_vars
    PROVE  CompleteInv'
  <1>1. CASE Execute
    BY <1>1, CompleteExecute
  <1>2. CASE Take
    <2>1. pc = "next" /\ todo # {} /\ UNCHANGED <<stream, alerts>>
      BY <1>2 DEF Take, db, group
    <2>2. CASE open' = open /\ pc' \in {"close", "open", "next"}
      BY <2>1, <2>2, CompleteIdle DEF Handling, IsOpen
    <2>3. CASE /\ IsOpen(K) /\ todo' = todo
               /\ open' = [open EXCEPT ![K] = Joined(@, E)] /\ pc' = "update"
      <3>1. K \in Keys /\ open[K] \in SessionState
        BY <2>1, <2>3, EntryInHand DEF IInv, TypeOK, IsOpen
      <3>2. CompleteAt(K)
        BY <2>1, <2>3, <3>1 DEF CompleteInv, OthersComplete, Handling
      <3>3. open' = [open EXCEPT ![K] = Joined(open[K], E)]
        BY <2>3
      <3> QED
        BY <2>1, <2>3, <3>1, <3>2, <3>3, CompleteJoin
           DEF Handling, CompleteAt, AlertStands
    <2> QED BY <1>2, <2>2, <2>3 DEF Take, NextEntry
  <1>3. CASE SweepOne
    <2>1. PICK k \in Keys : /\ conn /\ CloseRow(open[k].sid)
                            /\ open' = [open EXCEPT ![k] = None]
      BY <1>3 DEF SweepOne, Returns, IInv, TypeOK
    <2>2. /\ \A j \in Keys : IsOpen(j)' => IsOpen(j) /\ open'[j] = open[j]
          /\ alerts' = alerts
      BY <2>1, CloseForgets
    <2> QED BY <1>3, <2>2, CompleteIdle DEF SweepOne, Handling
  <1>4. CASE Kill
    BY <1>4 DEF Kill, CompleteInv, OthersComplete, HandComplete, IsOpen
  <1>5. CASE UNCHANGED <<open, alerts>> /\ pc \notin Handling /\ pc' \notin Handling
    BY <1>5, CompleteIdle DEF IsOpen
  <1>6. CASE UNCHANGED <<open, alerts, pc, fresh, todo>>
    <2>1. pc \in Handling => K' = K /\ E' = E
      BY <1>6, EntryStays, StreamStays DEF IInv, InHand, Statements, Handling
    <2> QED BY <1>6, <2>1, CompleteWaits
  <1>7. CASE Start \/ Sweep \/ Reads
    BY <1>5, <1>7
       DEF Start, Sweep, Reads, ReadPending, PendingDrained, ReadNew, Receive, Deliver,
           db, Handling
  <1>8. CASE Ack \/ AckLost
    BY <1>5, <1>8 DEF Ack, AckLost, Acknowledge, db, Handling
  <1>9. CASE \/ Happen \/ Replay \/ Tick \/ ReadReplyLost
             \/ ReadTimeout \/ UNCHANGED vars
    BY <1>6, <1>9 DEF Happen, Replay, Tick, ReadReplyLost, ReadTimeout, loop, vars, db
  <1> QED
    BY <1>1, <1>2, <1>3, <1>4, <1>7, <1>8, <1>9, NothingRaises DEF Next, Process, Environment

(* Between two entries, a session in memory that has reason for an alert has *)
(* it, with all the rules there is evidence for (README.md:57-58).           *)
THEOREM Complete ==
    ASSUME StatementsSucceed, SimpleRules, AlertsNeedAScore
    PROVE  Spec => []AlertsAreComplete
  <1>1. Init => Connected /\ CompleteInv
    BY DEF Init, Connected, CompleteInv, OthersComplete, HandComplete, IsOpen
  <1>2. IInv /\ (Connected /\ CompleteInv) /\ [Next]_vars => (Connected /\ CompleteInv)'
    BY ConnectedStep, CompleteStep
  <1>3. CompleteInv => AlertsAreComplete
    BY DEF CompleteInv, OthersComplete, CompleteAt, AlertStands, Handling, AlertsAreComplete
  <1> QED BY <1>1, <1>2, <1>3, Invariant, PTL DEF Spec

-----------------------------------------------------------------------------
(* That the process keeps the promise of AtLeastOnce: the events of memory   *)
(* and rows are of the stream, so that none is counted before it happens.    *)
OfTheStream(events) == \A n \in DOMAIN events : events[n].id \in Happened

OnlyWhatHappened ==
    /\ Happened \subseteq 1 .. Cardinality(Happened)
    /\ \A k \in Keys : IsOpen(k) => OfTheStream(open[k].events)
    /\ \A s \in Rows : OfTheStream(sessions[s].of)

(* What AtLeastOnce calls `stored` and `settled`. *)
CountedEvents == {e \in {stream[i] : i \in Ids} : Counted(e.id)}

GivenUp == (1 .. lastId) \ pel

LEMMA StreamOrPublished ==
    ASSUME [Next]_vars
    PROVE  Happen \/ Replay \/ stream' = stream
  BY DEF Next, Process, Environment, Reads, Start, ReadPending, PendingDrained,
         ReadNew, Receive, Take, Execute, Ack, Acknowledge, AckLost, Sweep,
         ReadTimeout, SkipEntry, SweepOne, SweepFails, Tick, ReadReplyLost, Kill,
         vars, group

(* The stream is published to at its end only. *)
LEMMA Published ==
    ASSUME IInv, NEW e, stream' = Append(stream, e)
    PROVE  /\ Len(stream) \in Nat
           /\ Ids' = Ids \cup {Len(stream) + 1}
           /\ stream'[Len(stream) + 1] = e
           /\ \A i \in Ids : stream'[i] = stream[i]
           /\ Happened' = Happened \cup {e.id}
  <1>1. stream \in Seq(Event \cup {e}) /\ e \in Event \cup {e}
    BY SeqMonotonic DEF IInv, TypeOK
  <1>2. /\ Len(stream) \in Nat /\ Len(stream') = Len(stream) + 1
        /\ stream'[Len(stream) + 1] = e
        /\ \A i \in 1 .. Len(stream) : stream'[i] = stream[i]
    BY <1>1, AppendProperties, LenProperties
  <1>3. Ids' = Ids \cup {Len(stream) + 1}
    BY <1>2 DEF Ids
  <1>4. Happened' = Happened \cup {e.id}
    BY <1>2, <1>3 DEF Happened, Ids
  <1> QED BY <1>2, <1>3, <1>4 DEF Ids

(* A new event has an id that no event has had. *)
LEMMA HappenedStep ==
    ASSUME IInv, OnlyWhatHappened, [Next]_vars
    PROVE  /\ Happened \subseteq Happened'
           /\ Happened' \subseteq 1 .. Cardinality(Happened')
  <1> DEFINE N == Cardinality(Happened)
  <1>1. IsFiniteSet(Happened) /\ N \in Nat
    BY HappenedFinite DEF IInv
  <1>2. CASE Happen
    <2>1. PICK k \in Keys, w \in Kinds :
             stream' = Append(stream, [id |-> N + 1, key |-> k, ts |-> now, what |-> w])
      BY <1>2 DEF Happen
    <2>2. Happened' = Happened \cup {N + 1}
      BY <2>1, Published
    <2>3. N + 1 \notin Happened
      BY <1>1 DEF OnlyWhatHappened
    <2>4. Cardinality(Happened') = N + 1
      BY <1>1, <2>2, <2>3, FS_AddElement
    <2> QED BY <1>1, <2>2, <2>4 DEF OnlyWhatHappened
  <1>3. CASE Replay
    <2>1. PICK i \in Ids : stream' = Append(stream, stream[i])
      BY <1>3 DEF Replay
    <2>2. Happened' = Happened
      BY <2>1, Published DEF Happened
    <2> QED BY <2>2, Zenon DEF OnlyWhatHappened
  <1>4. CASE stream' = stream
    BY <1>4 DEF OnlyWhatHappened, Happened, Ids
  <1> QED BY <1>2, <1>3, <1>4, StreamOrPublished

(* A session in memory gets no events but the one in hand. *)
LEMMA MemoryGrows ==
    ASSUME IInv, [Next]_vars, NEW k \in Keys, open'[k] # None
    PROVE  \/ open[k] # None /\ open'[k].events = open[k].events
           \/ /\ todo # {}
              /\ \E events \in Seq(Event) :
                    /\ open'[k].events = Append(events, E)
                    /\ events = <<>> \/ (open[k] # None /\ events = open[k].events)
  <1>1. open \in [Keys -> SessionState \cup {None}]
    BY DEF IInv, TypeOK
  <1>2. CASE open' = open
    BY <1>2
  <1>3. ASSUME NEW j \in Keys, open' = [open EXCEPT ![j] = None]
        PROVE  open[k] # None /\ open'[k].events = open[k].events
    BY <1>1, <1>3
  <1>4. CASE Take
    <2>1. todo # {} /\ K \in Keys /\ E \in Event
      BY <1>4, EntryInHand DEF Take, IInv
    <2>2. CASE IsOpen(K) /\ open' = [open EXCEPT ![K] = Joined(@, E)]
      <3>1. open[K] \in SessionState
        BY <1>1, <2>1, <2>2 DEF IsOpen
      <3>2. Joined(open[K], E).events = Append(open[K].events, E) /\ open[K].events \in Seq(Event)
        BY <2>1, <3>1, JoinedSession DEF SessionState
      <3>3. k # K => open'[k] = open[k]
        BY <1>1, <2>2
      <3>4. open'[K] = Joined(open[K], E)
        BY <1>1, <2>1, <2>2
      <3> QED BY <2>1, <2>2, <3>2, <3>3, <3>4 DEF IsOpen
    <2> QED BY <1>2, <1>4, <2>2 DEF Take
  <1>5. CASE Execute /\ Opened
    <2> DEFINE s == NewSession(Len(sessions) + 1, E)
    <2>1. todo # {} /\ K \in Keys /\ E \in Event
      BY <1>5, EntryInHand DEF Execute, IInv, InHand
    <2>2. /\ s \in SessionState /\ s.events = <<>> /\ <<>> \in Seq(Event)
      <3>1. Len(sessions) \in Nat
        BY LenProperties DEF IInv, TypeOK
      <3> QED BY <2>1, <3>1, EmptySeq DEF NewSession, SessionState, Event
    <2>3. Joined(s, E).events = Append(<<>>, E)
      BY <2>1, <2>2, JoinedSession
    <2>4. open' = [open EXCEPT ![K] = Joined(s, E)]
      BY <1>5 DEF Opened
    <2> HIDE DEF s
    <2>5. (k # K => open'[k] = open[k]) /\ open'[K] = Joined(s, E)
      BY <1>1, <2>1, <2>4
    <2> QED BY <2>1, <2>2, <2>3, <2>5
  <1>6. ASSUME Execute, NEW rules, Trigger(rules), pc \in {"link", "hit"}
        PROVE  open[k] # None /\ open'[k].events = open[k].events
    <2>1. K \in Keys /\ IsOpen(K) /\ open[K] \in SessionState
      BY <1>6, SessionInHand DEF Statements
    <2> QED BY <1>1, <1>6, <2>1 DEF Trigger, SessionState, IsOpen
  <1>7. CASE Execute
    <2>1. CASE Closed
      <3>1. K \in Keys
        BY <2>1, SessionInHand DEF Closed, Statements
      <3> QED BY <1>3, <2>1, <3>1 DEF Closed
    <2> QED BY <1>2, <1>5, <1>6, <1>7, <2>1
            DEF Execute, Updated, Linked, HitCounted, Alerted
  <1>8. CASE SweepOne
    BY <1>3, <1>8 DEF SweepOne, IInv, TypeOK
  <1>9. CASE Kill
    BY <1>9 DEF Kill
  <1> QED
    BY <1>2, <1>4, <1>7, <1>8, <1>9
       DEF Next, Process, Environment, Reads, Start, ReadPending, PendingDrained,
           ReadNew, Receive, Ack, Acknowledge, AckLost, Sweep, ReadTimeout, SkipEntry,
           SweepFails, Happen, Replay, Tick, ReadReplyLost, vars

(* A row gets no events but those of a session in memory. *)
LEMMA StatementWrites ==
    ASSUME IInv, pc \in Statements, conn, Statement, NEW s \in Rows'
    PROVE  \/ s \in Rows /\ sessions'[s].of = sessions[s].of
           \/ sessions'[s].of = <<>>
           \/ K \in Keys /\ IsOpen(K) /\ sessions'[s].of = open[K].events
  <1>1. CASE pc = "close"
    BY <1>1, CloseRowDoes DEF IInv, Statement, Rows
  <1>2. CASE pc = "open"
    <2>1. /\ Len(sessions) \in Nat /\ Len(sessions') = Len(sessions) + 1
          /\ \A r \in Rows : sessions'[r] = sessions[r]
          /\ sessions'[Len(sessions) + 1].of = <<>>
      BY <1>2, InsertRowDoes DEF IInv, InHand, Statement, Statements
    <2> QED BY <2>1 DEF Rows
  <1>3. CASE pc = "update"
    <2>1. K \in Keys /\ IsOpen(K)
      BY <1>3, SessionInHand DEF Statements
    <2>2. /\ Rows' = Rows
          /\ s # open[K].sid => sessions'[s] = sessions[s]
          /\ sessions'[open[K].sid].of = open[K].events
      BY <1>3, UpdateRowDoes DEF Statement, Rows
    <2> QED BY <2>1, <2>2
  <1>4. CASE pc \in {"link", "hit", "alert"}
    BY <1>4 DEF Statement, LinkEvent, CountHit, UpsertAlert, Rows
  <1> QED BY <1>1, <1>2, <1>3, <1>4 DEF Statements

LEMMA RowWritten ==
    ASSUME IInv, [Next]_vars, NEW s \in Rows'
    PROVE  \/ s \in Rows /\ sessions'[s].of = sessions[s].of
           \/ sessions'[s].of = <<>>
           \/ K \in Keys /\ IsOpen(K) /\ sessions'[s].of = open[K].events
  <1>1. CASE UNCHANGED sessions
    BY <1>1 DEF Rows
  <1>2. CASE pc \in Statements /\ conn /\ Statement
    BY <1>2, StatementWrites
  <1>3. CASE \E k \in sweeping : CloseRow(open[k].sid)
    BY <1>3, CloseRowDoes DEF IInv, Rows
  <1>4. CASE Execute
    BY <1>2, <1>4 DEF Execute, Returns
  <1>5. CASE SkipEntry
    BY <1>1, <1>2, <1>5 DEF SkipEntry, Raises, db
  <1>6. CASE SweepOne
    BY <1>3, <1>6 DEF SweepOne, Returns
  <1>7. CASE SweepFails
    BY <1>1, <1>3, <1>7 DEF SweepFails, Raises, db
  <1> QED
    BY <1>1, <1>4, <1>5, <1>6, <1>7
       DEF Next, Process, Environment, Reads, Start, ReadPending, PendingDrained,
           ReadNew, Receive, Take, Ack, Acknowledge, AckLost, Sweep, ReadTimeout,
           Happen, Replay, Tick, ReadReplyLost, Kill, vars, db

LEMMA OnlyWhatHappenedStep ==
    ASSUME IInv, OnlyWhatHappened, [Next]_vars
    PROVE  OnlyWhatHappened'
  <1> DEFINE H == Happened
             New == Happened'
  <1>1. H \subseteq New /\ New \subseteq 1 .. Cardinality(New)
    BY HappenedStep
  <1>2. ASSUME todo # {}
        PROVE  E \in Event /\ E.id \in H
    BY <1>2, EntryInHand DEF IInv, E, Happened
  <1>3. ASSUME NEW k \in Keys, open'[k] # None, NEW n \in DOMAIN open'[k].events
        PROVE  open'[k].events[n].id \in H
    <2>1. CASE open[k] # None /\ open'[k].events = open[k].events
      BY <1>3, <2>1 DEF OnlyWhatHappened, OfTheStream, IsOpen
    <2>2. CASE /\ todo # {}
               /\ \E events \in Seq(Event) :
                     /\ open'[k].events = Append(events, E)
                     /\ events = <<>> \/ (open[k] # None /\ events = open[k].events)
      <3>1. PICK events \in Seq(Event) :
               /\ open'[k].events = Append(events, E)
               /\ events = <<>> \/ (open[k] # None /\ events = open[k].events)
        BY <2>2
      <3>2. \A m \in DOMAIN events : events[m].id \in H
        BY <3>1 DEF OnlyWhatHappened, OfTheStream, IsOpen
      <3>3. E \in Event /\ E.id \in H
        BY <1>2, <2>2
      <3> HIDE DEF H
      <3>4. /\ Len(events) \in Nat /\ DOMAIN events = 1 .. Len(events)
            /\ DOMAIN Append(events, E) = 1 .. (Len(events) + 1)
            /\ Append(events, E)[Len(events) + 1] = E
            /\ \A m \in 1 .. Len(events) : Append(events, E)[m] = events[m]
        BY <3>3, AppendProperties, LenProperties
      <3>5. n \in 1 .. Len(events) \/ n = Len(events) + 1
        BY <1>3, <3>1, <3>4
      <3> QED BY <3>1, <3>2, <3>3, <3>4, <3>5
    <2> QED BY <1>3, <2>1, <2>2, MemoryGrows
  <1>4. ASSUME NEW s \in Rows', NEW n \in DOMAIN sessions'[s].of
        PROVE  sessions'[s].of[n].id \in H
    <2>1. CASE s \in Rows /\ sessions'[s].of = sessions[s].of
      BY <1>4, <2>1 DEF OnlyWhatHappened, OfTheStream
    <2>2. CASE sessions'[s].of = <<>>
      BY <1>4, <2>2
    <2>3. CASE K \in Keys /\ IsOpen(K) /\ sessions'[s].of = open[K].events
      BY <1>4, <2>3 DEF OnlyWhatHappened, OfTheStream
    <2> QED BY <1>4, <2>1, <2>2, <2>3, RowWritten
  <1> QED BY <1>1, <1>3, <1>4 DEF OnlyWhatHappened, OfTheStream, IsOpen

-----------------------------------------------------------------------------
(* An event of the stream is counted when its id is. *)
CountedIds == {id \in EventIds : Counted(id)}

LEMMA EventsCounted ==
    ASSUME TypeOK, TypeOK'
    PROVE  /\ CountedEvents = {stream[i] : i \in {j \in Ids : stream[j].id \in CountedIds}}
           /\ CountedEvents' = {stream'[i] : i \in {j \in Ids' : stream'[j].id \in CountedIds'}}
  <1>1. \A i \in Ids : stream[i] \in Event
    BY ElementOfSeq DEF TypeOK, Ids
  <1>2. \A i \in Ids : stream[i].id \in EventIds
    BY <1>1 DEF Event
  <1>3. \A i \in Ids' : stream'[i] \in Event
    BY ElementOfSeq DEF TypeOK, Ids, Event, EventIds
  <1>4. \A i \in Ids' : stream'[i].id \in EventIds
    BY <1>3 DEF Event
  <1>5. CountedEvents = {stream[i] : i \in {j \in Ids : stream[j].id \in CountedIds}}
    BY <1>2 DEF CountedEvents, CountedIds
  <1>6. CountedEvents' = {stream'[i] : i \in {j \in Ids' : stream'[j].id \in CountedIds'}}
    BY <1>4 DEF CountedEvents, CountedIds, EventIds
  <1> QED BY <1>5, <1>6

LEMMA CountedIdsGrow ==
    ASSUME IInv, [Next]_vars
    PROVE  CountedIds \subseteq CountedIds'
  <1> SUFFICES ASSUME NEW id \in CountedIds PROVE id \in CountedIds'
    OBVIOUS
  <1>1. Counted(id) /\ id \in EventIds
    BY DEF CountedIds
  <1>2. Counted(id)'
    BY <1>1, CountedStays
  <1> QED BY <1>1, <1>2 DEF CountedIds, Counted, CountedIn, EventIds

(* The steps of the promise that a step of the process can be. An event      *)
(* published was published before, or has an id that no row knows.           *)
LEMMA PublishMaps ==
    ASSUME IInv, IInv', OnlyWhatHappened, NEW e \in Event, stream' = Append(stream, e),
           UNCHANGED <<lastId, pel, sessions>>,
           e \in {stream[i] : i \in Ids} \/ e.id \notin Happened
    PROVE  Promise!Publish
  <1>1. /\ Len(stream) \in Nat
        /\ Ids' = Ids \cup {Len(stream) + 1}
        /\ stream'[Len(stream) + 1] = e
        /\ \A i \in Ids : stream'[i] = stream[i]
    BY Published
  <1>2. e.id \notin Happened => e.id \notin CountedIds
    BY DEF CountedIds, Counted, CountedIn, OnlyWhatHappened, OfTheStream
  <1>3. CountedIds' = CountedIds
    BY DEF CountedIds, Counted, CountedIn, Rows, EventIds
  <1>4. /\ CountedEvents = {stream[i] : i \in {j \in Ids : stream[j].id \in CountedIds}}
        /\ CountedEvents' = {stream'[i] : i \in {j \in Ids' : stream'[j].id \in CountedIds'}}
    BY EventsCounted DEF IInv
  <1>5. CountedEvents' = CountedEvents
    <2>1. ASSUME NEW d \in CountedEvents
          PROVE  d \in CountedEvents'
      BY <1>1, <1>3, <1>4, <2>1
    <2>2. ASSUME NEW d \in CountedEvents'
          PROVE  d \in CountedEvents
      BY <1>1, <1>2, <1>3, <1>4, <2>2
    <2> QED BY <2>1, <2>2
  <1>6. GivenUp' = GivenUp
    BY DEF GivenUp
  <1>7. 1 \in 1 .. Len(stream) + 1
    BY <1>1
  <1> QED BY <1>5, <1>6, <1>7 DEF Promise!Publish, CountedEvents, GivenUp, Counted

LEMMA StoreMaps ==
    ASSUME IInv, IInv', [Next]_vars, UNCHANGED <<stream, lastId, pel>>
    PROVE  Promise!Store
  <1> DEFINE ids == {j \in Ids : stream[j].id \in CountedIds'}
  <1>1. /\ CountedEvents = {stream[i] : i \in {j \in Ids : stream[j].id \in CountedIds}}
        /\ CountedEvents' = {stream'[i] : i \in {j \in Ids' : stream'[j].id \in CountedIds'}}
    BY EventsCounted DEF IInv
  <1>2. CountedEvents' = CountedEvents \cup {stream[i] : i \in ids}
    <2>1. Ids' = Ids
      BY DEF Ids
    <2> QED BY <1>1, <2>1, CountedIdsGrow
  <1>3. ids \in SUBSET (1 .. Len(stream))
    BY DEF Ids
  <1> HIDE DEF ids
  <1>4. GivenUp' = GivenUp
    BY DEF GivenUp
  <1> QED BY <1>2, <1>3, <1>4 DEF Promise!Store, CountedEvents, GivenUp, Counted

LEMMA SettleMaps ==
    ASSUME IInv', SettledIsCounted', UNCHANGED <<stream, sessions>>,
           GivenUp \subseteq GivenUp'
    PROVE  Promise!Settle
  <1> DEFINE ids == GivenUp' \ GivenUp
  <1>1. GivenUp' \subseteq 1 .. Len(stream)
    BY LenProperties DEF IInv, TypeOK, GivenUp
  <1>2. ids \in SUBSET (1 .. Len(stream)) /\ GivenUp' = GivenUp \cup ids
    BY <1>1
  <1>3. CountedEvents' = CountedEvents
    BY DEF CountedEvents, Counted, CountedIn, Rows, Ids
  <1>4. \A i \in ids : stream[i] \in CountedEvents
    <2> SUFFICES ASSUME NEW i \in GivenUp' PROVE stream[i] \in CountedEvents
      OBVIOUS
    <2>1. \E s \in Rows : CountedIn(stream[i].id, s)
      BY DEF SettledIsCounted, GivenUp, CountedIn, Rows
    <2> QED BY <1>1, <2>1 DEF CountedEvents, Counted, Ids
  <1> HIDE DEF ids
  <1> QED BY <1>2, <1>3, <1>4 DEF Promise!Settle, CountedEvents, GivenUp, Counted

(* Each step of the process is one of the promise, or none that it can see.  *)
LEMMA StepMaps ==
    ASSUME StatementsSucceed, IInv, IInv', CountInv, OnlyWhatHappened, [Next]_vars
    PROVE  [Promise!Next]_(Promise!vars)
  <1>1. SettledIsCounted'
    BY CountInvStep DEF CountInv
  <1>2. CASE Happen
    <2> DEFINE N == Cardinality(Happened)
    <2>1. PICK k \in Keys, w \in Kinds :
             stream' = Append(stream, [id |-> N + 1, key |-> k, ts |-> now, what |-> w])
      BY <1>2 DEF Happen
    <2> DEFINE e == [id |-> N + 1, key |-> k, ts |-> now, what |-> w]
    <2>2. N \in Nat /\ N < MaxEvents
      BY <1>2, HappenedFinite DEF Happen, IInv
    <2>3. e \in Event
      <3>1. N + 1 \in EventIds
        BY <2>2, SessioniserAssumption DEF EventIds, SessioniserAssumption
      <3> HIDE DEF N
      <3> QED BY <3>1 DEF IInv, TypeOK, Event
    <2>4. e.id \notin Happened
      BY <2>2 DEF OnlyWhatHappened
    <2>5. UNCHANGED <<lastId, pel, sessions>>
      BY <1>2 DEF Happen, db
    <2>6. stream' = Append(stream, e)
      BY <2>1
    <2> HIDE DEF e
    <2> QED BY <2>3, <2>4, <2>5, <2>6, PublishMaps DEF Promise!Next
  <1>3. CASE Replay
    <2>1. PICK i \in Ids : stream' = Append(stream, stream[i])
      BY <1>3 DEF Replay
    <2>2. stream[i] \in Event
      BY ElementOfSeq DEF IInv, TypeOK, Ids
    <2>3. UNCHANGED <<lastId, pel, sessions>>
      BY <1>3 DEF Replay, db
    <2> QED BY <2>1, <2>2, <2>3, PublishMaps DEF Promise!Next
  <1>4. CASE ReadNew \/ ReadReplyLost
    <2>1. \A i \in GivenUp : i \in GivenUp'
      <3>1. Deliver
        BY <1>4 DEF ReadNew, ReadReplyLost
      <3>2. Len(stream) \in Nat /\ lastId \in 0 .. Len(stream)
        BY LenProperties DEF IInv, TypeOK
      <3>3. PICK hi \in Ids :
               /\ lastId < hi
               /\ NewIds = (lastId + 1) .. hi
               /\ lastId + Cardinality(NewIds) = hi
        BY <3>1, NewIdsInterval DEF Deliver, IInv
      <3>4. lastId' = hi /\ pel' = pel \cup NewIds
        BY <3>1, <3>3 DEF Deliver
      <3> QED BY <3>2, <3>3, <3>4 DEF GivenUp, Ids
    <2>2. UNCHANGED <<stream, sessions>>
      BY <1>4 DEF ReadNew, ReadReplyLost, Receive, db
    <2> QED BY <1>1, <2>1, <2>2, SettleMaps DEF Promise!Next
  <1>5. CASE Ack \/ AckLost
    <2>1. /\ UNCHANGED <<stream, sessions, lastId>>
          /\ pel' \in {pel, pel \ batch}
      BY <1>5 DEF Ack, AckLost, Acknowledge, db
    <2>2. GivenUp \subseteq GivenUp'
      BY <2>1 DEF GivenUp
    <2> QED BY <1>1, <2>1, <2>2, SettleMaps DEF Promise!Next
  <1>6. CASE UNCHANGED <<stream, lastId, pel>>
    BY <1>6, StoreMaps DEF Promise!Next
  <1> QED
    BY <1>2, <1>3, <1>4, <1>5, <1>6
       DEF Next, Process, Environment, Reads, Start, ReadPending, PendingDrained,
           Receive, Take, Execute, Sweep, ReadTimeout, SkipEntry, SweepOne,
           SweepFails, Tick, Kill, vars, group

(* Where no statement fails, the process implements AtLeastOnce: hiding      *)
(* sessions in memory, statements, batches, pending lists and restarts,      *)
(* events are published, counted in rows, and only then given up: the        *)
(* promise that the writer keeps on the same stream (sessioniser.py:4-6).    *)
THEOREM Refinement ==
    ASSUME StatementsSucceed
    PROVE  Spec => KeepsPromise
  <1>1. Init => Promise!Init /\ CountInv /\ OnlyWhatHappened
    <2> SUFFICES ASSUME Init PROVE Promise!Init /\ CountInv /\ OnlyWhatHappened
      OBVIOUS
    <2>1. /\ Ids = {} /\ Rows = {} /\ GivenUp = {} /\ CountedEvents = {}
          /\ Happened = {} /\ \A k \in Keys : ~IsOpen(k)
      BY DEF Init, Ids, Rows, GivenUp, CountedEvents, Happened, IsOpen
    <2>2. Promise!Init
      BY <2>1 DEF Init, Promise!Init, GivenUp, CountedEvents, Counted
    <2>3. CountInv
      BY <2>1 DEF Init, CountInv, Connected, RowsCaughtUp, ProcessedIsCounted,
                  SettledIsCounted
    <2>4. OnlyWhatHappened
      BY <2>1 DEF OnlyWhatHappened
    <2> QED BY <2>2, <2>3, <2>4
  <1>2. IInv /\ CountInv /\ OnlyWhatHappened /\ [Next]_vars
            => CountInv' /\ OnlyWhatHappened'
    BY CountInvStep, OnlyWhatHappenedStep
  <1>3. IInv /\ IInv' /\ CountInv /\ OnlyWhatHappened /\ [Next]_vars
            => [Promise!Next]_(Promise!vars)
    BY StepMaps
  <1> QED BY <1>1, <1>2, <1>3, Invariant, PTL DEF Spec, KeepsPromise, Promise!Spec
=============================================================================
