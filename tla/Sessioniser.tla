----------------------------- MODULE Sessioniser -----------------------------
(***************************************************************************)
(* sessioniser.py: one process of the consumer group `sessioniser`.  It    *)
(* keeps the open sessions in memory and, for every entry of a batch, runs *)
(* up to six kinds of SQL statement, each a transaction of its own         *)
(* (autocommit), before it acknowledges the batch.  Between batches it may *)
(* sweep out the sessions that have gone quiet.                            *)
(*                                                                         *)
(* `pc` names the statement about to run; what the code computes between   *)
(* two statements belongs to the earlier one.  The exception handler of    *)
(* _drain catches whatever a statement raises, so that the loop goes on    *)
(* with the next entry, and main's handler of OperationalError is never    *)
(* reached: no action of this module gives the process a new connection    *)
(* but a restart.                                                          *)
(***************************************************************************)
EXTENDS RedisStream, Detection

CONSTANTS
    Keys,           \* (src_ip, decoy)
    Kinds,          \* what events can be: an action and a payload
    Gap,            \* gap_minutes
    MaxDuration,    \* max_duration_minutes
    Batch,          \* ST_BATCH
    Prompt,         \* whether the stream is always read before time passes
    FaultKinds,     \* the faults the environment may cause
    MaxEvents,      \* bound: events that happen
    MaxReplays,     \* bound: entries the tailer publishes a second time
    LastArrival,    \* bound: the time of the last event
    MaxTime,        \* bound: the end of time
    MaxFaults       \* bound: faults in a behaviour

AllFaults == {"kill", "statement", "connection", "redis"}

ASSUME SessioniserAssumption ==
    /\ Gap \in Nat /\ MaxDuration \in Nat
    /\ Batch \in Nat \ {0}
    /\ Prompt \in BOOLEAN
    /\ FaultKinds \subseteq AllFaults
    /\ MaxEvents \in Nat /\ MaxReplays \in Nat /\ MaxFaults \in Nat
    /\ LastArrival \in Nat /\ MaxTime \in Nat

VARIABLES
    now,       \* the clock, decoys' and database's alike
    stream,    \* events by entry id; a replayed event has its event_id again
    lastId,    \* last id the group has been given
    pel,       \* ids pending in the group
    pc,        \* the statement about to run, or where the loop is
    cursor,    \* start_id of the next XREADGROUP
    batch,     \* ids of the batch in hand
    todo,      \* those not processed yet, in order
    open,      \* open_sessions
    fresh,     \* new_matches not counted yet
    sweeping,  \* `idle` of _sweep_idle, what is left of it
    conn,      \* whether the process's connection is alive
    sessions,  \* rows of the table, by session_id
    alerts,    \* rows of the table, by alert_id
    hits,      \* rules.hit_count
    links,     \* events.session_id of the events linked so far
    faults     \* faults caused so far

group == <<stream, lastId, pel>>
loop == <<pc, cursor, batch, todo, fresh, sweeping>>
db == <<sessions, alerts, hits, links>>
vars == <<now, group, loop, open, conn, db, faults>>

None == [sid |-> 0]

Ids == 1 .. Len(stream)
EventIds == 1 .. MaxEvents
Statements == {"close", "open", "update", "link", "hit", "alert"}

Event == [id : EventIds, key : Keys, ts : 0 .. MaxTime, what : Kinds]

(* SessionState; seen_event_ids are the ids of its events.                   *)
SessionState == [sid : Nat \ {0}, started : 0 .. MaxTime, last : 0 .. MaxTime,
                 events : Seq(Event), triggered : SUBSET RuleIds]

(* event_count and features stand in a row as the events they were computed  *)
(* from.                                                                     *)
SessionRow == [key : Keys, started : 0 .. MaxTime, ended : 0 .. MaxTime,
               of : Seq(Event), closed : BOOLEAN]

TypeOK ==
    /\ now \in 0 .. MaxTime
    /\ stream \in Seq(Event)
    /\ lastId \in 0 .. Len(stream)
    /\ pel \subseteq Ids
    /\ pc \in Statements \cup {"down", "idle", "next", "sweep"}
    /\ cursor \in {"0", ">"}
    /\ batch \subseteq Ids
    /\ todo \subseteq batch
    /\ open \in [Keys -> SessionState \cup {None}]
    /\ fresh \subseteq RuleIds
    /\ sweeping \subseteq Keys
    /\ conn \in BOOLEAN
    /\ sessions \in Seq(SessionRow)
    /\ alerts \in Seq([sid : Nat \ {0}, triggered : SUBSET RuleIds])
    /\ hits \in [RuleIds -> Nat]
    /\ links \in [EventIds -> Nat]
    /\ faults \in 0 .. MaxFaults

Init ==
    /\ now = 0
    /\ stream = <<>> /\ lastId = 0 /\ pel = {}
    /\ pc = "down" /\ cursor = "0" /\ batch = {} /\ todo = {}
    /\ open = [k \in Keys |-> None]
    /\ fresh = {} /\ sweeping = {} /\ conn = FALSE
    /\ sessions = <<>> /\ alerts = <<>>
    /\ hits = [r \in RuleIds |-> 0]
    /\ links = [i \in EventIds |-> 0]
    /\ faults = 0

Fault(kind) ==
    /\ kind \in FaultKinds
    /\ faults < MaxFaults
    /\ faults' = faults + 1

-----------------------------------------------------------------------------
(* The world: time passes, events happen at a decoy and reach the stream.    *)
Happened == {stream[i].id : i \in Ids}
Replayed == Len(stream) - Cardinality(Happened)

UpToDate == lastId = Len(stream) /\ pel = {} /\ pc \in {"idle", "down"}

Tick ==
    /\ now < MaxTime
    /\ Prompt => UpToDate
    /\ now' = now + 1
    /\ UNCHANGED <<group, loop, open, conn, db, faults>>

Happen ==
    /\ Cardinality(Happened) < MaxEvents
    /\ now <= LastArrival
    /\ \E k \in Keys, w \in Kinds :
          stream' = Append(stream, [id |-> Cardinality(Happened) + 1,
                                    key |-> k, ts |-> now, what |-> w])
    /\ UNCHANGED <<now, lastId, pel, loop, open, conn, db, faults>>

(* The tailer publishes a line again: it ended between the XADD and the      *)
(* checkpoint, or the line's file was renamed by rotation.                   *)
Replay ==
    /\ Replayed < MaxReplays
    /\ \E i \in Ids : stream' = Append(stream, stream[i])
    /\ UNCHANGED <<now, lastId, pel, loop, open, conn, db, faults>>

-----------------------------------------------------------------------------
(* main: a connection, the pending entries first, and no session open.       *)
(* _sync_rules_table leaves hit_count alone.                                 *)
Start ==
    /\ pc = "down"
    /\ pc' = "idle"
    /\ cursor' = "0"
    /\ conn' = TRUE
    /\ UNCHANGED <<now, group, batch, todo, fresh, sweeping, open, db, faults>>

Receive(ids) ==
    /\ batch' = ids
    /\ todo' = ids
    /\ pc' = "next"
    /\ UNCHANGED <<now, stream, cursor, fresh, sweeping, open, conn, db>>

ReadPending ==
    /\ pc = "idle" /\ cursor = "0" /\ pel # {}
    /\ Receive(OldestPending(pel, Batch))
    /\ UNCHANGED <<lastId, pel, faults>>

PendingDrained ==
    /\ pc = "idle" /\ cursor = "0" /\ pel = {}
    /\ cursor' = ">"
    /\ UNCHANGED <<now, group, pc, batch, todo, fresh, sweeping, open, conn, db, faults>>

NewIds == Undelivered(lastId, 1, Len(stream), Batch)

(* Mutant of Deliver: XREADGROUP with NOACK. *)
DeliverNoAck ==
    /\ pc = "idle" /\ cursor = ">" /\ NewIds # {}
    /\ lastId' = lastId + Cardinality(NewIds)
    /\ UNCHANGED pel

Deliver ==
    /\ pc = "idle" /\ cursor = ">" /\ NewIds # {}
    /\ lastId' = lastId + Cardinality(NewIds)
    /\ pel' = pel \cup NewIds

ReadNew ==
    /\ Deliver
    /\ Receive(NewIds)
    /\ UNCHANGED faults

(* redis.ConnectionError after Redis has served the read. *)
ReadReplyLost ==
    /\ Fault("redis")
    /\ Deliver
    /\ UNCHANGED <<now, stream, loop, open, conn, db>>

-----------------------------------------------------------------------------
(* The entry in hand, its event and the session open for its key.            *)
Entry == CHOOSE i \in todo : \A j \in todo : i <= j
E == stream[Entry]
K == E.key

IsOpen(k) == open[k] # None

(* Mutant of Seen: seen_event_ids is never added to. *)
SeenNothing(s) == {}

Seen(s) == {s.events[n].id : n \in DOMAIN s.events}

(* Mutant of Expired: the gap itself is too long. *)
ExpiredAtGap(s, e) ==
    \/ e.ts - s.last >= Gap
    \/ e.ts - s.started > MaxDuration

(* The first test of _process_event: silence, or a session grown too long.   *)
Expired(s, e) ==
    \/ e.ts - s.last > Gap
    \/ e.ts - s.started > MaxDuration

(* Mutant of Joined: last_ts holds the time until which the session lasts. *)
JoinedDeadline(s, e) ==
    [s EXCEPT !.events = Append(@, e), !.last = e.ts + Gap]

(* The event joins the session in memory, before any statement says so. *)
Joined(s, e) ==
    [s EXCEPT !.events = Append(@, e), !.last = IF e.ts > @ THEN e.ts ELSE @]

NewSession(sid, e) ==
    [sid |-> sid, started |-> e.ts, last |-> e.ts, events |-> <<>>, triggered |-> {}]

(* Done with the entry, one way or another. *)
NextEntry ==
    /\ todo' = todo \ {Entry}
    /\ fresh' = {}
    /\ pc' = "next"

(* The first statement the event calls for, if it calls for any. *)
Take ==
    /\ pc = "next" /\ todo # {}
    /\ \/ /\ IsOpen(K) /\ Expired(open[K], E)
          /\ pc' = "close"
          /\ UNCHANGED <<open, todo, fresh>>
       \/ /\ ~IsOpen(K)
          /\ pc' = "open"
          /\ UNCHANGED <<open, todo, fresh>>
       \/ /\ IsOpen(K) /\ ~Expired(open[K], E)
          /\ E.id \notin Seen(open[K])
          /\ open' = [open EXCEPT ![K] = Joined(@, E)]
          /\ pc' = "update"
          /\ UNCHANGED <<todo, fresh>>
       \/ /\ IsOpen(K) /\ ~Expired(open[K], E)
          /\ E.id \in Seen(open[K])
          /\ NextEntry
          /\ UNCHANGED open
    /\ UNCHANGED <<now, group, cursor, batch, sweeping, conn, db, faults>>

-----------------------------------------------------------------------------
(* The statements: what each does to the database. *)
CloseRow(sid) ==
    /\ sessions' = [sessions EXCEPT ![sid].closed = TRUE]
    /\ UNCHANGED <<alerts, hits, links>>

InsertRow ==
    /\ sessions' = Append(sessions, [key |-> K, started |-> E.ts, ended |-> E.ts,
                                     of |-> <<>>, closed |-> FALSE])
    /\ UNCHANGED <<alerts, hits, links>>

UpdateRow ==
    /\ sessions' = [sessions EXCEPT ![open[K].sid].ended = open[K].last,
                                    ![open[K].sid].of = open[K].events]
    /\ UNCHANGED <<alerts, hits, links>>

(* The writer may not have inserted the event's row in the three attempts. *)
LinkEvent ==
    /\ links' \in {links, [links EXCEPT ![E.id] = open[K].sid]}
    /\ UNCHANGED <<sessions, alerts, hits>>

Rule == CHOOSE r \in fresh : \A q \in fresh : r <= q

CountHit ==
    /\ hits' = [hits EXCEPT ![Rule] = @ + 1]
    /\ UNCHANGED <<sessions, alerts, links>>

(* SELECT the session's alert, then UPDATE it or INSERT one. *)
AlertsOf(sid) == {a \in 1 .. Len(alerts) : alerts[a].sid = sid}

UpsertAlert ==
    LET alert == [sid |-> open[K].sid, triggered |-> open[K].triggered]
    IN  /\ \/ /\ AlertsOf(alert.sid) = {}
              /\ alerts' = Append(alerts, alert)
           \/ \E a \in AlertsOf(alert.sid) : alerts' = [alerts EXCEPT ![a] = alert]
        /\ UNCHANGED <<sessions, hits, links>>

Statement ==
    CASE pc = "close"  -> CloseRow(open[K].sid)
      [] pc = "open"   -> InsertRow
      [] pc = "update" -> UpdateRow
      [] pc = "link"   -> LinkEvent
      [] pc = "hit"    -> CountHit
      [] pc = "alert"  -> UpsertAlert

(* A statement that returns, and one that raises: for a reason of its own,   *)
(* because the connection breaks (before or after the commit), or because it *)
(* is broken already.                                                        *)
Returns(statement) ==
    /\ conn
    /\ statement
    /\ UNCHANGED <<conn, faults>>

Raises(statement) ==
    \/ /\ ~conn
       /\ UNCHANGED <<db, conn, faults>>
    \/ /\ conn
       /\ Fault("statement")
       /\ UNCHANGED <<db, conn>>
    \/ /\ conn
       /\ Fault("connection")
       /\ conn' = FALSE
       /\ statement \/ UNCHANGED db

-----------------------------------------------------------------------------
(* What follows each statement of _process_event. *)
(* Mutant of Closed: `state = None` forgotten. *)
ClosedKeepsState ==
    /\ pc = "close"
    /\ open' = [open EXCEPT ![K] = Joined(@, E)]
    /\ pc' = "update"
    /\ UNCHANGED <<todo, fresh>>

Closed ==
    /\ pc = "close"
    /\ open' = [open EXCEPT ![K] = None]
    /\ pc' = "open"
    /\ UNCHANGED <<todo, fresh>>

Opened ==
    /\ pc = "open"
    /\ open' = [open EXCEPT ![K] = Joined(NewSession(Len(sessions) + 1, E), E)]
    /\ pc' = "update"
    /\ UNCHANGED <<todo, fresh>>

Updated ==
    /\ pc = "update"
    /\ pc' = "link"
    /\ UNCHANGED <<open, todo, fresh>>

(* The rules the session has not triggered before. *)
NewMatches ==
    Evaluate(Features(open[K].events), E.what.payload) \ open[K].triggered

(* A rule is in triggered_rules before its hit is counted. *)
Trigger(rules) ==
    /\ fresh' = rules
    /\ open' = [open EXCEPT ![K].triggered =
                   @ \cup {r \in rules : \A q \in rules : r <= q}]
    /\ pc' = "hit"
    /\ UNCHANGED todo

Linked ==
    /\ pc = "link"
    /\ \/ /\ NewMatches # {}
          /\ Trigger(NewMatches)
       \/ /\ NewMatches = {}
          /\ NextEntry
          /\ UNCHANGED open

(* Mutant of HitCounted: any new match is worth an alert. *)
HitCountedAlways ==
    /\ pc = "hit"
    /\ \/ /\ fresh # {Rule}
          /\ Trigger(fresh \ {Rule})
       \/ /\ fresh = {Rule}
          /\ pc' = "alert"
          /\ fresh' = {}
          /\ UNCHANGED <<open, todo>>

(* Mutant of HitCounted: the score is that of the new matches alone. *)
HitCountedNew ==
    /\ pc = "hit"
    /\ \/ /\ fresh # {Rule}
          /\ Trigger(fresh \ {Rule})
       \/ /\ fresh = {Rule}
          /\ RaisesAlert(fresh)
          /\ pc' = "alert"
          /\ fresh' = {}
          /\ UNCHANGED <<open, todo>>
       \/ /\ fresh = {Rule}
          /\ ~RaisesAlert(fresh)
          /\ NextEntry
          /\ UNCHANGED open

HitCounted ==
    /\ pc = "hit"
    /\ \/ /\ fresh # {Rule}
          /\ Trigger(fresh \ {Rule})
       \/ /\ fresh = {Rule}
          /\ RaisesAlert(open[K].triggered)
          /\ pc' = "alert"
          /\ fresh' = {}
          /\ UNCHANGED <<open, todo>>
       \/ /\ fresh = {Rule}
          /\ ~RaisesAlert(open[K].triggered)
          /\ NextEntry
          /\ UNCHANGED open

Alerted ==
    /\ pc = "alert"
    /\ NextEntry
    /\ UNCHANGED open

Execute ==
    /\ pc \in Statements
    /\ Returns(Statement)
    /\ Closed \/ Opened \/ Updated \/ Linked \/ HitCounted \/ Alerted
    /\ UNCHANGED <<now, group, cursor, batch, sweeping>>

(* `except Exception`: logged, and on to the next entry, with the session in *)
(* memory as it was left.                                                    *)
SkipEntry ==
    /\ pc \in Statements
    /\ Raises(Statement)
    /\ NextEntry
    /\ UNCHANGED <<now, group, cursor, batch, sweeping, open>>

(* XACK of the whole batch, whatever became of its entries. *)
Acknowledge ==
    /\ pc = "next" /\ todo = {}
    /\ batch' = {}
    /\ pc' = "idle"
    /\ UNCHANGED <<now, stream, lastId, cursor, todo, fresh, sweeping, open, conn, db>>

Ack ==
    /\ Acknowledge
    /\ pel' = pel \ batch
    /\ UNCHANGED faults

AckLost ==
    /\ Fault("redis")
    /\ Acknowledge
    /\ pel' \in {pel, pel \ batch}

-----------------------------------------------------------------------------
(* Mutant of Quiet: the other limit of the configuration. *)
QuietTooLong == {k \in Keys : IsOpen(k) /\ now - open[k].last > MaxDuration}

(* _sweep_idle, between two batches: the sessions silent for longer than the *)
(* gap by the clock, however far behind the stream is read.                  *)
Quiet == {k \in Keys : IsOpen(k) /\ now - open[k].last > Gap}

Sweep ==
    /\ pc = "idle" /\ Quiet # {}
    /\ sweeping' = Quiet
    /\ pc' = "sweep"
    /\ UNCHANGED <<now, group, cursor, batch, todo, fresh, open, conn, db, faults>>

(* Mutant of SweepOne: `del open_sessions[k]` forgotten. *)
SweepOneKeeps ==
    /\ pc = "sweep"
    /\ \E k \in sweeping :
          /\ Returns(CloseRow(open[k].sid))
          /\ sweeping' = sweeping \ {k}
          /\ pc' = IF sweeping = {k} THEN "idle" ELSE "sweep"
    /\ UNCHANGED <<now, group, cursor, batch, todo, fresh, open>>

SweepOne ==
    /\ pc = "sweep"
    /\ \E k \in sweeping :
          /\ Returns(CloseRow(open[k].sid))
          /\ open' = [open EXCEPT ![k] = None]
          /\ sweeping' = sweeping \ {k}
          /\ pc' = IF sweeping = {k} THEN "idle" ELSE "sweep"
    /\ UNCHANGED <<now, group, cursor, batch, todo, fresh>>

(* main logs the failure of a sweep; the sessions not closed stay open. *)
SweepFails ==
    /\ pc = "sweep"
    /\ \E k \in sweeping : Raises(CloseRow(open[k].sid))
    /\ sweeping' = {}
    /\ pc' = "idle"
    /\ UNCHANGED <<now, group, cursor, batch, todo, fresh, open>>

(* The process ends, and open_sessions with it. *)
Kill ==
    /\ Fault("kill")
    /\ pc # "down"
    /\ pc' = "down"
    /\ batch' = {} /\ todo' = {} /\ fresh' = {} /\ sweeping' = {}
    /\ open' = [k \in Keys |-> None]
    /\ conn' = FALSE
    /\ UNCHANGED <<now, group, cursor, db>>

(* Nothing to read within BLOCK_MS. *)
ReadTimeout ==
    /\ pc = "idle" /\ cursor = ">" /\ NewIds = {}
    /\ UNCHANGED vars

-----------------------------------------------------------------------------
Reads == ReadPending \/ PendingDrained \/ ReadNew

Process ==
    \/ Start \/ Reads \/ Take \/ Execute \/ Ack
    \/ Sweep \/ SweepOne \/ ReadTimeout
    \/ ~conn /\ (SkipEntry \/ SweepFails)

Environment ==
    \/ Happen \/ Replay \/ Tick \/ ReadReplyLost \/ AckLost \/ Kill
    \/ conn /\ (SkipEntry \/ SweepFails)

Next == Process \/ Environment

(* Docker restarts the process, its loop runs on, and reads between any two  *)
(* sweeps; time passes.                                                      *)
Spec ==
    /\ Init
    /\ [][Next]_vars
    /\ WF_vars(Process)
    /\ SF_vars(Reads)
    /\ WF_vars(Tick)

-----------------------------------------------------------------------------
Rows == 1 .. Len(sessions)

CountedIn(id, s) == \E n \in DOMAIN sessions[s].of : sessions[s].of[n].id = id

(* No row counts an event twice, however often it is delivered               *)
(* (sessioniser.py:209-211).                                                 *)
CountedOnce ==
    \A s \in Rows : \A m, n \in DOMAIN sessions[s].of :
        sessions[s].of[m].id = sessions[s].of[n].id => m = n

(* An acknowledged entry's event is counted in some row: XACK is the last    *)
(* thing that happens to a batch, so a crash loses nothing from analysis     *)
(* (sessioniser.py:268-276).                                                 *)
SettledIsCounted ==
    \A i \in (1 .. lastId) \ pel : \E s \in Rows : CountedIn(stream[i].id, s)

(* Of the stream and the tables alone, this is the promise that the writer   *)
(* keeps too: the "same property" of sessioniser.py:4-6.  Nothing is trimmed *)
(* here, and an event is stored once some row counts it.                     *)
Promise == INSTANCE AtLeastOnce WITH
    Events <- Event, log <- stream, floor <- 1, settled <- (1 .. lastId) \ pel,
    stored <- {e \in {stream[i] : i \in Ids} : \E s \in Rows : CountedIn(e.id, s)}

KeepsPromise == Promise!Spec

(* While the connection lives, a session in memory has a row of its own that *)
(* is still open, and the row is never ahead of the memory.                  *)
MemoryHasItsRow ==
    conn => \A k \in Keys : IsOpen(k) =>
        /\ open[k].sid \in Rows
        /\ LET row == sessions[open[k].sid] IN
              /\ ~row.closed
              /\ row.key = k
              /\ row.started = open[k].started
              /\ row.ended <= open[k].last
              /\ Len(row.of) <= Len(open[k].events)
              /\ \A n \in DOMAIN row.of : row.of[n] = open[k].events[n]

(* A closed row is final: no late event, replay, sweep or failed statement   *)
(* ever changes it (sessioniser.py:194-196, 245-247).                        *)
ClosedRowsFrozen ==
    [][\A s \in Rows : sessions[s].closed => sessions'[s] = sessions[s]]_vars

(* The rules a session's events give reason to trigger, in whatever order    *)
(* they came.                                                                *)
Evidence(events) ==
    {r \in RuleIds : \E n \in DOMAIN events :
        RuleMatches(Rules[r], Features(events), events[n].what.payload)}

(* There is one alert per session at most, though no constraint of the       *)
(* schema says so, it is worth an alert, and every rule in it has evidence   *)
(* in the session's row (sessioniser.py:161-173, 226-234).                   *)
AlertsAreJustified ==
    /\ \A a, b \in 1 .. Len(alerts) : alerts[a].sid = alerts[b].sid => a = b
    /\ \A a \in 1 .. Len(alerts) :
          /\ RaisesAlert(alerts[a].triggered)
          /\ alerts[a].triggered \subseteq Evidence(sessions[alerts[a].sid].of)

(* Between two entries, a session in memory that has reason for an alert has *)
(* it, with all the rules there is evidence for (README.md:57-58).           *)
AlertsAreComplete ==
    pc \in {"next", "idle"} =>
        \A k \in Keys :
            (IsOpen(k) /\ RaisesAlert(Evidence(open[k].events))) =>
                \E a \in AlertsOf(open[k].sid) :
                    alerts[a].triggered = Evidence(open[k].events)

(* Entry j brings the next event of its key after entry i's. *)
Follows(i, j) ==
    /\ i < j
    /\ stream[i].key = stream[j].key
    /\ \A m \in Ids : i < m /\ m < j => stream[m].key # stream[i].key

RowsWith(i) == {s \in Rows : CountedIn(stream[i].id, s)}

(* A row's features are of some events of the stream, in their order, all of *)
(* its key, and it spans the time from the first of them to the last.        *)
RowTells(row) ==
    /\ row.of # <<>>
    /\ row.started = row.of[1].ts
    /\ row.ended = row.of[Len(row.of)].ts
    /\ \A n \in DOMAIN row.of : row.of[n].key = row.key /\ row.of[n] \in {stream[i] : i \in Ids}
    /\ \A m, n \in DOMAIN row.of : m < n => row.of[m].id < row.of[n].id

(* "One row per (src_ip, decoy) group with no more than a 15-minute gap"     *)
(* (001_schema.sql:71), said of the stream alone: when the process has       *)
(* caught up, every event is counted in one row, and the next event of its   *)
(* key in the same row if and only if neither limit lies between (their      *)
(* silence, the age of the session); else in a later row, the first closed   *)
(* (sessioniser.py:189-204).                                                 *)
RowsAreGroups ==
    UpToDate =>
        /\ \A s \in Rows : RowTells(sessions[s])
        /\ \A i \in Ids : \E s \in Rows : RowsWith(i) = {s}
        /\ \A i, j \in Ids : Follows(i, j) =>
              \A s \in RowsWith(i), t \in RowsWith(j) :
                  /\ s = t <=> /\ stream[j].ts - stream[i].ts <= Gap
                               /\ stream[j].ts - sessions[s].started <= MaxDuration
                  /\ s # t => s < t /\ sessions[s].closed

(* "Either can crash without the other losing anything" (sessioniser.py:5):  *)
(* every event is counted in a row in the end, unless a lost reply of Redis  *)
(* has left it pending with a run that reads new entries.                    *)
CountedOrLeftPending ==
    \A id \in EventIds :
        (id \in Happened) ~>
            \/ \E s \in Rows : CountedIn(id, s)
            \/ /\ pc = "idle" /\ cursor = ">"
               /\ \E i \in pel : stream[i].id = id

(* A session in memory does not stay: the next event or the sweep closes its *)
(* row, or the process ends and forgets it (sessioniser.py:189-196, 240-247).*)
OpenSessionsClose ==
    \A s \in EventIds :
        (\E k \in Keys : open[k].sid = s)
            ~> (pc = "down" \/ (s \in Rows /\ sessions[s].closed))

(* "postgres connection lost -- reconnecting in 3s" (sessioniser.py:309).    *)
Reconnects == (pc # "down" /\ ~conn) ~> (pc = "down" \/ conn)
=============================================================================
