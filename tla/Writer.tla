------------------------------- MODULE Writer -------------------------------
(***************************************************************************)
(* writer.py: one process of the consumer group `writer`.  It reads the    *)
(* stream in batches, inserts the batch in one transaction and only then   *)
(* acknowledges it.  A run of the process first re-reads what its consumer *)
(* name has pending (cursor "0") and, once a read of those comes back      *)
(* empty, reads new entries (cursor ">") until it ends.                    *)
(*                                                                         *)
(* The environment publishes and trims (tailer.py:159), breaks either      *)
(* connection, kills the process, and recreates the container.             *)
(***************************************************************************)
EXTENDS RedisStream

CONSTANTS
    Events,         \* events as the database tells them apart: (event_id, ts)
    Rejected,       \* those whose row PostgreSQL refuses (a DataError)
    Batch,          \* ST_BATCH
    MaxLen,         \* ST_STREAM_MAXLEN, at which the tailer trims the stream
    FaultKinds,     \* the faults the environment may cause
    MaxEntries,     \* bound: entries published
    MaxContainers,  \* bound: containers the service is given, one name each
    MaxFaults       \* bound: faults in a behaviour

AllFaults == {"kill", "recreate", "postgres", "redis"}

ASSUME WriterAssumption ==
    /\ Rejected \subseteq Events
    /\ Batch \in Nat \ {0}
    /\ MaxLen \in Nat \ {0}
    /\ FaultKinds \subseteq AllFaults
    /\ MaxEntries \in Nat
    /\ MaxContainers \in Nat \ {0}
    /\ MaxFaults \in Nat

(* Consumer names: ST_CONSUMER is unset in docker-compose.yml, so a name is  *)
(* the nodename of a container.                                              *)
Consumers == 1 .. MaxContainers

VARIABLES
    stream,   \* every entry ever added, by id
    first,    \* id of the oldest entry not trimmed
    lastId,   \* last id the group has been given
    pel,      \* the group's pending ids, by consumer name
    rows,     \* the events that have a row in the table `events`
    pc,       \* where the process is, "down" between runs
    cursor,   \* start_id of the next XREADGROUP
    name,     \* consumer name of this container
    batch,    \* ids of the batch in hand
    decoded,  \* those of them that Event.from_stream_fields could decode
    faults    \* faults caused so far

redis == <<stream, first, lastId, pel>>
vars == <<stream, first, lastId, pel, rows, pc, cursor, name,
          batch, decoded, faults>>

Ids == 1 .. Len(stream)

TypeOK ==
    /\ stream \in Seq(Events)
    /\ first \in Nat \ {0}
    /\ lastId \in 0 .. Len(stream)
    /\ pel \in [Consumers -> SUBSET Ids]
    /\ rows \subseteq Events
    /\ pc \in {"down", "idle", "write", "ack", "reconnect"}
    /\ cursor \in {"0", ">"}
    /\ name \in Consumers
    /\ batch \subseteq Ids
    /\ decoded \subseteq batch
    /\ faults \in 0 .. MaxFaults

Init ==
    /\ stream = <<>>
    /\ first = 1
    /\ lastId = 0
    /\ pel = [c \in Consumers |-> {}]
    /\ rows = {}
    /\ pc = "down"
    /\ cursor = "0"
    /\ name = 1
    /\ batch = {}
    /\ decoded = {}
    /\ faults = 0

Fault(kind) ==
    /\ kind \in FaultKinds
    /\ faults < MaxFaults
    /\ faults' = faults + 1

-----------------------------------------------------------------------------
(* The tailer's XADD, with the approximate trimming it asks for. *)
XAdd ==
    /\ Len(stream) < MaxEntries
    /\ \E e \in Events : stream' = Append(stream, e)
    /\ first' \in TrimmedFirst(first, Len(stream) + 1, MaxLen)
    /\ UNCHANGED <<lastId, pel, rows, pc, cursor, name, batch, decoded, faults>>

(* main: connect, make sure the group exists (it does, from id 0: BUSYGROUP  *)
(* is ignored), and begin with this name's own pending entries.              *)
Begin ==
    /\ pc = "down"
    /\ pc' = "idle"
    /\ cursor' = "0"
    /\ batch' = {}
    /\ decoded' = {}
    /\ UNCHANGED <<redis, rows>>

(* `restart: unless-stopped`: the same container, the same name. *)
Start ==
    /\ Begin
    /\ UNCHANGED <<name, faults>>

(* The service is given a new container, and so a new name. *)
Recreate ==
    /\ Fault("recreate")
    /\ name < MaxContainers
    /\ name' = name + 1
    /\ Begin

-----------------------------------------------------------------------------
(* _drain with start_id '0'.  Reading again what is pending changes nothing  *)
(* in Redis.                                                                 *)
ReadPending ==
    /\ pc = "idle"
    /\ cursor = "0"
    /\ pel[name] # {}
    /\ batch' = OldestPending(pel[name], Batch)
    /\ decoded' = Readable(batch', first)
    /\ pc' = "write"
    /\ UNCHANGED <<redis, rows, cursor, name, faults>>

(* Mutant of PendingDrained: one read of the pending entries is all. *)
PendingReadOnce ==
    /\ pc = "idle"
    /\ cursor = "0"
    /\ cursor' = ">"
    /\ UNCHANGED <<redis, rows, pc, name, batch, decoded, faults>>

(* No pending entries left: switch to live reads. *)
PendingDrained ==
    /\ pc = "idle"
    /\ cursor = "0"
    /\ pel[name] = {}
    /\ cursor' = ">"
    /\ UNCHANGED <<redis, rows, pc, name, batch, decoded, faults>>

NextBatch == Undelivered(lastId, first, Len(stream), Batch)

(* Mutant of Deliver: XREADGROUP with NOACK. *)
DeliverNoAck ==
    /\ pc = "idle"
    /\ cursor = ">"
    /\ NextBatch # {}
    /\ \E last \in NextBatch :
          /\ \A i \in NextBatch : i <= last
          /\ lastId' = last
    /\ UNCHANGED <<stream, first, pel, rows, cursor, name>>

(* XREADGROUP '>' makes the entries it returns pending before the reply is   *)
(* on its way.                                                               *)
Deliver ==
    /\ pc = "idle"
    /\ cursor = ">"
    /\ NextBatch # {}
    /\ \E last \in NextBatch :
          /\ \A i \in NextBatch : i <= last
          /\ lastId' = last
    /\ pel' = [pel EXCEPT ![name] = @ \cup NextBatch]
    /\ UNCHANGED <<stream, first, rows, cursor, name>>

ReadNew ==
    /\ Deliver
    /\ batch' = NextBatch
    /\ decoded' = NextBatch
    /\ pc' = "write"
    /\ UNCHANGED faults

(* Nothing new within BLOCK_MS: the loop turns over. *)
ReadTimeout ==
    /\ pc = "idle"
    /\ cursor = ">"
    /\ NextBatch = {}
    /\ UNCHANGED vars

(* redis.ConnectionError out of XREADGROUP '>' after Redis has served it:    *)
(* main sleeps and reads again with the cursor it had.                       *)
ReadReplyLost ==
    /\ Fault("redis")
    /\ Deliver
    /\ UNCHANGED <<pc, batch, decoded>>

-----------------------------------------------------------------------------
(* The rows of the batch.  An entry trimmed while it was pending came back   *)
(* without fields: it is logged as undecodable and acknowledged with the     *)
(* rest.                                                                     *)
BatchRows == {stream[i] : i \in decoded}

(* _write: one transaction, ON CONFLICT DO NOTHING, then commit.  With no    *)
(* event decoded there is no transaction.                                    *)
Commit ==
    /\ pc = "write"
    /\ BatchRows \cap Rejected = {}
    /\ rows' = rows \cup BatchRows

WriteBatch ==
    /\ Commit
    /\ pc' = "ack"
    /\ UNCHANGED <<redis, cursor, name, batch, decoded, faults>>

(* A row PostgreSQL refuses raises a psycopg.DataError, which neither _drain *)
(* nor main catches: the process ends, and nothing of the batch is kept.     *)
WriteRejected ==
    /\ pc = "write"
    /\ BatchRows \cap Rejected # {}
    /\ pc' = "down"
    /\ batch' = {}
    /\ decoded' = {}
    /\ UNCHANGED <<redis, rows, cursor, name, faults>>

(* Mutant of PostgresLost: _drain logs the error and goes on to its XACK. *)
PostgresLostSwallowed ==
    /\ Fault("postgres")
    /\ pc = "write"
    /\ decoded # {}
    /\ pc' = "ack"
    /\ UNCHANGED <<redis, rows, cursor, name, batch, decoded>>

(* psycopg.OperationalError: the connection breaks before the commit or      *)
(* before its confirmation.  main drops the batch and will reconnect.        *)
PostgresLost ==
    /\ Fault("postgres")
    /\ pc = "write"
    /\ decoded # {}
    /\ UNCHANGED rows \/ Commit
    /\ pc' = "reconnect"
    /\ batch' = {}
    /\ decoded' = {}
    /\ UNCHANGED <<redis, cursor, name>>

(* The new connection, and back to the loop with the cursor as it was. *)
Reconnect ==
    /\ pc = "reconnect"
    /\ pc' = "idle"
    /\ UNCHANGED <<redis, rows, cursor, name, batch, decoded, faults>>

(* psycopg.connect raises inside the except clause: the process ends. *)
ReconnectFails ==
    /\ pc = "reconnect"
    /\ pc' = "down"
    /\ UNCHANGED <<redis, rows, cursor, name, batch, decoded, faults>>

(* Mutant of Ack: the list of events is not emptied for the next batch. *)
AckKeepsEvents ==
    /\ pc = "ack"
    /\ pel' = [pel EXCEPT ![name] = @ \ batch]
    /\ batch' = {}
    /\ pc' = "idle"
    /\ UNCHANGED <<stream, first, lastId, rows, cursor, name, decoded, faults>>

(* Mutant of Ack: everything pending is acknowledged, not this batch alone. *)
AckAll ==
    /\ pc = "ack"
    /\ pel' = [pel EXCEPT ![name] = {}]
    /\ batch' = {}
    /\ decoded' = {}
    /\ pc' = "idle"
    /\ UNCHANGED <<stream, first, lastId, rows, cursor, name, faults>>

(* XACK of every entry of the batch, decoded or not. *)
Ack ==
    /\ pc = "ack"
    /\ pel' = [pel EXCEPT ![name] = @ \ batch]
    /\ batch' = {}
    /\ decoded' = {}
    /\ pc' = "idle"
    /\ UNCHANGED <<stream, first, lastId, rows, cursor, name, faults>>

(* redis.ConnectionError out of XACK, whether or not Redis has served it. *)
AckLost ==
    /\ Fault("redis")
    /\ pc = "ack"
    /\ \/ UNCHANGED pel
       \/ pel' = [pel EXCEPT ![name] = @ \ batch]
    /\ batch' = {}
    /\ decoded' = {}
    /\ pc' = "idle"
    /\ UNCHANGED <<stream, first, lastId, rows, cursor, name>>

(* The process ends at any point: SIGKILL, OOM, an uncaught exception. *)
Kill ==
    /\ Fault("kill")
    /\ pc # "down"
    /\ pc' = "down"
    /\ batch' = {}
    /\ decoded' = {}
    /\ UNCHANGED <<redis, rows, cursor, name>>

(* redis.ConnectionError out of the XPENDING of the minute's report, which   *)
(* stands outside the try of main: the process ends.                         *)
ReportFails ==
    /\ Fault("redis")
    /\ pc = "idle"
    /\ pc' = "down"
    /\ UNCHANGED <<redis, rows, cursor, name, batch, decoded>>

-----------------------------------------------------------------------------
Process ==
    \/ Start \/ ReadPending \/ PendingDrained \/ ReadNew \/ ReadTimeout
    \/ WriteBatch \/ WriteRejected \/ Reconnect \/ ReconnectFails \/ Ack

Environment ==
    \/ XAdd \/ Recreate \/ ReadReplyLost \/ PostgresLost \/ AckLost
    \/ ReportFails \/ Kill

Next == Process \/ Environment

(* The loop of main runs on and Docker restarts what ends; nothing else is   *)
(* owed by anyone.                                                           *)
Spec == Init /\ [][Next]_vars /\ WF_vars(Process)
-----------------------------------------------------------------------------
(* The entries the group was given and has been told are done: no read will  *)
(* return them again.                                                        *)
Pending == UNION {pel[c] : c \in Consumers}
Settled == (1 .. lastId) \ Pending

Kept(i) == i >= first

(* An entry leaves the group's pending lists only when its event has its     *)
(* row, or after MAXLEN trimmed it: XACK comes after the commit              *)
(* (writer.py:101-106), through every crash and lost reply.                  *)
SettledIsStored == \A i \in Settled : stream[i] \in rows \/ ~Kept(i)

(* The writer implements the promise of AtLeastOnce. *)
Promise == INSTANCE AtLeastOnce WITH
    log <- stream, floor <- first, stored <- rows, settled <- Settled

KeepsPromise == Promise!Spec

(* Everything published is stored in the end, or trimmed ("resume from its   *)
(* last acknowledged ID without losing events", writer.py:3-5).              *)
EveryEntryStored ==
    \A i \in 1 .. MaxEntries :
        (i <= Len(stream)) ~> (i < first \/ (i <= Len(stream) /\ stream[i] \in rows))

(* Pending under the name of a container that is gone: no read returns it.   *)
Orphaned(i) == \E c \in Consumers \ {name} : i \in pel[c]

(* A row the database refuses is pending under the process's own name, and   *)
(* every run ends at it.                                                     *)
Blocked == \E i \in pel[name] : i >= first /\ stream[i] \in Rejected

(* What the code does promise of every entry: it is stored or trimmed, or a  *)
(* run that reads new entries has it pending, because it lost a connection   *)
(* over it; or the entry went with the name of a container, or stands behind *)
(* a row the database refuses.  A crash at any point, and a connection lost  *)
(* over an entry pending from an earlier run, cost nothing                   *)
(* (writer.py:121-140).                                                      *)
StoredOrLeftPending ==
    \A i \in 1 .. MaxEntries :
        (i <= Len(stream)) ~>
            \/ i < first
            \/ i <= Len(stream) /\ stream[i] \in rows
            \/ pc = "idle" /\ cursor = ">" /\ i \in pel[name]
            \/ Orphaned(i)
            \/ Blocked

(* What a run finds pending under its name when it begins, it stores or      *)
(* settles before it turns to new entries, if its name lives and the         *)
(* database takes the rows: an error on the way costs a retry, never the     *)
(* entry (writer.py:80-87, 121-131).                                         *)
Reclaims ==
    \A i \in 1 .. MaxEntries :
        (pc = "idle" /\ cursor = "0" /\ i \in pel[name])
            ~> (i \in Settled \/ Orphaned(i) \/ Blocked)
=============================================================================
