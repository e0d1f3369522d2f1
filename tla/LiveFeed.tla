------------------------------ MODULE LiveFeed ------------------------------
(***************************************************************************)
(* The live feed, from the stream to the list a browser shows: the reader  *)
(* task and the per-connection queue of stream.py, the /ws/live handler of *)
(* api/main.py and the hook useLiveFeed.ts with its one REST request.      *)
(*                                                                         *)
(* An entry is its position in the stream, an event a number that grows    *)
(* with its time.  Entries may repeat an event: a tailer that died before  *)
(* its checkpoint publishes lines of sentinel-web again, with the same     *)
(* event_id.  One dashboard is modelled: what the API keeps for one        *)
(* connection is of no consequence to another.                             *)
(***************************************************************************)
EXTENDS Integers, FiniteSets, Sequences, SequencesExt

CONSTANTS
    EventAt,    \* the event of each entry the tailer will add
    Bad,        \* entries _decode raises on
    Count,      \* XREAD's COUNT
    QueueMax,   \* ST_WS_QUEUE_MAX
    Page,       \* rows the hook asks REST for, 50 of them
    MaxRows,    \* MAX_ROWS of the hook, 500
    WireMax,    \* frames the socket takes before send_json waits
    MaxFaults   \* bound: faults in a behaviour

ASSUME LiveFeedAssumption ==
    /\ EventAt \in Seq(Nat)
    /\ Bad \subseteq DOMAIN EventAt
    /\ {Count, QueueMax, Page, MaxRows, WireMax} \subseteq Nat \ {0}
    /\ Page <= MaxRows
    /\ MaxFaults \in Nat

VARIABLES
    added,     \* entries in the stream
    stored,    \* how many of them the writer has stored
    reader,    \* where the reader task is
    last,      \* its last_id; 0 is '$'
    since,     \* the id its XREAD was given, '$' resolved
    conn,      \* the browser's socket
    queue,     \* the connection's queue
    sender,    \* what stream_frames is at: "collect" or "send"
    batch,     \* the batch it holds
    wire,      \* frames sent and not yet handled
    list,      \* `events` of the hook, newest first
    rest,      \* the hook's REST request
    reply,     \* its answer, newest first
    base,      \* history: the reader has read everything after this
    from,      \* history: last when the connection subscribed
    lost,      \* history: what the connection's queue overflowed with
    received,  \* history: entries that came in frames
    twice,     \* history: events that came twice in one frame
    late,      \* history: the REST answer came after a frame
    faults     \* faults caused so far

tail == <<reader, last, since, base>>
socket == <<conn, queue, sender, batch, wire, from, lost>>
hook == <<list, rest, reply, received, twice, late>>
vars == <<added, stored, tail, socket, hook, faults>>

Entries == DOMAIN EventAt
Events == Range(EventAt)
Readers == {"start", "call", "blocked", "sleep", "dead"}

TypeOK ==
    /\ added \in 0 .. Len(EventAt)
    /\ stored \in 0 .. added
    /\ reader \in Readers
    /\ {last, since, base, from} \subseteq 0 .. added
    /\ conn \in {"open", "closed"}
    /\ sender \in {"collect", "send"}
    /\ {queue, batch} \subseteq Seq(Entries)
    /\ Len(queue) <= QueueMax
    /\ wire \in Seq(Seq(Entries)) /\ Len(wire) <= WireMax
    /\ {list, reply} \subseteq Seq(Events) /\ Len(list) <= MaxRows
    /\ rest \in {"asked", "served", "done"}
    /\ {lost, received} \subseteq SUBSET Entries /\ twice \subseteq Events
    /\ late \in BOOLEAN
    /\ faults \in 0 .. MaxFaults

NoSocket ==
    /\ conn' = "closed" /\ sender' = "collect"
    /\ queue' = <<>> /\ batch' = <<>> /\ wire' = <<>>
    /\ lost' = {}
    /\ UNCHANGED from

Init ==
    /\ added = 0 /\ stored = 0
    /\ reader = "start" /\ last = 0 /\ since = 0 /\ base = 0
    /\ conn = "closed" /\ sender = "collect"
    /\ queue = <<>> /\ batch = <<>> /\ wire = <<>>
    /\ from = 0 /\ lost = {}
    /\ list = <<>> /\ rest = "asked" /\ reply = <<>>
    /\ received = {} /\ twice = {} /\ late = FALSE
    /\ faults = 0

Fault ==
    /\ faults < MaxFaults
    /\ faults' = faults + 1

-----------------------------------------------------------------------------
(* The tailer adds an entry; the writer stores entries in their order, which *)
(* is of no consequence here once REST has been served.                      *)
XAdd ==
    /\ added < Len(EventAt)
    /\ added' = added + 1
    /\ UNCHANGED <<stored, tail, socket, hook, faults>>

Store ==
    /\ rest = "asked"
    /\ stored < added
    /\ stored' = stored + 1
    /\ UNCHANGED <<added, tail, socket, hook, faults>>

-----------------------------------------------------------------------------
(* Broadcaster._run. *)
Ping ==
    /\ reader = "start"
    /\ reader' = "call"
    /\ UNCHANGED <<added, stored, last, since, base, socket, hook, faults>>

(* XREAD: Redis takes '$' for the last id there is at that moment. *)
Call ==
    /\ reader = "call"
    /\ since' = IF last = 0 THEN added ELSE last
    /\ reader' = "blocked"
    /\ UNCHANGED <<added, stored, last, base, socket, hook, faults>>

(* Mutant of Put: a queue without maxsize. *)
PutUnbounded(q, e) == Append(q, e)

(* Mutant of Put: the newest takes the place of the oldest. *)
PutAtFront(q, e) ==
    IF Len(q) < QueueMax THEN Append(q, e) ELSE <<e>> \o Tail(q)

(* _publish: a full queue loses its oldest event to the newest. *)
Put(q, e) == Append(IF Len(q) < QueueMax THEN q ELSE Tail(q), e)

(* The loop over the entries after lo, as far as hi, of a reply: a queue q    *)
(* that they are put in.                                                     *)
PutAll(q, lo, hi) ==
    LET After[n \in lo .. hi] ==
            IF n = lo THEN q
            ELSE IF n \in Bad THEN After[n - 1]
            ELSE Put(After[n - 1], n)
    IN  After[hi]

(* It has no await in it. *)
Publish(lo, hi) ==
    IF conn = "closed" THEN UNCHANGED <<queue, lost>>
    ELSE /\ queue' = PutAll(queue, lo, hi)
         /\ lost' = lost \cup
               ((ToSet(queue) \cup ((lo + 1 .. hi) \ Bad)) \ ToSet(queue'))

(* A reply holds what there was when Redis served the call, which may have   *)
(* been waiting for the first entry to come.                                 *)
Reply ==
    /\ reader = "blocked" /\ since < added
    /\ \E hi \in since + 1 .. added :
          /\ hi <= since + Count
          /\ last' = hi
          /\ Publish(since, hi)
    /\ base' = IF last = 0 THEN since ELSE base
    /\ reader' = "call"
    /\ UNCHANGED <<added, stored, since, conn, sender, batch, wire, from, hook, faults>>

(* Nothing within two seconds: the loop turns over with the last_id it has. *)
BlockEnds ==
    /\ reader = "blocked" /\ since = added
    /\ reader' = "call"
    /\ UNCHANGED <<added, stored, last, since, base, socket, hook, faults>>

(* Mutant of ConnectionLost: the reader begins at '$' again. *)
ConnectionLostForgets ==
    /\ Fault
    /\ reader = "blocked"
    /\ reader' = "sleep"
    /\ last' = 0
    /\ UNCHANGED <<added, stored, since, base, socket, hook>>

(* redis.ConnectionError, whether or not Redis has served the call. *)
ConnectionLost ==
    /\ Fault
    /\ reader = "blocked"
    /\ reader' = "sleep"
    /\ UNCHANGED <<added, stored, last, since, base, socket, hook>>

WakeUp ==
    /\ reader = "sleep"
    /\ reader' = "call"
    /\ UNCHANGED <<added, stored, last, since, base, socket, hook, faults>>

(* Any other exception, or one out of the first ping, ends the task: nobody  *)
(* awaits it and nobody starts another.                                      *)
ReaderDies ==
    /\ Fault
    /\ reader \in {"start", "blocked"}
    /\ reader' = "dead"
    /\ UNCHANGED <<added, stored, last, since, base, socket, hook>>

(* The process is started again, and with it a reader at '$'. *)
Restart ==
    /\ Fault
    /\ reader' = "start" /\ last' = 0
    /\ NoSocket
    /\ UNCHANGED <<added, stored, since, base, hook>>

-----------------------------------------------------------------------------
(* The socket: opened by `connect`, accepted and subscribed by ws_live. *)
Connect ==
    /\ conn = "closed"
    /\ conn' = "open"
    /\ from' = last
    /\ UNCHANGED <<added, stored, tail, queue, sender, batch, wire, lost, hook, faults>>

(* It closes, for whichever side; ws_live unsubscribes its queue. *)
Disconnect ==
    /\ Fault
    /\ conn = "open"
    /\ NoSocket
    /\ UNCHANGED <<added, stored, tail, hook>>

(* stream_frames: one event, and what else comes before the deadline. *)
Collect ==
    /\ conn = "open" /\ sender = "collect" /\ queue # <<>>
    /\ batch' = Append(batch, Head(queue))
    /\ queue' = Tail(queue)
    /\ UNCHANGED <<added, stored, tail, conn, sender, wire, from, lost, hook, faults>>

(* Mutant of Deadline: a batch is yielded when a second event has come. *)
DeadlineOfTwo ==
    /\ conn = "open" /\ sender = "collect" /\ Len(batch) > 1
    /\ sender' = "send"
    /\ UNCHANGED <<added, stored, tail, conn, queue, batch, wire, from, lost, hook, faults>>

Deadline ==
    /\ conn = "open" /\ sender = "collect" /\ batch # <<>>
    /\ sender' = "send"
    /\ UNCHANGED <<added, stored, tail, conn, queue, batch, wire, from, lost, hook, faults>>

(* send_json returns once the socket has taken the frame. *)
Send ==
    /\ conn = "open" /\ sender = "send" /\ Len(wire) < WireMax
    /\ wire' = Append(wire, batch)
    /\ batch' = <<>>
    /\ sender' = "collect"
    /\ UNCHANGED <<added, stored, tail, conn, queue, from, lost, hook, faults>>

-----------------------------------------------------------------------------
(* The first n, or all there are. *)
Prefix(s, n) == SubSeq(s, 1, IF Len(s) < n THEN Len(s) ELSE n)

(* Mutant of AddEvents: no look at what the list holds. *)
AddEventsAll(prev, incoming) == Prefix(Reverse(incoming) \o prev, MaxRows)

(* incoming.filter((e) => !seen.has(e.event_id)). *)
Unseen(prev, incoming) ==
    LET Kept[n \in 0 .. Len(incoming)] ==
            IF n = 0 THEN <<>>
            ELSE IF incoming[n] \in ToSet(prev) THEN Kept[n - 1]
            ELSE Append(Kept[n - 1], incoming[n])
    IN  Kept[Len(incoming)]

(* Mutant of AddEvents: the frame is not turned round. *)
AddEventsUnturned(prev, incoming) == Prefix(Unseen(prev, incoming) \o prev, MaxRows)

(* addEvents, of events oldest first. *)
AddEvents(prev, incoming) == Prefix(Reverse(Unseen(prev, incoming)) \o prev, MaxRows)

EventsOf(frame) == [n \in DOMAIN frame |-> EventAt[frame[n]]]

Repeated(frame, e) ==
    \E m, n \in DOMAIN frame : m < n /\ EventAt[frame[m]] = e /\ EventAt[frame[n]] = e

OnMessage ==
    /\ conn = "open" /\ wire # <<>>
    /\ list' = AddEvents(list, EventsOf(Head(wire)))
    /\ twice' = twice \cup {e \in Events : Repeated(Head(wire), e)}
    /\ received' = received \cup ToSet(Head(wire))
    /\ wire' = Tail(wire)
    /\ UNCHANGED <<added, stored, tail, conn, queue, sender, batch, from, lost,
                   rest, reply, late, faults>>

(* The n newest of S, newest first: the k-th has k - 1 before it. *)
Newest(S, n) ==
    [k \in 1 .. (IF Cardinality(S) < n THEN Cardinality(S) ELSE n) |->
        CHOOSE e \in S : Cardinality({f \in S : e < f}) = k - 1]

(* GET /api/events?limit=... reads the table at some moment. *)
RestServed ==
    /\ rest = "asked"
    /\ rest' = "served"
    /\ reply' = Newest({EventAt[i] : i \in (1 .. stored) \ Bad}, Page)
    /\ UNCHANGED <<added, stored, tail, socket, list, received, twice, late, faults>>

RestArrives ==
    /\ rest = "served"
    /\ rest' = "done"
    /\ list' = AddEvents(list, Reverse(reply))
    /\ late' = (received # {})
    /\ UNCHANGED <<added, stored, tail, socket, reply, received, twice, faults>>

(* "initial fetch failed": logged, and not tried again. *)
RestFails ==
    /\ Fault
    /\ rest # "done"
    /\ rest' = "done"
    /\ reply' = <<>>
    /\ UNCHANGED <<added, stored, tail, socket, list, received, twice, late>>

-----------------------------------------------------------------------------
Api == Ping \/ Call \/ Reply \/ BlockEnds \/ WakeUp
Handler == Collect \/ Deadline \/ Send
Browser == Connect \/ OnMessage

Next ==
    \/ XAdd \/ Store
    \/ Api \/ Handler \/ Browser
    \/ RestServed \/ RestArrives \/ RestFails
    \/ ConnectionLost \/ ReaderDies \/ Restart \/ Disconnect

(* The event loop runs each of its tasks that can go on: the reader, what is *)
(* left of a frame when the deadline has passed, the browser's handlers.     *)
Spec ==
    /\ Init
    /\ [][Next]_vars
    /\ WF_vars(Api)
    /\ WF_vars(Collect) /\ WF_vars(Deadline) /\ WF_vars(Send)
    /\ WF_vars(OnMessage)

-----------------------------------------------------------------------------
(* Everything between the reader and the hook, oldest first, by the place it *)
(* is at.                                                                    *)
Places == wire \o <<batch, queue>>

UnderWay == UNION {ToSet(Places[k]) : k \in 1 .. Len(Places)}

(* What this connection is owed: everything since it subscribed, from the    *)
(* reader's first entry on, through every lost Redis connection.             *)
Owed == {i \in Entries \ Bad : from < i /\ base < i /\ i <= last}

(* Nothing the connection is owed is missing: it has been received, is under *)
(* way, or was older than all that a full queue kept (stream.py:66-77,       *)
(* 83-99).                                                                   *)
NothingSkipped ==
    conn = "open" =>
        /\ Owed \subseteq received \cup UnderWay \cup lost
        /\ UnderWay \subseteq Owed
        /\ \A i \in lost, j \in ToSet(queue) : i < j

Ascending(s) == \A m, n \in 1 .. Len(s) : m < n => s[m] < s[n]

(* Frames come in the order of the stream, none of them with anything that   *)
(* has come before, whatever a full queue dropped on the way and however     *)
(* often the socket was opened again (stream.py:69-77, 113-131).             *)
FramesInOrder ==
    \A k \in 1 .. Len(Places) :
        /\ Ascending(Places[k])
        /\ \A i \in received, j \in ToSet(Places[k]) : i < j
        /\ \A h \in 1 .. k - 1 :
              \A i \in ToSet(Places[h]), j \in ToSet(Places[k]) : i < j

(* An event that came more than once, by the socket, by REST or in a second  *)
(* entry, is one row of the list, unless one frame held it twice: the hook   *)
(* looks for it in the list only (useLiveFeed.ts:21-31).                     *)
NoRowTwice ==
    \A m, n \in DOMAIN list : (m # n /\ list[m] = list[n]) => list[m] \in twice

(* With what frames bring in the order of time, the REST answer the first to *)
(* come, and reaching back to where the socket begins, the list is the       *)
(* newest of all that has come, newest first, through every reconnection     *)
(* (useLiveFeed.ts:6-8, 24-31).                                              *)
ListIsNewest ==
    LET fetched == IF rest = "done" THEN ToSet(reply) ELSE {}
        framed == {EventAt[i] : i \in received}
        ordered == \A i, j \in received : i < j => EventAt[i] < EventAt[j]
        overlap == \A e \in framed : \A f \in fetched : e < f => e \in fetched
    IN  ordered /\ ~late /\ overlap => list = Newest(fetched \cup framed, MaxRows)

(* An event added after the reader has an id reaches a browser that stays    *)
(* connected, unless its queue overflows or the reader dies or starts anew   *)
(* (stream.py:79-99, 113-131).                                               *)
LiveReaches ==
    \A i \in Entries \ Bad :
        (conn = "open" /\ 0 < last /\ last < i /\ i <= added) ~>
            (i \in received \cup lost \/ conn = "closed" \/ reader = "dead" \/ last = 0)
=============================================================================
