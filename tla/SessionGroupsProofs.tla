------------------------- MODULE SessionGroupsProofs -------------------------
(***************************************************************************)
(* The rows of the table are the groups that the stream's events fall      *)
(* into, for every value of Sessioniser's constants under which nothing    *)
(* fails, no entry comes twice and the stream is read before time passes.  *)
(***************************************************************************)
EXTENDS SessioniserProofs

(* Nothing fails, the tailer publishes every line once, and the stream is    *)
(* read before time passes.                                                  *)
Undisturbed == FaultKinds = {} /\ MaxReplays = 0 /\ Prompt

(* Entries carry their events' ids, in the order of time, and those that are *)
(* not settled came just now.                                                *)
OnTime ==
    /\ \A i \in Ids : stream[i].id = i /\ stream[i].ts <= now
    /\ \A i, j \in Ids : i <= j => stream[i].ts <= stream[j].ts
    /\ \A i \in Ids : i > lastId \/ i \in pel => stream[i].ts = now

(* The tables account for the first n entries; of the batch, those after     *)
(* them are still to do, and the last of them while its statements go on.    *)
BatchFrom(n) ==
    /\ pel = batch
    /\ pc \in {"down", "idle", "sweep"} => batch = {}
    /\ n \in 0 .. lastId
    /\ todo = (IF pc \in {"link", "hit", "alert"} THEN n ELSE n + 1) .. lastId

(* A session in memory spans the time of its events.                         *)
MemoryTells ==
    \A k \in Keys : IsOpen(k) =>
        /\ open[k].events # <<>>
        /\ open[k].started = open[k].events[1].ts
        /\ open[k].last = open[k].events[Len(open[k].events)].ts

(* What is about to be done is due: a session is closed or swept that is     *)
(* over, one is opened where there is none, and a row is one event behind.   *)
StatementDue ==
    /\ pc = "close" => Expired(open[K], E)
    /\ pc = "open" => ~IsOpen(K)
    /\ pc = "update" => open[K].events = Append(sessions[open[K].sid].of, E)
    /\ pc = "sweep" => \A k \in sweeping : IsOpen(k) /\ now - open[k].last > Gap

(* Rows are of the first n entries, in their order; one without events has   *)
(* just been opened.                                                         *)
RowsTell(n) ==
    \A s \in Rows :
        LET row == sessions[s] IN
        /\ \A m \in DOMAIN row.of :
              row.of[m].id \in 1 .. n /\ row.of[m] = stream[row.of[m].id] /\ row.of[m].key = row.key
        /\ \A l, m \in DOMAIN row.of : l < m => row.of[l].id < row.of[m].id
        /\ row.of # <<>> => /\ row.started = row.of[1].ts
                            /\ row.ended = row.of[Len(row.of)].ts
RowsFilled ==
    \A s \in Rows : sessions[s].of = <<>> => pc = "update" /\ open[K].sid = s

(* Each of the first n entries is in one row. *)
Partition(n) == \A i \in 1 .. n : \E s \in Rows : RowsWith(i) = {s}

(* Entry i's session, in row s, is not over for entry j. *)
Extends(i, s, j) ==
    /\ stream[j].ts - stream[i].ts <= Gap
    /\ stream[j].ts - sessions[s].started <= MaxDuration

Neighbours(n) ==
    \A i, j \in Ids : Follows(i, j) /\ j <= n =>
        \A s \in RowsWith(i), t \in RowsWith(j) :
            /\ s = t <=> Extends(i, s, j)
            /\ s # t => s < t /\ sessions[s].closed

(* Entry i brings the last event of its key among the first n.               *)
IsLatest(i, n) ==
    /\ i \in 1 .. n
    /\ \A m \in Ids : i < m /\ m <= n => stream[m].key # stream[i].key

(* Its session is in memory, or its row is closed and nothing can extend it. *)
Continued(i, s) ==
    LET k == stream[i].key IN
    /\ IsOpen(k) /\ open[k].sid = s
    /\ pc = "update" /\ K = k => Extends(i, s, Entry)
Ended(i, s) ==
    LET k == stream[i].key IN
    /\ sessions[s].closed
    /\ IsOpen(k) => pc = "update" /\ K = k /\ s < open[k].sid
    /\ \/ now - stream[i].ts > Gap
       \/ pc \in {"open", "update"} /\ K = k /\ ~Extends(i, s, Entry)
Latest(n) ==
    \A i \in Ids : IsLatest(i, n) =>
        \A s \in RowsWith(i) : Continued(i, s) \/ Ended(i, s)

Grouped(n) ==
    /\ MemoryTells
    /\ RowsTell(n)
    /\ RowsFilled
    /\ Partition(n)
    /\ Neighbours(n)
    /\ Latest(n)

GroupInv(n) ==
    /\ OnTime
    /\ BatchFrom(n)
    /\ StatementDue
    /\ Grouped(n)

-----------------------------------------------------------------------------
(* The types the arithmetic below needs. *)
LEMMA StreamTypes ==
    ASSUME IInv
    PROVE  /\ Len(stream) \in Nat /\ lastId \in Nat /\ lastId <= Len(stream)
           /\ now \in Nat /\ Gap \in Nat /\ MaxDuration \in Nat
           /\ \A i \in Ids : /\ i \in Nat /\ stream[i] \in Event
                             /\ stream[i].ts \in Nat /\ stream[i].key \in Keys
  <1>1. Len(stream) \in Nat /\ \A i \in Ids : stream[i] \in Event
    BY LenProperties, ElementOfSeq DEF IInv, TypeOK, Ids
  <1> QED BY <1>1, SessioniserAssumption DEF IInv, TypeOK, SessioniserAssumption, Event, Ids

LEMMA RowTypes ==
    ASSUME IInv
    PROVE  /\ Len(sessions) \in Nat
           /\ \A s \in Rows : /\ s \in Nat /\ sessions[s] \in SessionRow
                              /\ sessions[s].started \in Nat
                              /\ sessions[s].of \in Seq(Event)
  <1>1. Len(sessions) \in Nat /\ \A s \in Rows : sessions[s] \in SessionRow
    BY LenProperties, ElementOfSeq DEF IInv, TypeOK, Rows
  <1> QED BY <1>1, SessioniserAssumption DEF SessionRow, SessioniserAssumption, Rows

LEMMA MemoryTypes ==
    ASSUME IInv, NEW k \in Keys, IsOpen(k)
    PROVE  /\ open[k] \in SessionState /\ open[k].events \in Seq(Event)
           /\ open[k].started \in Nat /\ open[k].last \in Nat
  <1>1. open[k] \in SessionState
    BY DEF IInv, TypeOK, IsOpen
  <1> QED BY <1>1, SessioniserAssumption DEF SessionState, SessioniserAssumption

(* The entry in hand is the first of those to do. *)
LEMMA FirstOf ==
    ASSUME NEW a \in Nat, NEW b \in Nat, todo = a .. b, todo # {}
    PROVE  Entry = a /\ todo \ {Entry} = (a + 1) .. b
  <1>1. a <= b /\ a \in todo
    OBVIOUS
  <1>2. \A i \in todo : (\A j \in todo : i <= j) => i = a
    BY <1>1
  <1>3. Entry \in todo /\ \A j \in todo : Entry <= j
    <2>1. todo \in SUBSET Nat
      OBVIOUS
    <2> QED BY <2>1, LeastExists DEF Entry
  <1>4. Entry = a
    BY <1>2, <1>3
  <1> QED BY <1>4

(* No entry came twice: the tailer has nothing to publish again. *)
LEMMA NoneTwice ==
    ASSUME IInv, OnTime
    PROVE  Cardinality(Happened) = Len(stream) /\ Replayed = 0
  <1>1. Len(stream) \in Nat
    BY StreamTypes
  <1>2. Happened = Ids
    BY DEF Happened, OnTime
  <1>3. Cardinality(Ids) = Len(stream)
    <2>1. ASSUME NEW m \in Nat PROVE Cardinality(1 .. m) = m
      BY FS_Interval
    <2> QED BY <1>1, <2>1 DEF Ids
  <1>4. Cardinality(Happened) = Len(stream)
    BY <1>2, <1>3
  <1> QED BY <1>1, <1>4 DEF Replayed

LEMMA UndisturbedSteps ==
    ASSUME Undisturbed, IInv, CountInv, NEW n, GroupInv(n), [Next]_vars
    PROVE  \/ Happen \/ Tick \/ Start \/ PendingDrained \/ ReadNew \/ Take
           \/ Execute \/ Ack \/ Sweep \/ SweepOne \/ UNCHANGED vars
  <1>1. ~SkipEntry /\ ~SweepFails
    BY NothingRaises DEF Undisturbed, StatementsSucceed, CountInv
  <1>2. ~ReadReplyLost /\ ~AckLost /\ ~Kill
    BY DEF Undisturbed, ReadReplyLost, AckLost, Kill, Fault
  <1>3. ~ReadPending
    BY DEF ReadPending, GroupInv, BatchFrom
  <1>4. ~Replay
    BY NoneTwice DEF Replay, Undisturbed, GroupInv
  <1> QED
    BY <1>1, <1>2, <1>3, <1>4 DEF Next, Process, Environment, Reads, ReadTimeout

-----------------------------------------------------------------------------
(* A step that adds to the stream at most, and no event to any row. *)
StreamKept ==
    /\ Ids \subseteq Ids'
    /\ \A i \in Ids : stream'[i] = stream[i]

RowsKept ==
    /\ Rows \subseteq Rows'
    /\ \A s \in Rows :
          /\ sessions'[s].key = sessions[s].key
          /\ sessions'[s].started = sessions[s].started
          /\ sessions'[s].ended = sessions[s].ended
          /\ sessions'[s].of = sessions[s].of
          /\ sessions[s].closed => sessions'[s].closed
    /\ \A s \in Rows' \ Rows : sessions'[s].of = <<>>

LEMMA CountedKept ==
    ASSUME IInv, StreamKept, RowsKept, NEW i \in Ids
    PROVE  RowsWith(i)' = RowsWith(i)
  <1>1. stream'[i].id = stream[i].id
    BY DEF StreamKept
  <1>2. \A s \in Rows : CountedIn(stream[i].id, s)' = CountedIn(stream[i].id, s)
    BY <1>1 DEF CountedIn, RowsKept
  <1>3. \A s \in Rows' \ Rows : ~CountedIn(stream[i].id, s)'
    BY DEF CountedIn, RowsKept
  <1> QED BY <1>2, <1>3 DEF RowsWith, RowsKept

LEMMA TellKept ==
    ASSUME IInv, StreamKept, RowsKept, NEW n \in Nat, n <= lastId, RowsTell(n)
    PROVE  RowsTell(n)'
  <1> SUFFICES ASSUME NEW s \in Rows'
               PROVE  /\ \A m \in DOMAIN sessions'[s].of :
                            LET e == sessions'[s].of[m] IN
                            e.id \in 1 .. n /\ e = stream'[e.id] /\ e.key = sessions'[s].key
                      /\ \A l, m \in DOMAIN sessions'[s].of :
                            l < m => sessions'[s].of[l].id < sessions'[s].of[m].id
                      /\ sessions'[s].of # <<>> =>
                            /\ sessions'[s].started = sessions'[s].of[1].ts
                            /\ sessions'[s].ended = sessions'[s].of[Len(sessions'[s].of)].ts
    BY DEF RowsTell
  <1>1. CASE s \in Rows
    <2>1. \A i \in 1 .. n : stream'[i] = stream[i]
      BY StreamTypes DEF StreamKept, Ids
    <2>2. /\ sessions'[s].key = sessions[s].key
          /\ sessions'[s].started = sessions[s].started
          /\ sessions'[s].ended = sessions[s].ended
          /\ sessions'[s].of = sessions[s].of
      BY <1>1 DEF RowsKept
    <2>3. /\ \A m \in DOMAIN sessions[s].of :
                LET e == sessions[s].of[m] IN
                e.id \in 1 .. n /\ e = stream[e.id] /\ e.key = sessions[s].key
          /\ \A l, m \in DOMAIN sessions[s].of :
                l < m => sessions[s].of[l].id < sessions[s].of[m].id
          /\ sessions[s].of # <<>> =>
                /\ sessions[s].started = sessions[s].of[1].ts
                /\ sessions[s].ended = sessions[s].of[Len(sessions[s].of)].ts
      BY <1>1 DEF RowsTell
    <2> QED BY <2>1, <2>2, <2>3
  <1>2. CASE s \notin Rows
    <2>1. sessions'[s].of = <<>>
      BY <1>2 DEF RowsKept
    <2> QED BY <2>1
  <1> QED BY <1>1, <1>2

LEMMA PartitionKept ==
    ASSUME IInv, StreamKept, RowsKept, NEW n \in Nat, n <= lastId, Partition(n)
    PROVE  Partition(n)'
  <1>1. \A i \in 1 .. n : i \in Ids
    BY StreamTypes DEF Ids
  <1>2. \A i \in 1 .. n : RowsWith(i)' = RowsWith(i)
    BY <1>1, CountedKept
  <1> QED BY <1>2 DEF Partition, RowsKept

(* Of the first n entries, those that follow one another stay the same. *)
LEMMA FollowsKept ==
    ASSUME IInv, StreamKept, NEW n \in Nat, n <= lastId,
           NEW i \in Ids', NEW j \in Ids', Follows(i, j)', j <= n
    PROVE  i \in Ids /\ j \in Ids /\ Follows(i, j)
  <1>1. i \in Ids /\ j \in Ids
    BY StreamTypes DEF Follows, Ids
  <1> QED BY <1>1 DEF Follows, StreamKept

LEMMA NeighboursKept ==
    ASSUME IInv, StreamKept, RowsKept, NEW n \in Nat, n <= lastId, Neighbours(n)
    PROVE  Neighbours(n)'
  <1> SUFFICES ASSUME NEW i \in Ids', NEW j \in Ids', Follows(i, j)', j <= n,
                      NEW s \in RowsWith(i)', NEW t \in RowsWith(j)'
               PROVE  /\ s = t <=> Extends(i, s, j)'
                      /\ s # t => s < t /\ sessions'[s].closed
    BY DEF Neighbours
  <1>1. i \in Ids /\ j \in Ids /\ Follows(i, j)
    BY FollowsKept
  <1>2. s \in RowsWith(i) /\ t \in RowsWith(j)
    BY <1>1, CountedKept
  <1>3. s \in Rows
    BY <1>2 DEF RowsWith
  <1>4. Extends(i, s, j)' <=> Extends(i, s, j)
    BY <1>1, <1>3 DEF Extends, StreamKept, RowsKept
  <1> QED BY <1>1, <1>2, <1>3, <1>4 DEF Neighbours, RowsKept

(* What continues an entry or ends its session does so after the step.       *)
LEMMA LatestKept ==
    ASSUME IInv, StreamKept, RowsKept, NEW n \in Nat, n <= lastId,
           \A i \in Ids : IsLatest(i, n) =>
              \A s \in RowsWith(i) : Continued(i, s)' \/ Ended(i, s)'
    PROVE  Latest(n)'
  <1> SUFFICES ASSUME NEW i \in Ids', IsLatest(i, n)', NEW s \in RowsWith(i)'
               PROVE  Continued(i, s)' \/ Ended(i, s)'
    BY DEF Latest
  <1>1. i \in Ids
    BY StreamTypes DEF IsLatest, Ids
  <1>2. IsLatest(i, n)
    BY <1>1 DEF IsLatest, StreamKept
  <1>3. s \in RowsWith(i)
    BY <1>1, CountedKept
  <1> QED BY <1>1, <1>2, <1>3

-----------------------------------------------------------------------------
(* Most steps leave the tables as they are, and of a session in memory all   *)
(* but the rules it has triggered.                                           *)
MemoryKept ==
    \A k \in Keys :
        /\ IsOpen(k)' <=> IsOpen(k)
        /\ open'[k].sid = open[k].sid
        /\ open'[k].events = open[k].events
        /\ open'[k].started = open[k].started
        /\ open'[k].last = open[k].last

LEMMA MemoryTellsKept ==
    ASSUME MemoryTells, MemoryKept
    PROVE  MemoryTells'
  BY DEF MemoryTells, MemoryKept

LEMMA SameTables ==
    ASSUME UNCHANGED sessions
    PROVE  RowsKept /\ Rows' = Rows
  BY DEF RowsKept, Rows

(* Before the batch goes on to the statements of another session.            *)
LEMMA QuietStep ==
    ASSUME IInv, NEW n \in Nat, n <= lastId, Grouped(n), StreamKept,
           UNCHANGED sessions, MemoryKept, now <= now', now' \in Nat,
           pc \notin {"open", "update"}, pc' # "update"
    PROVE  Grouped(n)'
  <1>1. RowsKept /\ Rows' = Rows
    BY SameTables
  <1>2. MemoryTells'
    BY MemoryTellsKept DEF Grouped
  <1>3. RowsTell(n)' /\ Partition(n)' /\ Neighbours(n)'
    BY <1>1, TellKept, PartitionKept, NeighboursKept DEF Grouped
  <1>4. RowsFilled'
    BY <1>1 DEF Grouped, RowsFilled
  <1>5. ASSUME NEW i \in Ids, IsLatest(i, n), NEW s \in RowsWith(i)
        PROVE  Continued(i, s)' \/ Ended(i, s)'
    <2> DEFINE k == stream[i].key
    <2>1. k \in Keys /\ stream'[i] = stream[i] /\ s \in Rows /\ stream[i].ts \in Nat
      BY StreamTypes DEF StreamKept, RowsWith
    <2>2. CASE Continued(i, s)
      <3>1. IsOpen(k)' /\ open'[k].sid = s
        BY <2>1, <2>2 DEF Continued, MemoryKept
      <3> QED BY <2>1, <3>1 DEF Continued
    <2>3. CASE Ended(i, s)
      <3>1. ~IsOpen(k)' /\ sessions'[s].closed
        BY <2>1, <2>3 DEF Ended, MemoryKept
      <3>2. now' - stream[i].ts > Gap
        BY <2>1, <2>3, StreamTypes DEF Ended
      <3> QED BY <2>1, <3>1, <3>2 DEF Ended
    <2> QED BY <1>5, <2>2, <2>3 DEF Grouped, Latest
  <1>6. Latest(n)'
    BY <1>1, <1>5, LatestKept
  <1> QED BY <1>2, <1>3, <1>4, <1>6 DEF Grouped

(* What happens elsewhere leaves the statement about to run as due as it was.*)
LEMMA AsideStep ==
    ASSUME IInv, NEW n \in Nat, n <= lastId, Grouped(n), StatementDue, StreamKept,
           UNCHANGED <<sessions, open, now, pc, todo, sweeping>>
    PROVE  Grouped(n)' /\ StatementDue'
  <1>1. RowsKept /\ Rows' = Rows
    BY SameTables
  <1>2. todo # {} => Entry' = Entry /\ E' = E /\ K' = K
    BY EntryStays DEF StreamKept, IInv, Entry
  <1>3. pc \in Statements => Entry' = Entry /\ E' = E /\ K' = K
    BY <1>2 DEF IInv, InHand
  <1>4. StatementDue'
    BY <1>3 DEF StatementDue, Statements, IsOpen
  <1>5. MemoryTells' /\ RowsFilled'
    BY <1>1, <1>3 DEF Grouped, MemoryTells, RowsFilled, IsOpen, Statements
  <1>6. RowsTell(n)' /\ Partition(n)' /\ Neighbours(n)'
    BY <1>1, TellKept, PartitionKept, NeighboursKept DEF Grouped
  <1>7. ASSUME NEW i \in Ids, IsLatest(i, n), NEW s \in RowsWith(i)
        PROVE  Continued(i, s)' \/ Ended(i, s)'
    <2>1. stream'[i] = stream[i] /\ (IsOpen(stream[i].key)' <=> IsOpen(stream[i].key))
      BY DEF StreamKept, IsOpen
    <2>2. pc \in Statements => (Extends(i, s, Entry)' <=> Extends(i, s, Entry))
      <3>1. SUFFICES ASSUME pc \in Statements PROVE Extends(i, s, Entry)' <=> Extends(i, s, Entry)
        OBVIOUS
      <3>2. Entry \in Ids /\ Entry' = Entry
        BY <1>3, <3>1, EntryInHand DEF IInv, InHand
      <3> QED BY <2>1, <3>2 DEF Extends, StreamKept
    <2>3. Continued(i, s) => Continued(i, s)'
      BY <1>3, <2>1, <2>2 DEF Continued, Statements
    <2>4. Ended(i, s) => Ended(i, s)'
      BY <1>3, <2>1, <2>2 DEF Ended, Statements
    <2> QED BY <1>7, <2>3, <2>4 DEF Grouped, Latest
  <1>8. Latest(n)'
    BY <1>1, <1>7, LatestKept
  <1> QED BY <1>4, <1>5, <1>6, <1>8 DEF Grouped

-----------------------------------------------------------------------------
(* The steps that leave the tables alone. *)
LEMMA Bounds ==
    ASSUME IInv, NEW n, BatchFrom(n)
    PROVE  n \in Nat /\ n <= lastId
  BY StreamTypes DEF BatchFrom

(* Between two batches nothing is left to do. *)
LEMMA NothingToDo ==
    ASSUME IInv, NEW n, BatchFrom(n), todo = {}, pc \notin Statements
    PROVE  n = lastId
  <1>1. n \in Nat /\ lastId \in Nat /\ n <= lastId
    BY Bounds, StreamTypes
  <1>2. (n + 1) .. lastId = {}
    BY DEF BatchFrom, Statements
  <1> QED BY <1>1, <1>2

LEMMA BetweenBatches ==
    ASSUME IInv, NEW n, BatchFrom(n), pc \in {"down", "idle", "sweep"}
    PROVE  batch = {} /\ pel = {} /\ todo = {} /\ n = lastId
  <1>1. batch = {} /\ pel = {} /\ todo = {}
    BY DEF BatchFrom, IInv, TypeOK
  <1> QED BY <1>1, NothingToDo DEF Statements

(* The event that happens is the last, and comes now. *)
LEMMA HappenedLast ==
    ASSUME IInv, OnTime, Happen
    PROVE  /\ StreamKept
           /\ Ids' = Ids \cup {Len(stream) + 1}
           /\ stream'[Len(stream) + 1].id = Len(stream) + 1
           /\ stream'[Len(stream) + 1].ts = now
  <1>1. PICK k \in Keys, w \in Kinds :
           stream' = Append(stream, [id |-> Cardinality(Happened) + 1,
                                     key |-> k, ts |-> now, what |-> w])
    BY DEF Happen
  <1> DEFINE e == [id |-> Cardinality(Happened) + 1, key |-> k, ts |-> now, what |-> w]
  <1>2. e.id = Len(stream) + 1 /\ e.ts = now
    BY NoneTwice
  <1>3. stream \in Seq(Event \cup {e}) /\ e \in Event \cup {e} /\ stream' = Append(stream, e)
    BY <1>1, SeqMonotonic DEF IInv, TypeOK
  <1> HIDE DEF e
  <1>4. /\ Len(stream) \in Nat /\ Len(stream') = Len(stream) + 1
        /\ stream'[Len(stream) + 1] = e
        /\ \A i \in 1 .. Len(stream) : stream'[i] = stream[i]
    BY <1>3, AppendProperties, LenProperties
  <1> QED BY <1>2, <1>4 DEF StreamKept, Ids

LEMMA HappenGroups ==
    ASSUME IInv, NEW n, GroupInv(n), Happen
    PROVE  GroupInv(n)'
  <1>1. n \in Nat /\ n <= lastId
    BY Bounds DEF GroupInv
  <1>2. UNCHANGED <<now, lastId, pel, pc, batch, todo, sweeping, open, sessions>>
    BY DEF Happen, loop, db
  <1>3. /\ StreamKept
        /\ Ids' = Ids \cup {Len(stream) + 1}
        /\ stream'[Len(stream) + 1].id = Len(stream) + 1
        /\ stream'[Len(stream) + 1].ts = now
    BY HappenedLast DEF GroupInv
  <1>4. OnTime'
    <2>1. \A i \in Ids' : stream'[i].id = i /\ stream'[i].ts <= now
      BY <1>3, StreamTypes DEF GroupInv, OnTime, StreamKept
    <2>2. ASSUME NEW i \in Ids', NEW j \in Ids', i <= j
          PROVE  stream'[i].ts <= stream'[j].ts
      <3>1. CASE i \in Ids /\ j \in Ids
        <4>1. stream[i].ts <= stream[j].ts
          BY <2>2, <3>1 DEF GroupInv, OnTime
        <4>2. stream'[i] = stream[i] /\ stream'[j] = stream[j]
          BY <1>3, <3>1 DEF StreamKept
        <4> QED BY <4>1, <4>2
      <3>2. CASE j = Len(stream) + 1
        BY <1>3, <2>1, <3>2
      <3>3. i = Len(stream) + 1 => j \notin Ids
        BY <2>2, StreamTypes DEF Ids
      <3> QED BY <1>3, <3>1, <3>2, <3>3
    <2>3. \A i \in Ids' : i > lastId \/ i \in pel => stream'[i].ts = now
      BY <1>3 DEF GroupInv, OnTime, StreamKept
    <2> QED BY <1>2, <2>1, <2>2, <2>3 DEF OnTime
  <1>5. Grouped(n)' /\ StatementDue'
    BY <1>1, <1>2, <1>3, AsideStep DEF GroupInv
  <1>6. BatchFrom(n)'
    BY <1>2 DEF GroupInv, BatchFrom
  <1> QED BY <1>4, <1>5, <1>6 DEF GroupInv

LEMMA StutterGroups ==
    ASSUME IInv, NEW n, GroupInv(n), UNCHANGED vars
    PROVE  GroupInv(n)'
  <1>1. n \in Nat /\ n <= lastId
    BY Bounds DEF GroupInv
  <1>2. UNCHANGED <<now, stream, lastId, pel, pc, batch, todo, sweeping, open, sessions>>
    BY DEF vars, group, loop, db
  <1>3. StreamKept
    BY <1>2 DEF StreamKept, Ids
  <1>4. Grouped(n)' /\ StatementDue'
    BY <1>1, <1>2, <1>3, AsideStep DEF GroupInv
  <1>5. OnTime' /\ BatchFrom(n)'
    BY <1>2 DEF GroupInv, OnTime, BatchFrom, Ids
  <1> QED BY <1>4, <1>5 DEF GroupInv

(* Time passes between two batches only, when everything has been read.      *)
LEMMA TickGroups ==
    ASSUME Undisturbed, IInv, NEW n, GroupInv(n), Tick
    PROVE  GroupInv(n)'
  <1>1. n \in Nat /\ n <= lastId
    BY Bounds DEF GroupInv
  <1>2. /\ UNCHANGED <<stream, lastId, pel, pc, batch, todo, open, sessions>>
        /\ now' = now + 1 /\ lastId = Len(stream) /\ pel = {} /\ pc \in {"idle", "down"}
    BY DEF Tick, Undisturbed, UpToDate, group, loop, db
  <1>3. now \in Nat /\ now' \in Nat /\ now <= now'
    BY <1>2, StreamTypes
  <1>4. OnTime'
    <2>1. \A i \in Ids : stream[i].id = i /\ stream[i].ts <= now'
      BY <1>2, StreamTypes DEF GroupInv, OnTime
    <2>2. \A i \in Ids : ~(i > lastId)
      BY <1>2, StreamTypes DEF Ids
    <2> QED BY <1>2, <2>1, <2>2 DEF GroupInv, OnTime, Ids
  <1>5. BatchFrom(n)' /\ StatementDue'
    BY <1>2 DEF GroupInv, BatchFrom, StatementDue
  <1>6. StreamKept /\ MemoryKept
    BY <1>2 DEF StreamKept, MemoryKept, IsOpen, Ids
  <1>7. Grouped(n)'
    BY <1>1, <1>2, <1>3, <1>6, QuietStep DEF GroupInv
  <1> QED BY <1>4, <1>5, <1>7 DEF GroupInv

(* The loop goes on between two entries. *)
LEMMA LoopGroups ==
    ASSUME IInv, NEW n, GroupInv(n), UNCHANGED <<now, stream, open, sessions>>,
           pc \notin {"open", "update"}, pc' \in {"idle", "next", "sweep"}
    PROVE  Grouped(n)' /\ (pc' # "sweep" => StatementDue')
  <1>1. n \in Nat /\ n <= lastId /\ now \in Nat /\ now' = now
    BY Bounds, StreamTypes DEF GroupInv
  <1>2. StreamKept /\ MemoryKept
    BY DEF StreamKept, MemoryKept, IsOpen, Ids
  <1>3. Grouped(n)'
    BY <1>1, <1>2, QuietStep DEF GroupInv
  <1> QED BY <1>3 DEF StatementDue

LEMMA BetweenGroups ==
    ASSUME IInv, NEW n, GroupInv(n), Start \/ PendingDrained \/ Sweep
    PROVE  GroupInv(n)'
  <1>1. /\ UNCHANGED <<now, stream, lastId, pel, batch, todo, open, sessions>>
        /\ pc \in {"down", "idle"} /\ pc' \in {"idle", "sweep"}
    BY DEF Start, PendingDrained, Sweep, group, db
  <1>2. OnTime' /\ BatchFrom(n)'
    BY <1>1 DEF GroupInv, OnTime, BatchFrom, Ids
  <1>3. Grouped(n)' /\ (pc' # "sweep" => StatementDue')
    BY <1>1, LoopGroups
  <1>4. pc' = "sweep" => StatementDue'
    BY <1>1 DEF Start, PendingDrained, Sweep, Quiet, StatementDue, IsOpen
  <1> QED BY <1>2, <1>3, <1>4 DEF GroupInv

LEMMA ReadNewGroups ==
    ASSUME IInv, NEW n, GroupInv(n), ReadNew
    PROVE  GroupInv(n)'
  <1>1. /\ UNCHANGED <<now, stream, open, sessions>> /\ pc = "idle" /\ pc' = "next"
        /\ batch' = NewIds /\ todo' = NewIds /\ pel' = pel \cup NewIds
    BY DEF ReadNew, Receive, Deliver, db
  <1>2. batch = {} /\ pel = {} /\ n = lastId
    BY <1>1, BetweenBatches DEF GroupInv
  <1>3. PICK hi \in Ids : /\ lastId < hi /\ lastId' = hi
                          /\ NewIds = (lastId + 1) .. hi
    BY NewIdsInterval DEF ReadNew, Deliver, IInv
  <1>4. lastId \in Nat /\ hi \in Nat /\ n \in 0 .. hi
    BY <1>2, <1>3, StreamTypes
  <1>5. BatchFrom(n)'
    BY <1>1, <1>2, <1>3, <1>4 DEF BatchFrom
  <1>6. OnTime'
    <2>1. \A i \in Ids' : i > lastId' \/ i \in pel' => i \in Ids /\ i > lastId
      BY <1>1, <1>2, <1>3, <1>4, StreamTypes DEF Ids
    <2> QED BY <1>1, <2>1 DEF GroupInv, OnTime, Ids
  <1>7. Grouped(n)' /\ StatementDue'
    BY <1>1, LoopGroups
  <1> QED BY <1>5, <1>6, <1>7 DEF GroupInv

LEMMA AckGroups ==
    ASSUME IInv, NEW n, GroupInv(n), Ack
    PROVE  GroupInv(n)'
  <1>1. /\ UNCHANGED <<now, stream, lastId, todo, open, sessions>>
        /\ pc = "next" /\ pc' = "idle" /\ todo = {} /\ batch' = {} /\ pel' = pel \ batch
    BY DEF Ack, Acknowledge, db
  <1>2. pel' = {}
    BY <1>1 DEF GroupInv, BatchFrom
  <1>3. BatchFrom(n)'
    BY <1>1, <1>2 DEF GroupInv, BatchFrom
  <1>4. OnTime'
    BY <1>1, <1>2 DEF GroupInv, OnTime, Ids
  <1>5. Grouped(n)' /\ StatementDue'
    BY <1>1, LoopGroups
  <1> QED BY <1>3, <1>4, <1>5 DEF GroupInv

-----------------------------------------------------------------------------
(* The entry in hand is the first that the tables do not account for, until  *)
(* the row is written; it came just now.                                     *)
LEMMA HandInBatch ==
    ASSUME IInv, NEW n, GroupInv(n), todo # {}
    PROVE  /\ Entry \in Ids /\ E \in Event /\ K \in Keys
           /\ E.id = Entry /\ E.ts = now
           /\ IF pc \in {"link", "hit", "alert"}
              THEN Entry = n /\ todo \ {Entry} = (n + 1) .. lastId
              ELSE Entry = n + 1 /\ todo \ {Entry} = (n + 2) .. lastId
  <1>1. Entry \in todo /\ Entry \in Ids /\ E \in Event /\ K \in Keys
    BY EntryInHand DEF IInv
  <1>2. E.id = Entry /\ E.ts = now
    BY <1>1 DEF GroupInv, BatchFrom, OnTime, IInv, TypeOK, E
  <1>3. n \in Nat /\ n + 1 \in Nat /\ lastId \in Nat
    BY Bounds, StreamTypes DEF GroupInv
  <1>4. CASE pc \in {"link", "hit", "alert"}
    <2>1. todo = n .. lastId
      BY <1>4 DEF GroupInv, BatchFrom
    <2> QED BY <1>1, <1>2, <1>3, <1>4, <2>1, FirstOf
  <1>5. CASE pc \notin {"link", "hit", "alert"}
    <2>1. todo = (n + 1) .. lastId
      BY <1>5 DEF GroupInv, BatchFrom
    <2>2. Entry = n + 1 /\ todo \ {Entry} = ((n + 1) + 1) .. lastId
      BY <1>1, <1>3, <2>1, FirstOf
    <2>3. (n + 1) + 1 = n + 2
      BY <1>3
    <2> QED BY <1>1, <1>2, <1>5, <2>2, <2>3
  <1> QED BY <1>4, <1>5

(* Memory and row of a session tell the same, outside an UPDATE. *)
LEMMA MemoryIsRow ==
    ASSUME IInv, CountInv, pc # "update", NEW k \in Keys, IsOpen(k)
    PROVE  /\ conn /\ open[k].sid \in Rows
           /\ sessions[open[k].sid].of = open[k].events
           /\ sessions[open[k].sid].started = open[k].started
           /\ sessions[open[k].sid].key = k
  <1>1. conn
    BY DEF CountInv, Connected, IInv, Forgotten
  <1> QED BY <1>1 DEF CountInv, RowsCaughtUp, IInv, MemoryHasItsRow

(* The latest entry of a session in memory is where it ends. *)
LEMMA LatestInMemory ==
    ASSUME IInv, CountInv, NEW n, GroupInv(n), pc # "update",
           NEW i \in Ids, IsLatest(i, n), IsOpen(stream[i].key),
           open[stream[i].key].sid \in RowsWith(i)
    PROVE  /\ stream[i].ts = open[stream[i].key].last
           /\ sessions[open[stream[i].key].sid].started = open[stream[i].key].started
  <1> DEFINE k == stream[i].key
             s == open[k].sid
             events == sessions[s].of
             last == Len(events)
  <1>1. k \in Keys /\ stream[i].id = i /\ i \in Nat
    BY StreamTypes DEF GroupInv, OnTime
  <1>2. s \in Rows /\ events = open[k].events /\ sessions[s].started = open[k].started
        /\ sessions[s].key = k
    BY <1>1, MemoryIsRow
  <1>3. PICK m \in DOMAIN events : events[m].id = i
    BY <1>1 DEF RowsWith, CountedIn
  <1>4. events \in Seq(Event) /\ events # <<>> /\ open[k].last = events[last].ts
    BY <1>1, <1>2, MemoryTypes DEF GroupInv, Grouped, MemoryTells
  <1>5. last \in Nat /\ last \in DOMAIN events /\ DOMAIN events = 1 .. last
    <2> HIDE DEF s, events
    <2>1. last \in Nat /\ DOMAIN events = 1 .. last
      BY <1>4, LenProperties
    <2>2. last # 0
      BY <1>4, EmptySeq, SMTT(30)
    <2> QED BY <2>1, <2>2
  <1>6. /\ events[last].id \in 1 .. n /\ events[last] = stream[events[last].id]
        /\ events[last].key = k
        /\ m < last => events[m].id < events[last].id
    BY <1>2, <1>3, <1>5 DEF GroupInv, Grouped, RowsTell
  <1> HIDE DEF events, last, s, k
  <1>7. i <= events[last].id
    BY <1>1, <1>3, <1>5, <1>6
  <1>8. events[last].id \in Ids
    BY <1>6, Bounds, StreamTypes DEF GroupInv, Ids
  <1>9. ~(i < events[last].id)
    BY <1>6, <1>8, Bounds DEF IsLatest, GroupInv, k
  <1>10. events[last].id = i
    BY <1>1, <1>6, <1>7, <1>9, Bounds DEF GroupInv
  <1>11. stream[i].ts = open[k].last
    BY <1>4, <1>6, <1>10
  <1> QED BY <1>2, <1>11 DEF k, s

(* Whether the session in memory is over for the entry in hand is what the   *)
(* stream says of its latest entry.                                          *)
LEMMA ExpiredIsOver ==
    ASSUME IInv, CountInv, NEW n, GroupInv(n), pc # "update", todo # {},
           NEW i \in Ids, IsLatest(i, n), IsOpen(K), stream[i].key = K,
           open[K].sid \in RowsWith(i)
    PROVE  Expired(open[K], E) <=> ~Extends(i, open[K].sid, Entry)
  <1>1. /\ stream[i].ts = open[K].last
        /\ sessions[open[K].sid].started = open[K].started
    BY LatestInMemory
  <1>2. /\ open[K].last \in Nat /\ open[K].started \in Nat /\ E.ts \in Nat
        /\ Gap \in Nat /\ MaxDuration \in Nat
    BY HandInBatch, MemoryTypes, StreamTypes DEF E
  <1> QED BY <1>1, <1>2 DEF Expired, Extends, E

(* The entry in hand is new to every session. *)
LEMMA HandUnseen ==
    ASSUME IInv, CountInv, NEW n, GroupInv(n), pc = "next", todo # {}, IsOpen(K)
    PROVE  E.id \notin Seen(open[K])
  <1>1. K \in Keys /\ E.id = n + 1 /\ n \in Nat
    BY HandInBatch, Bounds DEF GroupInv
  <1>2. open[K].sid \in Rows /\ sessions[open[K].sid].of = open[K].events
    BY <1>1, MemoryIsRow
  <1>3. \A m \in DOMAIN open[K].events : open[K].events[m].id \in 1 .. n
    BY <1>2 DEF GroupInv, Grouped, RowsTell
  <1> QED BY <1>1, <1>3 DEF Seen

-----------------------------------------------------------------------------
(* The event joins a session that is not over; a row is one event behind.    *)
LEMMA JoinGroups ==
    ASSUME IInv, CountInv, NEW n, GroupInv(n), pc = "next", todo # {},
           IsOpen(K), ~Expired(open[K], E),
           open' = [open EXCEPT ![K] = Joined(@, E)], pc' = "update",
           UNCHANGED <<now, stream, lastId, pel, batch, todo, sessions>>
    PROVE  GroupInv(n)'
  <1>1. n \in Nat /\ n <= lastId
    BY Bounds DEF GroupInv
  <1>2. /\ K \in Keys /\ E \in Event /\ Entry \in Ids /\ E.ts = now
        /\ Entry' = Entry /\ E' = E /\ K' = K
    BY HandInBatch, EntryStays DEF IInv, Entry
  <1>3. /\ open[K] \in SessionState /\ open[K].events \in Seq(Event)
        /\ open[K].started \in Nat /\ open[K].last \in Nat
    BY <1>2, MemoryTypes
  <1>4. /\ open'[K] = Joined(open[K], E)
        /\ \A k \in Keys : k # K => open'[k] = open[k]
    BY <1>2 DEF IInv, TypeOK
  <1>5. /\ IsOpen(K)' /\ open'[K].sid = open[K].sid
        /\ open'[K].started = open[K].started
        /\ open'[K].events = Append(open[K].events, E)
        /\ open'[K].last = IF E.ts > open[K].last THEN E.ts ELSE open[K].last
    <2>1. /\ open'[K] # None /\ open'[K].sid = open[K].sid
          /\ open'[K].started = open[K].started
          /\ open'[K].events = Append(open[K].events, E)
      <3> DEFINE joined == Joined(open[K], E)
      <3>1. /\ joined # None /\ joined.sid = open[K].sid
            /\ joined.started = open[K].started
            /\ joined.events = Append(open[K].events, E)
        BY <1>2, <1>3, JoinedSession
      <3> HIDE DEF joined
      <3>2. open'[K] = joined
        BY <1>4 DEF joined
      <3> QED BY <3>1, <3>2
    <2>2. open'[K].last = IF E.ts > open[K].last THEN E.ts ELSE open[K].last
      <3>1. \A s \in SessionState : Joined(s, E).last = IF E.ts > s.last THEN E.ts ELSE s.last
        BY DEF Joined, SessionState
      <3> QED BY <1>3, <1>4, <3>1
    <2> QED BY <1>2, <2>1, <2>2 DEF IsOpen
  <1>6. /\ conn /\ open[K].sid \in Rows
        /\ sessions[open[K].sid].of = open[K].events
    BY <1>2, MemoryIsRow
  <1>7. StreamKept /\ RowsKept /\ Rows' = Rows
    BY SameTables DEF StreamKept, Ids
  <1>8. open'[K].last = E.ts
    <2> DEFINE events == open[K].events
               last == Len(events)
    <2>1. events # <<>> /\ open[K].last = events[last].ts
      BY <1>2 DEF GroupInv, Grouped, MemoryTells
    <2>2. last \in DOMAIN events
      BY <1>3, <2>1, LenProperties, EmptySeq
    <2>3. events[last] = stream[events[last].id] /\ events[last].id \in 1 .. n
      BY <1>6, <2>2 DEF GroupInv, Grouped, RowsTell
    <2>4. events[last].id \in Ids
      BY <1>1, <2>3, StreamTypes DEF Ids
    <2> HIDE DEF last
    <2>5. events[last].ts <= now
      BY <2>3, <2>4 DEF GroupInv, OnTime
    <2> HIDE DEF events
    <2>6. open[K].last <= E.ts /\ E.ts \in Nat
      BY <1>2, <2>1, <2>5, StreamTypes
    <2> QED BY <1>3, <1>5, <2>6
  <1>9. MemoryTells'
    <2>1. /\ Append(open[K].events, E) # <<>>
          /\ Append(open[K].events, E)[Len(Append(open[K].events, E))] = E
          /\ open[K].events # <<>> =>
                Append(open[K].events, E)[1] = open[K].events[1]
      BY <1>2, <1>3, AppendProperties, EmptySeq, LenProperties
    <2>2. /\ open'[K].events # <<>>
          /\ open'[K].started = open'[K].events[1].ts
          /\ open'[K].last = open'[K].events[Len(open'[K].events)].ts
      BY <1>2, <1>5, <1>8, <2>1 DEF GroupInv, Grouped, MemoryTells
    <2> QED BY <1>4, <2>2 DEF GroupInv, Grouped, MemoryTells, IsOpen
  <1>10. StatementDue'
    BY <1>2, <1>5, <1>6 DEF StatementDue
  <1>11. OnTime' /\ BatchFrom(n)'
    BY DEF GroupInv, OnTime, BatchFrom, Ids
  <1>12. RowsTell(n)' /\ Partition(n)' /\ Neighbours(n)'
    BY <1>1, <1>7, TellKept, PartitionKept, NeighboursKept DEF GroupInv, Grouped
  <1>13. RowsFilled'
    BY <1>7 DEF GroupInv, Grouped, RowsFilled
  <1>14. ASSUME NEW i \in Ids, IsLatest(i, n), NEW s \in RowsWith(i)
         PROVE  Continued(i, s)' \/ Ended(i, s)'
    <2> DEFINE k == stream[i].key
    <2>1. k \in Keys /\ k' = k
      BY StreamTypes
    <2>2. Continued(i, s) \/ Ended(i, s)
      BY <1>14 DEF GroupInv, Grouped, Latest
    <2>3. CASE k = K
      <3>1. s = open[K].sid
        BY <2>2, <2>3 DEF Continued, Ended
      <3>2. Extends(i, s, Entry)
        BY <1>14, <2>3, <3>1, ExpiredIsOver
      <3>3. Extends(i, s, Entry)'
        BY <1>2, <3>2 DEF Extends
      <3> QED BY <1>2, <1>5, <2>3, <3>1, <3>3 DEF Continued, IsOpen
    <2>4. CASE k # K
      <3>1. open'[k] = open[k] /\ K' # k
        BY <1>2, <1>4, <2>1, <2>4
      <3>2. Continued(i, s) => Continued(i, s)'
        BY <2>1, <3>1 DEF Continued, IsOpen
      <3>3. Ended(i, s) => Ended(i, s)'
        BY <2>1, <3>1 DEF Ended, IsOpen
      <3> QED BY <2>2, <3>2, <3>3
    <2> QED BY <2>3, <2>4
  <1>15. Latest(n)'
    BY <1>1, <1>7, <1>14, LatestKept
  <1> QED BY <1>9, <1>10, <1>11, <1>12, <1>13, <1>15 DEF GroupInv, Grouped

LEMMA TakeGroups ==
    ASSUME IInv, CountInv, NEW n, GroupInv(n), Take
    PROVE  GroupInv(n)'
  <1>1. /\ UNCHANGED <<now, stream, lastId, pel, batch, sessions>>
        /\ pc = "next" /\ todo # {}
    BY DEF Take, group, db
  <1>2. n \in Nat /\ n <= lastId /\ now \in Nat /\ now' = now
    BY <1>1, Bounds, StreamTypes DEF GroupInv
  <1>3. ASSUME UNCHANGED <<open, todo>>, pc' \in {"close", "open"},
               pc' = "close" => Expired(open[K], E), pc' = "open" => ~IsOpen(K)
        PROVE  GroupInv(n)'
    <2>1. StreamKept /\ MemoryKept
      BY <1>1, <1>3 DEF StreamKept, MemoryKept, IsOpen, Ids
    <2>2. Grouped(n)'
      BY <1>1, <1>2, <1>3, <2>1, QuietStep DEF GroupInv
    <2>3. E' = E /\ K' = K
      BY <1>1, <1>3, EntryStays DEF IInv
    <2>4. StatementDue'
      BY <1>3, <2>3 DEF StatementDue, IsOpen
    <2>5. OnTime' /\ BatchFrom(n)'
      BY <1>1, <1>3 DEF GroupInv, OnTime, BatchFrom, Ids
    <2> QED BY <2>2, <2>4, <2>5 DEF GroupInv
  <1>4. CASE IsOpen(K) /\ Expired(open[K], E) /\ pc' = "close" /\ UNCHANGED <<open, todo>>
    BY <1>3, <1>4
  <1>5. CASE ~IsOpen(K) /\ pc' = "open" /\ UNCHANGED <<open, todo>>
    BY <1>3, <1>5
  <1>6. CASE /\ IsOpen(K) /\ ~Expired(open[K], E) /\ UNCHANGED todo
             /\ open' = [open EXCEPT ![K] = Joined(@, E)] /\ pc' = "update"
    BY <1>1, <1>6, JoinGroups
  <1>7. ~(IsOpen(K) /\ E.id \in Seen(open[K]))
    BY <1>1, HandUnseen
  <1> QED BY <1>4, <1>5, <1>6, <1>7 DEF Take

-----------------------------------------------------------------------------
(* A row is closed, and its session forgotten: the one in hand, or one swept *)
(* out.                                                                      *)
LEMMA CloseKept ==
    ASSUME IInv, CountInv, NEW n, GroupInv(n), NEW k \in Keys, IsOpen(k), pc # "update",
           CloseRow(open[k].sid), open' = [open EXCEPT ![k] = None],
           UNCHANGED <<now, stream>>, pc' \in {"open", "sweep", "idle"},
           pc \in {"close", "sweep"}, pc' = "open" => pc = "close" /\ K' = K,
           \A i \in Ids : IsLatest(i, n) /\ stream[i].key = k =>
              \A s \in RowsWith(i) : s = open[k].sid =>
                 \/ now - stream[i].ts > Gap
                 \/ pc' = "open" /\ K' = k /\ ~Extends(i, s, Entry)',
           UNCHANGED todo
    PROVE  /\ Grouped(n)'
           /\ \A j \in Keys : j # k => open'[j] = open[j]
  <1>1. n \in Nat /\ n <= lastId
    BY Bounds DEF GroupInv
  <1>2. /\ ~IsOpen(k)' /\ \A j \in Keys : j # k => open'[j] = open[j]
    BY DEF IInv, TypeOK, IsOpen
  <1>3. /\ Rows' = Rows
        /\ \A s \in Rows :
              /\ sessions'[s] = IF s = open[k].sid
                                THEN [sessions[s] EXCEPT !.closed = TRUE] ELSE sessions[s]
              /\ sessions'[s].of = sessions[s].of
    BY CloseRowDoes DEF IInv, Rows
  <1>4. StreamKept
    BY DEF StreamKept, Ids
  <1>5. \A s \in Rows :
           /\ sessions'[s].key = sessions[s].key
           /\ sessions'[s].started = sessions[s].started
           /\ sessions'[s].ended = sessions[s].ended
           /\ sessions[s].closed => sessions'[s].closed
           /\ s = open[k].sid => sessions'[s].closed
    BY <1>3, RowTypes DEF SessionRow
  <1>6. RowsKept
    BY <1>3, <1>5 DEF RowsKept
  <1>7. RowsTell(n)' /\ Partition(n)' /\ Neighbours(n)'
    BY <1>1, <1>4, <1>6, TellKept, PartitionKept, NeighboursKept DEF GroupInv, Grouped
  <1>8. MemoryTells'
    BY <1>2 DEF GroupInv, Grouped, MemoryTells, IsOpen
  <1>9. RowsFilled'
    BY <1>3 DEF GroupInv, Grouped, RowsFilled
  <1>10. ASSUME NEW i \in Ids, IsLatest(i, n), NEW s \in RowsWith(i)
         PROVE  Continued(i, s)' \/ Ended(i, s)'
    <2> DEFINE j == stream[i].key
    <2>1. j \in Keys /\ j' = j /\ s \in Rows
      BY StreamTypes DEF RowsWith
    <2>2. Continued(i, s) \/ Ended(i, s)
      BY <1>10 DEF GroupInv, Grouped, Latest
    <2>3. CASE j = k
      <3>1. s = open[k].sid
        BY <2>2, <2>3 DEF Continued, Ended
      <3>2. sessions'[s].closed /\ ~IsOpen(j)'
        BY <1>2, <1>5, <2>1, <2>3, <3>1
      <3>3. \/ now' - stream[i].ts > Gap
            \/ pc' = "open" /\ K' = j /\ ~Extends(i, s, Entry)'
        BY <1>10, <2>3, <3>1
      <3> QED BY <2>1, <3>2, <3>3 DEF Ended
    <2>4. CASE j # k
      <3>1. open'[j] = open[j]
        BY <1>2, <2>1, <2>4
      <3>2. Continued(i, s) => Continued(i, s)'
        BY <2>1, <3>1 DEF Continued, IsOpen
      <3>3. Ended(i, s) => Ended(i, s)'
        BY <1>5, <2>1, <3>1 DEF Ended, IsOpen
      <3> QED BY <2>2, <3>2, <3>3
    <2> QED BY <2>3, <2>4
  <1>11. Latest(n)'
    BY <1>1, <1>4, <1>6, <1>10, LatestKept
  <1> QED BY <1>2, <1>7, <1>8, <1>9, <1>11 DEF Grouped

LEMMA ClosedGroups ==
    ASSUME IInv, CountInv, NEW n, GroupInv(n), CloseRow(open[K].sid), Closed,
           UNCHANGED <<now, stream, lastId, pel, batch>>
    PROVE  GroupInv(n)'
  <1>1. /\ pc = "close" /\ pc' = "open" /\ UNCHANGED todo
        /\ open' = [open EXCEPT ![K] = None]
    BY DEF Closed
  <1>2. todo # {} /\ K \in Keys /\ IsOpen(K) /\ Expired(open[K], E)
    BY <1>1, SessionInHand DEF Statements, GroupInv, StatementDue
  <1>3. Entry' = Entry /\ K' = K /\ E' = E
    BY <1>1, <1>2, EntryStays DEF IInv, Entry
  <1>4. ASSUME NEW i \in Ids, IsLatest(i, n), stream[i].key = K,
               NEW s \in RowsWith(i), s = open[K].sid
        PROVE  ~Extends(i, s, Entry)'
    <2>1. ~Extends(i, s, Entry)
      BY <1>1, <1>2, <1>4, ExpiredIsOver
    <2>2. s \in Rows /\ sessions'[s] = [sessions[s] EXCEPT !.closed = TRUE]
      BY <1>4, CloseRowDoes DEF IInv, RowsWith
    <2>3. sessions'[s].started = sessions[s].started
      BY <2>2, RowTypes DEF SessionRow
    <2> QED BY <1>3, <2>1, <2>3 DEF Extends
  <1>5. Grouped(n)' /\ \A j \in Keys : j # K => open'[j] = open[j]
    BY <1>1, <1>2, <1>3, <1>4, CloseKept
  <1>6. StatementDue'
    BY <1>1, <1>2, <1>3 DEF StatementDue, IsOpen, IInv, TypeOK
  <1>7. OnTime' /\ BatchFrom(n)'
    BY <1>1 DEF GroupInv, OnTime, BatchFrom, Ids
  <1> QED BY <1>5, <1>6, <1>7 DEF GroupInv

LEMMA SweepOneGroups ==
    ASSUME IInv, CountInv, NEW n, GroupInv(n), SweepOne
    PROVE  GroupInv(n)'
  <1>1. /\ UNCHANGED <<now, stream, lastId, pel, batch, todo>>
        /\ pc = "sweep" /\ pc' \in {"idle", "sweep"}
    BY DEF SweepOne, group
  <1>2. PICK k \in sweeping : /\ CloseRow(open[k].sid)
                              /\ open' = [open EXCEPT ![k] = None]
                              /\ sweeping' = sweeping \ {k}
    BY DEF SweepOne, Returns
  <1>3. k \in Keys /\ IsOpen(k) /\ now - open[k].last > Gap
    BY <1>1, <1>2 DEF IInv, TypeOK, GroupInv, StatementDue
  <1>4. ASSUME NEW i \in Ids, IsLatest(i, n), stream[i].key = k,
               NEW s \in RowsWith(i), s = open[k].sid
        PROVE  now - stream[i].ts > Gap
    BY <1>1, <1>3, <1>4, LatestInMemory
  <1>5. Grouped(n)' /\ \A j \in Keys : j # k => open'[j] = open[j]
    BY <1>1, <1>2, <1>3, <1>4, CloseKept
  <1>6. StatementDue'
    BY <1>1, <1>2, <1>5 DEF StatementDue, IsOpen, IInv, TypeOK, GroupInv
  <1>7. OnTime' /\ BatchFrom(n)'
    BY <1>1 DEF GroupInv, OnTime, BatchFrom, Ids
  <1> QED BY <1>5, <1>6, <1>7 DEF GroupInv

-----------------------------------------------------------------------------
(* A new row, empty yet, for the entry in hand. *)
LEMMA OpenedGroups ==
    ASSUME IInv, CountInv, NEW n, GroupInv(n), InsertRow, Opened, conn,
           UNCHANGED <<now, stream, lastId, pel, batch>>
    PROVE  GroupInv(n)'
  <1> DEFINE sid == Len(sessions) + 1
  <1>1. n \in Nat /\ n <= lastId
    BY Bounds DEF GroupInv
  <1>2. /\ pc = "open" /\ pc' = "update" /\ UNCHANGED todo /\ todo # {}
        /\ open' = [open EXCEPT ![K] = Joined(NewSession(sid, E), E)]
        /\ ~IsOpen(K)
    BY DEF Opened, IInv, InHand, Statements, GroupInv, StatementDue
  <1>3. /\ K \in Keys /\ E \in Event /\ Entry \in Ids
        /\ Entry' = Entry /\ E' = E /\ K' = K
    BY <1>2, HandInBatch, EntryStays DEF IInv, Entry
  <1>4. /\ Len(sessions) \in Nat /\ Rows' = Rows \cup {sid} /\ sid \notin Rows
        /\ \A s \in Rows : sessions'[s] = sessions[s]
        /\ sessions'[sid].of = <<>>
    BY <1>2, InsertRowDoes DEF IInv, Rows
  <1>5. /\ IsOpen(K)' /\ open'[K].sid = sid
        /\ open'[K].started = E.ts /\ open'[K].last = E.ts
        /\ open'[K].events = <<E>>
    <2> DEFINE new == NewSession(sid, E)
               joined == Joined(new, E)
    <2>1. /\ new.sid = sid /\ new.started = E.ts /\ new.last = E.ts /\ new.events = <<>>
          /\ new \in SessionState
      <3>1. sid \in Nat \ {0} /\ E.ts \in 0 .. MaxTime /\ <<>> \in Seq(Event)
        BY <1>3, <1>4, EmptySeq DEF Event
      <3> HIDE DEF sid
      <3> QED BY <3>1 DEF NewSession, SessionState
    <2>2. joined.last = E.ts
      BY DEF Joined, NewSession
    <2> HIDE DEF new
    <2>3. /\ joined # None /\ joined.sid = sid /\ joined.started = E.ts
          /\ joined.events = Append(<<>>, E)
      BY <1>3, <2>1, JoinedSession
    <2>4. Append(<<>>, E) = <<E>>
      OBVIOUS
    <2> HIDE DEF joined
    <2>5. open'[K] = joined
      BY <1>2, <1>3 DEF joined, new, IInv, TypeOK
    <2> QED BY <1>3, <2>2, <2>3, <2>4, <2>5 DEF IsOpen
  <1>6. \A k \in Keys : k # K => open'[k] = open[k]
    BY <1>2, <1>3 DEF IInv, TypeOK
  <1> HIDE DEF sid
  <1>7. StreamKept /\ RowsKept
    BY <1>4 DEF StreamKept, RowsKept, Ids
  <1>8. MemoryTells'
    <2>1. /\ open'[K].events # <<>>
          /\ open'[K].started = open'[K].events[1].ts
          /\ open'[K].last = open'[K].events[Len(open'[K].events)].ts
      BY <1>5
    <2> QED BY <1>6, <2>1 DEF GroupInv, Grouped, MemoryTells, IsOpen
  <1>9. RowsFilled'
    BY <1>2, <1>3, <1>4, <1>5 DEF GroupInv, Grouped, RowsFilled
  <1>10. StatementDue'
    <2>1. <<E>> = Append(<<>>, E)
      OBVIOUS
    <2> QED BY <1>2, <1>3, <1>4, <1>5, <2>1 DEF StatementDue
  <1>11. OnTime' /\ BatchFrom(n)'
    BY <1>2 DEF GroupInv, OnTime, BatchFrom, Ids
  <1>12. RowsTell(n)' /\ Partition(n)' /\ Neighbours(n)'
    BY <1>1, <1>7, TellKept, PartitionKept, NeighboursKept DEF GroupInv, Grouped
  <1>13. ASSUME NEW i \in Ids, IsLatest(i, n), NEW s \in RowsWith(i)
         PROVE  Continued(i, s)' \/ Ended(i, s)'
    <2> DEFINE k == stream[i].key
    <2>1. k \in Keys /\ k' = k /\ s \in Rows /\ s < sid /\ sessions'[s] = sessions[s]
      BY <1>4, StreamTypes DEF RowsWith, Rows, sid
    <2>2. Continued(i, s) \/ Ended(i, s)
      BY <1>13 DEF GroupInv, Grouped, Latest
    <2>3. Extends(i, s, Entry)' <=> Extends(i, s, Entry)
      BY <1>3, <2>1 DEF Extends
    <2>4. CASE k = K
      <3>1. Ended(i, s)
        BY <1>2, <2>2, <2>4 DEF Continued
      <3>2. open'[K'].sid = sid /\ k = K'
        BY <1>3, <1>5, <2>4
      <3> QED BY <1>2, <2>1, <2>3, <3>1, <3>2 DEF Ended
    <2>5. CASE k # K
      <3>1. open'[k] = open[k] /\ K' # k
        BY <1>3, <1>6, <2>1, <2>5
      <3>2. Continued(i, s) => Continued(i, s)'
        BY <2>1, <3>1 DEF Continued, IsOpen
      <3>3. Ended(i, s) => Ended(i, s)'
        BY <1>2, <2>1, <2>5, <3>1 DEF Ended, IsOpen
      <3> QED BY <2>2, <3>2, <3>3
    <2> QED BY <2>4, <2>5
  <1>14. Latest(n)'
    BY <1>1, <1>7, <1>13, LatestKept, SMTT(30)
  <1> QED BY <1>8, <1>9, <1>10, <1>11, <1>12, <1>14 DEF GroupInv, Grouped

-----------------------------------------------------------------------------
(* The UPDATE: the tables account for one entry more. *)
LEMMA UpdatedRow ==
    ASSUME IInv, NEW n, GroupInv(n), pc = "update", conn, UpdateRow
    PROVE  LET sid == open[K].sid
               old == sessions[sid].of
               row == sessions'[sid]
           IN  /\ n \in Nat /\ n + 1 \in Ids /\ Entry = n + 1 /\ E.id = n + 1 /\ E.ts = now
               /\ n + 1 <= lastId
               /\ K \in Keys /\ IsOpen(K) /\ E \in Event /\ E.key = K
               /\ sid \in Rows /\ Rows' = Rows
               /\ \A s \in Rows : s # sid => sessions'[s] = sessions[s]
               /\ \A s \in Rows : /\ sessions'[s].key = sessions[s].key
                                  /\ sessions'[s].started = sessions[s].started
                                  /\ sessions'[s].closed = sessions[s].closed
               /\ row.key = K
               /\ row.started = row.of[1].ts /\ row.ended = row.of[Len(row.of)].ts
               /\ old \in Seq(Event) /\ row.of = Append(old, E)
               /\ DOMAIN row.of = DOMAIN old \cup {Len(old) + 1}
               /\ DOMAIN old = 1 .. Len(old) /\ Len(old) \in Nat
               /\ row.of[Len(old) + 1] = E
               /\ \A m \in DOMAIN old : row.of[m] = old[m]
  <1> DEFINE sid == open[K].sid
             old == sessions[sid].of
             row == sessions'[sid]
  <1>1. K \in Keys /\ IsOpen(K) /\ E \in Event /\ sid \in Rows /\ todo # {}
    BY SessionInHand DEF Statements
  <1>2. /\ n \in Nat /\ n + 1 \in Ids /\ Entry = n + 1 /\ E.id = n + 1 /\ E.ts = now
        /\ n + 1 <= lastId
    <2>1. Entry \in Ids /\ Entry = n + 1 /\ E.id = Entry /\ E.ts = now /\ n \in Nat
      BY <1>1, HandInBatch, Bounds DEF GroupInv
    <2>2. Entry \in todo /\ todo = (n + 1) .. lastId
      BY <1>1, EntryInHand DEF IInv, GroupInv, BatchFrom
    <2> QED BY <2>1, <2>2
  <1>3. /\ Rows' = Rows
        /\ \A s \in Rows : s # sid => sessions'[s] = sessions[s]
        /\ row.key = sessions[sid].key /\ row.started = sessions[sid].started
        /\ row.closed = sessions[sid].closed
        /\ row.ended = open[K].last /\ row.of = open[K].events
    BY UpdateRowDoes DEF Rows
  <1>4. sessions[sid].key = K /\ sessions[sid].started = open[K].started
    BY <1>1 DEF IInv, MemoryHasItsRow
  <1>5. row.started = row.of[1].ts /\ row.ended = row.of[Len(row.of)].ts
    BY <1>1, <1>3, <1>4 DEF GroupInv, Grouped, MemoryTells
  <1>6. old \in Seq(Event) /\ row.of = Append(old, E)
    BY <1>1, <1>3, RowTypes DEF GroupInv, StatementDue
  <1>7. /\ Len(old) \in Nat /\ DOMAIN old = 1 .. Len(old)
        /\ DOMAIN row.of = DOMAIN old \cup {Len(old) + 1}
        /\ row.of[Len(old) + 1] = E
        /\ \A m \in DOMAIN old : row.of[m] = old[m]
    <2> HIDE DEF old, row
    <2>1. /\ Len(old) \in Nat /\ DOMAIN old = 1 .. Len(old)
          /\ Append(old, E) \in Seq(Event) /\ Len(Append(old, E)) = Len(old) + 1
          /\ Append(old, E)[Len(old) + 1] = E
          /\ \A m \in 1 .. Len(old) : Append(old, E)[m] = old[m]
      BY <1>1, <1>6, AppendProperties, LenProperties
    <2>2. DOMAIN Append(old, E) = 1 .. (Len(old) + 1)
      BY <2>1, LenProperties
    <2>3. 1 .. (Len(old) + 1) = 1 .. Len(old) \cup {Len(old) + 1}
      BY <2>1
    <2> QED BY <1>6, <2>1, <2>2, <2>3
  <1>8. E.key = K
    BY DEF K
  <1>9. /\ sid \in Rows /\ Rows' = Rows
        /\ \A s \in Rows : s # sid => sessions'[s] = sessions[s]
        /\ \A s \in Rows : /\ sessions'[s].key = sessions[s].key
                           /\ sessions'[s].started = sessions[s].started
                           /\ sessions'[s].closed = sessions[s].closed
        /\ row.key = K
    BY <1>1, <1>3, <1>4
  <1> QED BY <1>1, <1>2, <1>5, <1>6, <1>7, <1>8, <1>9, Zenon

(* Which rows count an entry, before and after the UPDATE. *)
LEMMA UpdatedCounts ==
    ASSUME IInv, NEW n, GroupInv(n), pc = "update", conn, UpdateRow, UNCHANGED stream
    PROVE  /\ \A i \in 1 .. n : RowsWith(i)' = RowsWith(i)
           /\ RowsWith(n + 1)' = {open[K].sid}
  <1> DEFINE sid == open[K].sid
             old == sessions[sid].of
             new == sessions'[sid].of
  <1>1. /\ n \in Nat /\ n + 1 \in Ids /\ E.id = n + 1
        /\ sid \in Rows /\ Rows' = Rows
        /\ \A s \in Rows : s # sid => sessions'[s] = sessions[s]
        /\ DOMAIN new = DOMAIN old \cup {Len(old) + 1}
        /\ new[Len(old) + 1] = E
        /\ \A m \in DOMAIN old : new[m] = old[m]
    BY UpdatedRow
  <1>2. \A i \in 1 .. (n + 1) : stream'[i].id = i /\ stream[i].id = i
    BY <1>1, StreamTypes DEF GroupInv, OnTime, Ids
  <1>3. \A s \in Rows : \A m \in DOMAIN sessions[s].of : sessions[s].of[m].id \in 1 .. n
    BY DEF GroupInv, Grouped, RowsTell
  <1> HIDE DEF sid
  <1>4. ASSUME NEW i \in 1 .. n
        PROVE  RowsWith(i)' = RowsWith(i)
    <2>1. E.id # i
      BY <1>1
    <2>2. ASSUME NEW s \in Rows
          PROVE  CountedIn(i, s)' <=> CountedIn(i, s)
      <3>1. CASE s # sid
        BY <1>1, <3>1 DEF CountedIn
      <3>2. CASE s = sid
        <4>1. (\E m \in DOMAIN new : new[m].id = i) <=> (\E m \in DOMAIN old : old[m].id = i)
          BY <1>1, <2>1
        <4> QED BY <3>2, <4>1 DEF CountedIn
      <3> QED BY <3>1, <3>2
    <2>3. stream'[i].id = i /\ stream[i].id = i
      BY <1>1, <1>2
    <2> QED BY <1>1, <2>2, <2>3 DEF RowsWith
  <1>5. RowsWith(n + 1)' = {sid}
    <2>1. \A s \in Rows : s # sid => ~CountedIn(n + 1, s)'
      BY <1>1, <1>3 DEF CountedIn
    <2>2. \E m \in DOMAIN new : new[m].id = n + 1
      BY <1>1
    <2> QED BY <1>1, <1>2, <2>1, <2>2 DEF RowsWith, CountedIn
  <1> QED BY <1>4, <1>5 DEF sid

LEMMA UpdatedTells ==
    ASSUME IInv, NEW n, GroupInv(n), pc = "update", conn, UpdateRow, UNCHANGED stream
    PROVE  RowsTell(n + 1)' /\ \A s \in Rows' : sessions'[s].of # <<>>
  <1> DEFINE sid == open[K].sid
             old == sessions[sid].of
             row == sessions'[sid]
             last == Len(old) + 1
  <1>1. /\ n \in Nat /\ n + 1 \in Ids /\ Entry = n + 1 /\ E.id = n + 1
        /\ E.key = K /\ sid \in Rows /\ Rows' = Rows
        /\ \A s \in Rows : s # sid => sessions'[s] = sessions[s]
        /\ row.key = K /\ sessions[sid].key = row.key
        /\ row.started = row.of[1].ts /\ row.ended = row.of[Len(row.of)].ts
        /\ DOMAIN row.of = DOMAIN old \cup {last}
        /\ DOMAIN old = 1 .. Len(old) /\ Len(old) \in Nat
        /\ row.of[last] = E
        /\ \A m \in DOMAIN old : row.of[m] = old[m]
    <2>1. /\ n \in Nat /\ n + 1 \in Ids /\ Entry = n + 1 /\ E.id = n + 1
          /\ E.key = K /\ sid \in Rows /\ Rows' = Rows
          /\ \A s \in Rows : s # sid => sessions'[s] = sessions[s]
          /\ row.key = K /\ sessions[sid].key = row.key
      BY UpdatedRow
    <2>2. /\ row.started = row.of[1].ts /\ row.ended = row.of[Len(row.of)].ts
          /\ DOMAIN row.of = DOMAIN old \cup {last}
          /\ DOMAIN old = 1 .. Len(old) /\ Len(old) \in Nat
          /\ row.of[last] = E
          /\ \A m \in DOMAIN old : row.of[m] = old[m]
      BY UpdatedRow, SMTT(30)
    <2> HIDE DEF row, old, last, sid
    <2> QED BY <2>1, <2>2
  <1>2. stream' = stream /\ E = stream[n + 1]
    BY <1>1, Zenon DEF E
  <1>3. ASSUME NEW s \in Rows
        PROVE  /\ \A m \in DOMAIN sessions[s].of :
                     /\ sessions[s].of[m].id \in 1 .. n
                     /\ sessions[s].of[m] = stream[sessions[s].of[m].id]
                     /\ sessions[s].of[m].key = sessions[s].key
               /\ \A l, m \in DOMAIN sessions[s].of :
                     l < m => sessions[s].of[l].id < sessions[s].of[m].id
               /\ sessions[s].of # <<>> =>
                     /\ sessions[s].started = sessions[s].of[1].ts
                     /\ sessions[s].ended = sessions[s].of[Len(sessions[s].of)].ts
    BY DEF GroupInv, Grouped, RowsTell
  <1>4. /\ \A m \in DOMAIN old : /\ old[m].id \in 1 .. n
                                 /\ old[m] = stream[old[m].id]
                                 /\ old[m].key = K
        /\ \A l, m \in DOMAIN old : l < m => old[l].id < old[m].id
    <2>1. sid \in Rows /\ sessions[sid].key = K
      BY <1>1
    <2> HIDE DEF sid
    <2>2. \A s \in Rows : s = sid => sessions[s].of = old
      OBVIOUS
    <2> HIDE DEF old
    <2> QED BY <1>3, <2>1, <2>2
  <1>5. row.of # <<>>
    BY <1>1
  <1> HIDE DEF row, old, last
  <1>6. \A m \in DOMAIN row.of : /\ row.of[m].id \in 1 .. (n + 1)
                                 /\ row.of[m] = stream[row.of[m].id]
                                 /\ row.of[m].key = row.key
    BY <1>1, <1>2, <1>4
  <1>7. \A l, m \in DOMAIN row.of : l < m => row.of[l].id < row.of[m].id
    <2> SUFFICES ASSUME NEW l \in DOMAIN row.of, NEW m \in DOMAIN row.of, l < m
                 PROVE  row.of[l].id < row.of[m].id
      OBVIOUS
    <2>1. l \in DOMAIN old
      BY <1>1 DEF last
    <2>2. CASE m \in DOMAIN old
      BY <1>1, <1>4, <2>1, <2>2
    <2>3. CASE m = last
      BY <1>1, <1>4, <2>1, <2>3
    <2> QED BY <1>1, <2>2, <2>3
  <1> HIDE DEF sid
  <1>8. RowsTell(n + 1)'
    <2> SUFFICES ASSUME NEW s \in Rows
                 PROVE  /\ \A m \in DOMAIN sessions'[s].of :
                              LET e == sessions'[s].of[m] IN
                              e.id \in 1 .. (n + 1) /\ e = stream'[e.id] /\ e.key = sessions'[s].key
                        /\ \A l, m \in DOMAIN sessions'[s].of :
                              l < m => sessions'[s].of[l].id < sessions'[s].of[m].id
                        /\ sessions'[s].of # <<>> =>
                              /\ sessions'[s].started = sessions'[s].of[1].ts
                              /\ sessions'[s].ended = sessions'[s].of[Len(sessions'[s].of)].ts
      BY <1>1 DEF RowsTell
    <2>1. CASE s = sid
      BY <1>1, <1>2, <1>6, <1>7, <2>1 DEF row
    <2>2. CASE s # sid
      <3>1. sessions'[s] = sessions[s]
        BY <1>1, <2>2
      <3>2. 1 .. n \subseteq 1 .. (n + 1)
        BY <1>1
      <3> QED BY <1>2, <1>3, <3>1, <3>2
    <2> QED BY <2>1, <2>2
  <1>9. \A s \in Rows : s # sid => sessions[s].of # <<>>
    BY DEF GroupInv, Grouped, RowsFilled, sid
  <1>10. \A s \in Rows' : sessions'[s].of # <<>>
    BY <1>1, <1>5, <1>9 DEF row
  <1> QED BY <1>8, <1>10

(* The entry in hand and the latest before it of its key are together in the *)
(* row, unless the earlier one's session is over.                            *)
LEMMA UpdatedNeighbours ==
    ASSUME IInv, NEW n, GroupInv(n), pc = "update", conn, UpdateRow, UNCHANGED stream
    PROVE  Neighbours(n + 1)'
  <1>1. /\ n \in Nat /\ n + 1 \in Ids /\ Entry = n + 1 /\ E.ts = now
        /\ K \in Keys /\ IsOpen(K) /\ open[K].sid \in Rows /\ Rows' = Rows
        /\ \A s \in Rows : /\ sessions'[s].key = sessions[s].key
                           /\ sessions'[s].started = sessions[s].started
                           /\ sessions'[s].closed = sessions[s].closed
    BY UpdatedRow
  <1>2. /\ \A i \in 1 .. n : RowsWith(i)' = RowsWith(i)
        /\ RowsWith(n + 1)' = {open[K].sid}
    BY UpdatedCounts
  <1> SUFFICES ASSUME NEW i \in Ids, NEW j \in Ids, Follows(i, j)', j <= n + 1,
                      NEW s \in RowsWith(i)', NEW t \in RowsWith(j)'
               PROVE  /\ s = t <=> Extends(i, s, j)'
                      /\ s # t => s < t /\ sessions'[s].closed
    BY DEF Neighbours, Ids
  <1>3. Follows(i, j) /\ i \in 1 .. n /\ i \in Nat /\ j \in Nat
    BY <1>1, StreamTypes DEF Follows, Ids
  <1>4. s \in RowsWith(i) /\ s \in Rows
    BY <1>2, <1>3 DEF RowsWith
  <1>5. Extends(i, s, j)' <=> Extends(i, s, j)
    BY <1>1, <1>4 DEF Extends
  <1>6. CASE j <= n
    <2>1. t \in RowsWith(j)
      BY <1>2, <1>3, <1>6 DEF Ids
    <2> QED BY <1>1, <1>3, <1>4, <1>5, <1>6, <2>1 DEF GroupInv, Grouped, Neighbours
  <1>7. CASE j = n + 1
    <2>1. t = open[K].sid /\ stream[i].key = K /\ stream[j].ts = now
      BY <1>1, <1>2, <1>3, <1>7 DEF Follows, K, E
    <2>2. IsLatest(i, n)
      <3>1. \A m \in Ids : m <= n => m < j
        BY <1>1, <1>7, StreamTypes
      <3> QED BY <1>3, <3>1 DEF IsLatest, Follows
    <2>3. Continued(i, s) \/ Ended(i, s)
      BY <1>4, <2>2 DEF GroupInv, Grouped, Latest
    <2>4. CASE Continued(i, s)
      <3>1. s = t /\ Extends(i, s, Entry)
        BY <2>1, <2>4 DEF Continued
      <3> QED BY <1>1, <1>5, <1>7, <3>1
    <2>5. CASE Ended(i, s)
      <3>1. s < t /\ sessions[s].closed
        BY <1>1, <2>1, <2>5 DEF Ended
      <3>2. ~Extends(i, s, j)
        <4>1. CASE now - stream[i].ts > Gap
          BY <2>1, <4>1, StreamTypes DEF Extends
        <4>2. CASE ~Extends(i, s, Entry)
          BY <1>1, <1>7, <4>2
        <4> QED BY <2>5, <4>1, <4>2 DEF Ended
      <3>3. s # t
        BY <1>4, <3>1, RowTypes
      <3> QED BY <1>1, <1>4, <1>5, <3>1, <3>2, <3>3
    <2> QED BY <2>3, <2>4, <2>5
  <1> QED BY <1>1, <1>3, <1>6, <1>7

LEMMA UpdatedGroups ==
    ASSUME IInv, NEW n, GroupInv(n), conn, UpdateRow, Updated,
           UNCHANGED <<now, stream, lastId, pel, batch>>
    PROVE  GroupInv(n + 1)'
  <1>1. pc = "update" /\ pc' = "link" /\ UNCHANGED <<open, todo>>
    BY DEF Updated
  <1>2. /\ n \in Nat /\ n + 1 \in Ids /\ n + 1 <= lastId
        /\ K \in Keys /\ IsOpen(K) /\ E.key = K /\ Entry = n + 1
        /\ open[K].sid \in Rows /\ Rows' = Rows
        /\ \A s \in Rows : sessions'[s].closed = sessions[s].closed
    BY <1>1, UpdatedRow
  <1>3. /\ \A i \in 1 .. n : RowsWith(i)' = RowsWith(i)
        /\ RowsWith(n + 1)' = {open[K].sid}
    BY <1>1, UpdatedCounts
  <1>4. RowsTell(n + 1)' /\ \A s \in Rows' : sessions'[s].of # <<>>
    BY <1>1, UpdatedTells
  <1>5. Neighbours(n + 1)'
    BY <1>1, UpdatedNeighbours
  <1>6. RowsFilled'
    BY <1>4 DEF RowsFilled
  <1>7. Partition(n + 1)'
    <2>1. \A i \in 1 .. n : \E s \in Rows : RowsWith(i)' = {s}
      BY <1>3 DEF GroupInv, Grouped, Partition
    <2>2. \A i \in 1 .. (n + 1) : i \in 1 .. n \/ i = n + 1
      BY <1>2
    <2> QED BY <1>2, <1>3, <2>1, <2>2 DEF Partition
  <1>8. MemoryTells'
    BY <1>1 DEF GroupInv, Grouped, MemoryTells, IsOpen
  <1>9. StatementDue'
    BY <1>1 DEF StatementDue
  <1>10. OnTime'
    BY DEF GroupInv, OnTime, Ids
  <1>11. BatchFrom(n + 1)'
    <2>1. todo' = (n + 1) .. lastId
      BY <1>1 DEF GroupInv, BatchFrom
    <2>2. n + 1 \in 0 .. lastId
      BY <1>2, StreamTypes
    <2> QED BY <1>1, <2>1, <2>2 DEF GroupInv, BatchFrom
  <1>12. ASSUME NEW i \in Ids, IsLatest(i, n + 1), NEW s \in RowsWith(i)'
         PROVE  Continued(i, s)' \/ Ended(i, s)'
    <2> DEFINE k == stream[i].key
    <2>1. k \in Keys /\ k' = k /\ i \in 1 .. (n + 1)
      BY <1>12, StreamTypes DEF IsLatest
    <2>2. CASE i = n + 1
      <3>1. s = open[K].sid /\ k = K
        BY <1>2, <1>3, <1>12, <2>2 DEF E, K
      <3>2. IsOpen(k)' /\ open'[k].sid = s
        BY <1>1, <1>2, <3>1 DEF IsOpen
      <3> QED BY <1>1, <2>1, <3>2 DEF Continued
    <2>3. CASE i # n + 1
      <3>1. i \in 1 .. n /\ k # K
        <4>1. i \in 1 .. n /\ i < n + 1
          BY <1>2, <2>1, <2>3
        <4>2. stream[n + 1].key # k
          BY <1>2, <1>12, <4>1 DEF IsLatest
        <4> QED BY <1>2, <4>1, <4>2 DEF E, K
      <3>2. s \in RowsWith(i) /\ s \in Rows
        BY <1>3, <1>12, <3>1 DEF RowsWith
      <3>3. IsLatest(i, n)
        BY <1>2, <1>12, <3>1, StreamTypes DEF IsLatest
      <3>4. Continued(i, s) \/ Ended(i, s)
        BY <3>2, <3>3 DEF GroupInv, Grouped, Latest
      <3>5. Continued(i, s) => Continued(i, s)'
        BY <1>1, <2>1 DEF Continued, IsOpen
      <3>6. Ended(i, s) => Ended(i, s)'
        BY <1>1, <1>2, <2>1, <3>1, <3>2 DEF Ended, IsOpen
      <3> QED BY <3>4, <3>5, <3>6
    <2> QED BY <2>2, <2>3
  <1>13. Latest(n + 1)'
    BY <1>12 DEF Latest, IsLatest, Ids
  <1> QED
    BY <1>4, <1>5, <1>6, <1>7, <1>8, <1>9, <1>10, <1>11, <1>13 DEF GroupInv, Grouped

-----------------------------------------------------------------------------
(* The statements after the UPDATE leave rows and sessions as they are, but  *)
(* for the rules triggered.                                                  *)
LEMMA AfterwardsGroups ==
    ASSUME IInv, NEW n, GroupInv(n), pc \in {"link", "hit", "alert"},
           UNCHANGED <<now, stream, lastId, pel, batch, sessions>>, MemoryKept,
           \/ pc' \in {"hit", "alert"} /\ UNCHANGED todo
           \/ pc' = "next" /\ todo' = todo \ {Entry}
    PROVE  GroupInv(n)'
  <1>1. n \in Nat /\ n <= lastId /\ now \in Nat /\ now' = now
    BY Bounds, StreamTypes DEF GroupInv
  <1>2. StreamKept
    BY DEF StreamKept, Ids
  <1>3. Grouped(n)'
    BY <1>1, <1>2, QuietStep DEF GroupInv
  <1>4. OnTime' /\ StatementDue'
    BY DEF GroupInv, OnTime, Ids, StatementDue
  <1>5. todo # {}
    BY DEF IInv, InHand, Statements
  <1>6. todo \ {Entry} = (n + 1) .. lastId
    BY <1>5, HandInBatch
  <1>7. BatchFrom(n)'
    BY <1>6 DEF GroupInv, BatchFrom
  <1> QED BY <1>3, <1>4, <1>7 DEF GroupInv

LEMMA TriggerKeeps ==
    ASSUME IInv, pc \in {"link", "hit"}, NEW rules, Trigger(rules)
    PROVE  MemoryKept
  <1>1. K \in Keys /\ open[K] \in SessionState /\ IsOpen(K)
    BY SessionInHand DEF Statements
  <1>2. open' = [open EXCEPT ![K] = [open[K] EXCEPT !.triggered =
                   open[K].triggered \cup {r \in rules : \A q \in rules : r <= q}]]
    BY DEF Trigger
  <1> DEFINE s == [open[K] EXCEPT !.triggered =
                      open[K].triggered \cup {r \in rules : \A q \in rules : r <= q}]
  <1>3. /\ s.sid = open[K].sid /\ s.events = open[K].events
        /\ s.started = open[K].started /\ s.last = open[K].last
    BY <1>1 DEF SessionState
  <1> HIDE DEF s
  <1>4. open'[K] = s /\ \A k \in Keys : k # K => open'[k] = open[k]
    BY <1>1, <1>2 DEF s, IInv, TypeOK
  <1>5. s # None
    <2>1. s.sid # 0
      BY <1>1, <1>3 DEF SessionState
    <2> QED BY <2>1 DEF None
  <1> QED BY <1>1, <1>3, <1>4, <1>5 DEF MemoryKept, IsOpen

LEMMA ExecuteGroups ==
    ASSUME IInv, CountInv, NEW n, GroupInv(n), Execute
    PROVE  GroupInv(n)' \/ GroupInv(n + 1)'
  <1>1. /\ conn /\ Statement /\ UNCHANGED <<now, stream, lastId, pel, batch>>
        /\ Closed \/ Opened \/ Updated \/ Linked \/ HitCounted \/ Alerted
    BY DEF Execute, Returns, group
  <1>2. CASE Closed
    <2>1. CloseRow(open[K].sid)
      BY <1>1, <1>2 DEF Closed, Statement
    <2> QED BY <1>1, <1>2, <2>1, ClosedGroups
  <1>3. CASE Opened
    <2>1. InsertRow
      BY <1>1, <1>3 DEF Opened, Statement
    <2> QED BY <1>1, <1>3, <2>1, OpenedGroups
  <1>4. CASE Updated
    <2>1. UpdateRow
      BY <1>1, <1>4 DEF Updated, Statement
    <2> QED BY <1>1, <1>4, <2>1, UpdatedGroups
  <1>5. UNCHANGED open => MemoryKept
    BY DEF MemoryKept, IsOpen
  <1>6. CASE Linked \/ HitCounted \/ Alerted
    <2>1. pc \in {"link", "hit", "alert"} /\ sessions' = sessions
      BY <1>1, <1>6
         DEF Linked, HitCounted, Alerted, Statement, LinkEvent, CountHit, UpsertAlert
    <2>2. MemoryKept
      BY <1>5, <1>6, TriggerKeeps DEF Linked, HitCounted, Alerted
    <2>3. \/ pc' \in {"hit", "alert"} /\ UNCHANGED todo
          \/ pc' = "next" /\ todo' = todo \ {Entry}
      BY <1>6 DEF Linked, HitCounted, Alerted, Trigger, NextEntry
    <2> QED BY <1>1, <2>1, <2>2, <2>3, AfterwardsGroups
  <1> QED BY <1>1, <1>2, <1>3, <1>4, <1>6

-----------------------------------------------------------------------------
GroupsAccounted == \E n \in Nat : GroupInv(n)

LEMMA GroupsStep ==
    ASSUME Undisturbed, IInv, CountInv, GroupsAccounted, [Next]_vars
    PROVE  GroupsAccounted'
  <1>1. PICK n \in Nat : GroupInv(n)
    BY DEF GroupsAccounted
  <1>2. n + 1 \in Nat
    OBVIOUS
  <1>3. CASE Execute
    <2>1. GroupInv(n)' \/ GroupInv(n + 1)'
      BY <1>1, <1>3, ExecuteGroups
    <2> QED BY <1>2, <2>1 DEF GroupsAccounted
  <1>4. CASE ~Execute
    <2>1. \/ Happen \/ Tick \/ Start \/ PendingDrained \/ ReadNew \/ Take
          \/ Ack \/ Sweep \/ SweepOne \/ UNCHANGED vars
      BY <1>1, <1>4, UndisturbedSteps
    <2>2. GroupInv(n)'
      BY <1>1, <2>1, HappenGroups, TickGroups, BetweenGroups, ReadNewGroups, TakeGroups,
         AckGroups, SweepOneGroups, StutterGroups
    <2> QED BY <2>2 DEF GroupsAccounted
  <1> QED BY <1>3, <1>4

LEMMA InitGroups ==
    ASSUME Init
    PROVE  GroupsAccounted
  <1>1. Ids = {} /\ Rows = {} /\ \A k \in Keys : ~IsOpen(k)
    BY DEF Init, Ids, Rows, IsOpen
  <1>2. OnTime /\ BatchFrom(0) /\ StatementDue
    BY <1>1 DEF Init, OnTime, BatchFrom, StatementDue
  <1>3. Grouped(0)
    BY <1>1 DEF Grouped, MemoryTells, RowsTell, RowsFilled, Partition, Neighbours, Latest
  <1>4. GroupInv(0)
    BY <1>2, <1>3 DEF GroupInv
  <1> QED BY <1>4 DEF GroupsAccounted

(* What is accounted for when the process has caught up is the whole stream. *)
LEMMA AccountedGroups ==
    ASSUME IInv, GroupsAccounted
    PROVE  RowsAreGroups
  <1>1. PICK n \in Nat : GroupInv(n)
    BY DEF GroupsAccounted
  <1> SUFFICES ASSUME UpToDate
               PROVE  /\ \A s \in Rows : RowTells(sessions[s])
                      /\ \A i \in Ids : \E s \in Rows : RowsWith(i) = {s}
                      /\ \A i, j \in Ids : Follows(i, j) =>
                            \A s \in RowsWith(i), t \in RowsWith(j) :
                               /\ s = t <=> Extends(i, s, j)
                               /\ s # t => s < t /\ sessions[s].closed
    BY DEF RowsAreGroups, Extends
  <1>2. n = lastId /\ lastId = Len(stream) /\ pc # "update"
    BY <1>1, BetweenBatches DEF UpToDate, GroupInv
  <1>3. Ids = 1 .. n /\ \A i \in Ids : i <= n
    BY <1>2, StreamTypes DEF Ids
  <1>4. \A i \in Ids : \E s \in Rows : RowsWith(i) = {s}
    BY <1>1, <1>3 DEF GroupInv, Grouped, Partition
  <1>5. \A i, j \in Ids : Follows(i, j) =>
           \A s \in RowsWith(i), t \in RowsWith(j) :
              /\ s = t <=> Extends(i, s, j)
              /\ s # t => s < t /\ sessions[s].closed
    BY <1>1, <1>3 DEF GroupInv, Grouped, Neighbours
  <1>6. ASSUME NEW s \in Rows
        PROVE  RowTells(sessions[s])
    <2>1. sessions[s].of # <<>>
      BY <1>1, <1>2 DEF GroupInv, Grouped, RowsFilled
    <2>2. /\ \A m \in DOMAIN sessions[s].of :
                /\ sessions[s].of[m].id \in Ids
                /\ sessions[s].of[m] = stream[sessions[s].of[m].id]
                /\ sessions[s].of[m].key = sessions[s].key
          /\ \A l, m \in DOMAIN sessions[s].of :
                l < m => sessions[s].of[l].id < sessions[s].of[m].id
          /\ sessions[s].started = sessions[s].of[1].ts
          /\ sessions[s].ended = sessions[s].of[Len(sessions[s].of)].ts
      BY <1>1, <1>3, <2>1 DEF GroupInv, Grouped, RowsTell
    <2> QED BY <2>1, <2>2 DEF RowTells
  <1> QED BY <1>4, <1>5, <1>6

(* Where nothing fails, every line is published once and the stream is read  *)
(* before time passes, the rows are the groups that the events fall into by  *)
(* the gap and the longest session (sessioniser.py:189-204, 237-247).        *)
THEOREM Groups ==
    ASSUME Undisturbed
    PROVE  Spec => []RowsAreGroups
  <1>1. Init => CountInv /\ GroupsAccounted
    <2>1. ASSUME Init
          PROVE  CountInv
      BY <2>1 DEF Init, CountInv, Connected, RowsCaughtUp, ProcessedIsCounted, IsOpen,
                  SettledIsCounted
    <2> QED BY <2>1, InitGroups
  <1>2. IInv /\ CountInv /\ GroupsAccounted /\ [Next]_vars => (CountInv /\ GroupsAccounted)'
    BY CountInvStep, GroupsStep DEF Undisturbed, StatementsSucceed
  <1>3. IInv /\ GroupsAccounted => RowsAreGroups
    BY AccountedGroups
  <1> QED BY <1>1, <1>2, <1>3, Invariant, PTL DEF Spec
=============================================================================
