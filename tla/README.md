# A verification project for Sentinel-Trap

TLA+ models of Sentinel-Trap, from the simulated attackers to the analyst's
browser: attack-sim, the pipeline from a decoy's log file to rows and alerts,
the API's listings, triage and live feed, and the two parts of the dashboard
that keep state. TLC checks the models on small instances; TLAPS proves the
safety of all seven models, the writer, the sessioniser, the tailer, the live
feed, the listings, triage and attack-sim, for every value of their constants.
Source references are to paths of the repository.

- [Inventory](#inventory)
- [Plan](#plan)
- [The modules](#the-modules)
- [The runs](#the-runs)
- [Where the code departs from what it says](#where-the-code-departs-from-what-it-says)
- [What is proved](#what-is-proved)
- [What is not modelled](#what-is-not-modelled)

## Inventory

```
 attacker / attack-sim
        |
   decoys: cowrie, sentinel-web        append JSON lines to a log
        |
   tailer                              polls the logs, checkpoints offsets
        |  XADD ... MAXLEN ~ n
   Redis Stream events.raw
        |            |            |
   group writer  group sessioniser   plain XREAD
        |            |            |
   events        sessions, alerts   api: Broadcaster -> /ws
        \            /                         |
         TimescaleDB  <---- api: REST ----  dashboard
```

| Component | State it keeps | Operations | Interaction |
|---|---|---|---|
| decoys (`decoys/`) | the log file; a tarpit's open connections | append a record; rotation of Cowrie's log | the log directory, read-only to the tailer |
| tailer (`pipeline/.../tailer.py`) | a cursor (offset, inode) per path, in memory and as a checkpoint file | discover, read_new_lines, XADD pipeline, save | reads logs, publishes |
| event schema (`events.py`) | none | normalise a line, to and from stream fields | used by tailer and both consumers |
| Redis Stream | the entries, and per group the last delivered id and the pending list of every consumer name | XADD with trimming, XREADGROUP `0` and `>`, XACK | shared by everything after the tailer |
| writer (`writer.py`) | its cursor (`0` or `>`), the batch in hand | read, insert in one transaction, acknowledge; reconnect | group `writer`, table `events` |
| sessioniser (`sessioniser.py`) | the open sessions: counts, event ids seen, rules triggered | per event up to six autocommitted statements; idle sweep | group `sessioniser`, tables `sessions`, `alerts`, `rules`, and `events.session_id` |
| features, rules, scoring | none (pure) | compute_features, evaluate, rule_component_score | called by the sessioniser |
| API (`api/`) | a broadcaster with one bounded queue per subscriber | keyset listings, a verdict and its label, live feed | the database; plain XREAD of the stream |
| dashboard (`dashboard/`) | lists merged from REST and socket, filters | load, merge, reconnect, triage | REST and WebSocket of the API |
| attack-sim (`attack-sim/`) | source pool, semaphore, manifest | run campaigns at a bounded concurrency | the decoys |
| deployment (`docker-compose.yml`) | restart policy, container names | restart, recreate | gives the consumers their names |

What is hard about them, and what makes each correct:

* **Tailer.** The decoy writes, renames and reopens its log while the tailer
  is between `path.stat()` and `path.open()`; it can die between the XADD and
  the checkpoint, and the pipeline of XADDs is no transaction. Correct: the
  checkpoint is never ahead of the stream, every event reaches the stream,
  repetition is bounded, new lines keep their order.
* **Writer.** It can die or lose either connection before, during or after a
  commit and an XACK; entries can be trimmed while pending; a container's name
  is its consumer name. Correct: nothing is acknowledged before it is stored;
  what a run finds pending is settled; it implements at-least-once.
* **Sessioniser.** Memory and four tables advance by separate statements, each
  of which may fail on its own; redelivery and replay bring events again; the
  sweep uses the clock while events carry their own time. Correct: a row
  counts an event once, closed rows are final, memory and its row agree,
  alerts are justified and complete, rows are the groups of the schema's
  definition, acknowledged events are counted.
* **Live feed.** A slow subscriber's queue overflows, XREAD from `$` may miss
  what arrives between two calls, the reader loses Redis, the socket
  reconnects, REST and socket race. Correct: nothing a connection is owed is
  missing but what a full queue dropped, frames keep the order of the stream,
  an event is one row, the list is the newest of what has come.
* **Triage.** A verdict and its label are two transactions, while the
  sessioniser adds rules to the same alert and another analyst gives another
  verdict; two loads of the queue can answer in the other order. Correct:
  status and label agree once both are quiet, the label is of the most severe
  rule, a tab shows its filter and its own verdicts.
* **Listings.** Keyset pages over equal timestamps, while rows come and go.
  Correct: pages descend and no row that stays is skipped.
* **attack-sim.** A pool of addresses without replacement, a semaphore,
  campaigns whose every call may fail, and a manifest written at the end.
  Correct: no source is used twice, the manifest of a finished run is true,
  and the traffic has the shape its label claims.

`PROJECT.json` lists the hazards one by one, at their lines.

## Plan

| Step | Module | Says | Depends on |
|---|---|---|---|
| 1, done | `RedisStream`, `AtLeastOnce`, `Writer`, `WriterProofs` | the acknowledged consumer, its abstract promise, proofs | - |
| 2, done | `Detection`, `Sessioniser`, `SessioniserProofs`, `SessionGroupsProofs` | sessions and alerts, proofs | `RedisStream`, `AtLeastOnce` |
| 3, done | `Tailer`, `TailerProofs` | logs to stream, proofs | - |
| 4, done | `Triage`, `TriageProofs` | PATCH of an alert with its label, against the sessioniser's upsert and a second analyst; the queue's racing loads; proofs | - |
| 5, done | `LiveFeed`, `LiveFeedProofs` | broadcaster, queue, socket, `useLiveFeed`, proofs | - |
| 6, done | `Listing`, `ListingProofs` | pages over a changing table, proofs | - |
| 7, done | `AttackSim`, `AttackSimProofs` | source pool, semaphore, traffic, manifest, proofs | - |
| left | `Ingest` | tailer, writer and sessioniser on one stream: the event of a Cowrie line that is read twice (`events.py:115`), the race between the insert of an event and its link to a session (`sessioniser.py:137`) | 1, 2, 3 |
| left | `Detection` on its own | evaluation over all small clauses: order of events, monotone features | - |
| left | `Offsets` | the tailer's cursor in bytes | - |

Every invariant and action property the passing runs check is proved.

## The modules

**`RedisStream`** - external. What the pipeline relies on in Redis: ids are
positions of the stream; `XADD` with `MAXLEN ~ n` removes nothing that is
within the newest n entries and any number of older ones; a read with `>` gives
the oldest ids past the group's last delivered one that are still there, and
makes them pending under the reader's name in the same step; a read with `0`
gives the reader's own oldest pending ids, and an entry trimmed meanwhile comes
back without fields, so `Event.from_stream_fields` cannot decode it. Redis is
taken not to lose what it has served: it runs with an append-only file, and the
host's power failure is left out.

**`AtLeastOnce`** - the promise of a consumer group: entries are published,
their events stored, and an entry is settled only when its event is stored or
it fell below the stream's floor. The writer implements it, and the sessioniser
while its statements succeed, with "stored" read as "counted in some row".

**`Writer`** - `writer.py`. `pc` is the place in the loop (`idle`, `write`,
`ack`, `reconnect`, or `down` between runs); `cursor` is `cursor_id`; `pel` is
the pending list by consumer name; `rows` is the table `events`, as the set of
events that have a row. `ReadPending`, `PendingDrained` and `ReadNew` are
`_drain` up to the decoding, `WriteBatch` is `_write` and its commit, `Ack` is
the XACK; `PostgresLost`, `Reconnect` and `ReconnectFails` are the handler of
`OperationalError`; `ReadReplyLost` and `AckLost` that of Redis's
`ConnectionError`, each after Redis has served the call or not; `WriteRejected`
is the exception nobody handles; `ReportFails` is the XPENDING that stands
outside the `try`. `Start` is Docker's restart, `Recreate` a new container with
a new name.

**`Detection`** - `features.py`, `rules.py`, `scoring.py`, as pure operators:
counts over a session's events, clauses, the score in hundredths so that 0.6 of
weight 40 is 2400 against a minimum of 2500, as the shipped configuration has
it. A regular expression is the set of values it is found in.

**`Sessioniser`** - `sessioniser.py`. `pc` names the SQL statement about to
run, because each is a transaction of its own and anything may happen before
it, instead of it and after it; the computations between two statements belong
to the earlier one. `Returns` and `Raises` are the outcomes of a statement: it
returns, it fails for a reason of its own, its connection breaks before or
after its commit, or the connection is broken already. `SkipEntry` is `except
Exception` in `_drain`. A row of `sessions` stands with the events its count
and features were computed from, which is what the properties are about.
Trimming and new consumer names are left to `Writer`, whose loop has the same
shape.

**`Tailer`** - `tailer.py` on the log directory of one decoy. An offset counts
half lines, so that a record without its newline has a size of its own.
`Stat` and `Read` are the two halves of `read_new_lines`, separate because the
decoy can rename the file in between; `OpenFails` is the exception that
follows. `XAddFails` is the pipeline that Redis served in part. `EventsAfter` is
the loop over the lines of a batch, as the recursion it is. Several decoys
are several independent copies.

**`LiveFeed`** - `stream.py`, `ws_live` and `useLiveFeed.ts`, for one
dashboard. `reader` is the place of `Broadcaster._run`: `Call` is XREAD going
out, with `$` resolved at that moment, `Reply` the answer and the loop over its
entries, which has no `await` and is therefore one step; `ConnectionLost` and
`ReaderDies` are the exception it handles and the others. `queue`, `batch` and
`wire` are the three places an event can be in between the reader and the
hook: `Put` drops the oldest of a full queue, `PutAll` is the loop over a reply,
`Unseen` the `filter` of `addEvents`, `Collect` and `Deadline` are
`stream_frames`, `Send` is `send_json` with a socket that takes `WireMax`
frames, `OnMessage` is the hook's handler. `RestServed` and `RestArrives` are
apart, so that frames may come in between. The history variables `base`,
`from` and `lost` say what the connection is owed.

**`Triage`** - `update_alert` and `TriageQueue.tsx`. `acts` holds the verdicts
given and how far each has come: `UpdateStatus` and `WriteLabel` are the two
transactions, `Reload` and `LoadArrives` the load that follows, `RequestFails`
and `GiveUp` the error path. `loads` are GETs under way, each with the filter
of its `useCallback`. A shown row is the length its alert's `log` had when it
was read, so that stale rows can be told. `contested` marks the alerts of which
two verdicts met between the two transactions; `clean` the tabs whose loads did
not cross.

**`Listing`** - `EVENTS_PAGE`, `ALERTS_PAGE` and their handlers, as a walk of
one caller with the cursor of each page. `Before` is the WHERE clause with
SQL's unknown for an id that is NULL; `IsPage` is ORDER BY and LIMIT. `Join`
and `Leave` are rows inserted and alerts changing status while the walk is on.

**`AttackSim`** - one run of `runner.py`. `Take` is `SourcePool.take`, `Begin`
the semaphore and what a generator draws first, `Attempt`, `Command` and their
failing forms the calls of `client.py` and `ssh_client.py`, `Finish` the record,
`Raises` an exception that `gather` passes on, `WriteRows` and `WriteSummary`
the manifest. A class is its label, transport, kind of generator and possible
draws; the four web classes but the brute force are of one kind. `Grants` is
Cowrie's AuthRandom, as `generators.py:123` describes it. `landed` and `hits`
are what has reached the decoy, which the program cannot see. An SSH guess has
three outcomes: it is answered (`Attempt`), it fails (`AttemptFails`), or its
connection ends or times out while it is under way (`GuessBreaks`). For the last
paramiko raises `AuthenticationException` as for a guess refused, and
`ssh_client.py:114-116` and `135-139` count it as sent, whether it has reached
Cowrie or not. `broken` is how many of those sent were lost that way, commands in
a channel that broke among them; the program cannot see that either. What
paramiko raises when is not in the repository; it is modelled as the handlers
take it. Over HTTP a request is answered or fails.

**`MCWriter`, `MCSessioniser`, `MCTailer`, `MCLiveFeed`, `MCTriage`,
`MCListing`, `MCAttackSim`** give these their small constants.
Both rules of `MCSessioniser` have the shape of the shipped ones.

`RowsAreGroups` says the schema's definition of a session of the stream alone,
entry by entry: every event is counted in one row; two neighbours, an entry and
the next of its key (`Follows`), are in the same row if and only if neither
their silence nor the age of the session is too long; and otherwise the row of
the second is the later one and that of the first is closed. `RowTells` adds that
a row's events are the stream's, in order, of one key, and that it spans their
time.

### Fairness

`WF_vars(Process)` in writer, sessioniser and tailer: the loops of `main` run on while `_running`,
and `restart: unless-stopped` starts again what ended. `SF_vars(Reads)` of the
sessioniser: its loop calls `_drain` between any two sweeps, so a sweep that is
always possible cannot keep it from reading. `WF_vars(Tick)`: time passes.
Nothing is assumed of the environment: no fault, no event and no rotation is
owed, and the number of faults is bounded, since a process that is killed for
ever completes nothing.

In `LiveFeed` the event loop runs each of its tasks that can go on:
`WF_vars(Api)` for the reader, `WF_vars(Collect)`, `WF_vars(Deadline)` and
`WF_vars(Send)` for the handler of the socket, `WF_vars(OnMessage)` for the
browser. `Connect` is not fair: a browser may stay away. `Triage`, `Listing`
and `AttackSim` are checked for safety only and state no fairness.

## The runs

| Run | Question | Bounds |
|---|---|---|
| `Writer` | With every fault, a new container and a refused event: is anything settled that is not stored (`SettledIsStored`), does the writer implement `AtLeastOnce` (`KeepsPromise`), is every entry stored, trimmed or left pending in one of the ways named below (`StoredOrLeftPending`), is what a run finds pending settled (`Reclaims`)? | 4 entries of 2 events, batches of 2, retention of 2, 2 names, 2 faults |
| `SessioniserSafety` | With any one fault at any statement, and a replay: no event twice in a row (`CountedOnce`), memory and its row agree (`MemoryHasItsRow`), closed rows are final (`ClosedRowsFrozen`), one alert per session, with evidence (`AlertsAreJustified`) | 2 events and a replay, 2 rules, times 0 to 2, 1 fault |
| `SessioniserGroups` | Without faults and backlog: is every event in one row, with its neighbour exactly when neither the gap nor the maximal duration lies between (`RowsAreGroups`)? | 4 events, 2 keys, times 0 to 5 |
| `SessioniserLive` | Through a crash or a lost reply: is what is acknowledged counted (`SettledIsCounted`), are alerts complete (`AlertsAreComplete`), is every event counted or left pending (`CountedOrLeftPending`), does every session in memory close (`OpenSessionsClose`)? | 2 events, 2 rules, times 0 to 3, 1 fault |
| `TailerLog` | Through rotation, truncation and crashes at any point of a poll: `RestartLosesNothing`, `RepetitionIsBounded`, `NewLinesInOrder`, `EveryLinePublished` | 3 lines (one no event), 2 rotations, 1 truncation, 1 crash |
| `LiveFeed` | Is what a connection is owed received, under way or dropped by a full queue (`NothingSkipped`), do frames keep the order (`FramesInOrder`), is an event one row (`NoRowTwice`), the list the newest of what has come (`ListIsNewest`), and does a new event reach a connected browser (`LiveReaches`)? | 5 entries (one undecodable, one repeating an event), XREAD of 2, queue of 2, a list of 3, REST page of 2, 1 frame on the wire, 1 fault |
| `Triage` | Do status and label agree (`StatusAndLabelAgree`), is the label of the most severe rule known (`LabelIsOfTopRule`), does a tab show its filter (`ListIsOfFilter`) and its own verdicts (`OwnVerdictsShown`)? | 1 alert, 2 tabs, 2 rules, 2 verdicts, 1 change of filter, 1 fault |
| `Listing` | Do pages descend (`PagesDescend`), and is no row skipped that stays (`NothingSkipped`)? | 5 rows, three of one time, limits 1 and 2 |
| `AttackSim` | No source twice (`OneCampaignPerSource`), a true manifest (`ManifestTellsAll`), counts that bracket what landed (`CountsBracketTraffic`), traffic of the shape the rules look for (`BruteTripsRule`, `DropperGetsIn`) | 3 campaigns, one of each kind, on 3 sources with a semaphore of 2, and 4 campaigns on the same 3; 2 faults |
| `WriterStuck`, `SessioniserDead`, `TailerReplay` | see the next section | as small as the behaviour allows |

`LiveFeed`, `Triage` and `AttackSim` switch deadlock checking off, because they
really may stop: a dashboard whose events have all come, a queue whose verdicts
are given, a run that has ended. The other loops always have a step.

Why the bounds are enough. A batch of 2 out of 4 entries gives a second batch,
a batch that is partly new and partly trimmed, and a pending list longer than
one read; two faults give a crash during recovery from a crash. In the
sessioniser a single fault reaches each of the statements, two events reach
both rules and their combination (one alone is below the alert minimum), a gap
of 1 with a duration of 1 or 2 makes equality and one more both happen, and
four events over times 0 to 5 make three groups of one key or two of two keys.
Two rotations let a file be renamed while an older one is still unread, and a
third file be opened at the offset of the first. Five entries with a queue of 2
make it overflow while a frame is on the wire and another is being collected,
and a list of 3 drop rows that may come again. One alert is enough for triage,
whose steps touch one alert each; two verdicts of two tabs, or of one, meet in
every order with the rule that is added. Three rows of one time put the end of
a page of 2, and of 1, before, inside and after them. In attack-sim a campaign
of each kind waits for the semaphore, the range a source is wanted from runs
empty, and two faults cost a dropper an answer and a guess, or a brute force two
attempts, each of them failed or broken.

What the bounds hide. A second alert of a tab, whose button the first one's
`busyId` does not disable. A second fault of the sessioniser is checked only in the
writer's loop of the same shape. All lines of a log have the same length: where
the tailer seeks into a file that took another's place it may really land
inside a line, which it then skips and reads with the rest of that file under
the new inode; the model can only repeat the line, not cut it.

Conditions that the properties carry are the code's own: `StoredOrLeftPending`
and `CountedOrLeftPending` name the one state in which an entry may stay
(below, the first item; `StoredOrLeftPending` and `Reclaims` also a new
consumer name, `Orphaned`, and a refused row, `Blocked`); `StatusAndLabelAgree`,
`ListIsOfFilter` and `ListIsNewest` leave out what the next section says of
them; `ListIsNewest` is also about frames that bring events in the order of their
time and a REST answer that reaches back to where they begin: the attempt to
prove it for any frames that bring no event twice showed that an entry of the
tailer, published again after a crash, may be the first of its event this
browser gets, after a newer one, and is put above it; `RestartLosesNothing` and `EveryLinePublished` say
nothing of a log that was truncated, which may grow past the old offset between
two polls and be read from its middle; `NewLinesInOrder` is about a log that
keeps its name, since a new log is read before the old one's rest, and that was
not both truncated and read by two processes: the attempt to prove it showed
that a log truncated after a batch was published, and grown again to between
the offset of the checkpoint and the one in memory, is read on from memory by
one process (1, 5) and, when that dies before its next checkpoint, from the
older offset by the next, which publishes line 4 after line 5 for the first
time.

## Where the code departs from what it says

Each of these has a run that TLC ends with a counterexample.

1. `WriterStuck`. After a lost database connection the loop goes on with the
   cursor it had. If that is `>`, the batch stays pending and nothing reads it
   again until the process restarts for another reason (`writer.py:133-137`;
   "resume from its last acknowledged ID without losing events", `writer.py:3`).
2. `SessioniserDead`. `except Exception` in `_drain` catches the
   `OperationalError` that `main` waits for, so a broken connection is not
   replaced and entries are acknowledged unprocessed (`sessioniser.py:268-277`,
   `308-312`).
3. `TailerReplay`. `*.json*` also matches the name rotation gives the old log;
   the cursor is kept by path, so that log is published again from its
   beginning (`tailer.py:6-8`, `109`).

These follow from the code in the same way; a condition of a property, or a
bound on the faults of a run, leaves them out.

* A row the database refuses raises a `DataError` that nothing handles; every
  later run begins with the same pending batch and ends there
  (`writer.py:102`; "Acknowledge poison entries rather than blocking the group
  forever", `writer.py:98`). `Blocked` of `Writer`.
* A rule is put in `triggered_rules` before its hit is counted and the alert
  upserted; if a statement between fails, the rule is no new match any more and
  the alert is not raised (`sessioniser.py:220-234`; `README.md:57`).
  `SessioniserLive` has no failing statements.
* `seen_event_ids` lives in the memory that the crash causing a redelivery has
  emptied, so the event is counted in a second row (`sessioniser.py:14`, `209`).
  `CountedOnce` is about one row.
* One campaign that raises ends the run of all, and the manifest, the only
  record of what was sent, is not written (`runner.py:173`, action `Raises`).
  `ManifestTellsAll` is about a run that exits with 0.
* A login whose connection breaks during authentication counts as `sent`, "login
  attempts + commands that reached the decoy" (`ssh_client.py:72`, `114-116`,
  `135-139`), though it need not have reached it: action `GuessBreaks`.
  `CountsBracketTraffic` allows for as many as were on such connections.
* The message of an exhausted pool speaks of 254 addresses a range; with `.1`
  kept out there are 253 (`sources.py:44`, `60`).

Behaviour of the models that no document clearly promises against, and that a
maintainer should know:

* A recreated container has a new consumer name, and what the old name had
  pending is never claimed (`writer.py:28`, action `Recreate`).
* A restarted sessioniser does not look at rows that are still open: the row of
  a session open at a crash stays open (`sessioniser.py:295`).
* The sweep goes by the clock: more than the gap behind, it closes sessions
  whose next events are in the stream, and they split. `SessioniserGroups` and
  the theorem `Groups` therefore assume `Prompt`, that time passes only when the
  stream is read.
* `from_cowrie` mints an `event_id` at normalisation (`events.py:115`), so a
  line of Cowrie read twice is two events to every consumer.
* A file that takes the place of another between `path.stat()` and
  `path.open()` is read under the old inode and once more under its own
  (`RepetitionIsBounded` says how often at most).
* Until its first event the broadcaster asks from `$` anew every two seconds;
  what is added between two such calls is not sent (`stream.py:83-92`).
* An exception other than `ConnectionError`, or a first ping that fails, ends
  the reader task, and no socket gets anything until the API is restarted
  (`stream.py:79-90`, `102`, action `ReaderDies`).
* A socket opened again does not fetch what came in between, and a REST answer
  that comes after a frame is put above it, so that the list is not newest
  first (`useLiveFeed.ts:39-42`, `59`; `late` in `ListIsNewest`).
* Two verdicts on one alert whose transactions interleave, or one that breaks
  off between its two, leave a status and a label that disagree
  (`main.py:142-152`; `contested`).
* A tab that has not reloaded offers "Mark reviewed" for an alert with a final
  verdict; the update looks at no status, and the label stays (`main.py:139-142`).
* Two loads of the queue that cross leave the rows of one filter under the name
  of the other (`TriageQueue.tsx:20`; `clean`).
* `before_ts` without `before_id` skips the rows of that very time
  (`db.py:34-35`).
* Sources are unique within a run; two runs within the gap of 15 minutes may
  draw the same (`sources.py:15-18`).

## What is proved

### The writer

`WriterProofs` proves of `Writer!Spec`, for any set of events, any refused ones,
any batch size, retention, number of entries, containers and faults
(`WriterAssumption`):

| Theorem | Statement |
|---|---|
| `TypeCorrect` | `Spec => []TypeOK` |
| `AckSafety` | `Spec => []SettledIsStored` |
| `BatchOwnership` | `Spec => []BatchIsPending`, a part of the invariant |
| `Refinement` | `Spec => KeepsPromise`, that is `AtLeastOnce!Spec` under the mapping log = `stream`, floor = `first`, stored = `rows`, settled = delivered and not pending |

The argument. `SettledIsStored` is not inductive: whether an XACK is safe
depends on what happened to the batch before. `IInv` adds what carries that
across the steps:

* `PendingIsDelivered`: pending ids were delivered, so the ids a read `>`
  returns are new and settle nothing;
* `BatchIsPending`: the batch in hand is pending under the process's name, so
  that an XACK takes exactly it out of the pending ids;
* `UndecodedIsTrimmed`: what of the batch could not be decoded is below the
  stream's floor, and the floor only rises;
* `AckFollowsCommit`: at `ack`, what was decoded has its rows.

A read `>` may skip ids: those are the trimmed ones (`UndeliveredSkipsTrimmed`),
which is why `SettledIsStored` allows for them. `DeliverSettles` and
`AckSettles` say by how much each of the two steps extends the settled ids;
they serve the invariant and the refinement alike. Most actions change neither
the stream nor the settled ids, and `LocalStep` handles them together.

### The sessioniser

`SessioniserProofs` proves of `Sessioniser!Spec`, for any keys, kinds of events,
rules, gap, duration, batch size and any faults (`SessioniserAssumption`,
`DetectionAssumption`: thresholds are integers, as those of the shipped rules
are; what they are compared with are counts):

| Theorem | Statement |
|---|---|
| `TypeCorrect` | `Spec => []TypeOK` |
| `OnceEach` | `Spec => []CountedOnce` |
| `MemoryAgrees` | `Spec => []MemoryHasItsRow` |
| `Justified` | `Spec => []AlertsAreJustified` |
| `Frozen` | `Spec => ClosedRowsFrozen` |
| `Settled` | `Spec => []SettledIsCounted`, where no statement fails (`StatementsSucceed`) |
| `Refinement` | `Spec => KeepsPromise`, where no statement fails: `AtLeastOnce!Spec` under the mapping log = `stream`, floor = 1, stored = the stream's events that some row counts, settled = delivered and not pending |
| `Complete` | `Spec => []AlertsAreComplete`, where no statement fails, an alert needs a score (`AlertsNeedAScore`) and every rule is of one kind of clause (`SimpleRules`) |

`IInv` ties the memory of the process to the four tables at every statement:
what an open session holds is what its row was computed from, or one event more
between the computation and the UPDATE (`RowCaughtUp`); no event is twice in a
session (`SeenOnce`, for `CountedOnce`); what a session has triggered has
evidence in its events (`TriggeredHasEvidence`, `WorthAnAlert`, for
`AlertsAreJustified`). That evidence is not lost when an event is added is a
lemma about `Detection`: counts and distinct counts only grow.

`Settled` and `Complete` are about a process whose statements all succeed, while
kills and lost replies of Redis go on. Without that they are false, as
`SessioniserDead` and the list above show. They need more than `IInv`: that
every row is level with the memory between two entries (`RowsCaughtUp`), that
what has been taken from the batch is counted (`ProcessedIsCounted`), and, per
session, that all there is evidence for has been triggered and stands in its
alert (`OthersComplete`, `HandComplete`). `SimpleRules` is what the four shipped rules
satisfy: a rule with clauses of both kinds in `all` would need to be evaluated
against the conjunction.

`Refinement` is about the same processes. A statement is a step of `Store`,
since no row ceases to count what it counts (`CountedStays`); a delivery or an
XACK is one of `Settle`, and what it settles is counted by `SettledIsCounted`.
What an entry published says of its event must be new or known, and for this no
row may count an event that has not happened (`OnlyWhatHappened`: the events of
memory and rows are the stream's, and a new one has an id that none had). No
entry is trimmed in `Sessioniser`, so the floor stays. No run checks this
`KeepsPromise`; the writer's is checked by `Writer`.

`SessionGroupsProofs` proves `Groups`, that is `Spec => []RowsAreGroups` where
nothing fails, every line is published once and the stream is read before time
passes (`Undisturbed`). Each of the three is needed: a failed statement or a
kill leaves a session in two rows, a replayed entry is counted again once the
session of its event is closed, and the sweep splits a backlog (above). Keys, kinds
of events, gap, duration and batch size are any.

The invariant, `GroupInv(n)`, says that the tables account for the first `n`
entries of the stream, for some `n`: entry ids, event ids and times run in one
order, and what is not settled came just now (`OnTime`); what is still to do of
the batch is what comes after `n` (`BatchFrom`); each of the first `n` is in one
row (`Partition`), and neighbours among them are as `RowsAreGroups` has it
(`Neighbours`). An UPDATE makes `n` one greater, and what it needs is known of
the latest entry of each key (`Latest`): either its session is in memory
(`Continued`), or its row is closed and nothing that comes can belong to it, as
time has passed the gap or the entry in hand is the one that ended it (`Ended`).
This is where the sweep comes in: it judges by the clock, and may close no
session that an entry still unread would extend. It does not, since such an
entry came now, so that the silence the sweep sees is the one the entry would
end (`OnTime`, `StatementDue`).

### The tailer

`TailerProofs` proves of `Tailer!Spec`, for any number of lines, which of them are no
events, and any number of rotations, truncations and crashes
(`TailerAssumption`):

| Theorem | Statement |
|---|---|
| `TypeCorrect` | `Spec => []TypeOK` |
| `NothingLost` | `Spec => []RestartLosesNothing` |
| `BoundedRepetition` | `Spec => []RepetitionIsBounded` |
| `InOrder` | `Spec => []NewLinesInOrder` |

`Base` says where files and cursors are: no inode has two names, a line stands
in one file, a cursor's inode is one that was there, and its offset fits the
file as long as that was not truncated. `NothingLost` needs `KeptInv`: every
event below the offset of a checkpoint is in the stream, and below the offset in
memory it is in the stream or in the batch. `BoundedRepetition` needs an amount
that no step but a crash or a rotation raises: `Debt` of a line is the number of
times it was published, plus one while it is in the batch, plus one while some
cursor still has it to read (`DebtPaid`); a file that took another's place
between stat and open must then be one of which nothing was published
(`StrangerUnread`). `InOrder` has two cases: while nothing has crashed the stream
is in the order of the log (`InSequence`); while nothing was truncated every
event is published, or in the batch, after all those before it
(`NoneSkipped`), so that an older line after a newer one must have come before.

What a batch holds is computed by recursion over the lines (`EventsAfter`). That
it holds exactly the events after the offset, in order, is proved from the
least line for which it would not.

### The live feed

`LiveFeedProofs` proves of `LiveFeed!Spec`, for any entries, of which any may be
undecodable or repeat an event, any `COUNT`, sizes of queue, socket, page and list,
and any faults (`LiveFeedAssumption`: sizes are positive, and the page asked of
REST fits the list, as 50 rows do 500, `useLiveFeed.ts:8`, `39`):

| Theorem | Statement |
|---|---|
| `TypeCorrect` | `Spec => []TypeOK` |
| `NothingIsSkipped` | `Spec => []NothingSkipped` |
| `FramesOrdered` | `Spec => []FramesInOrder` |
| `NoRowIsTwice` | `Spec => []NoRowTwice` |
| `ListIsTheNewest` | `Spec => []ListIsNewest` |

The first three are one invariant, `FlowInv`. Each entry is in one of four places
between the reader and the hook (frames sent, the batch, the queue, received) and
moves from each to the next, so that the places are ordered among each other and
within (`Order`). What a reply adds goes to the end because nothing is past the
reader's `last_id` (`Bounds`); while that is still `$` nothing is on its way,
and what was received on an earlier connection is no newer than the stream was
when the XREAD went out. What a reply adds is also exactly what the connection
is newly owed, since the id it asked from is the one it has come to (`Passed`).
`PutAllQueued` says what a queue holds after the loop over a reply: of the old
queue and the new entries the last ones, in order, and nothing it dropped is
newer than what it kept.

`NoRowIsTwice` and `ListIsTheNewest` need `RowsInv`. `ListIsNewest` is not
inductive: an event of REST that comes by the socket too must still be in the
list, or `addEvents` takes it for new and puts it on top. It is, because until
something newer than all of REST's rows has come they have lost no row, and once
it has, the frames bring nothing that old any more; this is where the page has to
fit the list. That the list is a certain sequence is handled by what determines
it (`IsNewest`, `NewestUnique`): descending, no longer than the limit, and with
all that it leaves out older than all it has. The loops of `_publish` and
`addEvents` are recursions (`PutAll`, `Unseen`), and what they compute is proved
from the least step at which it would be wrong.

### Triage

`TriageProofs` proves of `Triage!Spec`, for any alerts, tabs, rules, severities,
classes, filters, verdicts and faults (`TriageAssumption`: rules are finitely
many, an alert is raised for at least one, and no rule has the class "benign",
`main.py:30-35`, `sessioniser.py:221-234`):

| Theorem | Statement |
|---|---|
| `TypeCorrect` | `Spec => []TypeOK` |
| `LabelsAgree` | `Spec => []StatusAndLabelAgree` |
| `LabelOfTopRule` | `Spec => []LabelIsOfTopRule` |
| `FilterKept` | `Spec => []ListIsOfFilter` |
| `VerdictsShown` | `Spec => []OwnVerdictsShown` |

`Base` adds to the types that a log grows by one with each verdict written, so
that its length is bounded; what a verdict has done by the place it is at; and
that a verdict that waits for a load waits for one. `LastWord` carries
`StatusAndLabelAgree` through the time between the two transactions: of an alert
that is not contested at most one verdict is there, and the status is its own.
`LabelsFound` keeps the verdict that a label is from, whose rules do not change
any more (`ActsStay`); that some rule is a most severe one is `TopExists`. The
two properties of a tab are one invariant, `CleanTabs`: a tab whose loads did
not cross has one load, with its own filter, and an answer already given
tells of every verdict that has ended and of the one that waits for it. A
step of another tab, or one that does nothing about the list, is `Steady` and
handled once for all (`SteadyTidy`).

### The listings

`ListingProofs` proves of `Listing!Spec`, for any rows, any timestamps, equal
ones included, and any limits (`ListingAssumption`), that pages keep to their
limit (`TypeCorrect`), that they descend (`Descending`) and that no row is
skipped that has matched since the walk began (`Complete`).

`PagesDescend` is not inductive: it needs that whatever has been given is newer
than all that the cursor still lets through (`GivenIsNewer`). That holds
because the order of rows is transitive (`NewerIsTransitive`), the cursor of a
page is its last row (`LastRow`), and what it selects is exactly what is older
(`CursorSelectsOlder`).

### attack-sim

`AttackSimProofs` proves of `AttackSim!Spec`, for any registry, mixes, ranges of
addresses, concurrency and number of faults (`AttackSimAssumption`):

| Theorem | Statement |
|---|---|
| `TypeCorrect` | `Spec => []TypeOK`, with it that no more campaigns run than `--concurrency` |
| `SourcesUnique` | `Spec => []OneCampaignPerSource` |
| `CountsBracket` | `Spec => []CountsBracketTraffic` |
| `DroppersGetIn` | `Spec => []DropperGetsIn` |
| `ManifestComplete` | `Spec => []ManifestTellsAll` |
| `BruteTrips` | `Spec => []BruteTripsRule`, which also needs `ThresholdAssumption`: what the brute-force generators draw is within the thresholds of the rule |

The bound on running campaigns needs that slots and running campaigns add up
(`SlotsMatch`). The traffic needs an account of each campaign that carries from
its first attempt to its last, in three parts of `CampaignInv`. `Unsure` is what a
campaign has lost: its failures, and what was sent on a connection that broke.
Attempts landed, lost and to come make up at least the length of the schedule
(`OnSchedule`); an item that was neither seen nor is still to come was lost
(`Spent`); and a dropper that has lost nothing and has no shell is short of the
guess that Cowrie grants (`Refused`). `BruteTripsRule` follows from the first two
once nothing is left to come, `DropperGetsIn` from the last two: a dropper whose
turn never came has lost more guesses than it can afford. That over HTTP nothing
breaks, which makes `sent` exact there, is in `Counts`; it needs that droppers,
whose commands may break, are of SSH (`generators.py:195-201`, a part of
`AttackSimAssumption`).

`ManifestTellsAll` rests on `Recorded`: there are as many
records as campaigns that have ended, each of these has one with its final counts,
and a run comes to `write` only when all have, with nothing on disk before.

### Model-checked only

The liveness properties (`StoredOrLeftPending`, `Reclaims`,
`CountedOrLeftPending`, `OpenSessionsClose`, `EveryLinePublished`,
`LiveReaches`): their proofs need ENABLED of fair actions, which the prover does
not have. Everything else the passing runs check is proved, under the
hypotheses that the tables above name.

## What is not modelled

* The dashboard but for its hook and its queue, which are all of it that keeps
  state: layout. `/health` of the API: a constant.
* Gaps in time of attack-sim, the fingerprints and the words it sends: no
  property distinguishes them. A decoy that cannot write its log answers all
  the same and drops the event (`record` of sentinel-web); `AttackSim` counts
  what reaches the decoy.
* sentinel-web's tarpit: a delay before a response, with no state but a count.
* The mapping of fields by the normalisers and response bodies: they are data
  that no property distinguishes.
* The twenty-two features that no shipped rule reads (of twenty-four).
* `rules` rows beyond `hit_count`: `_sync_rules_table` leaves that alone at a
  restart, and nothing reads the others.
* The three attempts of `_link_event_to_session` are one statement that links
  the event or does not; the race with the writer needs the composition `Ingest`.
* A power failure of the Redis host, the 256 MB limit of its memory, an offset
  that drifts over invalid bytes (`tailer.py:98`).
* Host networking (`scripts/honeynet-egress.sh`) and build files: configuration.
