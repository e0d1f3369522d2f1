----------------------------- MODULE AttackSim -----------------------------
(***************************************************************************)
(* One run of attack-sim: the plan with a source for each campaign, the    *)
(* probes, the campaigns under their semaphore (runner.py, generators.py,  *)
(* client.py, ssh_client.py) and the manifest, the only place that says    *)
(* what each source was.                                                   *)
(*                                                                         *)
(* What a campaign sends is drawn from numbered items: the paths of a      *)
(* scan, the passwords of a brute force, the guesses of a dropper.  When   *)
(* it sends them, and the order of the shuffled plan, are left open.       *)
(***************************************************************************)
EXTENDS Integers, FiniteSets, Sequences

CONSTANTS
    Registry,      \* REGISTRY: label, transport, kind and draws of each class
    Mixes,         \* presets, scaled: campaigns of each class
    Onlys,         \* the values of --only
    Train,         \* hosts of TRAINING_NET
    HeldOut,       \* hosts of HELDOUT_NET
    Concurrency,   \* --concurrency
    Grants,        \* Cowrie's AuthRandom: which distinct guess it accepts
    MinAttempts,   \* 001-credential-bruteforce: attempts,
    MinDistinct,   \* and distinct passwords
    MaxFaults      \* bound: faults in a behaviour

Names == DOMAIN Registry
Kinds == {"requests", "brute", "dropper"}
Draw == [items : Nat \ {0}, attempts : Nat, commands : Nat]

ASSUME AttackSimAssumption ==
    /\ \A name \in Names : /\ Registry[name].transport \in {"http", "ssh"}
                           /\ Registry[name].kind \in Kinds
                           /\ Registry[name].kind = "dropper" => Registry[name].transport = "ssh"
                           /\ Registry[name].draws \subseteq Draw
    /\ Mixes \subseteq [Names -> Nat]
    /\ Train \cap HeldOut = {}
    /\ Concurrency \in Nat \ {0}
    /\ Grants \subseteq Nat \ {0}
    /\ {MinAttempts, MinDistinct} \subseteq Nat
    /\ MaxFaults \in Nat

(* "shaped to actually trip the YAML rules" (generators.py:20-23). *)
ASSUME ThresholdAssumption ==
    \A name \in Names : \A d \in Registry[name].draws :
        Registry[name].kind = "brute" =>
            d.items >= MinDistinct /\ (d.attempts >= MinAttempts \/ d.items >= MinAttempts)

VARIABLES
    phase,     \* where `run` is
    exit,      \* its exit status; -1 before there is one
    todo,      \* campaigns of each class that have no source yet
    train,     \* _train
    heldout,   \* _heldout
    plan,      \* class and source of each campaign
    campaign,  \* what each has done
    slots,     \* the semaphore
    records,   \* the manifest in memory
    jsonl,     \* the manifest on disk
    summary,   \* how many campaigns the summary speaks of; -1 before there is one
    faults     \* faults caused so far

pool == <<train, heldout>>
files == <<jsonl, summary>>
vars == <<phase, exit, todo, pool, plan, campaign, slots, records, files, faults>>

Sources == Train \cup HeldOut
Campaigns == DOMAIN plan

Campaign ==
    [pc : {"waiting", "sending", "shell", "done"}, draw : Draw,
     fresh : SUBSET Nat,   \* items not sent yet
     again : Nat,          \* repetitions to come
     hits : SUBSET Nat,    \* items a decoy has seen
     landed : Nat,         \* what has reached a decoy
     grant : Nat,          \* which distinct guess Cowrie accepts
     left : Nat,           \* commands to come
     sent : Nat, failed : Nat,
     broken : Nat]         \* of those sent, what was on a connection that broke

Record == [source : Sources, held_out : BOOLEAN, label : {Registry[name].label : name \in Names},
           sent : Nat, failed : Nat]

Running == {n \in Campaigns : campaign[n].pc \in {"sending", "shell"}}

TypeOK ==
    /\ phase \in {"args", "plan", "probe", "run", "write", "end"}
    /\ exit \in {-1, 0, 1, 2, 130}
    /\ todo \in [Names -> Nat]
    /\ train \subseteq Train /\ heldout \subseteq HeldOut
    /\ plan \in Seq([name : Names, source : Sources])
    /\ campaign \in Seq(Campaign) /\ Len(campaign) = Len(plan)
    /\ slots \in 0 .. Concurrency /\ Cardinality(Running) <= Concurrency
    /\ records \in Seq(Record)
    /\ jsonl \in Seq(Record)
    /\ summary \in -1 .. Len(records)
    /\ faults \in 0 .. MaxFaults

Init ==
    /\ phase = "args" /\ exit = -1
    /\ todo = [name \in Names |-> 0]
    /\ train = Train /\ heldout = HeldOut
    /\ plan = <<>> /\ campaign = <<>>
    /\ slots = Concurrency
    /\ records = <<>> /\ jsonl = <<>> /\ summary = -1
    /\ faults = 0

Fault ==
    /\ faults < MaxFaults
    /\ faults' = faults + 1

End(code) ==
    /\ phase' = "end"
    /\ exit' = code

-----------------------------------------------------------------------------
(* --preset, --scale and --only; an empty --only wants every class. *)
ReadArguments ==
    /\ phase = "args"
    /\ \E mix \in Mixes : \E wanted \in Onlys :
          IF wanted \ Names # {}
          THEN /\ End(2)
               /\ UNCHANGED todo
          ELSE /\ phase' = "plan"
               /\ todo' = [name \in Names |->
                              IF wanted = {} \/ name \in wanted THEN mix[name] ELSE 0]
               /\ UNCHANGED exit
    /\ UNCHANGED <<pool, plan, campaign, slots, records, files, faults>>

Idle == [pc |-> "waiting", draw |-> [items |-> 1, attempts |-> 0, commands |-> 0],
         fresh |-> {}, again |-> 0, hits |-> {}, landed |-> 0, grant |-> 0,
         left |-> 0, sent |-> 0, failed |-> 0, broken |-> 0]

(* Mutant of Pop: choice in place of pop. *)
PopNothing(hosts, s) == hosts

Pop(hosts, s) == hosts \ {s}

Planned == \A name \in Names : todo[name] = 0

(* SourcePool.take for the next campaign: from the held-out range with a     *)
(* probability that is neither 0 nor 1, and from the other one when the      *)
(* range wanted is empty.  As the plan is shuffled afterwards, the order of  *)
(* the classes is of no consequence.                                         *)
Take ==
    /\ phase = "plan" /\ ~Planned
    /\ \E s \in train \cup heldout :
          /\ train' = IF s \in train THEN Pop(train, s) ELSE train
          /\ heldout' = IF s \in heldout THEN Pop(heldout, s) ELSE heldout
          /\ LET next == CHOOSE name \in Names : todo[name] > 0
             IN  /\ plan' = Append(plan, [name |-> next, source |-> s])
                 /\ todo' = [todo EXCEPT ![next] = @ - 1]
    /\ campaign' = Append(campaign, Idle)
    /\ UNCHANGED <<phase, exit, slots, records, files, faults>>

(* "source pool exhausted": nobody catches it. *)
Exhausted ==
    /\ phase = "plan" /\ ~Planned
    /\ train \cup heldout = {}
    /\ End(1)
    /\ UNCHANGED <<todo, pool, plan, campaign, slots, records, files, faults>>

PlanReady ==
    /\ phase = "plan" /\ Planned
    /\ phase' = "probe"
    /\ UNCHANGED <<exit, todo, pool, plan, campaign, slots, records, files, faults>>

(* Both probes, of the transports the plan has. *)
Probe ==
    /\ phase = "probe"
    /\ phase' = "run"
    /\ UNCHANGED <<exit, todo, pool, plan, campaign, slots, records, files, faults>>

ProbeFails ==
    /\ Fault
    /\ phase = "probe"
    /\ {Registry[plan[n].name].transport : n \in Campaigns} # {}
    /\ End(1)
    /\ UNCHANGED <<todo, pool, plan, campaign, slots, records, files>>

-----------------------------------------------------------------------------
Kind(n) == Registry[plan[n].name].kind

(* attempts = max(..., len(passwords)) *)
Length(d) == IF d.attempts < d.items THEN d.items ELSE d.attempts

(* Mutant of Scheduled: every attempt a random choice. *)
ScheduledAtRandom(d) == [fresh |-> {}, again |-> Length(d)]

(* Each item once, and repetitions for the rest of the attempts. *)
Scheduled(d) == [fresh |-> 1 .. d.items, again |-> Length(d) - d.items]

(* Mutant of Free: one campaign too many. *)
FreeOneMore == slots >= 0

Free == slots > 0

(* `async with sem`, and the draws a generator begins with. *)
Begin(n) ==
    /\ phase = "run" /\ campaign[n].pc = "waiting"
    /\ Free
    /\ slots' = slots - 1
    /\ \E d \in Registry[plan[n].name].draws : \E grant \in Grants :
          campaign' = [campaign EXCEPT ![n] =
              [campaign[n] EXCEPT !.pc = "sending", !.draw = d,
                        !.fresh = Scheduled(d).fresh, !.again = Scheduled(d).again,
                        !.grant = IF Kind(n) = "dropper" THEN grant ELSE 0,
                        !.left = d.commands]]
    /\ UNCHANGED <<phase, exit, todo, pool, plan, records, files, faults>>

(* A shuffled schedule gives one of its items; what then is left of it. *)
Remaining(c, item) ==
    (IF item \in c.fresh THEN {[c EXCEPT !.fresh = @ \ {item}]} ELSE {}) \cup
    (IF c.again > 0 THEN {[c EXCEPT !.again = @ - 1]} ELSE {})

(* It reaches the decoy. *)
Landed(c, item) == [c EXCEPT !.landed = @ + 1, !.hits = @ \cup {item}]

(* The distinct pair whose turn it is; of the pairs after it nothing is said. *)
Granted(n, c) ==
    IF Kind(n) = "dropper" /\ Cardinality(c.hits) = c.grant THEN {TRUE}
    ELSE IF Kind(n) = "dropper" /\ c.grant < Cardinality(c.hits) THEN BOOLEAN
    ELSE {FALSE}

(* A request, a login or a guess, and its answer. *)
Attempt(n) ==
    /\ phase = "run" /\ campaign[n].pc = "sending"
    /\ \E item \in 1 .. campaign[n].draw.items : \E c \in Remaining(campaign[n], item) :
          \E granted \in Granted(n, Landed(c, item)) :
              campaign' = [campaign EXCEPT ![n] =
                  [Landed(c, item) EXCEPT !.sent = @ + 1,
                                          !.pc = IF granted THEN "shell" ELSE "sending"]]
    /\ UNCHANGED <<phase, exit, todo, pool, plan, slots, records, files, faults>>

(* Mutant of AttemptFails: an error ends the walk. *)
AttemptFailsLast(n) ==
    /\ Fault
    /\ phase = "run" /\ campaign[n].pc = "sending"
    /\ campaign' = [campaign EXCEPT ![n] = [campaign[n] EXCEPT !.failed = @ + 1, !.fresh = {}, !.again = 0]]
    /\ UNCHANGED <<phase, exit, todo, pool, plan, slots, records, files>>

(* One that fails is counted and not repeated; what has failed may have      *)
(* reached the decoy all the same, when only its answer was lost.            *)
AttemptFails(n) ==
    /\ Fault
    /\ phase = "run" /\ campaign[n].pc = "sending"
    /\ \E item \in 1 .. campaign[n].draw.items : \E c \in Remaining(campaign[n], item) :
          \E after \in {c, Landed(c, item)} :
              campaign' = [campaign EXCEPT ![n] = [after EXCEPT !.failed = @ + 1]]
    /\ UNCHANGED <<phase, exit, todo, pool, plan, slots, records, files>>

(* The connection ends, or is silent too long, while the guess is under way: *)
(* paramiko raises AuthenticationException as it does for a guess refused,   *)
(* and the login counts as sent.  Whether it has reached Cowrie, and what    *)
(* Cowrie would have answered, nobody learns.                                *)
GuessBreaks(n) ==
    /\ Fault
    /\ phase = "run" /\ campaign[n].pc = "sending"
    /\ Registry[plan[n].name].transport = "ssh"
    /\ \E item \in 1 .. campaign[n].draw.items : \E c \in Remaining(campaign[n], item) :
          \E after \in {c, Landed(c, item)} :
              campaign' = [campaign EXCEPT ![n] =
                  [after EXCEPT !.sent = @ + 1, !.broken = @ + 1]]
    /\ UNCHANGED <<phase, exit, todo, pool, plan, slots, records, files>>

(* Mutant of Command: it counts as sent when its reply has come. *)
CommandOnReply(n) ==
    /\ phase = "run" /\ campaign[n].pc = "shell" /\ campaign[n].left > 0
    /\ \E answered \in BOOLEAN :
          campaign' = [campaign EXCEPT ![n] =
              [campaign[n] EXCEPT !.left = @ - 1, !.landed = @ + 1,
                        !.sent = IF answered THEN @ + 1 ELSE @]]
    /\ UNCHANGED <<phase, exit, todo, pool, plan, slots, records, files, faults>>

(* _run_commands: a command counts once its channel is open, whether or not  *)
(* there is a reply.                                                         *)
Command(n) ==
    /\ phase = "run" /\ campaign[n].pc = "shell" /\ campaign[n].left > 0
    /\ campaign' = [campaign EXCEPT ![n] =
          [campaign[n] EXCEPT !.left = @ - 1, !.landed = @ + 1, !.sent = @ + 1]]
    /\ UNCHANGED <<phase, exit, todo, pool, plan, slots, records, files, faults>>

(* No channel, or one that breaks before the command has gone out. *)
CommandFails(n) ==
    /\ Fault
    /\ phase = "run" /\ campaign[n].pc = "shell" /\ campaign[n].left > 0
    /\ \E opened \in BOOLEAN :
          campaign' = [campaign EXCEPT ![n] =
              [campaign[n] EXCEPT !.left = @ - 1,
                        !.sent = IF opened THEN @ + 1 ELSE @,
                        !.broken = IF opened THEN @ + 1 ELSE @,
                        !.failed = IF opened THEN @ ELSE @ + 1]]
    /\ UNCHANGED <<phase, exit, todo, pool, plan, slots, records, files>>

-----------------------------------------------------------------------------
RecordOf(n) ==
    [source |-> plan[n].source, held_out |-> plan[n].source \in HeldOut,
     label |-> Registry[plan[n].name].label,
     sent |-> campaign[n].sent, failed |-> campaign[n].failed]

Over(c) ==
    \/ c.pc = "sending" /\ c.fresh = {} /\ c.again = 0
    \/ c.pc = "shell" /\ c.left = 0

(* The generator returns: a record, and the next campaign may enter. *)
Finish(n) ==
    /\ phase = "run" /\ Over(campaign[n])
    /\ campaign' = [campaign EXCEPT ![n].pc = "done"]
    /\ records' = Append(records, RecordOf(n))
    /\ slots' = slots + 1
    /\ UNCHANGED <<phase, exit, todo, pool, plan, files, faults>>

(* Mutant of Raises: gather(return_exceptions=True). *)
RaisesQuietly(n) ==
    /\ Fault
    /\ phase = "run" /\ n \in Running
    /\ campaign' = [campaign EXCEPT ![n].pc = "done"]
    /\ slots' = slots + 1
    /\ UNCHANGED <<phase, exit, todo, pool, plan, records, files>>

(* An exception none of the handlers in a campaign names: gather raises it   *)
(* and the run ends with a traceback, the other campaigns where they are.    *)
(* SSH calls under way in threads come to their end, and nothing counts them.*)
Raises(n) ==
    /\ Fault
    /\ phase = "run" /\ n \in Running
    /\ End(1)
    /\ UNCHANGED <<todo, pool, plan, campaign, slots, records, files>>

Gathered ==
    /\ phase = "run"
    /\ \A n \in Campaigns : campaign[n].pc = "done"
    /\ phase' = "write"
    /\ UNCHANGED <<exit, todo, pool, plan, campaign, slots, records, files, faults>>

(* Manifest.write. *)
WriteRows ==
    /\ phase = "write" /\ Len(jsonl) < Len(records)
    /\ jsonl' = records
    /\ UNCHANGED <<phase, exit, todo, pool, plan, campaign, slots, records, summary, faults>>

WriteSummary ==
    /\ phase = "write" /\ Len(jsonl) = Len(records)
    /\ summary' = Len(records)
    /\ End(0)
    /\ UNCHANGED <<todo, pool, plan, campaign, slots, records, jsonl, faults>>

(* No directory, no space: part of the rows may have been written. *)
WriteFails ==
    /\ Fault
    /\ phase = "write"
    /\ \E k \in Len(jsonl) .. Len(records) : jsonl' = SubSeq(records, 1, k)
    /\ End(1)
    /\ UNCHANGED <<todo, pool, plan, campaign, slots, records, summary>>

(* KeyboardInterrupt, once asyncio runs. *)
Interrupt ==
    /\ Fault
    /\ phase \in {"plan", "probe", "run", "write"}
    /\ End(130)
    /\ UNCHANGED <<todo, pool, plan, campaign, slots, records, files>>

-----------------------------------------------------------------------------
Next ==
    \/ ReadArguments \/ Take \/ Exhausted \/ PlanReady \/ Probe
    \/ \E n \in Campaigns : Begin(n) \/ Attempt(n) \/ Command(n) \/ Finish(n)
    \/ Gathered \/ WriteRows \/ WriteSummary
    \/ ProbeFails \/ WriteFails \/ Interrupt
    \/ \E n \in Campaigns : AttemptFails(n) \/ GuessBreaks(n) \/ CommandFails(n) \/ Raises(n)

Spec == Init /\ [][Next]_vars

-----------------------------------------------------------------------------
(* No two campaigns of a run have one source, and none is left in a pool to  *)
(* be handed out again (sources.py:16-20, 50-61).                            *)
OneCampaignPerSource ==
    /\ \A m, n \in Campaigns : m # n => plan[m].source # plan[n].source
    /\ \A n \in Campaigns : plan[n].source \notin train \cup heldout

(* A run that says it is done has written, for every source it used, one     *)
(* row and no other: with the label of the campaign's class, held out if and *)
(* only if the address is, and counts that account for all that has reached  *)
(* the decoys (manifest.py:1-11, runner.py:98-110, 174-201).                 *)
ManifestTellsAll ==
    exit = 0 =>
        /\ Len(jsonl) = Len(plan) /\ summary = Len(plan)
        /\ \A n \in Campaigns : \E m \in DOMAIN jsonl :
              /\ jsonl[m].source = plan[n].source
              /\ jsonl[m].label = Registry[plan[n].name].label
              /\ jsonl[m].held_out <=> plan[n].source \in HeldOut
              /\ campaign[n].landed <= jsonl[m].sent + jsonl[m].failed

(* Nothing reaches a decoy that its campaign has not counted, and what is    *)
(* counted as sent but never arrived was on an SSH connection that broke:    *)
(* over HTTP there is nothing of the kind (client.py:57-62,                  *)
(* ssh_client.py:103-173).                                                   *)
CountsBracketTraffic ==
    \A n \in Campaigns :
        LET c == campaign[n]
        IN  /\ c.landed <= c.sent + c.failed
            /\ c.sent <= c.landed + c.broken
            /\ Registry[plan[n].name].transport = "http" => c.sent <= c.landed

(* What a campaign has sent and cannot be sure of.                           *)
Unsure(c) == c.failed + c.broken

(* Whatever was drawn, a brute force falls short of the rule it is to trip   *)
(* by no more attempts and no more passwords than have failed or were on a   *)
(* connection that broke (generators.py:52-58, 110-119).                     *)
BruteTripsRule ==
    \A n \in Campaigns :
        LET c == campaign[n]
        IN  (Kind(n) = "brute" /\ c.pc = "done") =>
                /\ c.landed + Unsure(c) >= MinAttempts
                /\ Cardinality(c.hits) + Unsure(c) >= MinDistinct

(* A dropper ends without a shell only if it lost the answer that let it in, *)
(* or more guesses than it has to spare; either way something failed or      *)
(* broke (generators.py:122-131, ssh_client.py:124-148).                     *)
DropperGetsIn ==
    \A n \in Campaigns :
        LET c == campaign[n]
        IN  (Kind(n) = "dropper" /\ c.pc = "done" /\ c.left > 0) =>
                \/ c.grant <= Cardinality(c.hits) /\ Unsure(c) > 0
                \/ Unsure(c) > c.draw.items - c.grant
=============================================================================
