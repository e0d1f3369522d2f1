---------------------------- MODULE TriageProofs ----------------------------
(***************************************************************************)
(* Theorems about Triage, for every value of its constants: the state is   *)
(* well typed, a label says what the status says and is the class of a top *)
(* rule, and a tab that lets each load end shows what its filter asks for  *)
(* and no alert as it was before a verdict of its own.                     *)
(***************************************************************************)
EXTENDS Triage, TLAPS, FiniteSetTheorems, SequenceTheorems, WellFoundedInduction

(* Verdicts whose first transaction has run. *)
Written == {n \in DOMAIN acts : acts[n].written # 0}

(* A log grows by one with each of them. *)
Logged ==
    /\ Len(acts) <= MaxActs
    /\ \A a \in Alerts : Len(log[a]) >= 1 /\ Len(log[a]) <= 1 + Cardinality(Written)

(* What a verdict has done by the place it is at. *)
Verdicts ==
    \A n \in DOMAIN acts :
        /\ acts[n].pc = "update" => acts[n].written = 0
        /\ acts[n].written = 0 => acts[n].pc \in {"update", "failed", "gone"}
        /\ acts[n].written <= Len(log[acts[n].alert])
        /\ acts[n].rules \subseteq rules[acts[n].alert]
        /\ acts[n].pc = "label" => acts[n].verdict # "triaged"

(* The rows of an answer were in the table; a verdict waits for one load.    *)
Answers ==
    \A l \in loads :
        /\ \A a \in DOMAIN l.rows :
              l.rows[a] <= Len(log[a]) /\ Matches(log[a][l.rows[a]], l.filter)
        /\ l.act # 0 =>
              /\ l.act \in DOMAIN acts
              /\ acts[l.act].pc = "load" /\ acts[l.act].tab = l.tab
              /\ \A k \in loads : k.act = l.act => k = l

Base == TypeOK /\ Logged /\ Verdicts /\ Answers

-----------------------------------------------------------------------------
LEMMA Bounds ==
    /\ MaxActs \in Nat /\ MaxChanges \in Nat /\ MaxFaults \in Nat
    /\ "new" \in Filters
  BY TriageAssumption, FilterAssumption DEF TriageAssumption, FilterAssumption

LEMMA ActIs ==
    ASSUME TypeOK
    PROVE  /\ Len(acts) \in Nat /\ DOMAIN acts = 1 .. Len(acts)
           /\ \A n \in DOMAIN acts : acts[n] \in Act /\ n \in Nat /\ n # 0
  <1>1. acts \in Seq(Act)
    BY DEF TypeOK
  <1>2. Len(acts) \in Nat /\ DOMAIN acts = 1 .. Len(acts)
    BY <1>1, LenProperties
  <1>3. \A n \in 1 .. Len(acts) : acts[n] \in Act
    BY <1>1, ElementOfSeq
  <1> QED BY <1>2, <1>3

LEMMA LogIs ==
    ASSUME TypeOK, NEW a \in Alerts
    PROVE  /\ log[a] \in Seq(AlertStatusFilter) /\ Len(log[a]) \in Nat
           /\ log \in [Alerts -> Seq(AlertStatusFilter)]
  BY LenProperties DEF TypeOK

(* Of a verdict only the place changes. *)
Moves(n, pc) ==
    /\ acts' \in Seq(Act) /\ Len(acts') = Len(acts) /\ DOMAIN acts' = DOMAIN acts
    /\ \A m \in DOMAIN acts : /\ acts'[m].tab = acts[m].tab
                              /\ acts'[m].alert = acts[m].alert
                              /\ acts'[m].verdict = acts[m].verdict
                              /\ acts'[m].filter = acts[m].filter
                              /\ acts'[m].rules = acts[m].rules
                              /\ acts'[m].written = acts[m].written
                              /\ acts'[m].pc = IF m = n THEN pc ELSE acts[m].pc

LEMMA ActChanges ==
    ASSUME TypeOK, NEW n \in DOMAIN acts, NEW e \in Act,
           acts' = [acts EXCEPT ![n] = e]
    PROVE  /\ acts' \in Seq(Act) /\ Len(acts') = Len(acts) /\ DOMAIN acts' = DOMAIN acts
           /\ acts'[n] = e
           /\ \A m \in DOMAIN acts : m # n => acts'[m] = acts[m]
  <1>1. acts \in Seq(Act) /\ n \in 1 .. Len(acts)
    BY ActIs DEF TypeOK
  <1>2. acts' \in Seq(Act) /\ Len(acts') = Len(acts)
    BY <1>1, ExceptSeq
  <1> QED BY <1>1, <1>2

LEMMA PcChanges ==
    ASSUME TypeOK, NEW n \in DOMAIN acts,
           NEW pc \in {"update", "label", "reply", "load", "done", "failed", "gone"},
           acts' = [acts EXCEPT ![n].pc = pc]
    PROVE  Moves(n, pc)
  <1> DEFINE e == [acts[n] EXCEPT !.pc = pc]
  <1>1. acts[n] \in Act
    BY ActIs
  <1>2. /\ e \in Act /\ e.pc = pc
        /\ e.tab = acts[n].tab /\ e.alert = acts[n].alert
        /\ e.verdict = acts[n].verdict /\ e.filter = acts[n].filter
        /\ e.rules = acts[n].rules /\ e.written = acts[n].written
    BY <1>1 DEF Act
  <1>3. acts' = [acts EXCEPT ![n] = e]
    OBVIOUS
  <1> HIDE DEF e
  <1>4. /\ acts' \in Seq(Act) /\ Len(acts') = Len(acts) /\ DOMAIN acts' = DOMAIN acts
        /\ acts'[n] = e
        /\ \A m \in DOMAIN acts : m # n => acts'[m] = acts[m]
    BY <1>2, <1>3, ActChanges
  <1> QED BY <1>2, <1>4 DEF Moves

LEMMA ClickDoes ==
    ASSUME TypeOK, Logged, NEW t \in Tabs, Click(t)
    PROVE  /\ acts' \in Seq(Act) /\ Len(acts') = Len(acts) + 1 /\ Len(acts') <= MaxActs
           /\ DOMAIN acts' = DOMAIN acts \cup {Len(acts) + 1} /\ Len(acts) + 1 \notin DOMAIN acts
           /\ \A n \in DOMAIN acts : acts'[n] = acts[n]
           /\ LET e == acts'[Len(acts) + 1]
              IN  /\ e.tab = t /\ e.filter = filter[t] /\ e.pc = "update" /\ e.written = 0
                  /\ e.rules = {} /\ e.alert \in Alerts
           /\ busy' \in [Tabs -> Alerts \cup {None}]
  <1>1. PICK a \in DOMAIN shown[t], verdict \in AlertStatus :
           /\ acts' = Append(acts, [tab |-> t, alert |-> a, verdict |-> verdict,
                                    filter |-> filter[t], pc |-> "update",
                                    rules |-> {}, written |-> 0])
           /\ busy' = [busy EXCEPT ![t] = a]
    BY DEF Click
  <1> DEFINE e == [tab |-> t, alert |-> a, verdict |-> verdict, filter |-> filter[t],
                   pc |-> "update", rules |-> {}, written |-> 0]
  <1>2. a \in Alerts
    <2>1. shown[t] \in Rows
      BY DEF TypeOK
    <2> QED BY <2>1 DEF Rows
  <1>3. e \in Act
    BY <1>2, Bounds DEF TypeOK, Act
  <1>4. /\ e.tab = t /\ e.filter = filter[t] /\ e.pc = "update" /\ e.written = 0
        /\ e.rules = {} /\ e.alert \in Alerts
    BY <1>2
  <1>5. acts' = Append(acts, e)
    BY <1>1
  <1> HIDE DEF e
  <1>6. acts \in Seq(Act) /\ Len(acts) \in Nat /\ DOMAIN acts = 1 .. Len(acts)
    BY ActIs DEF TypeOK
  <1>7. /\ acts' \in Seq(Act) /\ Len(acts') = Len(acts) + 1
        /\ acts'[Len(acts) + 1] = e
        /\ \A n \in 1 .. Len(acts) : acts'[n] = acts[n]
    BY <1>3, <1>5, <1>6, AppendProperties
  <1>8. DOMAIN acts' = 1 .. Len(acts) + 1
    BY <1>7, LenProperties
  <1>9. Len(acts) + 1 <= MaxActs
    BY <1>6, Bounds DEF Click
  <1>10. busy' \in [Tabs -> Alerts \cup {None}]
    BY <1>1, <1>2 DEF TypeOK
  <1> QED BY <1>4, <1>6, <1>7, <1>8, <1>9, <1>10

LEMMA UpdateDoes ==
    ASSUME TypeOK, Logged, NEW n \in DOMAIN acts, UpdateStatus(n),
           Len(log[acts[n].alert]) <= MaxActs
    PROVE  /\ acts' \in Seq(Act) /\ Len(acts') = Len(acts) /\ DOMAIN acts' = DOMAIN acts
           /\ \A m \in DOMAIN acts : m # n => acts'[m] = acts[m]
           /\ acts'[n].tab = acts[n].tab /\ acts'[n].alert = acts[n].alert
           /\ acts'[n].verdict = acts[n].verdict /\ acts'[n].filter = acts[n].filter
           /\ acts'[n].rules = rules[acts[n].alert]
           /\ acts'[n].written = Len(log[acts[n].alert]) + 1
           /\ acts'[n].pc = IF acts[n].verdict = "triaged" THEN "reply" ELSE "label"
           /\ acts[n].alert \in Alerts /\ acts[n].verdict \in AlertStatus
           /\ log' \in [Alerts -> Seq(AlertStatusFilter)]
           /\ log'[acts[n].alert] = Append(log[acts[n].alert], acts[n].verdict)
           /\ Len(log'[acts[n].alert]) = Len(log[acts[n].alert]) + 1
           /\ log'[acts[n].alert][Len(log[acts[n].alert]) + 1] = acts[n].verdict
           /\ \A b \in Alerts : b # acts[n].alert => log'[b] = log[b]
           /\ \A b \in Alerts : \A k \in 1 .. Len(log[b]) : log'[b][k] = log[b][k]
  <1> DEFINE a == acts[n].alert
             v == acts[n].verdict
             e == [acts[n] EXCEPT !.rules = rules[a], !.written = Len(log[a]) + 1,
                                  !.pc = IF v = "triaged" THEN "reply" ELSE "label"]
  <1>1. acts[n] \in Act
    BY ActIs
  <1>2. a \in Alerts /\ v \in AlertStatus
    BY <1>1 DEF Act
  <1>3. Len(log[a]) + 1 \in 0 .. MaxActs + 1 /\ rules[a] \in SUBSET RuleIds
    BY <1>2, LogIs, Bounds DEF TypeOK
  <1>4. /\ e \in Act
        /\ e.tab = acts[n].tab /\ e.alert = a /\ e.verdict = v /\ e.filter = acts[n].filter
        /\ e.rules = rules[a] /\ e.written = Len(log[a]) + 1
        /\ e.pc = IF v = "triaged" THEN "reply" ELSE "label"
    BY <1>1, <1>3 DEF Act
  <1>5. acts' = [acts EXCEPT ![n] = e]
    BY DEF UpdateStatus
  <1>6. log' = [log EXCEPT ![a] = Append(log[a], v)]
    BY DEF UpdateStatus
  <1> HIDE DEF a, v, e
  <1>7. /\ acts' \in Seq(Act) /\ Len(acts') = Len(acts) /\ DOMAIN acts' = DOMAIN acts
        /\ acts'[n] = e
        /\ \A m \in DOMAIN acts : m # n => acts'[m] = acts[m]
    BY <1>4, <1>5, ActChanges
  <1>8. v \in AlertStatusFilter
    BY <1>2 DEF AlertStatusFilter
  <1> DEFINE s == Append(log[a], v)
  <1>9. /\ s \in Seq(AlertStatusFilter) /\ Len(s) = Len(log[a]) + 1
        /\ s[Len(log[a]) + 1] = v
        /\ \A k \in 1 .. Len(log[a]) : s[k] = log[a][k]
    BY <1>2, <1>8, LogIs, AppendProperties
  <1>10. log' = [log EXCEPT ![a] = s] /\ s = Append(log[a], v)
    BY <1>6
  <1> HIDE DEF s
  <1>11. /\ log' \in [Alerts -> Seq(AlertStatusFilter)] /\ log'[a] = s
         /\ \A b \in Alerts : b # a => log'[b] = log[b]
    BY <1>2, <1>9, <1>10, LogIs
  <1>12. log'[a][Len(log[a]) + 1] = v
    BY <1>9, <1>11
  <1>13. \A b \in Alerts : \A k \in 1 .. Len(log[b]) : log'[b][k] = log[b][k]
    BY <1>9, <1>11
  <1> QED BY <1>2, <1>4, <1>7, <1>9, <1>10, <1>11, <1>12, <1>13 DEF a, v

-----------------------------------------------------------------------------
(* A verdict goes on and the table stays. *)
LEMMA MovesBase ==
    ASSUME Base, NEW n \in DOMAIN acts,
           NEW pc \in {"reply", "load", "done", "failed", "gone"}, Moves(n, pc),
           acts[n].written # 0 \/ pc \in {"failed", "gone"},
           UNCHANGED <<log, rules>>
    PROVE  Logged' /\ Verdicts'
  <1>1. Written' = Written
    BY DEF Moves, Written
  <1>2. Logged'
    BY <1>1 DEF Base, Logged, Moves
  <1>3. Verdicts'
    BY DEF Base, Verdicts, Moves
  <1> QED BY <1>2, <1>3

LEMMA SameActs ==
    ASSUME Base, UNCHANGED <<log, acts>>,
           \A a \in Alerts : rules[a] \subseteq rules'[a]
    PROVE  Logged' /\ Verdicts'
  <1>1. \A n \in DOMAIN acts : acts[n].alert \in Alerts
    BY ActIs DEF Base, Act
  <1> QED BY <1>1 DEF Base, Logged, Verdicts, Written

(* Fewer loads wait for what they waited for. *)
LEMMA FewerAnswers ==
    ASSUME Base, NEW n, NEW pc, UNCHANGED acts \/ Moves(n, pc), log' = log,
           loads' \subseteq loads,
           \A l \in loads' : acts' = acts \/ l.act # n
    PROVE  Answers'
  <1>1. \A l \in loads' : l.act # 0 =>
            /\ l.act \in DOMAIN acts' /\ acts'[l.act].pc = acts[l.act].pc
            /\ acts'[l.act].tab = acts[l.act].tab
    BY DEF Base, Answers, Moves
  <1> QED BY <1>1 DEF Base, Answers

LEMMA RequestIs ==
    ASSUME NEW t \in Tabs, NEW f \in Filters, NEW n \in 0 .. MaxActs,
           NEW c \in 0 .. MaxChanges
    PROVE  /\ Request(t, f, n, c) \in Load
           /\ Request(t, f, n, c).tab = t /\ Request(t, f, n, c).filter = f
           /\ Request(t, f, n, c).act = n /\ Request(t, f, n, c).served = FALSE
           /\ DOMAIN Request(t, f, n, c).rows = {}
  <1>1. <<>> \in [{} -> 1 .. MaxActs + 1] /\ DOMAIN <<>> = {}
    OBVIOUS
  <1>2. <<>> \in Rows
    BY <1>1 DEF Rows
  <1> QED BY <1>1, <1>2 DEF Request, Load

LEMMA AddRuleBase == ASSUME Base, AddRule PROVE Base'
  <1>1. PICK a \in Alerts :
           \E r \in RuleIds \ rules[a] : rules' = [rules EXCEPT ![a] = rules[a] \cup {r}]
    BY DEF AddRule
  <1>2. rules' \in [Alerts -> SUBSET RuleIds] /\ \A b \in Alerts : rules[b] \subseteq rules'[b]
    BY <1>1 DEF Base, TypeOK
  <1>3. /\ UNCHANGED <<log, labels, acts, loads, filter, shown, busy, changes, clean>>
        /\ UNCHANGED <<contested, faults>>
    BY DEF AddRule, tabs
  <1>4. TypeOK'
    BY <1>2, <1>3 DEF Base, TypeOK, Rows, Load, Labels
  <1>5. Answers'
    BY <1>3 DEF Base, Answers
  <1> QED BY <1>2, <1>3, <1>4, <1>5, SameActs DEF Base

LEMMA ClickBase == ASSUME Base, NEW t \in Tabs, Click(t) PROVE Base'
  <1> DEFINE k == Len(acts) + 1
  <1>1. /\ acts' \in Seq(Act) /\ Len(acts') <= MaxActs
        /\ DOMAIN acts' = DOMAIN acts \cup {k} /\ k \notin DOMAIN acts
        /\ \A n \in DOMAIN acts : acts'[n] = acts[n]
        /\ acts'[k].pc = "update" /\ acts'[k].written = 0
        /\ acts'[k].rules = {} /\ acts'[k].alert \in Alerts
        /\ busy' \in [Tabs -> Alerts \cup {None}]
    BY ClickDoes DEF Base
  <1>2. UNCHANGED <<log, rules, labels, loads, filter, shown, changes, clean, contested, faults>>
    BY DEF Click, table
  <1> HIDE DEF k
  <1>3. TypeOK'
    BY <1>1, <1>2 DEF Base, TypeOK
  <1>4. Logged'
    <2>1. Written' = Written
      BY <1>1 DEF Written
    <2> QED BY <1>1, <1>2, <2>1 DEF Base, Logged
  <1>5. Verdicts'
    <2>1. Len(log[acts'[k].alert]) \in Nat
      BY <1>1, LogIs DEF Base
    <2>2. \A n \in DOMAIN acts : acts'[n] = acts[n] /\ n \in DOMAIN acts'
      BY <1>1
    <2> QED BY <1>1, <1>2, <2>1, <2>2 DEF Base, Verdicts
  <1>6. Answers'
    BY <1>1, <1>2 DEF Base, Answers
  <1> QED BY <1>3, <1>4, <1>5, <1>6 DEF Base

LEMMA SetFilterBase == ASSUME Base, NEW t \in Tabs, SetFilter(t) PROVE Base'
  <1>1. PICK f \in Filters \ {filter[t]} :
           /\ filter' = [filter EXCEPT ![t] = f]
           /\ loads' = loads \cup {Request(t, f, 0, changes + 1)}
    BY DEF SetFilter
  <1> DEFINE new == Request(t, f, 0, changes + 1)
  <1>2. changes + 1 \in 0 .. MaxChanges /\ 0 \in 0 .. MaxActs
    BY Bounds DEF Base, TypeOK, SetFilter
  <1>3. new \in Load /\ new.act = 0 /\ DOMAIN new.rows = {}
    <2>1. f \in Filters
      OBVIOUS
    <2>2. /\ Request(t, f, 0, changes + 1) \in Load
          /\ DOMAIN Request(t, f, 0, changes + 1).rows = {}
      BY <1>2, <2>1, RequestIs
    <2>3. Request(t, f, 0, changes + 1).act = 0
      BY DEF Request
    <2> QED BY <2>2, <2>3
  <1>4. /\ UNCHANGED <<log, rules, labels, acts, shown, busy, contested, faults>>
        /\ changes' = changes + 1
        /\ clean' \in [Tabs -> BOOLEAN] /\ filter' \in [Tabs -> Filters]
    <2>1. clean' = [clean EXCEPT ![t] = clean[t] /\ ~Loading(t) /\ ~Acting(t)]
      BY DEF SetFilter
    <2>2. clean \in [Tabs -> BOOLEAN] /\ filter \in [Tabs -> Filters]
      BY DEF Base, TypeOK
    <2>3. (clean[t] /\ ~Loading(t) /\ ~Acting(t)) \in BOOLEAN
      OBVIOUS
    <2>4. clean' \in [Tabs -> BOOLEAN]
      BY <2>1, <2>2, <2>3, Zenon
    <2> QED BY <1>1, <2>2, <2>4 DEF SetFilter, table
  <1>5. loads' = loads \cup {new}
    BY <1>1
  <1> HIDE DEF new
  <1>6. TypeOK'
    BY <1>2, <1>3, <1>4, <1>5 DEF Base, TypeOK
  <1>7. Answers'
    BY <1>3, <1>4, <1>5 DEF Base, Answers
  <1> QED BY <1>4, <1>6, <1>7, SameActs DEF Base

LEMMA UpdateFits ==
    ASSUME Base, NEW n \in DOMAIN acts, acts[n].pc = "update"
    PROVE  /\ Len(log[acts[n].alert]) <= MaxActs
           /\ n \notin Written /\ IsFiniteSet(Written)
  <1>1. Len(acts) \in Nat /\ DOMAIN acts = 1 .. Len(acts) /\ acts[n].alert \in Alerts
    BY ActIs DEF Base, Act
  <1>2. n \notin Written
    BY DEF Base, Verdicts, Written
  <1>3. IsFiniteSet(DOMAIN acts) /\ Cardinality(DOMAIN acts) = Len(acts)
    <2>1. \A k \in Nat : IsFiniteSet(1 .. k) /\ Cardinality(1 .. k) = IF 1 <= k THEN k - 1 + 1 ELSE 0
      BY FS_Interval
    <2>2. \A k \in Nat : Cardinality(1 .. k) = k
      BY <2>1
    <2> QED BY <1>1, <2>1, <2>2
  <1>4. /\ IsFiniteSet(DOMAIN acts \ {n})
        /\ Cardinality(DOMAIN acts \ {n}) = Len(acts) - 1
    BY <1>3, FS_RemoveElement
  <1>5. Written \subseteq DOMAIN acts \ {n}
    BY <1>2 DEF Written
  <1>6. IsFiniteSet(Written) /\ Cardinality(Written) <= Len(acts) - 1
    BY <1>4, <1>5, FS_Subset
  <1>7. Cardinality(Written) \in Nat /\ Len(log[acts[n].alert]) \in Nat
    BY <1>1, <1>6, FS_CardinalityType, LogIs DEF Base
  <1>8. Len(log[acts[n].alert]) <= MaxActs
    BY <1>1, <1>6, <1>7, Bounds DEF Base, Logged
  <1> QED BY <1>2, <1>6, <1>8

LEMMA UpdateBase == ASSUME Base, NEW n \in DOMAIN acts, UpdateStatus(n) PROVE Base'
  <1> DEFINE a == acts[n].alert
  <1>1. /\ Len(log[a]) <= MaxActs /\ n \notin Written /\ IsFiniteSet(Written)
        /\ acts[n].pc = "update"
    BY UpdateFits DEF UpdateStatus
  <1>2. /\ acts' \in Seq(Act) /\ Len(acts') = Len(acts) /\ DOMAIN acts' = DOMAIN acts
        /\ \A m \in DOMAIN acts : m # n => acts'[m] = acts[m]
        /\ acts'[n].alert = a
        /\ acts'[n].verdict = acts[n].verdict
        /\ acts'[n].rules = rules[a]
        /\ acts'[n].written = Len(log[a]) + 1
        /\ acts'[n].pc = IF acts[n].verdict = "triaged" THEN "reply" ELSE "label"
        /\ a \in Alerts
        /\ log' \in [Alerts -> Seq(AlertStatusFilter)]
        /\ Len(log'[a]) = Len(log[a]) + 1
        /\ \A b \in Alerts : b # a => log'[b] = log[b]
        /\ \A b \in Alerts : \A k \in 1 .. Len(log[b]) : log'[b][k] = log[b][k]
    BY <1>1, UpdateDoes DEF Base
  <1>3. /\ UNCHANGED <<rules, labels, loads, filter, shown, busy, changes, clean, faults>>
        /\ contested' = contested \cup Met(n)
    BY DEF UpdateStatus, tabs
  <1>4. \A b \in Alerts : Len(log[b]) \in Nat
    BY LogIs DEF Base
  <1>5. \A m \in DOMAIN acts : acts[m] \in Act
    BY ActIs DEF Base
  <1>6. \A m \in DOMAIN acts : acts[m].alert \in Alerts /\ acts[m].written \in Int
    BY <1>5, Bounds DEF Act
  <1> HIDE DEF a
  <1>7. \A b \in Alerts : Len(log[b]) <= Len(log'[b]) /\ Len(log'[b]) \in Nat
    BY <1>2, <1>4
  <1>8. TypeOK'
    <2>1. Met(n) \subseteq Alerts
      BY <1>6 DEF Met
    <2>2. ASSUME NEW t \in Tabs, NEW b \in DOMAIN shown[t] PROVE shown[t][b] <= Len(log'[b])
      <3>1. PICK S \in SUBSET Alerts : shown[t] \in [S -> 1 .. MaxActs + 1]
        BY DEF Base, TypeOK, Rows
      <3>2. b \in Alerts /\ shown[t][b] \in Nat /\ shown[t][b] <= Len(log[b])
        BY <2>2, <3>1, Bounds DEF Base, TypeOK
      <3> QED BY <1>4, <1>7, <3>2
    <2> QED BY <1>2, <1>3, <2>1, <2>2 DEF Base, TypeOK
  <1>9. Logged'
    <2>1. Written' = Written \cup {n}
      <3>1. Len(log[a]) + 1 # 0
        BY <1>2, <1>4
      <3> QED BY <1>2, <3>1 DEF Written
    <2>2. Cardinality(Written') = Cardinality(Written) + 1 /\ Cardinality(Written) \in Nat
      BY <1>1, <2>1, FS_AddElement, FS_CardinalityType
    <2>3. Len(acts') <= MaxActs
      BY <1>2 DEF Base, Logged
    <2>4. ASSUME NEW b \in Alerts
          PROVE  Len(log'[b]) >= 1 /\ Len(log'[b]) <= 1 + Cardinality(Written')
      <3>1. Len(log[b]) >= 1 /\ Len(log[b]) <= 1 + Cardinality(Written)
        BY DEF Base, Logged
      <3>2. Len(log[b]) \in Nat
        BY <1>4
      <3>3. Len(log'[b]) = Len(log[b]) \/ Len(log'[b]) = Len(log[b]) + 1
        BY <1>2
      <3> QED BY <2>2, <3>1, <3>2, <3>3
    <2> QED BY <2>3, <2>4 DEF Logged
  <1>10. Verdicts'
    <2>1. ASSUME NEW m \in DOMAIN acts, m # n
          PROVE  acts'[m].written <= Len(log'[acts[m].alert])
      BY <1>2, <1>4, <1>6, <1>7, <2>1 DEF Base, Verdicts
    <2>2. Len(log[a]) + 1 # 0 /\ Len(log[a]) + 1 <= Len(log'[a])
      BY <1>2, <1>4
    <2>3. ASSUME NEW m \in DOMAIN acts
          PROVE  /\ acts'[m].pc = "update" => acts'[m].written = 0
                 /\ acts'[m].written = 0 => acts'[m].pc \in {"update", "failed", "gone"}
                 /\ acts'[m].written <= Len(log'[acts'[m].alert])
                 /\ acts'[m].rules \subseteq rules[acts'[m].alert]
                 /\ acts'[m].pc = "label" => acts'[m].verdict # "triaged"
      <3>1. CASE m = n
        BY <1>2, <2>2, <3>1
      <3>2. CASE m # n
        BY <1>2, <2>1, <3>2 DEF Base, Verdicts
      <3> QED BY <3>1, <3>2
    <2> QED BY <1>2, <1>3, <2>3 DEF Verdicts
  <1>11. Answers'
    <2> SUFFICES ASSUME NEW l \in loads
                 PROVE  /\ \A b \in DOMAIN l.rows :
                              l.rows[b] <= Len(log'[b]) /\ Matches(log'[b][l.rows[b]], l.filter)
                        /\ l.act # 0 =>
                              /\ l.act \in DOMAIN acts'
                              /\ acts'[l.act].pc = "load" /\ acts'[l.act].tab = l.tab
                              /\ \A k \in loads : k.act = l.act => k = l
      BY <1>3 DEF Answers
    <2>1. l.act # 0 => l.act # n
      BY <1>1 DEF Base, Answers
    <2>2. ASSUME NEW b \in DOMAIN l.rows
          PROVE  l.rows[b] <= Len(log'[b]) /\ Matches(log'[b][l.rows[b]], l.filter)
      <3>1. l \in Load
        BY DEF Base, TypeOK
      <3>2. PICK S \in SUBSET Alerts : l.rows \in [S -> 1 .. MaxActs + 1]
        BY <3>1 DEF Load, Rows
      <3>3. b \in Alerts /\ l.rows[b] \in Nat /\ l.rows[b] >= 1
        BY <3>2, Bounds
      <3>4. l.rows[b] <= Len(log[b]) /\ Matches(log[b][l.rows[b]], l.filter)
        BY DEF Base, Answers
      <3>5. l.rows[b] \in 1 .. Len(log[b])
        BY <1>4, <3>3, <3>4
      <3>6. log'[b][l.rows[b]] = log[b][l.rows[b]]
        BY <1>2, <3>3, <3>5
      <3> QED BY <1>4, <1>7, <3>3, <3>4, <3>6
    <2> QED BY <1>2, <2>1, <2>2 DEF Base, Answers
  <1> QED BY <1>8, <1>9, <1>10, <1>11 DEF Base

LEMMA ClassIs == \A r \in RuleIds : ClassOf(r) \in Labels \ {"benign"}
  BY TriageAssumption DEF TriageAssumption, ClassOf, Labels, DefaultClass

LEMMA ClassesAre == \A ids : ClassesOf(ids) \subseteq Labels \ {"benign"}
  <1>1. DefaultClass \in Labels \ {"benign"}
    BY DEF Labels, DefaultClass
  <1> QED BY <1>1, ClassIs DEF ClassesOf, TopRules

LEMMA WriteLabelBase == ASSUME Base, NEW n \in DOMAIN acts, WriteLabel(n) PROVE Base'
  <1>1. Moves(n, "reply")
    BY PcChanges DEF Base, WriteLabel
  <1>2. /\ acts[n].pc = "label"
        /\ UNCHANGED <<log, rules, loads, filter, shown, busy, changes, clean, contested, faults>>
    BY DEF WriteLabel, tabs
  <1>3. acts[n].written # 0
    BY <1>2 DEF Base, Verdicts
  <1>4. Logged' /\ Verdicts'
    BY <1>1, <1>2, <1>3, MovesBase
  <1>5. labels' \in [Alerts -> Labels \cup {None}]
    <2>1. PICK label \in LabelFor(n) : labels' = [labels EXCEPT ![acts[n].alert] = label]
      BY DEF WriteLabel
    <2>2. label \in Labels
      BY ClassesAre DEF LabelFor, Labels
    <2> QED BY <2>1, <2>2 DEF Base, TypeOK
  <1>6. Answers'
    <2>1. \A l \in loads : l.act # n
      BY <1>2, ActIs DEF Base, Answers
    <2> QED BY <1>1, <1>2, <2>1, FewerAnswers
  <1>7. TypeOK'
    BY <1>1, <1>2, <1>5 DEF Base, TypeOK, Moves
  <1> QED BY <1>4, <1>6, <1>7 DEF Base

LEMMA RequestFailsBase == ASSUME Base, NEW n \in DOMAIN acts, RequestFails(n) PROVE Base'
  <1>1. Moves(n, "failed")
    BY PcChanges DEF Base, RequestFails
  <1>2. /\ acts[n].pc \in {"update", "label", "reply"}
        /\ UNCHANGED <<log, rules, labels, loads, filter, shown, busy, changes, clean>>
        /\ contested' = contested \cup {a \in {acts[n].alert} : acts[n].pc = "label"}
        /\ faults < MaxFaults /\ faults' = faults + 1
    BY DEF RequestFails, Fault, table, tabs
  <1>3. Logged' /\ Verdicts'
    BY <1>1, <1>2, MovesBase
  <1>4. contested' \subseteq Alerts
    <2>1. acts[n].alert \in Alerts
      BY ActIs DEF Base, Act
    <2> QED BY <1>2, <2>1 DEF Base, TypeOK
  <1>5. Answers'
    <2>1. \A l \in loads : l.act # n
      BY <1>2, ActIs DEF Base, Answers
    <2> QED BY <1>1, <1>2, <2>1, FewerAnswers
  <1>6. faults' \in 0 .. MaxFaults
    BY <1>2, Bounds DEF Base, TypeOK
  <1>7. TypeOK'
    BY <1>1, <1>2, <1>4, <1>6 DEF Base, TypeOK, Moves
  <1> QED BY <1>3, <1>5, <1>7 DEF Base

LEMMA GiveUpBase == ASSUME Base, NEW n \in DOMAIN acts, GiveUp(n) PROVE Base'
  <1>1. Moves(n, "gone")
    BY PcChanges DEF Base, GiveUp
  <1>2. /\ acts[n].pc = "failed"
        /\ UNCHANGED <<log, rules, labels, loads, filter, shown, changes, clean, contested, faults>>
        /\ busy' = [busy EXCEPT ![acts[n].tab] = None]
    BY DEF GiveUp, table
  <1>3. Logged' /\ Verdicts'
    BY <1>1, <1>2, MovesBase
  <1>4. Answers'
    <2>1. \A l \in loads : l.act # n
      BY <1>2, ActIs DEF Base, Answers
    <2> QED BY <1>1, <1>2, <2>1, FewerAnswers
  <1>5. TypeOK'
    BY <1>1, <1>2 DEF Base, TypeOK, Moves
  <1> QED BY <1>3, <1>4, <1>5 DEF Base

(* The load that Reload asks for. *)
LEMMA ReloadIs ==
    ASSUME Base, NEW n \in DOMAIN acts, Reload(n)
    PROVE  \E new \in Load :
              /\ loads' = loads \cup {new}
              /\ new.act = n /\ new.tab = acts[n].tab /\ new.filter = acts[n].filter
              /\ ~new.served /\ DOMAIN new.rows = {}
  <1> DEFINE new == Request(acts[n].tab, acts[n].filter, n, 0)
  <1>1. n \in 0 .. MaxActs
    BY ActIs, Bounds DEF Base, Logged
  <1>2. acts[n].tab \in Tabs /\ acts[n].filter \in Filters /\ 0 \in 0 .. MaxChanges
    BY ActIs, Bounds DEF Base, Act
  <1>3. new \in Load /\ DOMAIN new.rows = {}
    BY <1>1, <1>2, RequestIs
  <1>4. new.act = n /\ new.tab = acts[n].tab /\ new.filter = acts[n].filter /\ ~new.served
    BY DEF Request
  <1>5. loads' = loads \cup {new}
    BY DEF Reload
  <1> HIDE DEF new
  <1> QED BY <1>3, <1>4, <1>5

LEMMA ReloadBase == ASSUME Base, NEW n \in DOMAIN acts, Reload(n) PROVE Base'
  <1>1. Moves(n, "load")
    BY PcChanges DEF Base, Reload
  <1>2. /\ acts[n].pc = "reply"
        /\ UNCHANGED <<log, rules, labels, filter, shown, busy, changes, contested, faults>>
    BY DEF Reload, table
  <1>3. acts[n].written # 0
    BY <1>2 DEF Base, Verdicts
  <1>4. Logged' /\ Verdicts'
    BY <1>1, <1>2, <1>3, MovesBase
  <1>5. clean' \in [Tabs -> BOOLEAN]
    <2> DEFINE t == acts[n].tab
    <2>1. clean' = [clean EXCEPT ![t] = clean[t] /\ ~Loading(t)]
      BY DEF Reload
    <2>2. clean \in [Tabs -> BOOLEAN]
      BY DEF Base, TypeOK
    <2>3. (clean[t] /\ ~Loading(t)) \in BOOLEAN
      OBVIOUS
    <2> QED BY <2>1, <2>2, <2>3, Zenon
  <1>6. PICK new \in Load :
           /\ loads' = loads \cup {new}
           /\ new.act = n /\ new.tab = acts[n].tab
           /\ DOMAIN new.rows = {}
    BY ReloadIs
  <1>7. \A l \in loads : l.act # n
    BY <1>2, ActIs DEF Base, Answers
  <1>8. Answers'
    <2> SUFFICES ASSUME NEW l \in loads'
                 PROVE  /\ \A a \in DOMAIN l.rows :
                              l.rows[a] <= Len(log[a]) /\ Matches(log[a][l.rows[a]], l.filter)
                        /\ l.act # 0 =>
                              /\ l.act \in DOMAIN acts'
                              /\ acts'[l.act].pc = "load" /\ acts'[l.act].tab = l.tab
                              /\ \A k \in loads' : k.act = l.act => k = l
      BY <1>2 DEF Answers
    <2>1. CASE l = new
      BY <1>1, <1>6, <1>7, <2>1 DEF Moves
    <2>2. CASE l # new
      <3>1. l \in loads /\ l.act # n
        BY <1>6, <1>7, <2>2
      <3>2. \A k \in loads' : k.act = l.act => k \in loads
        BY <1>6, <3>1
      <3>3. l.act # 0 => l.act \in DOMAIN acts /\ acts'[l.act].pc = acts[l.act].pc
                         /\ acts'[l.act].tab = acts[l.act].tab
        BY <1>1, <3>1 DEF Base, Answers, Moves
      <3> QED BY <1>1, <3>1, <3>2, <3>3 DEF Base, Answers, Moves
    <2> QED BY <2>1, <2>2
  <1>9. TypeOK'
    BY <1>1, <1>2, <1>5, <1>6 DEF Base, TypeOK, Moves
  <1> QED BY <1>4, <1>8, <1>9 DEF Base

LEMMA LogBound == ASSUME Base, NEW a \in Alerts PROVE Len(log[a]) \in 1 .. MaxActs + 1
  <1>1. Len(acts) \in Nat /\ DOMAIN acts = 1 .. Len(acts) /\ Len(acts) <= MaxActs
    BY ActIs DEF Base, Logged
  <1>2. IsFiniteSet(DOMAIN acts) /\ Cardinality(DOMAIN acts) = Len(acts)
    <2>1. \A k \in Nat : IsFiniteSet(1 .. k) /\ Cardinality(1 .. k) = IF 1 <= k THEN k - 1 + 1 ELSE 0
      BY FS_Interval
    <2>2. \A k \in Nat : Cardinality(1 .. k) = k
      BY <2>1
    <2> QED BY <1>1, <2>1, <2>2
  <1>3. Written \subseteq DOMAIN acts
    BY DEF Written
  <1>4. IsFiniteSet(Written) /\ Cardinality(Written) <= Len(acts)
    BY <1>2, <1>3, FS_Subset
  <1>5. Cardinality(Written) \in Nat /\ Len(log[a]) \in Nat
    BY <1>4, FS_CardinalityType, LogIs DEF Base
  <1>6. Len(log[a]) >= 1 /\ Len(log[a]) <= 1 + Cardinality(Written)
    BY DEF Base, Logged
  <1> QED BY <1>1, <1>4, <1>5, <1>6, Bounds

(* The answer that ServeLoad gives. *)
LEMMA ServeIs ==
    ASSUME Base, NEW l \in loads, ServeLoad(l)
    PROVE  \E answer \in Load :
              /\ loads' = (loads \ {l}) \cup {answer}
              /\ answer.act = l.act /\ answer.tab = l.tab /\ answer.filter = l.filter
              /\ answer.served
              /\ DOMAIN answer.rows \subseteq Alerts
              /\ \A a \in DOMAIN answer.rows :
                    answer.rows[a] = Len(log[a]) /\ Matches(Status(a), l.filter)
  <1> DEFINE found == {a \in Alerts : Matches(Status(a), l.filter)}
             rows == [a \in found |-> Len(log[a])]
             answer == [l EXCEPT !.served = TRUE, !.rows = rows]
  <1>1. l \in Load
    BY DEF Base, TypeOK
  <1>2. found \subseteq Alerts /\ \A a \in found : Matches(Status(a), l.filter)
    OBVIOUS
  <1>3. loads' = (loads \ {l}) \cup {answer}
    BY DEF ServeLoad
  <1> HIDE DEF found
  <1>4. rows \in [found -> 1 .. MaxActs + 1]
    BY <1>2, LogBound
  <1>5. DOMAIN rows = found /\ \A a \in found : rows[a] = Len(log[a])
    OBVIOUS
  <1> HIDE DEF rows
  <1>6. rows \in Rows
    BY <1>2, <1>4 DEF Rows
  <1>7. /\ answer \in Load /\ answer.rows = rows /\ answer.served
        /\ answer.act = l.act /\ answer.tab = l.tab /\ answer.filter = l.filter
    BY <1>1, <1>6 DEF Load
  <1> HIDE DEF answer
  <1> QED BY <1>2, <1>3, <1>5, <1>7

LEMMA ServeLoadBase == ASSUME Base, NEW l \in loads, ServeLoad(l) PROVE Base'
  <1>1. UNCHANGED <<log, rules, labels, acts, filter, shown, busy, changes, clean, contested, faults>>
    BY DEF ServeLoad, table, tabs
  <1>2. PICK answer \in Load :
           /\ loads' = (loads \ {l}) \cup {answer}
           /\ answer.act = l.act /\ answer.tab = l.tab /\ answer.filter = l.filter
           /\ DOMAIN answer.rows \subseteq Alerts
           /\ \A a \in DOMAIN answer.rows :
                 answer.rows[a] = Len(log[a]) /\ Matches(Status(a), l.filter)
    BY ServeIs
  <1>3. \A a \in Alerts : Len(log[a]) \in Int
    BY LogIs DEF Base
  <1>4. Answers'
    <2> SUFFICES ASSUME NEW k \in loads'
                 PROVE  /\ \A a \in DOMAIN k.rows :
                              k.rows[a] <= Len(log[a]) /\ Matches(log[a][k.rows[a]], k.filter)
                        /\ k.act # 0 =>
                              /\ k.act \in DOMAIN acts
                              /\ acts[k.act].pc = "load" /\ acts[k.act].tab = k.tab
                              /\ \A m \in loads' : m.act = k.act => m = k
      BY <1>1 DEF Answers
    <2>1. CASE k = answer
      <3>1. \A a \in DOMAIN k.rows :
               k.rows[a] <= Len(log[a]) /\ Matches(log[a][k.rows[a]], k.filter)
        BY <1>2, <1>3, <2>1 DEF Status
      <3>2. l.act # 0 => /\ l.act \in DOMAIN acts
                         /\ acts[l.act].pc = "load" /\ acts[l.act].tab = l.tab
                         /\ \A m \in loads : m.act = l.act => m = l
        BY DEF Base, Answers
      <3> QED BY <1>2, <2>1, <3>1, <3>2
    <2>2. CASE k # answer
      <3>1. k \in loads /\ k # l
        BY <1>2, <2>2
      <3>2. /\ \A a \in DOMAIN k.rows :
                  k.rows[a] <= Len(log[a]) /\ Matches(log[a][k.rows[a]], k.filter)
            /\ k.act # 0 =>
                  /\ k.act \in DOMAIN acts
                  /\ acts[k.act].pc = "load" /\ acts[k.act].tab = k.tab
                  /\ \A m \in loads : m.act = k.act => m = k
        BY <3>1 DEF Base, Answers
      <3> QED BY <1>2, <3>1, <3>2
    <2> QED BY <2>1, <2>2
  <1>5. TypeOK'
    BY <1>1, <1>2 DEF Base, TypeOK
  <1> QED BY <1>1, <1>4, <1>5, SameActs DEF Base

(* A load that ends lets its verdict end. *)
LEMMA EndDoes ==
    ASSUME Base, NEW l \in loads, EndAct(l)
    PROVE  /\ \/ l.act = 0 /\ UNCHANGED acts
              \/ /\ l.act \in DOMAIN acts /\ acts[l.act].pc = "load" /\ l.act # 0
                 /\ acts[l.act].tab = l.tab
                 /\ Moves(l.act, "done")
           /\ busy' \in [Tabs -> Alerts \cup {None}]
  <1>1. CASE l.act = 0
    BY <1>1 DEF EndAct, Base, TypeOK
  <1>2. CASE l.act # 0
    <2>1. l.act \in DOMAIN acts /\ acts[l.act].pc = "load" /\ acts[l.act].tab = l.tab
      BY <1>2 DEF Base, Answers
    <2>2. acts' = [acts EXCEPT ![l.act].pc = "done"]
      BY <1>2 DEF EndAct
    <2>3. Moves(l.act, "done")
      <3> DEFINE n == l.act
      <3>1. n \in DOMAIN acts /\ acts' = [acts EXCEPT ![n].pc = "done"]
        BY <2>1, <2>2
      <3> HIDE DEF n
      <3>2. Moves(n, "done")
        BY <3>1, PcChanges DEF Base
      <3> QED BY <3>2 DEF n
    <2>4. busy' \in [Tabs -> Alerts \cup {None}]
      BY <1>2 DEF EndAct, Base, TypeOK
    <2> QED BY <1>2, <2>1, <2>3, <2>4
  <1> QED BY <1>1, <1>2

LEMMA EndBase ==
    ASSUME Base, NEW l \in loads, EndAct(l), loads' = loads \ {l}, UNCHANGED <<log, rules>>
    PROVE  /\ Logged' /\ Verdicts' /\ Answers'
           /\ acts' \in Seq(Act) /\ busy' \in [Tabs -> Alerts \cup {None}]
           /\ loads' \subseteq Load
  <1>1. busy' \in [Tabs -> Alerts \cup {None}] /\ loads' \subseteq Load
    BY EndDoes DEF Base, TypeOK
  <1>2. CASE l.act = 0 /\ UNCHANGED acts
    <2>1. Logged' /\ Verdicts'
      BY <1>2, SameActs
    <2>2. Answers'
      BY <1>2 DEF Base, Answers
    <2> QED BY <1>1, <1>2, <2>1, <2>2 DEF Base, TypeOK
  <1>3. CASE /\ l.act \in DOMAIN acts /\ acts[l.act].pc = "load" /\ l.act # 0
             /\ Moves(l.act, "done")
    <2>1. acts[l.act].written # 0
      BY <1>3 DEF Base, Verdicts
    <2>2. Logged' /\ Verdicts'
      BY <1>3, <2>1, MovesBase
    <2>3. \A k \in loads : k.act = l.act => k = l
      BY <1>3 DEF Base, Answers
    <2>4. \A k \in loads' : k.act # l.act
      BY <2>3
    <2>5. Answers'
      BY <1>3, <2>4, FewerAnswers
    <2> QED BY <1>1, <1>3, <2>2, <2>5 DEF Moves
  <1> QED BY <1>2, <1>3, EndDoes

LEMMA LoadArrivesBase == ASSUME Base, NEW l \in loads, LoadArrives(l) PROVE Base'
  <1>1. /\ UNCHANGED <<log, rules, labels, filter, changes, clean, contested, faults>>
        /\ loads' = loads \ {l} /\ EndAct(l)
        /\ shown' = [shown EXCEPT ![l.tab] = l.rows]
    BY DEF LoadArrives, table
  <1>2. /\ Logged' /\ Verdicts' /\ Answers'
        /\ acts' \in Seq(Act) /\ busy' \in [Tabs -> Alerts \cup {None}]
        /\ loads' \subseteq Load
    BY <1>1, EndBase
  <1>3. l.rows \in Rows /\ \A a \in DOMAIN l.rows : l.rows[a] <= Len(log[a])
    BY DEF Base, Answers, TypeOK, Load
  <1>4. shown' \in [Tabs -> Rows]
    BY <1>1, <1>3 DEF Base, TypeOK
  <1>5. \A t \in Tabs : \A a \in DOMAIN shown'[t] : shown'[t][a] <= Len(log[a])
    BY <1>1, <1>3 DEF Base, TypeOK
  <1>6. TypeOK'
    BY <1>1, <1>2, <1>4, <1>5 DEF Base, TypeOK
  <1> QED BY <1>2, <1>6 DEF Base

LEMMA LoadFailsBase == ASSUME Base, NEW l \in loads, LoadFails(l) PROVE Base'
  <1>1. /\ UNCHANGED <<log, rules, labels, filter, shown, changes, contested>>
        /\ loads' = loads \ {l} /\ EndAct(l)
        /\ clean' = [clean EXCEPT ![l.tab] = FALSE]
        /\ faults < MaxFaults /\ faults' = faults + 1
    BY DEF LoadFails, Fault, table
  <1>2. /\ Logged' /\ Verdicts' /\ Answers'
        /\ acts' \in Seq(Act) /\ busy' \in [Tabs -> Alerts \cup {None}]
        /\ loads' \subseteq Load
    BY <1>1, EndBase
  <1>3. clean' \in [Tabs -> BOOLEAN]
    BY <1>1 DEF Base, TypeOK
  <1>4. faults' \in 0 .. MaxFaults
    BY <1>1, Bounds DEF Base, TypeOK
  <1>5. TypeOK'
    BY <1>1, <1>2, <1>3, <1>4 DEF Base, TypeOK
  <1> QED BY <1>2, <1>5 DEF Base

LEMMA InitBase == Init => Base
  <1> SUFFICES ASSUME Init PROVE Base
    OBVIOUS
  <1>1. acts = <<>> /\ Len(acts) = 0 /\ DOMAIN acts = {} /\ acts \in Seq(Act)
    BY DEF Init
  <1>2. log \in [Alerts -> Seq(AlertStatusFilter)] /\ \A a \in Alerts : Len(log[a]) = 1
    BY DEF Init, AlertStatusFilter
  <1>3. shown \in [Tabs -> Rows] /\ \A t \in Tabs : shown[t] = [a \in Alerts |-> 1]
    <2>1. [a \in Alerts |-> 1] \in [Alerts -> 1 .. MaxActs + 1]
      BY Bounds
    <2>2. [a \in Alerts |-> 1] \in Rows
      BY <2>1 DEF Rows
    <2> QED BY <2>2 DEF Init
  <1>4. rules \in [Alerts -> SUBSET RuleIds]
    BY TriageAssumption DEF TriageAssumption, Init
  <1>5. TypeOK
    BY <1>1, <1>2, <1>3, <1>4, Bounds DEF Init, TypeOK
  <1>6. Written = {}
    BY <1>1 DEF Written
  <1>7. Logged
    <2>1. Cardinality(Written) = 0
      BY <1>6, FS_EmptySet, Zenon
    <2>2. Len(acts) <= MaxActs
      BY <1>1, Bounds
    <2>3. 1 <= 1 + Cardinality(Written)
      BY <2>1
    <2>4. ASSUME NEW a \in Alerts PROVE Len(log[a]) >= 1 /\ Len(log[a]) <= 1 + Cardinality(Written)
      <3>1. Len(log[a]) = 1
        BY <1>2
      <3> QED BY <2>3, <3>1
    <2> QED BY <2>2, <2>4 DEF Logged
  <1>8. Verdicts /\ Answers
    BY <1>1 DEF Verdicts, Answers, Init
  <1> QED BY <1>5, <1>7, <1>8 DEF Base

LEMMA BaseStays == Base /\ UNCHANGED vars => Base'
  BY DEF Base, TypeOK, Logged, Verdicts, Answers, Written, vars, table, tabs

LEMMA BaseStep == Base /\ [Next]_vars => Base'
  <1> SUFFICES ASSUME Base, [Next]_vars PROVE Base'
    OBVIOUS
  <1>1. CASE AddRule
    BY <1>1, AddRuleBase
  <1>2. CASE \E t \in Tabs : Click(t) \/ SetFilter(t)
    BY <1>2, ClickBase, SetFilterBase
  <1>3. ASSUME NEW n \in DOMAIN acts,
               UpdateStatus(n) \/ WriteLabel(n) \/ Reload(n) \/ RequestFails(n) \/ GiveUp(n)
        PROVE  Base'
    BY <1>3, UpdateBase, WriteLabelBase, ReloadBase, RequestFailsBase, GiveUpBase
  <1>4. ASSUME NEW l \in loads, ServeLoad(l) \/ LoadArrives(l) \/ LoadFails(l)
        PROVE  Base'
    BY <1>4, ServeLoadBase, LoadArrivesBase, LoadFailsBase
  <1>5. CASE UNCHANGED vars
    BY <1>5, BaseStays
  <1> QED BY <1>1, <1>2, <1>3, <1>4, <1>5 DEF Next

THEOREM BaseAlways == Spec => []Base
  <1> QED BY InitBase, BaseStep, PTL DEF Spec

(* The state stays well typed: a row that a tab shows was in the table, and  *)
(* a log is no longer than the verdicts given (api/main.py, TriageQueue.tsx). *)
THEOREM TypeCorrect == Spec => []TypeOK
  <1>1. Base => TypeOK
    BY DEF Base
  <1> QED BY <1>1, BaseAlways, PTL

-----------------------------------------------------------------------------
(* The verdicts on an alert that are between their two transactions. *)
Pending(a) == {n \in DOMAIN acts : acts[n].alert = a /\ acts[n].pc = "label"}

Agree(a) ==
    /\ Status(a) = "false_positive" => labels[a] = "benign"
    /\ Status(a) = "confirmed" => labels[a] \in Labels \ {"benign"}

(* Of an alert where no verdicts met at most one is there, and it is the one *)
(* that the status comes from: its label will be right whenever it is        *)
(* written.                                                                  *)
LastWord ==
    \A a \in Alerts \ contested :
        /\ \A n \in Pending(a) : Pending(a) = {n} /\ Status(a) = acts[n].verdict
        /\ Pending(a) = {} => Agree(a)

LEMMA SamePending ==
    ASSUME LastWord, UNCHANGED <<log, labels>>, contested \subseteq contested',
           \A a \in Alerts \ contested' :
              {n \in DOMAIN acts' : acts'[n].alert = a /\ acts'[n].pc = "label"} = Pending(a),
           \A n \in DOMAIN acts : acts'[n].verdict = acts[n].verdict
    PROVE  LastWord'
  <1> SUFFICES ASSUME NEW a \in Alerts \ contested'
               PROVE  /\ \A n \in Pending(a)' :
                            Pending(a)' = {n} /\ Status(a)' = acts'[n].verdict
                      /\ Pending(a)' = {} => Agree(a)'
    BY DEF LastWord
  <1>1. Pending(a)' = Pending(a) /\ Pending(a) \subseteq DOMAIN acts
    BY DEF Pending
  <1>2. Status(a)' = Status(a) /\ (Agree(a)' <=> Agree(a))
    BY DEF Status, Agree
  <1> QED BY <1>1, <1>2 DEF LastWord

(* A verdict that was not there goes on, to somewhere else. *)
LEMMA MovesPending ==
    ASSUME LastWord, UNCHANGED <<log, labels>>, contested \subseteq contested',
           NEW n \in DOMAIN acts, NEW pc, pc # "label", Moves(n, pc),
           acts[n].pc # "label" \/ acts[n].alert \in contested'
    PROVE  LastWord'
  <1>1. ASSUME NEW a \in Alerts \ contested'
        PROVE  {m \in DOMAIN acts' : acts'[m].alert = a /\ acts'[m].pc = "label"} = Pending(a)
    BY DEF Moves, Pending
  <1>2. \A m \in DOMAIN acts : acts'[m].verdict = acts[m].verdict
    BY DEF Moves
  <1> QED BY <1>1, <1>2, SamePending

LEMMA LastWordUpdate ==
    ASSUME Base, LastWord, NEW n \in DOMAIN acts, UpdateStatus(n)
    PROVE  LastWord'
  <1> DEFINE a == acts[n].alert
  <1>1. Len(log[a]) <= MaxActs /\ acts[n].pc = "update"
    BY UpdateFits DEF UpdateStatus
  <1>2. /\ DOMAIN acts' = DOMAIN acts
        /\ \A m \in DOMAIN acts : m # n => acts'[m] = acts[m]
        /\ acts'[n].alert = a
        /\ acts'[n].verdict = acts[n].verdict
        /\ acts'[n].pc = IF acts[n].verdict = "triaged" THEN "reply" ELSE "label"
        /\ a \in Alerts
        /\ Len(log'[a]) = Len(log[a]) + 1
        /\ log'[a][Len(log[a]) + 1] = acts[n].verdict
        /\ \A b \in Alerts : b # a => log'[b] = log[b]
    BY <1>1, UpdateDoes DEF Base
  <1>3. UNCHANGED labels /\ contested' = contested \cup Met(n)
    BY DEF UpdateStatus
  <1> HIDE DEF a
  <1> SUFFICES ASSUME NEW b \in Alerts \ contested'
               PROVE  /\ \A m \in Pending(b)' :
                            Pending(b)' = {m} /\ Status(b)' = acts'[m].verdict
                      /\ Pending(b)' = {} => Agree(b)'
    BY DEF LastWord
  <1>4. CASE b = a
    <2>1. Pending(a) = {}
      <3>1. ASSUME NEW m \in Pending(a) PROVE FALSE
        <4>1. m \in DOMAIN acts /\ acts[m].alert = a /\ acts[m].pc = "label" /\ m # n
          BY <1>1 DEF Pending
        <4>2. a \in Met(n)
          BY <4>1 DEF Met, a
        <4> QED BY <1>3, <1>4, <4>2
      <3> QED BY <3>1
    <2>2. Status(b)' = acts[n].verdict
      BY <1>2, <1>4 DEF Status
    <2>3. CASE acts[n].verdict = "triaged"
      <3>1. Pending(b)' = {}
        BY <1>2, <1>4, <2>1, <2>3 DEF Pending
      <3>2. Agree(b)'
        BY <2>2, <2>3 DEF Agree
      <3> QED BY <3>1, <3>2
    <2>4. CASE acts[n].verdict # "triaged"
      <3>1. Pending(b)' = {n}
        BY <1>2, <1>4, <2>1, <2>4 DEF Pending
      <3> QED BY <1>2, <1>4, <2>2, <3>1
    <2> QED BY <2>3, <2>4
  <1>5. CASE b # a
    <2>1. Pending(b)' = Pending(b) /\ n \notin Pending(b)
      BY <1>1, <1>2, <1>5 DEF Pending
    <2>2. Status(b)' = Status(b) /\ (Agree(b)' <=> Agree(b))
      BY <1>2, <1>3, <1>5 DEF Status, Agree
    <2>3. \A m \in Pending(b) : acts'[m] = acts[m]
      BY <1>2, <2>1 DEF Pending
    <2> QED BY <1>3, <2>1, <2>2, <2>3 DEF LastWord
  <1> QED BY <1>4, <1>5

LEMMA LastWordLabel ==
    ASSUME Base, LastWord, NEW n \in DOMAIN acts, WriteLabel(n)
    PROVE  LastWord'
  <1> DEFINE a == acts[n].alert
  <1>1. Moves(n, "reply")
    BY PcChanges DEF Base, WriteLabel
  <1>2. acts[n].pc = "label" /\ UNCHANGED <<log, contested>>
    BY DEF WriteLabel
  <1>3. PICK label \in LabelFor(n) : labels' = [labels EXCEPT ![a] = label]
    BY DEF WriteLabel
  <1>4. a \in Alerts
    BY ActIs DEF Base, Act
  <1>5. labels'[a] = label /\ \A b \in Alerts : b # a => labels'[b] = labels[b]
    BY <1>3, <1>4 DEF Base, TypeOK
  <1> SUFFICES ASSUME NEW b \in Alerts \ contested'
               PROVE  /\ \A m \in Pending(b)' :
                            Pending(b)' = {m} /\ Status(b)' = acts'[m].verdict
                      /\ Pending(b)' = {} => Agree(b)'
    BY DEF LastWord
  <1>6. CASE b = a
    <2>1. Pending(a) = {n} /\ Status(a) = acts[n].verdict
      BY <1>2, <1>4, <1>6 DEF LastWord, Pending
    <2>2. {m \in DOMAIN acts' : acts'[m].alert = b /\ acts'[m].pc = "label"} = {}
      BY <1>1, <1>6, <2>1 DEF Pending, Moves
    <2>3. Pending(b)' = {}
      BY <2>2 DEF Pending
    <2>4. log'[b][Len(log'[b])] = acts[n].verdict
      BY <1>2, <1>6, <2>1 DEF Status
    <2>5. /\ acts[n].verdict = "false_positive" => label = "benign"
          /\ acts[n].verdict = "confirmed" => label \in Labels \ {"benign"}
      BY ClassesAre DEF LabelFor
    <2>6. Agree(b)'
      BY <1>5, <1>6, <2>4, <2>5 DEF Agree, Status
    <2> QED BY <2>3, <2>6
  <1>7. CASE b # a
    <2>1. {m \in DOMAIN acts' : acts'[m].alert = b /\ acts'[m].pc = "label"} = Pending(b)
      BY <1>1, <1>7 DEF Pending, Moves
    <2>2. Pending(b)' = Pending(b) /\ Pending(b) \subseteq DOMAIN acts
      BY <2>1 DEF Pending
    <2>3. Status(b)' = Status(b) /\ (Agree(b)' <=> Agree(b))
      BY <1>2, <1>5, <1>7 DEF Status, Agree
    <2>4. \A m \in DOMAIN acts : acts'[m].verdict = acts[m].verdict
      BY <1>1 DEF Moves
    <2> QED BY <1>2, <2>2, <2>3, <2>4 DEF LastWord
  <1> QED BY <1>6, <1>7

LEMMA LastWordInit == Init => LastWord
  <1> SUFFICES ASSUME Init PROVE LastWord
    OBVIOUS
  <1>1. \A a \in Alerts : Pending(a) = {}
    BY DEF Init, Pending
  <1>2. \A a \in Alerts : Status(a) = "new"
    BY DEF Init, Status
  <1> QED BY <1>1, <1>2 DEF LastWord, Agree

LEMMA LastWordStep == Base /\ LastWord /\ [Next]_vars => LastWord'
  <1> SUFFICES ASSUME Base, LastWord, [Next]_vars PROVE LastWord'
    OBVIOUS
  <1>1. CASE UNCHANGED <<log, labels, acts, contested>>
    <2>1. \A a \in Alerts \ contested' :
             {n \in DOMAIN acts' : acts'[n].alert = a /\ acts'[n].pc = "label"} = Pending(a)
      BY <1>1 DEF Pending
    <2> QED BY <1>1, <2>1, SamePending
  <1>2. CASE AddRule
    BY <1>1, <1>2 DEF AddRule
  <1>3. ASSUME NEW t \in Tabs, Click(t) PROVE LastWord'
    <2> DEFINE k == Len(acts) + 1
    <2>1. /\ DOMAIN acts' = DOMAIN acts \cup {k} /\ k \notin DOMAIN acts
          /\ \A n \in DOMAIN acts : acts'[n] = acts[n]
          /\ acts'[k].pc = "update"
      BY <1>3, ClickDoes DEF Base
    <2>2. UNCHANGED <<log, labels, contested>>
      BY <1>3 DEF Click, table
    <2> HIDE DEF k
    <2>3. \A a \in Alerts \ contested' :
             {n \in DOMAIN acts' : acts'[n].alert = a /\ acts'[n].pc = "label"} = Pending(a)
      BY <2>1 DEF Pending
    <2> QED BY <2>1, <2>2, <2>3, SamePending
  <1>4. ASSUME NEW t \in Tabs, SetFilter(t) PROVE LastWord'
    BY <1>1, <1>4 DEF SetFilter, table
  <1>5. ASSUME NEW n \in DOMAIN acts, Reload(n) PROVE LastWord'
    <2>1. Moves(n, "load") /\ acts[n].pc # "label"
      BY <1>5, PcChanges DEF Base, Reload
    <2>2. UNCHANGED <<log, labels, contested>>
      BY <1>5 DEF Reload, table
    <2> QED BY <2>1, <2>2, MovesPending
  <1>6. ASSUME NEW n \in DOMAIN acts, GiveUp(n) PROVE LastWord'
    <2>1. Moves(n, "gone") /\ acts[n].pc # "label"
      BY <1>6, PcChanges DEF Base, GiveUp
    <2>2. UNCHANGED <<log, labels, contested>>
      BY <1>6 DEF GiveUp, table
    <2> QED BY <2>1, <2>2, MovesPending
  <1>7. ASSUME NEW n \in DOMAIN acts, RequestFails(n) PROVE LastWord'
    <2>1. Moves(n, "failed")
      BY <1>7, PcChanges DEF Base, RequestFails
    <2>2. /\ UNCHANGED <<log, labels>> /\ contested \subseteq contested'
          /\ acts[n].pc # "label" \/ acts[n].alert \in contested'
      BY <1>7 DEF RequestFails, table
    <2> QED BY <2>1, <2>2, MovesPending
  <1>8. ASSUME NEW l \in loads, EndAct(l), UNCHANGED <<log, labels, contested>>
        PROVE  LastWord'
    <2>1. CASE UNCHANGED acts
      BY <1>1, <1>8, <2>1
    <2>2. CASE l.act \in DOMAIN acts /\ acts[l.act].pc = "load" /\ Moves(l.act, "done")
      BY <1>8, <2>2, MovesPending
    <2> QED BY <1>8, <2>1, <2>2, EndDoes
  <1>9. ASSUME NEW l \in loads, ServeLoad(l) \/ LoadArrives(l) \/ LoadFails(l)
        PROVE  LastWord'
    <2>1. CASE ServeLoad(l)
      BY <1>1, <2>1 DEF ServeLoad, table
    <2>2. CASE LoadArrives(l) \/ LoadFails(l)
      BY <1>8, <2>2 DEF LoadArrives, LoadFails, table
    <2> QED BY <1>9, <2>1, <2>2
  <1>10. CASE UNCHANGED vars
    BY <1>1, <1>10 DEF vars, table
  <1> QED BY <1>2, <1>3, <1>4, <1>5, <1>6, <1>7, <1>9, <1>10, LastWordUpdate, LastWordLabel
          DEF Next

(* Unless two verdicts met on an alert, or one broke off between its two     *)
(* transactions, the label says what the status says (main.py:139-152),      *)
(* however many tabs, verdicts and rules there are.                          *)
THEOREM LabelsAgree == Spec => []StatusAndLabelAgree
  <1>1. Base /\ LastWord => StatusAndLabelAgree
    <2> SUFFICES ASSUME LastWord, NEW a \in Alerts \ contested,
                        \A n \in DOMAIN acts : acts[n].alert = a => acts[n].pc # "label"
                 PROVE  Agree(a)
      BY DEF StatusAndLabelAgree, Agree
    <2>1. Pending(a) = {}
      BY DEF Pending
    <2> QED BY <2>1 DEF LastWord
  <1> QED BY <1>1, BaseAlways, LastWordInit, LastWordStep, PTL DEF Spec

-----------------------------------------------------------------------------
(* What a verdict is about stays, and its rules once they have been read. *)
ActsStay ==
    \A n \in DOMAIN acts :
        /\ n \in DOMAIN acts'
        /\ acts'[n].tab = acts[n].tab /\ acts'[n].alert = acts[n].alert
        /\ acts'[n].verdict = acts[n].verdict /\ acts'[n].filter = acts[n].filter
        /\ acts[n].written # 0 =>
              acts'[n].rules = acts[n].rules /\ acts'[n].written = acts[n].written

LEMMA MovesStay == ASSUME NEW n, NEW pc, Moves(n, pc) PROVE ActsStay
  BY DEF Moves, ActsStay

LEMMA EndStays == ASSUME Base, NEW l \in loads, EndAct(l) PROVE ActsStay
  BY EndDoes, MovesStay DEF ActsStay

LEMMA UpdateStays ==
    ASSUME Base, NEW n \in DOMAIN acts, UpdateStatus(n)
    PROVE  /\ ActsStay /\ DOMAIN acts' = DOMAIN acts
           /\ acts[n].written = 0 /\ acts[n].pc = "update"
           /\ acts'[n].rules = rules[acts[n].alert] /\ acts[n].alert \in Alerts
           /\ \A m \in DOMAIN acts : m # n => acts'[m] = acts[m]
  <1>1. Len(log[acts[n].alert]) <= MaxActs /\ acts[n].pc = "update"
    BY UpdateFits DEF UpdateStatus
  <1>2. acts[n].written = 0
    BY <1>1 DEF Base, Verdicts
  <1>3. /\ DOMAIN acts' = DOMAIN acts
        /\ \A m \in DOMAIN acts : m # n => acts'[m] = acts[m]
        /\ acts'[n].tab = acts[n].tab /\ acts'[n].alert = acts[n].alert
        /\ acts'[n].verdict = acts[n].verdict /\ acts'[n].filter = acts[n].filter
        /\ acts'[n].rules = rules[acts[n].alert] /\ acts[n].alert \in Alerts
    BY <1>1, UpdateDoes DEF Base
  <1>4. ActsStay
    BY <1>2, <1>3 DEF ActsStay
  <1> QED BY <1>1, <1>2, <1>3, <1>4

LEMMA StepStays == Base /\ [Next]_vars => ActsStay
  <1> SUFFICES ASSUME Base, [Next]_vars PROVE ActsStay
    OBVIOUS
  <1>1. CASE UNCHANGED acts
    BY <1>1 DEF ActsStay
  <1>2. ASSUME NEW t \in Tabs, Click(t) PROVE ActsStay
    <2>1. \A n \in DOMAIN acts : n \in DOMAIN acts' /\ acts'[n] = acts[n]
      BY <1>2, ClickDoes DEF Base
    <2> QED BY <2>1 DEF ActsStay
  <1>3. ASSUME NEW n \in DOMAIN acts, WriteLabel(n) PROVE ActsStay
    BY <1>3, PcChanges, MovesStay DEF Base, WriteLabel
  <1>4. ASSUME NEW n \in DOMAIN acts, Reload(n) PROVE ActsStay
    BY <1>4, PcChanges, MovesStay DEF Base, Reload
  <1>5. ASSUME NEW n \in DOMAIN acts, RequestFails(n) PROVE ActsStay
    BY <1>5, PcChanges, MovesStay DEF Base, RequestFails
  <1>6. ASSUME NEW n \in DOMAIN acts, GiveUp(n) PROVE ActsStay
    BY <1>6, PcChanges, MovesStay DEF Base, GiveUp
  <1>7. ASSUME NEW l \in loads, LoadArrives(l) \/ LoadFails(l) PROVE ActsStay
    BY <1>7, EndStays DEF LoadArrives, LoadFails
  <1>8. ASSUME NEW l \in loads, ServeLoad(l) PROVE ActsStay
    BY <1>1, <1>8 DEF ServeLoad
  <1>9. ASSUME NEW t \in Tabs, SetFilter(t) PROVE ActsStay
    BY <1>1, <1>9 DEF SetFilter
  <1>10. CASE AddRule
    BY <1>1, <1>10 DEF AddRule
  <1>11. CASE UNCHANGED vars
    BY <1>1, <1>11 DEF vars
  <1> QED BY <1>2, <1>3, <1>4, <1>5, <1>6, <1>7, <1>8, <1>9, <1>10, <1>11, UpdateStays
          DEF Next

-----------------------------------------------------------------------------
LEMMA LeastExists ==
    ASSUME NEW S \in SUBSET Nat, S # {}
    PROVE  \E x \in S : \A y \in S : x <= y
  <1>1. PICK x \in S : \A y \in S : ~ (<<y, x>> \in OpToRel(<, Nat))
    BY NatLessThanWellFounded, WFMin, Zenon
  <1>2. \A y \in S : ~ (y < x)
    BY <1>1 DEF OpToRel
  <1> QED BY <1>2

(* Of some rules one is the most severe: the one that the fewest exceed. *)
LEMMA TopExists ==
    ASSUME NEW ids \in SUBSET RuleIds, ids # {}
    PROVE  TopRules(ids) # {}
  <1> DEFINE Over(r) == {q \in ids : Severity[r] < Severity[q]}
             Counts == {Cardinality(Over(r)) : r \in ids}
  <1>1. /\ IsFiniteSet(ids)
        /\ \A r \in ids : Severity[r] \in Nat
    BY TriageAssumption, FS_Subset DEF TriageAssumption
  <1>2. ASSUME NEW r \in ids PROVE IsFiniteSet(Over(r)) /\ Cardinality(Over(r)) \in Nat
    <2>1. Over(r) \subseteq ids
      OBVIOUS
    <2> HIDE DEF Over
    <2> QED BY <1>1, <2>1, FS_Subset, FS_CardinalityType
  <1>3. ASSUME NEW r \in ids, NEW q \in ids, Severity[r] < Severity[q]
        PROVE  Cardinality(Over(q)) < Cardinality(Over(r))
    <2>1. Over(q) \subseteq Over(r) /\ q \in Over(r) /\ q \notin Over(q)
      BY <1>1, <1>3
    <2>2. IsFiniteSet(Over(r)) /\ Cardinality(Over(r)) \in Nat /\ Cardinality(Over(q)) \in Nat
      BY <1>2
    <2> HIDE DEF Over
    <2>3. /\ Cardinality(Over(q)) <= Cardinality(Over(r))
          /\ Cardinality(Over(q)) = Cardinality(Over(r)) => Over(q) = Over(r)
      BY <2>1, <2>2, FS_Subset
    <2> QED BY <2>1, <2>2, <2>3
  <1>4. Counts # {} /\ Counts \in SUBSET Nat
    <2> HIDE DEF Over
    <2> QED BY <1>2
  <1>5. PICK c \in Counts : \A d \in Counts : c <= d
    <2> HIDE DEF Counts
    <2> QED BY <1>4, LeastExists
  <1>6. PICK r \in ids : \A q \in ids : Cardinality(Over(r)) <= Cardinality(Over(q))
    <2> HIDE DEF Over
    <2> QED BY <1>5
  <1> HIDE DEF Over
  <1>7. \A q \in ids : ~(Severity[r] < Severity[q])
    BY <1>2, <1>3, <1>6
  <1>8. r \in TopRules(ids)
    BY <1>1, <1>7 DEF TopRules
  <1> QED BY <1>8

(* An alert has rules, and a verdict read some. *)
RulesKnown ==
    /\ \A a \in Alerts : rules[a] # {}
    /\ \A n \in DOMAIN acts : acts[n].written # 0 => acts[n].rules # {}

Confirmed(a, n) ==
    /\ acts[n].alert = a /\ acts[n].verdict = "confirmed" /\ acts[n].written # 0
    /\ \E r \in TopRules(acts[n].rules) : labels[a] = ClassOf(r)

LabelsFound ==
    \A a \in Alerts : labels[a] \notin {None, "benign"} =>
        \E n \in DOMAIN acts : Confirmed(a, n)

LEMMA RulesKnownStep == Base /\ RulesKnown /\ [Next]_vars => RulesKnown'
  <1> SUFFICES ASSUME Base, RulesKnown, [Next]_vars PROVE RulesKnown'
    OBVIOUS
  <1>1. \A a \in Alerts : rules'[a] # {}
    <2>1. CASE UNCHANGED rules
      BY <2>1 DEF RulesKnown
    <2>2. CASE AddRule
      <3>1. PICK a \in Alerts :
               \E r \in RuleIds \ rules[a] : rules' = [rules EXCEPT ![a] = rules[a] \cup {r}]
        BY <2>2 DEF AddRule
      <3> QED BY <3>1 DEF RulesKnown, Base, TypeOK
    <2> QED BY <2>1, <2>2 DEF Next, Click, SetFilter, UpdateStatus, WriteLabel, Reload,
               RequestFails, GiveUp, ServeLoad, LoadArrives, LoadFails, vars, table
  <1>2. ASSUME NEW n \in DOMAIN acts', acts'[n].written # 0 PROVE acts'[n].rules # {}
    <2>1. CASE n \in DOMAIN acts /\ acts[n].written # 0
      BY <2>1, StepStays DEF ActsStay, RulesKnown
    <2>2. CASE n \in DOMAIN acts /\ UpdateStatus(n)
      BY <2>2, UpdateStays DEF RulesKnown
    <2>3. ASSUME NEW t \in Tabs, Click(t) PROVE n \in DOMAIN acts /\ acts[n].written # 0
      BY <1>2, <2>3, ClickDoes DEF Base
    <2>4. ASSUME NEW m \in DOMAIN acts, UpdateStatus(m), m # n
          PROVE  n \in DOMAIN acts /\ acts[n].written # 0
      BY <1>2, <2>4, UpdateStays
    <2>5. ASSUME UNCHANGED acts PROVE n \in DOMAIN acts /\ acts[n].written # 0
      BY <1>2, <2>5
    <2>6. ASSUME NEW m, NEW pc, Moves(m, pc)
          PROVE  n \in DOMAIN acts /\ acts[n].written # 0
      BY <1>2, <2>6 DEF Moves
    <2>7. ASSUME NEW m \in DOMAIN acts, WriteLabel(m) \/ Reload(m) \/ RequestFails(m) \/ GiveUp(m)
          PROVE  n \in DOMAIN acts /\ acts[n].written # 0
      <3>1. \E pc : Moves(m, pc)
        BY <2>7, PcChanges DEF Base, WriteLabel, Reload, RequestFails, GiveUp
      <3> QED BY <2>6, <3>1
    <2>8. ASSUME NEW l \in loads, LoadArrives(l) \/ LoadFails(l)
          PROVE  n \in DOMAIN acts /\ acts[n].written # 0
      <3>1. EndAct(l)
        BY <2>8 DEF LoadArrives, LoadFails
      <3> QED BY <2>5, <2>6, <3>1, EndDoes
    <2> QED BY <2>1, <2>2, <2>3, <2>4, <2>5, <2>7, <2>8
            DEF Next, SetFilter, ServeLoad, AddRule, vars
  <1>3. \A n \in DOMAIN acts' : acts'[n].written # 0 => acts'[n].rules # {}
    BY <1>2
  <1> QED BY <1>1, <1>3, Zenon DEF RulesKnown

LEMMA LabelsFoundStep == Base /\ RulesKnown /\ LabelsFound /\ [Next]_vars => LabelsFound'
  <1> SUFFICES ASSUME Base, RulesKnown, LabelsFound, [Next]_vars,
                      NEW a \in Alerts, labels'[a] \notin {None, "benign"}
               PROVE  \E n \in DOMAIN acts' : Confirmed(a, n)'
    BY DEF LabelsFound
  <1>1. ActsStay
    BY StepStays
  <1>2. CASE labels'[a] = labels[a]
    <2>1. PICK n \in DOMAIN acts : Confirmed(a, n)
      BY <1>2 DEF LabelsFound
    <2>2. /\ n \in DOMAIN acts' /\ acts'[n].alert = acts[n].alert
          /\ acts'[n].verdict = acts[n].verdict
          /\ acts'[n].rules = acts[n].rules /\ acts'[n].written = acts[n].written
      BY <1>1, <2>1 DEF ActsStay, Confirmed
    <2>3. Confirmed(a, n)'
      BY <1>2, <2>1, <2>2 DEF Confirmed
    <2> QED BY <2>2, <2>3
  <1>3. CASE labels'[a] # labels[a]
    <2>1. PICK n \in DOMAIN acts : WriteLabel(n)
      BY <1>3 DEF Next, Click, SetFilter, UpdateStatus, AddRule, Reload,
         RequestFails, GiveUp, ServeLoad, LoadArrives, LoadFails, vars, table
    <2>2. PICK label \in LabelFor(n) : labels' = [labels EXCEPT ![acts[n].alert] = label]
      BY <2>1 DEF WriteLabel
    <2>3. a = acts[n].alert /\ label = labels'[a]
      BY <1>3, <2>2 DEF Base, TypeOK
    <2>4. /\ acts[n].pc = "label" /\ acts[n].written # 0
          /\ acts[n].verdict \in AlertStatus /\ acts[n].rules \in SUBSET RuleIds
          /\ acts[n].verdict # "triaged"
      <3>1. acts[n] \in Act /\ acts[n].pc = "label"
        BY <2>1, ActIs DEF Base, WriteLabel
      <3>2. acts[n].written # 0 /\ acts[n].verdict # "triaged"
        BY <3>1 DEF Base, Verdicts
      <3> QED BY <3>1, <3>2 DEF Act
    <2>5. acts[n].verdict = "confirmed" /\ label \in ClassesOf(acts[n].rules)
      BY <2>2, <2>3, <2>4 DEF LabelFor, AlertStatus
    <2>6. TopRules(acts[n].rules) # {}
      BY <2>4, TopExists DEF RulesKnown
    <2>7. \E r \in TopRules(acts[n].rules) : label = ClassOf(r)
      BY <2>5, <2>6 DEF ClassesOf
    <2>8. /\ n \in DOMAIN acts' /\ acts'[n].alert = acts[n].alert
          /\ acts'[n].verdict = acts[n].verdict
          /\ acts'[n].rules = acts[n].rules /\ acts'[n].written = acts[n].written
      BY <1>1, <2>4 DEF ActsStay
    <2>9. Confirmed(a, n)'
      BY <2>3, <2>4, <2>5, <2>7, <2>8 DEF Confirmed
    <2> QED BY <2>8, <2>9, Zenon
  <1> QED BY <1>2, <1>3, Zenon

LEMMA LabelsInit == Init => RulesKnown /\ LabelsFound
  <1> SUFFICES ASSUME Init PROVE RulesKnown /\ LabelsFound
    OBVIOUS
  <1>1. \A a \in Alerts : rules[a] # {}
    BY TriageAssumption DEF TriageAssumption, Init
  <1>2. DOMAIN acts = {} /\ \A a \in Alerts : labels[a] = None
    BY DEF Init
  <1> QED BY <1>1, <1>2 DEF RulesKnown, LabelsFound

(* A label other than benign is the class of the most severe of the rules    *)
(* the alert had when a confirming verdict was written, however many were    *)
(* added since (main.py:148-152, db.py:113-123).                             *)
THEOREM LabelOfTopRule == Spec => []LabelIsOfTopRule
  <1>1. Base /\ LabelsFound => LabelIsOfTopRule
    <2> SUFFICES ASSUME Base, LabelsFound, NEW a \in Alerts, labels[a] \notin {None, "benign"}
                 PROVE  \E n \in DOMAIN acts :
                           /\ acts[n].alert = a /\ acts[n].verdict = "confirmed"
                           /\ acts[n].rules \subseteq rules[a]
                           /\ labels[a] \in {ClassOf(r) : r \in {r \in acts[n].rules :
                                 ~\E q \in acts[n].rules : Severity[r] < Severity[q]}}
      BY DEF LabelIsOfTopRule
    <2>1. PICK n \in DOMAIN acts : Confirmed(a, n)
      BY DEF LabelsFound
    <2>2. PICK r \in TopRules(acts[n].rules) : labels[a] = ClassOf(r)
      BY <2>1 DEF Confirmed
    <2>3. acts[n].rules \subseteq rules[a] /\ rules[a] \subseteq RuleIds
      BY <2>1 DEF Confirmed, Base, Verdicts, TypeOK
    <2>4. \A q \in acts[n].rules : Severity[q] <= Severity[r] /\ Severity[q] \in Nat
      BY <2>2, <2>3, TriageAssumption DEF TopRules, TriageAssumption
    <2>5. r \in acts[n].rules /\ Severity[r] \in Nat
      BY <2>2, <2>4 DEF TopRules
    <2>6. ~\E q \in acts[n].rules : Severity[r] < Severity[q]
      BY <2>4, <2>5
    <2> QED BY <2>1, <2>2, <2>3, <2>5, <2>6 DEF Confirmed
  <1> QED BY <1>1, BaseAlways, LabelsInit, RulesKnownStep, LabelsFoundStep, PTL DEF Spec

-----------------------------------------------------------------------------
(* A tab that has let each of its loads end: its verdicts under way and its  *)
(* one load have its filter, and an answer that has been given tells of the  *)
(* verdicts that have ended and of the one that waits for it.                *)
Fits(t) ==
    /\ \A n \in DOMAIN acts :
          acts[n].tab = t /\ acts[n].pc \notin {"done", "gone"} => acts[n].filter = filter[t]
    /\ \A l \in loads : l.tab = t =>
          l.filter = filter[t] /\ \A k \in loads : k.tab = t => k = l

Tells(rows, n) == acts[n].alert \in DOMAIN rows => rows[acts[n].alert] >= acts[n].written

AnswersTell(t) ==
    \A l \in loads : l.tab = t /\ l.served =>
        \A n \in DOMAIN acts :
            (acts[n].tab = t /\ acts[n].pc = "done") \/ n = l.act => Tells(l.rows, n)

ListTells(t) ==
    \A n \in DOMAIN acts : acts[n].tab = t /\ acts[n].pc = "done" => Tells(shown[t], n)

Filtered(t) == \A a \in DOMAIN shown[t] : Matches(log[a][shown[t][a]], filter[t])

Tidy(t) == Fits(t) /\ AnswersTell(t) /\ ListTells(t) /\ (~Loading(t) => Filtered(t))

CleanTabs == \A t \in Tabs : clean[t] => Tidy(t)

(* A step that is not the tab's, or does nothing about its list. *)
Steady(t) ==
    /\ filter'[t] = filter[t] /\ shown'[t] = shown[t]
    /\ \A l \in loads \cup loads' : l.tab = t => l \in loads /\ l \in loads'
    /\ \A n \in DOMAIN acts' : acts'[n].tab = t =>
          \/ acts'[n].pc = "update" /\ acts'[n].filter = filter[t]
          \/ /\ n \in DOMAIN acts
             /\ acts'[n].pc \notin {"done", "gone"} => acts[n].pc \notin {"done", "gone"}
             /\ acts'[n].pc = "done" => acts[n].pc = "done"
    /\ \A a \in Alerts : \A k \in 1 .. Len(log[a]) : log'[a][k] = log[a][k]

LEMMA ShownIs ==
    ASSUME TypeOK, NEW t \in Tabs, NEW a \in DOMAIN shown[t]
    PROVE  a \in Alerts /\ shown[t][a] \in 1 .. Len(log[a])
  <1>1. PICK S \in SUBSET Alerts : shown[t] \in [S -> 1 .. MaxActs + 1]
    BY DEF TypeOK, Rows
  <1>2. a \in Alerts /\ shown[t][a] \in 1 .. MaxActs + 1
    BY <1>1
  <1>3. Len(log[a]) \in Nat /\ shown[t][a] <= Len(log[a])
    BY <1>2, LogIs DEF TypeOK
  <1> QED BY <1>2, <1>3, Bounds

LEMMA SteadyTidy ==
    ASSUME Base, Base', NEW t \in Tabs, Tidy(t), Steady(t), ActsStay
    PROVE  Tidy(t)'
  <1>1. Fits(t)'
    <2>1. ASSUME NEW n \in DOMAIN acts', acts'[n].tab = t, acts'[n].pc \notin {"done", "gone"}
          PROVE  acts'[n].filter = filter[t]
      BY <2>1 DEF Tidy, Fits, Steady, ActsStay
    <2>2. \A l \in loads' : l.tab = t =>
             l.filter = filter[t] /\ \A k \in loads' : k.tab = t => k = l
      BY DEF Tidy, Fits, Steady
    <2> QED BY <2>1, <2>2 DEF Fits, Steady
  <1>2. ASSUME NEW n \in DOMAIN acts, acts[n].written # 0, NEW rows, Tells(rows, n)
        PROVE  acts'[n].alert \in DOMAIN rows => rows[acts'[n].alert] >= acts'[n].written
    BY <1>2 DEF Tells, ActsStay
  <1>3. ASSUME NEW n \in DOMAIN acts', acts'[n].tab = t, acts'[n].pc = "done"
        PROVE  n \in DOMAIN acts /\ acts[n].tab = t /\ acts[n].pc = "done" /\ acts[n].written # 0
    <2>1. n \in DOMAIN acts /\ acts[n].tab = t /\ acts[n].pc = "done"
      BY <1>3 DEF Steady, ActsStay
    <2> QED BY <2>1 DEF Base, Verdicts
  <1>4. AnswersTell(t)'
    <2> SUFFICES ASSUME NEW l \in loads', l.tab = t, l.served, NEW n \in DOMAIN acts',
                        (acts'[n].tab = t /\ acts'[n].pc = "done") \/ n = l.act
                 PROVE  acts'[n].alert \in DOMAIN l.rows => l.rows[acts'[n].alert] >= acts'[n].written
      BY DEF AnswersTell, Tells
    <2>1. l \in loads
      BY DEF Steady
    <2>2. CASE acts'[n].tab = t /\ acts'[n].pc = "done"
      BY <1>2, <1>3, <2>1, <2>2 DEF Tidy, AnswersTell
    <2>3. CASE n = l.act
      <3>1. n # 0
        <4>1. acts' \in Seq(Act)
          BY DEF Base, TypeOK
        <4>2. Len(acts') \in Nat /\ DOMAIN acts' = 1 .. Len(acts')
          BY <4>1, LenProperties
        <4> QED BY <4>2
      <3>2. n \in DOMAIN acts /\ acts[n].pc = "load" /\ acts[n].written # 0
        BY <2>1, <2>3, <3>1 DEF Base, Answers, Verdicts
      <3> QED BY <1>2, <2>1, <2>3, <3>2 DEF Tidy, AnswersTell
    <2> QED BY <2>2, <2>3
  <1>5. ListTells(t)'
    <2> SUFFICES ASSUME NEW n \in DOMAIN acts', acts'[n].tab = t, acts'[n].pc = "done"
                 PROVE  acts'[n].alert \in DOMAIN shown[t] =>
                           shown[t][acts'[n].alert] >= acts'[n].written
      BY DEF ListTells, Tells, Steady
    <2> QED BY <1>2, <1>3 DEF Tidy, ListTells
  <1>6. ~Loading(t)' => Filtered(t)'
    <2> SUFFICES ASSUME ~Loading(t)', NEW a \in DOMAIN shown[t]
                 PROVE  Matches(log'[a][shown[t][a]], filter[t])
      BY DEF Filtered, Steady
    <2>1. ~Loading(t)
      BY DEF Loading, Steady
    <2>2. a \in Alerts /\ shown[t][a] \in 1 .. Len(log[a])
      BY ShownIs DEF Base
    <2>3. Matches(log[a][shown[t][a]], filter[t])
      BY <2>1 DEF Tidy, Filtered
    <2> QED BY <2>2, <2>3 DEF Steady
  <1> QED BY <1>1, <1>4, <1>5, <1>6 DEF Tidy

(* Every verdict after the step has been one before. *)
LEMMA MovesSteady ==
    ASSUME NEW t \in Tabs, NEW n \in DOMAIN acts,
           NEW pc, Moves(n, pc), acts[n].pc \notin {"done", "gone"},
           pc # "done" \/ acts[n].tab # t,
           UNCHANGED <<log, filter>>, shown'[t] = shown[t],
           \A l \in loads \cup loads' : l.tab = t => l \in loads /\ l \in loads'
    PROVE  Steady(t)
  BY DEF Moves, Steady

LEMMA SameSteady ==
    ASSUME NEW t \in Tabs, UNCHANGED <<log, acts>>,
           filter'[t] = filter[t], shown'[t] = shown[t],
           \A l \in loads \cup loads' : l.tab = t => l \in loads /\ l \in loads'
    PROVE  Steady(t)
  BY DEF Steady

LEMMA EndSteady ==
    ASSUME Base, NEW t \in Tabs, NEW l \in loads, EndAct(l), l.tab # t,
           loads' = loads \ {l}, UNCHANGED <<log, filter>>, shown'[t] = shown[t]
    PROVE  Steady(t)
  <1>1. \A k \in loads \cup loads' : k.tab = t => k \in loads /\ k \in loads'
    OBVIOUS
  <1>2. CASE UNCHANGED acts
    BY <1>1, <1>2, SameSteady
  <1>3. CASE /\ l.act \in DOMAIN acts /\ acts[l.act].pc = "load" /\ acts[l.act].tab = l.tab
             /\ Moves(l.act, "done")
    BY <1>1, <1>3, MovesSteady
  <1> QED BY <1>2, <1>3, EndDoes

LEMMA LogStays ==
    ASSUME Base, NEW n \in DOMAIN acts, UpdateStatus(n)
    PROVE  \A a \in Alerts : \A k \in 1 .. Len(log[a]) : log'[a][k] = log[a][k]
  <1>1. Len(log[acts[n].alert]) <= MaxActs
    BY UpdateFits DEF UpdateStatus
  <1> QED BY <1>1, UpdateDoes DEF Base

LEMMA TidySetFilter ==
    ASSUME Base, CleanTabs, NEW u \in Tabs, SetFilter(u), NEW t \in Tabs, clean'[t]
    PROVE  Tidy(t)' \/ (clean[t] /\ Steady(t))
  <1>1. PICK f \in Filters \ {filter[u]} :
           /\ filter' = [filter EXCEPT ![u] = f]
           /\ loads' = loads \cup {Request(u, f, 0, changes + 1)}
    BY DEF SetFilter
  <1> DEFINE new == Request(u, f, 0, changes + 1)
  <1>2. new.tab = u /\ new.filter = f /\ ~new.served
    BY DEF Request
  <1>3. loads' = loads \cup {new}
    BY <1>1
  <1> HIDE DEF new
  <1>4. /\ UNCHANGED <<log, acts, shown>>
        /\ clean' = [clean EXCEPT ![u] = clean[u] /\ ~Loading(u) /\ ~Acting(u)]
    BY DEF SetFilter, table
  <1>5. CASE t = u
    <2>1. filter'[t] = f /\ clean[t] /\ ~Loading(t) /\ ~Acting(t)
      BY <1>1, <1>4, <1>5 DEF Base, TypeOK
    <2>2. \A l \in loads' : l.tab = t => l = new
      BY <1>3, <2>1 DEF Loading
    <2>3. new \in loads' /\ new.tab = t
      BY <1>2, <1>3, <1>5
    <2>4. Fits(t)'
      <3>1. \A n \in DOMAIN acts : acts[n].tab = t => acts[n].pc \in {"done", "gone"}
        BY <2>1 DEF Acting
      <3> QED BY <1>2, <1>4, <2>1, <2>2, <3>1 DEF Fits
    <2>5. AnswersTell(t)'
      BY <1>2, <2>2 DEF AnswersTell
    <2>6. ListTells(t)
      BY <2>1 DEF CleanTabs, Tidy
    <2>7. ListTells(t)'
      BY <1>4, <2>6 DEF ListTells, Tells
    <2>8. Loading(t)'
      BY <2>3 DEF Loading
    <2> QED BY <2>4, <2>5, <2>7, <2>8 DEF Tidy
  <1>6. CASE t # u
    <2>1. filter'[t] = filter[t] /\ clean[t]
      BY <1>1, <1>4, <1>6 DEF Base, TypeOK
    <2>2. \A l \in loads \cup loads' : l.tab = t => l \in loads /\ l \in loads'
      BY <1>2, <1>3, <1>6
    <2>3. Steady(t)
      BY <1>4, <2>1, <2>2, SameSteady
    <2> QED BY <2>1, <2>3
  <1> QED BY <1>5, <1>6

LEMMA TidyReload ==
    ASSUME Base, CleanTabs, NEW n \in DOMAIN acts, Reload(n), NEW t \in Tabs, clean'[t]
    PROVE  Tidy(t)' \/ (clean[t] /\ Steady(t))
  <1>1. PICK u \in Tabs : u = acts[n].tab
    BY ActIs DEF Base, Act
  <1>2. PICK new \in Load :
           /\ loads' = loads \cup {new}
           /\ new.act = n /\ new.tab = acts[n].tab /\ new.filter = acts[n].filter
           /\ ~new.served
    BY ReloadIs
  <1>3. Moves(n, "load") /\ acts[n].pc = "reply"
    BY PcChanges DEF Base, Reload
  <1>4. /\ UNCHANGED <<log, shown, filter>>
        /\ clean' = [clean EXCEPT ![u] = clean[u] /\ ~Loading(u)]
    BY <1>1 DEF Reload, table
  <1>5. CASE t = u
    <2>1. clean[t] /\ ~Loading(t)
      BY <1>4, <1>5 DEF Base, TypeOK
    <2>2. \A l \in loads' : l.tab = t => l = new
      BY <1>2, <2>1 DEF Loading
    <2>3. new \in loads' /\ new.tab = t
      BY <1>1, <1>2, <1>5
    <2>4. Tidy(t)
      BY <2>1 DEF CleanTabs
    <2>5. new.filter = filter[t]
      BY <1>1, <1>2, <1>3, <1>5, <2>4 DEF Tidy, Fits
    <2>6. Fits(t)'
      <3>1. \A m \in DOMAIN acts : acts[m].tab = t /\ acts[m].pc \notin {"done", "gone"}
                                     => acts[m].filter = filter[t]
        BY <2>4 DEF Tidy, Fits
      <3>2. ASSUME NEW m \in DOMAIN acts', acts'[m].tab = t, acts'[m].pc \notin {"done", "gone"}
            PROVE  acts'[m].filter = filter'[t]
        BY <1>3, <1>4, <3>1, <3>2 DEF Moves
      <3>3. \A l \in loads' : l.tab = t =>
               l.filter = filter'[t] /\ \A k \in loads' : k.tab = t => k = l
        BY <1>4, <2>2, <2>5
      <3> QED BY <3>2, <3>3 DEF Fits
    <2>7. AnswersTell(t)'
      BY <1>2, <2>2 DEF AnswersTell
    <2>8. ListTells(t)
      BY <2>4 DEF Tidy
    <2>9. ListTells(t)'
      <3>1. ASSUME NEW m \in DOMAIN acts', acts'[m].tab = t, acts'[m].pc = "done"
            PROVE  acts'[m].alert \in DOMAIN shown[t] =>
                      shown[t][acts'[m].alert] >= acts'[m].written
        BY <1>3, <2>8, <3>1 DEF Moves, ListTells, Tells
      <3> QED BY <1>4, <3>1 DEF ListTells, Tells
    <2>10. Loading(t)'
      BY <2>3 DEF Loading
    <2> QED BY <2>6, <2>7, <2>9, <2>10 DEF Tidy
  <1>6. CASE t # u
    <2>1. clean[t]
      BY <1>4, <1>6 DEF Base, TypeOK
    <2>2. \A l \in loads \cup loads' : l.tab = t => l \in loads /\ l \in loads'
      BY <1>1, <1>2, <1>6
    <2>3. Steady(t)
      BY <1>3, <1>4, <2>2, MovesSteady
    <2> QED BY <2>1, <2>3
  <1> QED BY <1>5, <1>6

LEMMA TidyServe ==
    ASSUME Base, CleanTabs, NEW l \in loads, ServeLoad(l), NEW t \in Tabs, clean'[t]
    PROVE  Tidy(t)' \/ (clean[t] /\ Steady(t))
  <1>1. PICK answer \in Load :
           /\ loads' = (loads \ {l}) \cup {answer}
           /\ answer.act = l.act /\ answer.tab = l.tab /\ answer.filter = l.filter
           /\ DOMAIN answer.rows \subseteq Alerts
           /\ \A a \in DOMAIN answer.rows : answer.rows[a] = Len(log[a])
    BY ServeIs
  <1>2. UNCHANGED <<log, acts, shown, filter, clean>>
    BY DEF ServeLoad, table, tabs
  <1>3. clean[t] /\ Tidy(t)
    BY <1>2 DEF CleanTabs
  <1>4. CASE l.tab # t
    <2>1. \A k \in loads \cup loads' : k.tab = t => k \in loads /\ k \in loads'
      BY <1>1, <1>4
    <2>2. Steady(t)
      BY <1>2, <2>1, SameSteady
    <2> QED BY <1>3, <2>2
  <1>5. CASE l.tab = t
    <2>1. l.filter = filter[t] /\ \A k \in loads : k.tab = t => k = l
      BY <1>3, <1>5 DEF Tidy, Fits
    <2>2. \A k \in loads' : k.tab = t => k = answer
      BY <1>1, <2>1
    <2>3. Fits(t)'
      <3>1. \A m \in DOMAIN acts : acts[m].tab = t /\ acts[m].pc \notin {"done", "gone"}
                                     => acts[m].filter = filter[t]
        BY <1>3 DEF Tidy, Fits
      <3> QED BY <1>1, <1>2, <2>1, <2>2, <3>1 DEF Fits
    <2>4. ASSUME NEW n \in DOMAIN acts, acts[n].alert \in DOMAIN answer.rows
          PROVE  answer.rows[acts[n].alert] >= acts[n].written
      <3>1. answer.rows[acts[n].alert] = Len(log[acts[n].alert])
        BY <1>1, <2>4
      <3>2. acts[n].written <= Len(log[acts[n].alert])
        BY DEF Base, Verdicts
      <3> QED BY <3>1, <3>2
    <2>5. AnswersTell(t)'
      BY <1>2, <2>2, <2>4 DEF AnswersTell, Tells
    <2>6. ListTells(t)
      BY <1>3 DEF Tidy
    <2>7. ListTells(t)'
      BY <1>2, <2>6 DEF ListTells, Tells
    <2>8. Loading(t)'
      BY <1>1, <1>5 DEF Loading
    <2> QED BY <2>3, <2>5, <2>7, <2>8 DEF Tidy
  <1> QED BY <1>4, <1>5

LEMMA TidyArrives ==
    ASSUME Base, CleanTabs, NEW l \in loads, LoadArrives(l), NEW t \in Tabs, clean'[t]
    PROVE  Tidy(t)' \/ (clean[t] /\ Steady(t))
  <1>1. /\ UNCHANGED <<log, filter, clean>> /\ l.served
        /\ loads' = loads \ {l} /\ EndAct(l)
        /\ shown' = [shown EXCEPT ![l.tab] = l.rows]
    BY DEF LoadArrives, table
  <1>2. clean[t] /\ Tidy(t)
    BY <1>1 DEF CleanTabs
  <1>3. CASE l.tab # t
    <2>1. shown'[t] = shown[t]
      BY <1>1, <1>3 DEF Base, TypeOK
    <2>2. Steady(t)
      BY <1>1, <1>3, <2>1, EndSteady
    <2> QED BY <1>2, <2>2
  <1>4. CASE l.tab = t
    <2>1. shown'[t] = l.rows
      BY <1>1, <1>4 DEF Base, TypeOK
    <2>2. l.filter = filter[t] /\ \A k \in loads : k.tab = t => k = l
      BY <1>4, <1>2 DEF Tidy, Fits
    <2>3. \A k \in loads' : k.tab # t
      BY <1>1, <2>2
    <2>4. ASSUME NEW n \in DOMAIN acts', acts'[n].tab = t
          PROVE  /\ n \in DOMAIN acts /\ acts[n].tab = t
                 /\ acts'[n].filter = acts[n].filter /\ acts'[n].alert = acts[n].alert
                 /\ acts'[n].written = acts[n].written
                 /\ acts'[n].pc \notin {"done", "gone"} => acts[n].pc \notin {"done", "gone"}
                 /\ acts'[n].pc = "done" => acts[n].pc = "done" \/ n = l.act
      <3>1. CASE UNCHANGED acts
        BY <2>4, <3>1
      <3>2. CASE l.act \in DOMAIN acts /\ Moves(l.act, "done")
        BY <2>4, <3>2 DEF Moves
      <3> QED BY <1>1, <3>1, <3>2, EndDoes
    <2>5. Fits(t)'
      <3>1. \A m \in DOMAIN acts : acts[m].tab = t /\ acts[m].pc \notin {"done", "gone"}
                                     => acts[m].filter = filter[t]
        BY <1>2 DEF Tidy, Fits
      <3>2. ASSUME NEW n \in DOMAIN acts', acts'[n].tab = t, acts'[n].pc \notin {"done", "gone"}
            PROVE  acts'[n].filter = filter'[t]
        BY <1>1, <2>4, <3>1, <3>2
      <3> QED BY <2>3, <3>2 DEF Fits
    <2>6. AnswersTell(t)'
      BY <2>3 DEF AnswersTell
    <2>7. ListTells(t)'
      <3>1. \A n \in DOMAIN acts : (acts[n].tab = t /\ acts[n].pc = "done") \/ n = l.act
                                     => Tells(l.rows, n)
        BY <1>1, <1>2, <1>4 DEF Tidy, AnswersTell
      <3>2. ASSUME NEW n \in DOMAIN acts', acts'[n].tab = t, acts'[n].pc = "done"
            PROVE  acts'[n].alert \in DOMAIN l.rows => l.rows[acts'[n].alert] >= acts'[n].written
        <4>1. n \in DOMAIN acts /\ Tells(l.rows, n)
          BY <2>4, <3>1, <3>2
        <4>2. acts'[n].alert = acts[n].alert /\ acts'[n].written = acts[n].written
          BY <2>4, <3>2
        <4> QED BY <4>1, <4>2 DEF Tells
      <3> QED BY <2>1, <3>2 DEF ListTells, Tells
    <2>8. Filtered(t)'
      <3>1. \A a \in DOMAIN l.rows : Matches(log[a][l.rows[a]], l.filter)
        BY DEF Base, Answers
      <3> QED BY <1>1, <2>1, <2>2, <3>1 DEF Filtered
    <2> QED BY <2>5, <2>6, <2>7, <2>8 DEF Tidy
  <1> QED BY <1>3, <1>4

LEMMA TidyFails ==
    ASSUME Base, NEW l \in loads, LoadFails(l), NEW t \in Tabs, clean'[t]
    PROVE  clean[t] /\ Steady(t)
  <1>1. /\ UNCHANGED <<log, filter, shown>>
        /\ loads' = loads \ {l} /\ EndAct(l)
        /\ clean' = [clean EXCEPT ![l.tab] = FALSE]
    BY DEF LoadFails, table
  <1>2. l.tab \in Tabs /\ clean \in [Tabs -> BOOLEAN]
    BY DEF Base, TypeOK, Load
  <1>3. l.tab # t /\ clean[t]
    BY <1>1, <1>2
  <1> QED BY <1>1, <1>3, EndSteady

LEMMA CleanTabsInit == Init => CleanTabs
  <1> SUFFICES ASSUME Init, NEW t \in Tabs PROVE Tidy(t)
    BY DEF CleanTabs
  <1>1. acts = <<>> /\ DOMAIN acts = {} /\ loads = {}
    BY DEF Init
  <1>2. Filtered(t)
    <2> SUFFICES ASSUME NEW a \in DOMAIN shown[t]
                 PROVE  Matches(log[a][shown[t][a]], filter[t])
      BY DEF Filtered
    <2>1. a \in Alerts /\ shown[t][a] = 1 /\ filter[t] = "new"
      BY DEF Init
    <2>2. log[a] = <<"new">>
      BY <2>1 DEF Init
    <2>3. log[a][1] = "new"
      BY <2>2
    <2> QED BY <2>1, <2>3 DEF Matches
  <1> QED BY <1>1, <1>2 DEF Tidy, Fits, AnswersTell, ListTells

LEMMA CleanTabsStep == Base /\ Base' /\ CleanTabs /\ [Next]_vars => CleanTabs'
  <1> SUFFICES ASSUME Base, Base', CleanTabs, [Next]_vars, NEW t \in Tabs, clean'[t]
               PROVE  Tidy(t)' \/ (clean[t] /\ Steady(t))
    BY StepStays, SteadyTidy DEF CleanTabs
  <1>1. ASSUME UNCHANGED <<log, acts, loads, filter, shown, clean>>
        PROVE  clean[t] /\ Steady(t)
    BY <1>1, SameSteady
  <1>2. CASE AddRule
    BY <1>1, <1>2 DEF AddRule, tabs
  <1>3. ASSUME NEW u \in Tabs, Click(u) PROVE clean[t] /\ Steady(t)
    <2> DEFINE k == Len(acts) + 1
    <2>1. /\ DOMAIN acts' = DOMAIN acts \cup {k}
          /\ \A n \in DOMAIN acts : acts'[n] = acts[n]
          /\ acts'[k].tab = u /\ acts'[k].filter = filter[u] /\ acts'[k].pc = "update"
      BY <1>3, ClickDoes DEF Base
    <2>2. UNCHANGED <<log, loads, filter, shown, clean>>
      BY <1>3 DEF Click, table
    <2> HIDE DEF k
    <2> QED BY <2>1, <2>2 DEF Steady
  <1>4. ASSUME NEW u \in Tabs, SetFilter(u) PROVE Tidy(t)' \/ (clean[t] /\ Steady(t))
    BY <1>4, TidySetFilter
  <1>5. ASSUME NEW n \in DOMAIN acts, UpdateStatus(n) PROVE clean[t] /\ Steady(t)
    <2>1. UNCHANGED <<loads, filter, shown, clean>>
      BY <1>5 DEF UpdateStatus, tabs
    <2>2. /\ DOMAIN acts' = DOMAIN acts /\ acts[n].pc = "update"
          /\ \A m \in DOMAIN acts : m # n => acts'[m] = acts[m]
      BY <1>5, UpdateStays
    <2>3. acts'[n].pc \in {"reply", "label"}
      <3>1. Len(log[acts[n].alert]) <= MaxActs
        BY <2>2, UpdateFits
      <3> QED BY <1>5, <3>1, UpdateDoes DEF Base
    <2>4. \A m \in DOMAIN acts' : acts'[m].tab = t =>
             /\ m \in DOMAIN acts
             /\ acts'[m].pc \notin {"done", "gone"} => acts[m].pc \notin {"done", "gone"}
             /\ acts'[m].pc = "done" => acts[m].pc = "done"
      BY <2>2, <2>3
    <2> QED BY <1>5, <2>1, <2>4, LogStays DEF Steady
  <1>6. ASSUME NEW n \in DOMAIN acts, WriteLabel(n) \/ RequestFails(n) \/ GiveUp(n)
        PROVE  clean[t] /\ Steady(t)
    <2>1. UNCHANGED <<log, loads, filter, shown, clean>>
      BY <1>6 DEF WriteLabel, RequestFails, GiveUp, table, tabs
    <2>2. acts[n].pc \notin {"done", "gone"}
      BY <1>6 DEF WriteLabel, RequestFails, GiveUp
    <2>3. \E pc : pc # "done" /\ Moves(n, pc)
      <3>1. CASE WriteLabel(n)
        BY <3>1, PcChanges DEF Base, WriteLabel
      <3>2. CASE RequestFails(n)
        BY <3>2, PcChanges DEF Base, RequestFails
      <3>3. CASE GiveUp(n)
        BY <3>3, PcChanges DEF Base, GiveUp
      <3> QED BY <1>6, <3>1, <3>2, <3>3
    <2> QED BY <2>1, <2>2, <2>3, MovesSteady
  <1>7. ASSUME NEW n \in DOMAIN acts, Reload(n) PROVE Tidy(t)' \/ (clean[t] /\ Steady(t))
    BY <1>7, TidyReload
  <1>8. ASSUME NEW l \in loads, ServeLoad(l) \/ LoadArrives(l) \/ LoadFails(l)
        PROVE  Tidy(t)' \/ (clean[t] /\ Steady(t))
    BY <1>8, TidyServe, TidyArrives, TidyFails
  <1>9. CASE UNCHANGED vars
    BY <1>1, <1>9 DEF vars, table, tabs
  <1> QED BY <1>2, <1>3, <1>4, <1>5, <1>6, <1>7, <1>8, <1>9 DEF Next

THEOREM CleanTabsAlways == Spec => []CleanTabs
  <1> QED BY BaseAlways, CleanTabsInit, CleanTabsStep, PTL DEF Spec

(* A tab that let each of its loads end before its next step shows no row    *)
(* that its filter excludes (TriageQueue.tsx:16-33), whatever the others do. *)
THEOREM FilterKept == Spec => []ListIsOfFilter
  <1>1. CleanTabs => ListIsOfFilter
    BY DEF CleanTabs, Tidy, Filtered, ListIsOfFilter, Quiet
  <1> QED BY <1>1, CleanTabsAlways, PTL

(* Nor does it show an alert as it was before a verdict of its own           *)
(* (TriageQueue.tsx:35-45).                                                  *)
THEOREM VerdictsShown == Spec => []OwnVerdictsShown
  <1>1. CleanTabs => OwnVerdictsShown
    BY DEF CleanTabs, Tidy, ListTells, Tells, OwnVerdictsShown
  <1> QED BY <1>1, CleanTabsAlways, PTL
=============================================================================
