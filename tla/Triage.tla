------------------------------- MODULE Triage -------------------------------
(***************************************************************************)
(* Triage of alerts: PATCH and GET /api/alerts (api/main.py, api/db.py)    *)
(* and the tabs that show a TriageQueue, with the sessioniser adding rules *)
(* to alerts meanwhile.                                                    *)
(*                                                                         *)
(* A PATCH is two transactions, the status and then the label.  A tab      *)
(* reloads its list when its filter changes and when a verdict of its own  *)
(* has been answered; each load reads the table at some moment and arrives *)
(* at another.                                                             *)
(***************************************************************************)
EXTENDS Integers, Sequences, FiniteSets

CONSTANTS
    Alerts,      \* each of a session of its own
    Tabs,        \* browsers with the queue open
    None,        \* no label, no row busy
    RuleIds,     \* rows of the table `rules`
    Severity,    \* their severities
    RuleClass,   \* _RULE_CLASS, for the rules it has
    FirstRules,  \* triggered_rules of each alert when it is raised
    Filters,     \* the filters a tab is given
    MaxActs,     \* bound: verdicts given
    MaxChanges,  \* bound: changes of filter
    MaxFaults    \* bound: faults in a behaviour

(* An alert is raised for the rules that have just matched; benign is no    *)
(* class of a rule.                                                          *)
ASSUME TriageAssumption ==
    /\ Severity \in [RuleIds -> Nat] /\ IsFiniteSet(RuleIds)
    /\ DOMAIN RuleClass \subseteq RuleIds
    /\ \A r \in DOMAIN RuleClass : RuleClass[r] # "benign"
    /\ FirstRules \in [Alerts -> (SUBSET RuleIds) \ {{}}]
    /\ {MaxActs, MaxChanges, MaxFaults} \subseteq Nat

AlertStatus == {"triaged", "confirmed", "false_positive"}
AlertStatusFilter == AlertStatus \cup {"new"}
DefaultClass == "web_exploit"
Labels == {"benign", DefaultClass} \cup {RuleClass[r] : r \in DOMAIN RuleClass}

ASSUME FilterAssumption == "new" \in Filters /\ Filters \subseteq AlertStatusFilter \cup {"all"}

VARIABLES
    log,        \* every status each alert has had; the last is its status
    rules,      \* its triggered_rules
    labels,     \* the human label of its session
    acts,       \* the verdicts given, in order, and how far each has come
    loads,      \* GET requests under way
    filter,     \* of each tab
    shown,      \* the rows it shows, each as long as its log was then
    busy,       \* busyId
    changes,    \* how often a filter changed
    contested,  \* history: alerts of which two verdicts met, or one broke off
    clean,      \* history: no load of the tab ran beside another of its steps
    faults      \* faults caused so far

table == <<log, rules, labels>>
tabs == <<filter, shown, busy, changes, clean>>
vars == <<table, acts, loads, tabs, contested, faults>>

Status(a) == log[a][Len(log[a])]

Act == [tab : Tabs, alert : Alerts, verdict : AlertStatus, filter : Filters,
        pc : {"update", "label", "reply", "load", "done", "failed", "gone"},
        rules : SUBSET RuleIds, written : 0 .. MaxActs + 1]

Rows == UNION {[S -> 1 .. MaxActs + 1] : S \in SUBSET Alerts}

(* A load is known by the verdict or the change of filter that asked for it. *)
Load == [tab : Tabs, filter : Filters, act : 0 .. MaxActs, change : 0 .. MaxChanges,
         served : BOOLEAN, rows : Rows]

TypeOK ==
    /\ log \in [Alerts -> Seq(AlertStatusFilter)]
    /\ rules \in [Alerts -> SUBSET RuleIds]
    /\ labels \in [Alerts -> Labels \cup {None}]
    /\ acts \in Seq(Act)
    /\ loads \subseteq Load
    /\ filter \in [Tabs -> Filters]
    /\ shown \in [Tabs -> Rows]
    /\ \A t \in Tabs : \A a \in DOMAIN shown[t] : shown[t][a] <= Len(log[a])
    /\ busy \in [Tabs -> Alerts \cup {None}]
    /\ changes \in 0 .. MaxChanges
    /\ contested \subseteq Alerts
    /\ clean \in [Tabs -> BOOLEAN]
    /\ faults \in 0 .. MaxFaults

Request(t, f, n, c) ==
    [tab |-> t, filter |-> f, act |-> n, change |-> c, served |-> FALSE, rows |-> <<>>]

(* Every tab has been opened and has its first list. *)
Init ==
    /\ log = [a \in Alerts |-> <<"new">>]
    /\ rules = FirstRules
    /\ labels = [a \in Alerts |-> None]
    /\ acts = <<>>
    /\ filter = [t \in Tabs |-> "new"]
    /\ loads = {}
    /\ shown = [t \in Tabs |-> [a \in Alerts |-> 1]]
    /\ busy = [t \in Tabs |-> None]
    /\ changes = 0
    /\ contested = {}
    /\ clean = [t \in Tabs |-> TRUE]
    /\ faults = 0

Fault ==
    /\ faults < MaxFaults
    /\ faults' = faults + 1

(* _upsert_alert of the sessioniser: rules are added, the status is kept. *)
AddRule ==
    /\ \E a \in Alerts : \E r \in RuleIds \ rules[a] :
          rules' = [rules EXCEPT ![a] = @ \cup {r}]
    /\ UNCHANGED <<log, labels, acts, loads, tabs, contested, faults>>

-----------------------------------------------------------------------------
Loading(t) == \E l \in loads : l.tab = t
Acting(t) == \E n \in DOMAIN acts : acts[n].tab = t /\ acts[n].pc \notin {"done", "gone"}

(* What AlertRow offers, going by the status it shows. *)
Offered(t, a, verdict) ==
    LET status == log[a][shown[t][a]]
    IN  /\ status # verdict
        /\ verdict = "triaged" => status = "new"

(* act: the row is disabled, every other one is not. *)
Click(t) ==
    /\ Len(acts) < MaxActs
    /\ \E a \in DOMAIN shown[t] : \E verdict \in AlertStatus :
          /\ busy[t] # a
          /\ Offered(t, a, verdict)
          /\ acts' = Append(acts, [tab |-> t, alert |-> a, verdict |-> verdict,
                                   filter |-> filter[t], pc |-> "update",
                                   rules |-> {}, written |-> 0])
          /\ busy' = [busy EXCEPT ![t] = a]
    /\ UNCHANGED <<table, loads, filter, shown, changes, clean, contested, faults>>

(* Mutant of SetFilter: useCallback without its dependency on filter. *)
SetFilterStale(t) ==
    /\ changes < MaxChanges
    /\ \E f \in Filters \ {filter[t]} :
          /\ filter' = [filter EXCEPT ![t] = f]
          /\ loads' = loads \cup {Request(t, "new", 0, changes + 1)}
    /\ changes' = changes + 1
    /\ clean' = [clean EXCEPT ![t] = @ /\ ~Loading(t) /\ ~Acting(t)]
    /\ UNCHANGED <<table, acts, shown, busy, contested, faults>>

(* The effect of a changed filter is a load with it. *)
SetFilter(t) ==
    /\ changes < MaxChanges
    /\ \E f \in Filters \ {filter[t]} :
          /\ filter' = [filter EXCEPT ![t] = f]
          /\ loads' = loads \cup {Request(t, f, 0, changes + 1)}
    /\ changes' = changes + 1
    /\ clean' = [clean EXCEPT ![t] = @ /\ ~Loading(t) /\ ~Acting(t)]
    /\ UNCHANGED <<table, acts, shown, busy, contested, faults>>

-----------------------------------------------------------------------------
(* update_alert: the transactions of PATCH number n. *)
Met(n) ==
    {acts[m].alert : m \in {m \in DOMAIN acts :
        m # n /\ acts[m].alert = acts[n].alert /\ acts[m].pc = "label"}}

UpdateStatus(n) ==
    LET a == acts[n].alert
    IN  /\ acts[n].pc = "update"
        /\ log' = [log EXCEPT ![a] = Append(@, acts[n].verdict)]
        /\ acts' = [acts EXCEPT ![n].rules = rules[a],
                                ![n].written = Len(log[a]) + 1,
                                ![n].pc = IF acts[n].verdict = "triaged"
                                          THEN "reply" ELSE "label"]
        /\ contested' = contested \cup Met(n)
        /\ UNCHANGED <<rules, labels, loads, tabs, faults>>

(* Mutant of TopRules: min in place of max. *)
LeastRules(ids) ==
    {r \in ids \cap RuleIds : \A q \in ids \cap RuleIds : Severity[r] <= Severity[q]}

(* max over fetch_rule_severities: of rules with one severity, whichever the *)
(* database returned first.                                                  *)
TopRules(ids) ==
    {r \in ids \cap RuleIds : \A q \in ids \cap RuleIds : Severity[q] <= Severity[r]}

ClassOf(r) == IF r \in DOMAIN RuleClass THEN RuleClass[r] ELSE DefaultClass

ClassesOf(ids) ==
    IF TopRules(ids) = {} THEN {DefaultClass} ELSE {ClassOf(r) : r \in TopRules(ids)}

(* Mutant of LabelFor: a verdict does not change a label that is there. *)
FirstLabelFor(n) ==
    IF labels[acts[n].alert] # None THEN {labels[acts[n].alert]}
    ELSE IF acts[n].verdict = "false_positive" THEN {"benign"}
    ELSE ClassesOf(acts[n].rules)

(* Mutant of LabelFor: the verdict goes into the table of labels. *)
VerdictFor(n) == {acts[n].verdict}

(* The rules are those the first transaction returned. *)
LabelFor(n) ==
    IF acts[n].verdict = "false_positive" THEN {"benign"} ELSE ClassesOf(acts[n].rules)

(* upsert_human_label. *)
WriteLabel(n) ==
    /\ acts[n].pc = "label"
    /\ \E label \in LabelFor(n) : labels' = [labels EXCEPT ![acts[n].alert] = label]
    /\ acts' = [acts EXCEPT ![n].pc = "reply"]
    /\ UNCHANGED <<log, rules, loads, tabs, contested, faults>>

(* An exception in either transaction, an API that dies, an answer lost. *)
RequestFails(n) ==
    /\ Fault
    /\ acts[n].pc \in {"update", "label", "reply"}
    /\ acts' = [acts EXCEPT ![n].pc = "failed"]
    /\ contested' = contested \cup {a \in {acts[n].alert} : acts[n].pc = "label"}
    /\ UNCHANGED <<table, loads, tabs>>

(* patchAlertStatus returns: load, with the filter there was at the click. *)
Reload(n) ==
    LET t == acts[n].tab
    IN  /\ acts[n].pc = "reply"
        /\ acts' = [acts EXCEPT ![n].pc = "load"]
        /\ loads' = loads \cup {Request(t, acts[n].filter, n, 0)}
        /\ clean' = [clean EXCEPT ![t] = @ /\ ~Loading(t)]
        /\ UNCHANGED <<table, filter, shown, busy, changes, contested, faults>>

(* patchAlertStatus raises: the error is shown, the row enabled. *)
GiveUp(n) ==
    /\ acts[n].pc = "failed"
    /\ acts' = [acts EXCEPT ![n].pc = "gone"]
    /\ busy' = [busy EXCEPT ![acts[n].tab] = None]
    /\ UNCHANGED <<table, loads, filter, shown, changes, clean, contested, faults>>

-----------------------------------------------------------------------------
Matches(status, f) == f \in {"all", status}

(* fetch_alerts, as long as one page holds them all. *)
ServeLoad(l) ==
    /\ ~l.served
    /\ LET found == {a \in Alerts : Matches(Status(a), l.filter)}
           answer == [l EXCEPT !.served = TRUE,
                               !.rows = [a \in found |-> Len(log[a])]]
       IN  loads' = (loads \ {l}) \cup {answer}
    /\ UNCHANGED <<table, acts, tabs, contested, faults>>

(* What follows a load that a verdict has waited for. *)
EndAct(l) ==
    IF l.act = 0 THEN UNCHANGED <<acts, busy>>
    ELSE /\ acts' = [acts EXCEPT ![l.act].pc = "done"]
         /\ busy' = [busy EXCEPT ![l.tab] = None]

(* Mutant of LoadArrives: rows are merged into those shown. *)
LoadArrivesMerged(l) ==
    /\ l.served
    /\ shown' = [shown EXCEPT ![l.tab] =
          [a \in DOMAIN l.rows \cup DOMAIN @ |->
              IF a \in DOMAIN l.rows THEN l.rows[a] ELSE @[a]]]
    /\ loads' = loads \ {l}
    /\ EndAct(l)
    /\ UNCHANGED <<table, filter, changes, clean, contested, faults>>

LoadArrives(l) ==
    /\ l.served
    /\ shown' = [shown EXCEPT ![l.tab] = l.rows]
    /\ loads' = loads \ {l}
    /\ EndAct(l)
    /\ UNCHANGED <<table, filter, changes, clean, contested, faults>>

(* "Could not load alerts." *)
LoadFails(l) ==
    /\ Fault
    /\ loads' = loads \ {l}
    /\ EndAct(l)
    /\ clean' = [clean EXCEPT ![l.tab] = FALSE]
    /\ UNCHANGED <<table, filter, shown, changes, contested>>

-----------------------------------------------------------------------------
Next ==
    \/ AddRule
    \/ \E t \in Tabs : Click(t) \/ SetFilter(t)
    \/ \E n \in DOMAIN acts :
          UpdateStatus(n) \/ WriteLabel(n) \/ Reload(n) \/ RequestFails(n) \/ GiveUp(n)
    \/ \E l \in loads : ServeLoad(l) \/ LoadArrives(l) \/ LoadFails(l)

Spec == Init /\ [][Next]_vars

-----------------------------------------------------------------------------
Quiet(t) == ~Loading(t) /\ ~Acting(t)

(* Unless two verdicts met on an alert, or one broke off between its two     *)
(* transactions, the label says what the status says (main.py:139-152), in   *)
(* whatever order verdicts, reloads and new rules have come.                 *)
StatusAndLabelAgree ==
    \A a \in Alerts \ contested :
        (\A n \in DOMAIN acts : acts[n].alert = a => acts[n].pc # "label") =>
            /\ Status(a) = "false_positive" => labels[a] = "benign"
            /\ Status(a) = "confirmed" => labels[a] \in Labels \ {"benign"}

(* A label other than benign is the class of the most severe of the rules    *)
(* the alert had when a confirming verdict was written, however many the     *)
(* sessioniser has added since or between the verdict and its label          *)
(* (main.py:148-152, db.py:113-123).                                         *)
LabelIsOfTopRule ==
    \A a \in Alerts : labels[a] \notin {None, "benign"} =>
        \E n \in DOMAIN acts :
            /\ acts[n].alert = a /\ acts[n].verdict = "confirmed"
            /\ LET known == acts[n].rules
               IN  /\ known \subseteq rules[a]
                   /\ labels[a] \in {ClassOf(r) : r \in
                         {r \in known : ~\E q \in known : Severity[r] < Severity[q]}}

(* A tab that let each of its loads end before its next step shows no row    *)
(* that its filter excludes (TriageQueue.tsx:16-33).                         *)
ListIsOfFilter ==
    \A t \in Tabs : Quiet(t) /\ clean[t] =>
        \A a \in DOMAIN shown[t] : Matches(log[a][shown[t][a]], filter[t])

(* Such a tab shows no alert as it was before a verdict of its own           *)
(* (TriageQueue.tsx:35-45).                                                  *)
OwnVerdictsShown ==
    \A t \in Tabs : Quiet(t) /\ clean[t] =>
        \A n \in DOMAIN acts :
            (acts[n].tab = t /\ acts[n].pc = "done" /\ acts[n].alert \in DOMAIN shown[t])
                => shown[t][acts[n].alert] >= acts[n].written
=============================================================================
