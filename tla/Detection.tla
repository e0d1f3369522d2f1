------------------------------ MODULE Detection ------------------------------
(***************************************************************************)
(* The pure part of the detector: features.py, rules.py and scoring.py.    *)
(*                                                                         *)
(* Of an event this module sees `what` happened: an action and a payload.  *)
(* A payload maps the fields that are there, and not empty, to values; a   *)
(* value is the set of patterns that re.search finds in it.  `user` and    *)
(* `pass` go by the names `username` and `password`.                       *)
(***************************************************************************)
EXTENDS Integers, FiniteSets, Sequences

CONSTANTS
    Rules,          \* the rules, in the order of their files
    SeverityWeight, \* weights.rule_severity
    AlertMinimum    \* thresholds.alert_minimum, in hundredths: severities are

(* The features that shipped rules use: counts over the whole session. *)
CredentialActions == {"login_attempt", "login_success"}

Field(f, k) == IF k \in DOMAIN f THEN {f[k]} ELSE {}

Features(events) ==
    LET credentials == {n \in DOMAIN events : events[n].what.action \in CredentialActions}
        passwords(n) == Field(events[n].what.payload, "password")
    IN  [credential_attempts |-> Cardinality(credentials),
         distinct_passwords  |-> Cardinality(UNION {passwords(n) : n \in credentials})]

(* A clause on a field that is not there does not match. *)
ClauseMatches(c, features, payload) ==
    \/ /\ c.op = "gte"
       /\ \E v \in Field(features, c.field) : v >= c.value
    \/ /\ c.op = "regex"
       /\ \E v \in Field(payload, c.field) : c.value \in v

(* match.all and match.any, each only if it is given; a rule with neither    *)
(* matches nothing.                                                          *)
RuleMatches(r, features, payload) ==
    /\ r.enabled
    /\ r.all \cup r.any # {}
    /\ \A c \in r.all : ClauseMatches(c, features, payload)
    /\ r.any # {} => \E c \in r.any : ClauseMatches(c, features, payload)

(* evaluate: the rules that the session's features and this one event's      *)
(* payload match, in order.                                                  *)
RuleIds == 1 .. Len(Rules)

(* float(clause.value): what is not a number never matches (rules.py:87-90). *)
ASSUME DetectionAssumption ==
    \A r \in RuleIds : \A c \in Rules[r].all \cup Rules[r].any :
        c.op = "gte" => c.value \in Int

Evaluate(features, payload) ==
    {r \in RuleIds : RuleMatches(Rules[r], features, payload)}

(* rule_component_score of the highest severity; an alert needs the minimum. *)
MaxSeverity(triggered) ==
    CHOOSE s \in {Rules[r].severity : r \in triggered} :
        \A r \in triggered : Rules[r].severity <= s

Score(triggered) ==
    IF triggered = {} THEN 0
    ELSE LET raw == SeverityWeight * MaxSeverity(triggered)
         IN  IF raw > 10000 THEN 10000 ELSE IF raw < 0 THEN 0 ELSE raw

RaisesAlert(triggered) == Score(triggered) >= AlertMinimum
=============================================================================
