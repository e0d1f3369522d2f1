------------------------------ MODULE MCTriage ------------------------------
(* Instances of Triage for TLC. *)
EXTENDS Triage

CONSTANTS a1, t1, t2

OneAlert == {a1}
TwoTabs == {t1, t2}

(* A rule of the default class and a more severe one of another. *)
MCRules == {"sqli-probe", "malware-dropper"}
MCSeverity == [r \in MCRules |-> IF r = "sqli-probe" THEN 70 ELSE 95]
MCRuleClass == [r \in {"malware-dropper"} |-> "malware_dropper"]
MCFirstRules == [a \in Alerts |-> {"sqli-probe"}]
MCFilters == {"new", "confirmed"}
=============================================================================
