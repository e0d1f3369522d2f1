SPECIFICATION Spec
CONSTANTS
    a1 = a1
    t1 = t1
    t2 = t2
    None = None
    Alerts <- OneAlert
    Tabs <- TwoTabs
    RuleIds <- MCRules
    Severity <- MCSeverity
    RuleClass <- MCRuleClass
    FirstRules <- MCFirstRules
    Filters <- MCFilters
    MaxActs = 2
    MaxChanges = 1
    MaxFaults = 1
INVARIANTS TypeOK StatusAndLabelAgree LabelIsOfTopRule ListIsOfFilter OwnVerdictsShown
CHECK_DEADLOCK FALSE
