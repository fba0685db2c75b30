SPECIFICATION Spec
CONSTANTS
    TypeOf <- infer_expr_type
    Compiled <- compile_predicate
    OffsetOf <- as_anchor_offset
    Occurs <- Mentions
    DepthOf <- expr_depth
    Tokens <- tokenize
    Parse <- parse_ruleset
    MembersOf <- MemberTexts
    TextOf <- emit_ruleset
    Evaluated <- eval_predicate
    ValueOf <- Verdict
    Spared <- Overruled
    Mistyped <- MCMistyped
    Delimiters <- MCDelimiters
    Events <- MCEvents
    Causes <- MCCauses
    Problems <- MCProblems
    Capabilities <- MCCapabilities
    Dotted <- MCDotted
    StringKey <- MCStringKey
    Nodes <- MCNodes
    Networks <- MCNetworks
    Networked <- MCNetworked
    Rulesets <- MCRulesets
    Fragile <- MCFragile
    ScopeKey = 9
    MinI64 <- MCMinI64
    MaxI64 = 70000
    MaxSlots = 8
    MAX_NESTING = 8
    MAX_REQUIRES = 3
    MAX_CORRELATES_PER_RULE = 3
    MAX_INTENTS_PER_RULE = 4
    MAX_EXCLUSIVITY_GROUP = 3
    MaxMinMatch = 5
    MaxLookback = 4000
    DedupWindow = 1
    MaxFaults = 2
INVARIANTS
    TextKeepsMeaning
    OneErrorPerFault
    LoweringComplete
    WindowsSurviveSlack
    CascadesTerminate
    RuleMeansSource
    OracleExact
    PrivateFieldsMasked
CHECK_DEADLOCK FALSE
