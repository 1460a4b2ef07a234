SPECIFICATION AuditSpec
CONSTANTS
    p1 = p1
    p2 = p2
    p3 = p3
    None = None
    Processes = {p1, p2, p3}
    Plan <- MCPlan
    Questions <- MCQuestions
    MaxToolCalls = 3
    MaxCallsPerTool = 2
    MaxRuns = 2
SYMMETRY Symmetry
CONSTRAINT SecondRunAfterPlainFirst
CHECK_DEADLOCK FALSE
INVARIANTS
    OneReusableRun
    CommittedConsistent
    VerdictSound
    BudgetKept
    LedgerLawful
    AuditTrail
PROPERTIES
    TerminalImmutable
