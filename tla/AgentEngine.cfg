CONSTANTS
    read = read
    bash = bash
    bash2 = bash2
    fetch = fetch
    plan_create = plan_create
    gone = gone
    react = react
    a1 = a1
    a2 = a2
    Calls = {read, bash, bash2, fetch, plan_create, gone, react}
    Missing = {gone}
    Denied = {fetch}
    Gated = {bash, bash2}
    Stopping = {react}
    PlanCreate = plan_create
    Batches <- SomeBatches
    Plans <- SomePlans
    FilesAsked = TRUE
    MaxSteps = 3
    ParseRetries = 1
    Approvals = {a1, a2}
    NoApproval = NoApproval
    NoCall = NoCall
SPECIFICATION FairSpec
CHECK_DEADLOCK FALSE
INVARIANTS EveryCallAnswered
PROPERTIES GatedNeedsApproval ResumeForgetsNothing PlanAdvances RunReturns
