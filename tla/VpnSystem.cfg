\* Two goroutines of the agent and the helper.
CONSTANTS
    t1 = t1
    t2 = t2
    Tasks = {t1, t2}
    Base = 1
    Max = 1
    AttemptCap = 1
    MaxCooldown = 1
    Backoff <- MCBackoff
SPECIFICATION FairSpec
PROPERTIES
    ImplementsController
    AgentSeesTunnel
    AgentSeesLoss
CHECK_DEADLOCK TRUE
