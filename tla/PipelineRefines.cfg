\* One client beside the owner, two messages each.
SPECIFICATION FairSpec
CONSTANTS
    Owner = owner
    Clients = {c1}
    Topics = {}
    LongTopics = {}
    NoTopic = no_topic
    Uris = {}
    LongUris = {}
    NoUri = no_uri
    MaxSubscriptions = 0
    MaxConfigOps = 0
    MaxStages = 1
    MaxEmits = 2
    Excess = 0
    LateConfig = FALSE
CHECK_DEADLOCK FALSE
INVARIANT
    ProgramOrder
PROPERTIES
    SpinlockSpec
    EmitServiceSpec
    RunEnds
    EmitReturns
