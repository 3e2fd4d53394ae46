\* The owner alone, with every builder call, up to one more than fits.
SPECIFICATION Spec
CONSTANTS
    Owner = owner
    Clients = {}
    Topics = {short, long}
    LongTopics = {long}
    NoTopic = no_topic
    Uris = {uri1, uri2, long_uri}
    LongUris = {long_uri}
    NoUri = no_uri
    MaxSubscriptions = 2
    MaxConfigOps = 1
    MaxStages = 2
    MaxEmits = 0
    Excess = 1
    LateConfig = FALSE
CHECK_DEADLOCK FALSE
INVARIANTS
    TypeOK
    LoopRunsWhatWasAsked
    RunCleansUp
