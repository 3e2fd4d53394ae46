\* The owner adds stages and replaces the sink while a client emits.
SPECIFICATION Spec
CONSTANTS
    Owner = owner
    Clients = {c1}
    Topics = {}
    LongTopics = {}
    NoTopic = no_topic
    Uris = {}
    LongUris = {}
    NoUri = no_uri
    MaxSubscriptions = 0
    MaxConfigOps = 0
    MaxStages = 1
    MaxEmits = 1
    Excess = 0
    LateConfig = TRUE
CHECK_DEADLOCK FALSE
INVARIANT SlotsAreReady
