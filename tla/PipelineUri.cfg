\* A URI given to connect_uri().
SPECIFICATION Spec
CONSTANTS
    Owner = owner
    Clients = {c1}
    Topics = {}
    LongTopics = {}
    NoTopic = no_topic
    Uris = {uri1, long_uri}
    LongUris = {long_uri}
    NoUri = no_uri
    MaxSubscriptions = 0
    MaxConfigOps = 0
    MaxStages = 0
    MaxEmits = 0
    Excess = 0
    LateConfig = FALSE
CHECK_DEADLOCK FALSE
INVARIANT SourceGetsOwnedUri
