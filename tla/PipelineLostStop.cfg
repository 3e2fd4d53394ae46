\* A stop() while run() is on its way to the event loop.
SPECIFICATION Spec
CONSTANTS
    Owner = owner
    Clients = {c1}
    Topics = {}
    LongTopics = {}
    NoTopic = no_topic
    Uris = {}
    LongUris = {}
    NoUri = no_uri
    MaxSubscriptions = 0
    MaxConfigOps = 0
    MaxStages = 0
    MaxEmits = 0
    Excess = 0
    LateConfig = FALSE
CHECK_DEADLOCK FALSE
INVARIANT StopIsKept
