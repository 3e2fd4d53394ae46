\* Two runs over two elements, beside a client with one message.
SPECIFICATION RangeSpec
CONSTANTS
    Owner = owner
    Clients = {c1}
    Topics = {}
    LongTopics = {}
    NoTopic = no_topic
    Uris = {}
    LongUris = {}
    NoUri = no_uri
    MaxSubscriptions = 0
    MaxConfigOps = 1
    MaxStages = 1
    MaxEmits = 4
    Excess = 0
    LateConfig = FALSE
    Length = 2
    ClientEmits = 1
CHECK_DEADLOCK FALSE
INVARIANTS
    RunGoesThroughRange
    BufferKeepsFirst
PROPERTY RunEndsByItself
