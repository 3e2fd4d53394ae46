\* Two clients beside the owner: emit(), poll_once() and stop() at any time.
SPECIFICATION Spec
CONSTANTS
    Owner = owner
    Clients = {c1, c2}
    Topics = {}
    LongTopics = {}
    NoTopic = no_topic
    Uris = {}
    LongUris = {}
    NoUri = no_uri
    MaxSubscriptions = 0
    MaxConfigOps = 0
    MaxStages = 2
    MaxEmits = 1
    Excess = 0
    LateConfig = FALSE
CHECK_DEADLOCK FALSE
SYMMETRY ClientSymmetry
INVARIANTS
    OnePassAtATime
    SlotsAreReady
    OneLatePoll
