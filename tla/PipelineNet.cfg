\* Two threads, two messages each, into a tree of five pipelines.
SPECIFICATION FairSpec
CONSTANTS
    Threads = {t1, t2}
    a = a
    b = b
    c = c
    d = d
    e = e
    Pipes <- MCPipes
    Kind <- MCKind
    Target <- MCTarget
    Hops <- MCHops
    Rewriting = {b}
    Part = part
    MaxEntryLen = 2
    MaxTopicLen = 3
    MaxEmits = 2
CHECK_DEADLOCK FALSE
INVARIANTS
    OneInEachPipe
    NobodyWaitsInACircle
    TopicTellsItsWay
PROPERTIES
    NetworkIsEmitService
    EmitReturns
