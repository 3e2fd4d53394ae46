\* Four expected objects, two of void; two strings of three characters; topics
\* of three bytes; texts of up to five characters, alone and behind a scheme.
SPECIFICATION MCSpec
CONSTANTS
    Objects = {o1, o2, o3, o4}
    VoidObjects = {o3, o4}
    Values = {x, y}
    Dead = dead
    Strings = {s1, s2}
    N = 3
    MaxChar = 1
    MaxTopicLen = 3
    MaxPayloadLen = 2
    MaxByte = 1
    MaxUriLen = 9
    MaxRest = 5
CHECK_DEADLOCK FALSE
INVARIANTS
    FlagTellsMember
    StandsForResult
    KeepsText
    OrderIsTotal
    ShowsLastView
    PartsMakeTheText
    AuthorityIsRead
    ParsersAgree
